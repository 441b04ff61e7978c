-------------------------- MODULE PurgeQueueProofs --------------------------
(***************************************************************************)
(* Proofs about PurgeQueue, for every set of keys, files, configurations,  *)
(* process ids and slots and every value of the bounds.                    *)
(*                                                                         *)
(* StructInv is inductive: types, lists against index and counters, slots  *)
(* against processes, tasks against their workers.  The invariants on      *)
(* epochs, protections and accepted purges are proved on top of it.        *)
(***************************************************************************)
EXTENDS PurgeQueue, SequenceTheorems, FiniteSetTheorems, TLAPS

-----------------------------------------------------------------------------
(* What the list operations of TaskLists return: their length, the set of  *)
(* their members and the absence of repetitions                            *)

\* Appending a new element.
LEMMA AppendFacts ==
  ASSUME NEW S, NEW q \in Seq(S), NEW k \in S
  PROVE  /\ Append(q, k) \in Seq(S)
         /\ Len(Append(q, k)) = Len(q) + 1
         /\ Range(Append(q, k)) = Range(q) \cup {k}
         /\ IsInjective(q) /\ k \notin Range(q) => IsInjective(Append(q, k))
<1>1. /\ Append(q, k) \in Seq(S)
      /\ Len(Append(q, k)) = Len(q) + 1
      /\ DOMAIN q = 1..Len(q)
      /\ DOMAIN Append(q, k) = 1..(Len(q) + 1)
      /\ \A i \in 1..Len(q) : Append(q, k)[i] = q[i]
      /\ Append(q, k)[Len(q) + 1] = k
      /\ Len(q) \in Nat
  OBVIOUS
<1>2. Range(Append(q, k)) = Range(q) \cup {k}
  BY <1>1 DEF Range
<1>3. IsInjective(q) /\ k \notin Range(q) => IsInjective(Append(q, k))
  BY <1>1 DEF Range, IsInjective
<1>4. QED BY <1>1, <1>2, <1>3

\* The two halves of a list, swapped or not, are the whole list.
LEMMA SplitFacts ==
  ASSUME NEW S, NEW q \in Seq(S), NEW n \in 0..Len(q)
  PROVE  /\ SubSeq(q, 1, n) \in Seq(S) /\ Len(SubSeq(q, 1, n)) = n
         /\ \A i \in 1..n : SubSeq(q, 1, n)[i] = q[i]
         /\ SubSeq(q, n + 1, Len(q)) \in Seq(S)
         /\ Len(SubSeq(q, n + 1, Len(q))) = Len(q) - n
         /\ \A i \in 1..(Len(q) - n) : SubSeq(q, n + 1, Len(q))[i] = q[n + i]
<1>1. /\ Len(q) \in Nat /\ n \in Nat /\ n <= Len(q)
      /\ \A i \in 1..Len(q) : q[i] \in S
  OBVIOUS
<1>2. /\ SubSeq(q, 1, n) \in Seq(S)
      /\ Len(SubSeq(q, 1, n)) = IF 1 <= n THEN n - 1 + 1 ELSE 0
      /\ \A i \in 1 .. n - 1 + 1 : SubSeq(q, 1, n)[i] = q[1 + i - 1]
  BY <1>1, SubSeqProperties
<1>3. /\ SubSeq(q, n + 1, Len(q)) \in Seq(S)
      /\ Len(SubSeq(q, n + 1, Len(q)))
            = IF n + 1 <= Len(q) THEN Len(q) - (n + 1) + 1 ELSE 0
      /\ \A i \in 1 .. Len(q) - (n + 1) + 1 :
            SubSeq(q, n + 1, Len(q))[i] = q[n + 1 + i - 1]
  BY <1>1, SubSeqProperties
<1>4. QED BY <1>1, <1>2, <1>3

\* Joining two lists.
LEMMA JoinFacts ==
  ASSUME NEW S, NEW a \in Seq(S), NEW b \in Seq(S)
  PROVE  /\ a \o b \in Seq(S)
         /\ Len(a \o b) = Len(a) + Len(b)
         /\ \A i \in 1..Len(a) : (a \o b)[i] = a[i]
         /\ \A i \in 1..Len(b) : (a \o b)[Len(a) + i] = b[i]
         /\ Range(a \o b) = Range(a) \cup Range(b)
         /\ IsInjective(a) /\ IsInjective(b) /\ Range(a) \cap Range(b) = {}
               => IsInjective(a \o b)
<1> DEFINE c == a \o b
<1>1. Len(a) \in Nat /\ Len(b) \in Nat /\ DOMAIN a = 1..Len(a) /\ DOMAIN b = 1..Len(b)
  OBVIOUS
<1>2. c \in Seq(S) /\ Len(c) = Len(a) + Len(b)
      /\ \A i \in 1 .. Len(a) + Len(b) : c[i] = IF i <= Len(a) THEN a[i]
                                                 ELSE b[i - Len(a)]
  BY ConcatProperties
<1>3. Range(c) = Range(a) \cup Range(b)
  BY RangeConcatenation
<1> HIDE DEF c
<1>4. /\ \A i \in 1..Len(a) : c[i] = a[i]
      /\ \A i \in 1..Len(b) : c[Len(a) + i] = b[i]
  BY <1>1, <1>2, SMTT(30)
<1>5. DOMAIN c = 1..(Len(a) + Len(b))
  BY <1>1, <1>2
<1>6. ASSUME IsInjective(a), IsInjective(b), Range(a) \cap Range(b) = {}
      PROVE  IsInjective(c)
  <2>1. SUFFICES ASSUME NEW i \in 1..(Len(a) + Len(b)),
                        NEW j \in 1..(Len(a) + Len(b)), c[i] = c[j], i <= j
                 PROVE  i = j
    <3>1. \A i, j \in 1..(Len(a) + Len(b)) : i <= j \/ j <= i
      BY <1>1
    <3>2. QED BY <1>5, <3>1 DEF IsInjective
  <2>2. CASE j <= Len(a)
    <3>1. i \in 1..Len(a) /\ j \in 1..Len(a)
      BY <1>1, <2>1, <2>2
    <3>2. a[i] = a[j]
      BY <1>4, <2>1, <3>1
    <3>3. QED BY <1>1, <1>6, <3>1, <3>2 DEF IsInjective
  <2>3. CASE i > Len(a)
    <3>1. i - Len(a) \in 1..Len(b) /\ j - Len(a) \in 1..Len(b)
      BY <1>1, <2>1, <2>3
    <3>2. b[i - Len(a)] = b[j - Len(a)]
      BY <1>1, <1>2, <2>1, <2>3
    <3>3. i - Len(a) = j - Len(a)
      BY <1>1, <1>6, <3>1, <3>2 DEF IsInjective
    <3>4. QED BY <1>1, <3>3
  <2>4. CASE i <= Len(a) /\ j > Len(a)
    <3>1. i \in 1..Len(a) /\ j - Len(a) \in 1..Len(b)
      BY <1>1, <2>1, <2>4
    <3>2. a[i] = b[j - Len(a)]
      BY <1>1, <1>2, <2>1, <2>4
    <3>3. a[i] \in Range(a) /\ b[j - Len(a)] \in Range(b)
      BY <1>1, <3>1 DEF Range
    <3>4. QED BY <1>6, <3>2, <3>3
  <2>5. QED BY <1>1, <2>1, <2>2, <2>3, <2>4
<1>7. QED BY <1>2, <1>3, <1>4, <1>6 DEF c

\* What the two parts of a split list hold.
LEMMA PartFacts ==
  ASSUME NEW S, NEW q \in Seq(S), NEW n \in 0..Len(q)
  PROVE  /\ Range(SubSeq(q, 1, n)) = {q[i] : i \in 1..n}
         /\ Range(SubSeq(q, n + 1, Len(q))) = {q[i] : i \in (n + 1)..Len(q)}
         /\ Range(q) = Range(SubSeq(q, n + 1, Len(q))) \cup Range(SubSeq(q, 1, n))
         /\ IsInjective(q) =>
               /\ IsInjective(SubSeq(q, 1, n))
               /\ IsInjective(SubSeq(q, n + 1, Len(q)))
               /\ Range(SubSeq(q, n + 1, Len(q))) \cap Range(SubSeq(q, 1, n)) = {}
<1> DEFINE a == SubSeq(q, 1, n)
           b == SubSeq(q, n + 1, Len(q))
<1>1. /\ a \in Seq(S) /\ Len(a) = n /\ \A i \in 1..n : a[i] = q[i]
      /\ b \in Seq(S) /\ Len(b) = Len(q) - n
      /\ \A i \in 1..(Len(q) - n) : b[i] = q[n + i]
  BY SplitFacts
<1> HIDE DEF a, b
<1>2. Len(q) \in Nat /\ n \in Nat /\ n <= Len(q) /\ DOMAIN q = 1..Len(q)
      /\ DOMAIN a = 1..n /\ DOMAIN b = 1..(Len(q) - n)
  BY <1>1
<1>3. Range(a) = {q[i] : i \in 1..n}
  <2>1. Range(a) = {a[i] : i \in 1..n}
    BY <1>2 DEF Range
  <2>2. QED BY <1>1, <2>1
<1>4. Range(b) = {q[i] : i \in (n + 1)..Len(q)}
  <2>1. ASSUME NEW x \in Range(b) PROVE x \in {q[i] : i \in (n + 1)..Len(q)}
    <3>1. PICK i \in 1..(Len(q) - n) : x = b[i]
      BY <1>2 DEF Range
    <3>2. x = q[n + i] /\ n + i \in (n + 1)..Len(q)
      BY <1>1, <1>2, <3>1
    <3>3. QED BY <3>2
  <2>2. ASSUME NEW i \in (n + 1)..Len(q) PROVE q[i] \in Range(b)
    <3>1. i - n \in 1..(Len(q) - n) /\ n + (i - n) = i
      BY <1>2
    <3>2. b[i - n] = q[i]
      BY <1>1, <3>1
    <3>3. QED BY <1>2, <3>1, <3>2 DEF Range
  <2>3. QED BY <2>1, <2>2
<1>5. Range(q) = {q[i] : i \in 1..n} \cup {q[i] : i \in (n + 1)..Len(q)}
  <2>1. 1..Len(q) = 1..n \cup (n + 1)..Len(q)
    BY <1>2
  <2>2. QED BY <1>2, <2>1 DEF Range
<1>6. ASSUME IsInjective(q)
      PROVE  /\ IsInjective(a) /\ IsInjective(b)
             /\ {q[i] : i \in 1..n} \cap {q[i] : i \in (n + 1)..Len(q)} = {}
  <2>1. \A i, j \in 1..Len(q) : q[i] = q[j] => i = j
    BY <1>2, <1>6 DEF IsInjective
  <2>2. IsInjective(a)
    BY <1>1, <1>2, <2>1 DEF IsInjective
  <2>3. IsInjective(b)
    <3>1. SUFFICES ASSUME NEW i \in 1..(Len(q) - n), NEW j \in 1..(Len(q) - n),
                          b[i] = b[j]
                   PROVE  i = j
      BY <1>2 DEF IsInjective
    <3>2. n + i \in 1..Len(q) /\ n + j \in 1..Len(q) /\ q[n + i] = q[n + j]
      BY <1>1, <1>2, <3>1
    <3>3. n + i = n + j
      BY <2>1, <3>2
    <3>4. QED BY <1>2, <3>3
  <2>4. {q[i] : i \in 1..n} \cap {q[i] : i \in (n + 1)..Len(q)} = {}
    <3>1. \A i \in 1..n, j \in (n + 1)..Len(q) :
             i \in 1..Len(q) /\ j \in 1..Len(q) /\ i # j
      BY <1>2
    <3>2. QED BY <2>1, <3>1
  <2>5. QED BY <2>2, <2>3, <2>4
<1>7. /\ Range(q) = Range(b) \cup Range(a)
      /\ IsInjective(q) => /\ IsInjective(a) /\ IsInjective(b)
                           /\ Range(b) \cap Range(a) = {}
  BY <1>3, <1>4, <1>5, <1>6
<1>8. QED BY <1>3, <1>4, <1>7 DEF a, b

\* Rotating a list keeps its members, each once.
LEMMA RotatedFacts ==
  ASSUME NEW S, NEW q \in Seq(S), NEW n \in 0..Len(q)
  PROVE  /\ Rotated(q, n) \in Seq(S)
         /\ Len(Rotated(q, n)) = Len(q)
         /\ Range(Rotated(q, n)) = Range(q)
         /\ IsInjective(q) => IsInjective(Rotated(q, n))
         /\ n < Len(q) => Rotated(q, n)[1] = q[n + 1]
<1> DEFINE a == SubSeq(q, 1, n)
           b == SubSeq(q, n + 1, Len(q))
<1>1. /\ a \in Seq(S) /\ Len(a) = n
      /\ b \in Seq(S) /\ Len(b) = Len(q) - n
      /\ \A i \in 1..(Len(q) - n) : b[i] = q[n + i]
  BY SplitFacts
<1>2. /\ Range(q) = Range(b) \cup Range(a)
      /\ IsInjective(q) => IsInjective(a) /\ IsInjective(b) /\ Range(b) \cap Range(a) = {}
  BY PartFacts
<1>3. Rotated(q, n) = b \o a
  BY DEF Rotated
<1> HIDE DEF a, b
<1>4. Len(q) \in Nat /\ n \in Nat /\ n <= Len(q)
  OBVIOUS
<1>5. /\ b \o a \in Seq(S)
      /\ Len(b \o a) = Len(b) + Len(a)
      /\ \A i \in 1..Len(b) : (b \o a)[i] = b[i]
      /\ Range(b \o a) = Range(b) \cup Range(a)
      /\ IsInjective(b) /\ IsInjective(a) /\ Range(b) \cap Range(a) = {}
            => IsInjective(b \o a)
  <2>1. b \in Seq(S) /\ a \in Seq(S)
    BY <1>1
  <2>2. QED BY ONLY <2>1, JoinFacts, ZenonT(30)
<1>6. n < Len(q) => (b \o a)[1] = q[n + 1]
  BY <1>1, <1>4, <1>5
<1>7. Len(b \o a) = Len(q)
  BY <1>1, <1>4, <1>5
<1>8. QED BY <1>2, <1>3, <1>5, <1>6, <1>7

\* Taking the head off a list without repetitions.
LEMMA TailFacts ==
  ASSUME NEW S, NEW q \in Seq(S), q # <<>>, IsInjective(q)
  PROVE  /\ Head(q) = q[1]
         /\ Tail(q) \in Seq(S)
         /\ Len(Tail(q)) = Len(q) - 1
         /\ Range(Tail(q)) = Range(q) \ {q[1]}
         /\ IsInjective(Tail(q))
<1>1. /\ Head(q) = q[1] /\ Len(q) \in Nat /\ Len(q) >= 1
      /\ Tail(q) \in Seq(S) /\ Len(Tail(q)) = Len(q) - 1
      /\ \A i \in 1..(Len(q) - 1) : Tail(q)[i] = q[i + 1]
      /\ DOMAIN q = 1..Len(q) /\ DOMAIN Tail(q) = 1..(Len(q) - 1)
  OBVIOUS
<1>2. IsInjective(Tail(q))
  BY <1>1 DEF IsInjective
<1>3. Range(Tail(q)) \subseteq Range(q) \ {q[1]}
  BY <1>1 DEF Range, IsInjective
<1>4. ASSUME NEW x \in Range(q) \ {q[1]} PROVE x \in Range(Tail(q))
  <2>1. PICK i \in 1..Len(q) : x = q[i]
    BY <1>1 DEF Range
  <2>2. i - 1 \in 1..(Len(q) - 1) /\ Tail(q)[i - 1] = x
    BY <1>1, <2>1
  <2>3. QED BY <1>1, <2>2 DEF Range
<1>5. QED BY <1>1, <1>2, <1>3, <1>4

\* Taking one element out of a list without repetitions.
LEMMA WithoutFacts ==
  ASSUME NEW S, NEW q \in Seq(S), IsInjective(q), NEW k \in Range(q)
  PROVE  /\ Without(q, k) \in Seq(S)
         /\ Len(Without(q, k)) = Len(q) - 1
         /\ Range(Without(q, k)) = Range(q) \ {k}
         /\ IsInjective(Without(q, k))
<1> DEFINE m == CHOOSE i \in DOMAIN q : q[i] = k
           a == SubSeq(q, 1, m - 1)
           b == SubSeq(q, m + 1, Len(q))
<1>1. /\ Len(q) \in Nat /\ DOMAIN q = 1..Len(q)
      /\ m \in 1..Len(q) /\ q[m] = k
  <2>1. \E j \in DOMAIN q : q[j] = k
    BY DEF Range
  <2>2. QED BY <2>1
<1>2. Without(q, k) = a \o b
  BY DEF Without
<1> HIDE DEF m
<1>3. m - 1 \in 0..Len(q) /\ m \in 0..Len(q) /\ (m - 1) + 1 = m
  BY <1>1
<1>4. /\ a \in Seq(S) /\ Len(a) = m - 1
      /\ b \in Seq(S) /\ Len(b) = Len(q) - m
  BY <1>3, SplitFacts
<1>5. /\ Range(a) = {q[i] : i \in 1..(m - 1)} /\ IsInjective(a)
      /\ Range(b) = {q[i] : i \in (m + 1)..Len(q)} /\ IsInjective(b)
  BY <1>3, PartFacts
<1> HIDE DEF a, b
<1>6. \A i, j \in 1..Len(q) : q[i] = q[j] => i = j
  BY <1>1 DEF IsInjective
<1>7. Range(a) \cap Range(b) = {}
  <2>1. \A i \in 1..(m - 1), j \in (m + 1)..Len(q) :
           i \in 1..Len(q) /\ j \in 1..Len(q) /\ i # j
    BY <1>1
  <2>2. QED BY <1>5, <1>6, <2>1
<1>8. Range(a) \cup Range(b) = Range(q) \ {k}
  <2>1. \A i \in 1..Len(q) : i # m <=> i \in 1..(m - 1) \/ i \in (m + 1)..Len(q)
    BY <1>1
  <2>2. \A i \in 1..(m - 1) : i \in 1..Len(q)
    BY <1>1
  <2>3. \A i \in (m + 1)..Len(q) : i \in 1..Len(q)
    BY <1>1
  <2>4. Range(q) \ {k} = {q[i] : i \in (1..Len(q)) \ {m}}
    BY <1>1, <1>6 DEF Range
  <2>5. (1..Len(q)) \ {m} = 1..(m - 1) \cup (m + 1)..Len(q)
    BY <2>1, <2>2, <2>3
  <2>6. QED BY <1>5, <2>4, <2>5
<1>9. /\ a \o b \in Seq(S)
      /\ Len(a \o b) = Len(a) + Len(b)
      /\ Range(a \o b) = Range(a) \cup Range(b)
      /\ IsInjective(a \o b)
  <2>0. a \in Seq(S) /\ b \in Seq(S)
    BY <1>4
  <2>1. /\ a \o b \in Seq(S) /\ Len(a \o b) = Len(a) + Len(b)
        /\ Range(a \o b) = Range(a) \cup Range(b)
    BY ONLY <2>0, JoinFacts, Zenon
  <2>2. a \in Seq(S) /\ b \in Seq(S)
        /\ IsInjective(a) /\ IsInjective(b) /\ Range(a) \cap Range(b) = {}
    BY <1>4, <1>5, <1>7
  <2>3. IsInjective(a \o b)
    BY ONLY <2>2, JoinFacts, Zenon
  <2>4. QED BY <2>1, <2>3
<1>10. Len(a \o b) = Len(q) - 1
  BY <1>1, <1>4, <1>9
<1>11. QED BY <1>2, <1>8, <1>9, <1>10

\* The first n entries of a list without repetitions are n elements.
LEMMA PrefixCardinality ==
  ASSUME NEW S, NEW q \in Seq(S), IsInjective(q), NEW n \in 0..Len(q)
  PROVE  /\ IsFiniteSet({q[i] : i \in 1..n})
         /\ Cardinality({q[i] : i \in 1..n}) = n
<1> DEFINE T == {q[i] : i \in 1..n}
           f == [i \in 1..n |-> q[i]]
<1>1. n \in Nat /\ Len(q) \in Nat /\ n <= Len(q) /\ DOMAIN q = 1..Len(q)
  OBVIOUS
<1>2. f \in Bijection(1..n, T)
  <2>1. f \in [1..n -> T]
    OBVIOUS
  <2>2. IsInjective(f)
    <3>1. \A i, j \in 1..n : q[i] = q[j] => i = j
      BY <1>1 DEF IsInjective
    <3>2. QED BY <3>1 DEF IsInjective
  <2>3. \A t \in T : \E i \in 1..n : f[i] = t
    OBVIOUS
  <2>4. QED BY <2>1, <2>2, <2>3 DEF Bijection, Injection, Surjection
<1>3. IsFiniteSet(1..n) /\ Cardinality(1..n) = n
  BY <1>1, FS_Interval
<1>4. IsFiniteSet(T) /\ Cardinality(T) = Cardinality(1..n)
  BY <1>2, <1>3, FS_Bijection DEF ExistsBijection
<1>5. QED BY <1>3, <1>4

\* A sublist has the members it was asked to have, each once.
LEMMA InOrderFacts ==
  ASSUME NEW S, NEW q \in Seq(S), IsInjective(q),
         NEW T \in SUBSET Range(q), NEW s \in InOrder(T, q)
  PROVE  /\ s \in Seq(S)
         /\ Range(s) = T
         /\ IsInjective(s)
         /\ IsFiniteSet(T)
         /\ Cardinality(T) \in Nat
         /\ Len(s) = Cardinality(T)
<1>1. Len(q) \in Nat /\ DOMAIN q = 1..Len(q) /\ Range(q) \subseteq S
  BY RangeOfSeq
<1>2. IsFiniteSet(Range(q))
  <2>1. Len(q) \in 0..Len(q)
    BY <1>1
  <2>2. IsFiniteSet({q[i] : i \in 1..Len(q)})
    BY <2>1, PrefixCardinality
  <2>3. QED BY <1>1, <2>2 DEF Range
<1>3. IsFiniteSet(T) /\ Cardinality(T) \in Nat
  BY <1>2, FS_Subset, FS_CardinalityType
<1> DEFINE c == Cardinality(T)
<1> HIDE DEF c
<1>4. s \in [1..c -> T] /\ Range(s) = T
  BY DEF InOrder, c
<1>5. PICK at \in [1..c -> 1..Len(q)] :
         /\ \A i \in 1..c : q[at[i]] = s[i]
         /\ \A i, j \in 1..c : i < j => at[i] < at[j]
  <2>1. DOMAIN s = 1..c
    BY <1>4
  <2>2. QED BY <1>1, <2>1 DEF InOrder, c
<1>6. c \in Nat
  BY <1>3 DEF c
<1>7. IsInjective(s)
  <2>1. SUFFICES ASSUME NEW i \in 1..c, NEW j \in 1..c, s[i] = s[j]
                 PROVE  i = j
    BY <1>4 DEF IsInjective
  <2>2. at[i] = at[j]
    BY <1>1, <1>5, <2>1 DEF IsInjective
  <2>3. QED BY <1>5, <1>6, <2>2
<1>8. s \in Seq(S) /\ Len(s) = c
  <2>1. s \in [1..c -> S]
    BY <1>1, <1>4
  <2>2. s \in Seq(S)
    BY <1>6, <2>1, IsASeq
  <2>3. DOMAIN s = 1..c /\ DOMAIN s = 1..Len(s) /\ Len(s) \in Nat
    BY <1>4, <2>2
  <2>4. QED BY <1>6, <2>2, <2>3
<1>9. QED BY <1>3, <1>4, <1>7, <1>8 DEF c

\* Of the first n entries of q those in T leave the list, the others move to
\* its tail.
LEMMA ScanFacts ==
  ASSUME NEW S, NEW q \in Seq(S), IsInjective(q), NEW n \in 0..Len(q),
         NEW T \in SUBSET Leading(q, n),
         NEW live \in InOrder(Leading(q, n) \ T, q), NEW dead \in InOrder(T, q)
  PROVE  /\ Dropped(q, n) \o live \in Seq(S)
         /\ IsInjective(Dropped(q, n) \o live)
         /\ Range(Dropped(q, n) \o live) = Range(q) \ T
         /\ Len(Dropped(q, n) \o live) = Len(q) - Len(dead)
         /\ dead \in Seq(S)
         /\ IsInjective(dead)
         /\ Range(dead) = T
         /\ Len(dead) <= Len(q)
<1> DEFINE P == Leading(q, n)
           d == Dropped(q, n)
<1>1. Len(q) \in Nat /\ n \in Nat /\ n <= Len(q)
  OBVIOUS
<1>2. d \in Seq(S) /\ Len(d) = Len(q) - n
  BY SplitFacts DEF Dropped
<1>3. /\ Range(SubSeq(q, 1, n)) = P
      /\ Range(q) = Range(d) \cup Range(SubSeq(q, 1, n))
      /\ IsInjective(d)
      /\ Range(d) \cap Range(SubSeq(q, 1, n)) = {}
  BY PartFacts DEF Dropped, Leading
<1>4. IsFiniteSet(P) /\ Cardinality(P) = n
  BY PrefixCardinality DEF Leading
<1> HIDE DEF P, d
<1>5. Range(q) = Range(d) \cup P /\ Range(d) \cap P = {}
  BY <1>3
<1>6. T \subseteq P
  BY DEF P
<1>7. /\ dead \in Seq(S) /\ Range(dead) = T /\ IsInjective(dead)
      /\ IsFiniteSet(T) /\ Len(dead) = Cardinality(T) /\ Cardinality(T) \in Nat
  <2>1. T \in SUBSET Range(q)
    BY <1>5, <1>6
  <2>2. QED BY <2>1, InOrderFacts
<1>8. /\ live \in Seq(S) /\ Range(live) = P \ T /\ IsInjective(live)
      /\ IsFiniteSet(P \ T) /\ Len(live) = Cardinality(P \ T)
      /\ Cardinality(P \ T) \in Nat
  <2>1. P \ T \in SUBSET Range(q)
    BY <1>5
  <2>2. live \in InOrder(P \ T, q)
    BY DEF P
  <2>3. QED BY <2>1, <2>2, InOrderFacts
<1>9. Cardinality(T) + Cardinality(P \ T) = n
  <2>1. Cardinality(T \cup (P \ T)) =
          Cardinality(T) + Cardinality(P \ T) - Cardinality(T \cap (P \ T))
    BY <1>7, <1>8, FS_Union
  <2>2. T \cup (P \ T) = P /\ T \cap (P \ T) = {}
    BY <1>6
  <2>3. Cardinality(P) = Cardinality(T) + Cardinality(P \ T) - 0
    BY <2>1, <2>2, FS_EmptySet
  <2>4. QED BY <1>4, <1>7, <1>8, <2>3
<1>10. Range(d) \cap Range(live) = {} /\ Range(d) \cup Range(live) = Range(q) \ T
  BY <1>5, <1>6, <1>8
<1>11. d \in Seq(S) /\ live \in Seq(S) /\ IsInjective(d) /\ IsInjective(live)
  BY <1>2, <1>3, <1>8
<1>12. /\ d \o live \in Seq(S)
       /\ IsInjective(d \o live)
       /\ Len(d \o live) = Len(d) + Len(live)
       /\ Range(d \o live) = Range(d) \cup Range(live)
  <2>1. Range(d) \cap Range(live) = {}
    BY <1>10
  <2>2. d \o live \in Seq(S) /\ Len(d \o live) = Len(d) + Len(live)
    BY ONLY <1>11, JoinFacts, Zenon
  <2>3. IsInjective(d \o live)
    BY ONLY <1>11, <2>1, JoinFacts, Zenon
  <2>4. Range(d \o live) = Range(d) \cup Range(live)
    BY ONLY <1>11, JoinFacts, ZenonT(30)
  <2>5. QED BY <2>2, <2>3, <2>4
<1>13. Len(d \o live) = Len(q) - Len(dead)
  BY <1>1, <1>2, <1>7, <1>8, <1>9, <1>12
<1>14. Len(dead) <= Len(q)
  BY <1>1, <1>7, <1>8, <1>9
<1>15. QED BY <1>7, <1>10, <1>12, <1>13, <1>14 DEF d

-----------------------------------------------------------------------------
(* The structural invariant *)

StructInv ==
    /\ TypeOK
    /\ QueueConsistent
    /\ WithinCapacity
    /\ SlotsConsistent
    /\ WorkConsistent

-----------------------------------------------------------------------------
(* What the steps do to the two lists *)

\* A worker that holds a task convinces recover that it does.
LEMMA HolderIsOwner ==
  ASSUME StructInv
  PROVE  HolderKeepsTask
<1> SUFFICES ASSUME NEW p \in Pids, item[p] # Null
             PROVE  /\ item[p] \in Range(active)
                    /\ owner[item[p]] = p
                    /\ LooksOwned(item[p])
  BY DEF HolderKeepsTask
<1>1. /\ item[p] \in Range(active) /\ owner[item[p]] = p
      /\ ownerSlot[item[p]] = slot[p] /\ ownerEpoch[item[p]] = epochs[slot[p]]
      /\ p \in Workers
  BY DEF StructInv, WorkConsistent
<1>2. pstate[p] \in {"up", "quitting", "terminating"}
  BY <1>1 DEF Workers
<1>3. slot[p] \in Slots /\ owners[slot[p]] = p
  BY <1>1, <1>2 DEF StructInv, SlotsConsistent
<1>4. p # Null /\ slot[p] # Null
  BY <1>3, ConstantAssumption
<1>5. QED BY <1>1, <1>2, <1>3, <1>4 DEF LooksOwned, process_alive

\* A new task joins the pending tail.
LEMMA AdmitLists ==
  ASSUME StructInv, NEW p \in Pids, NEW k \in Keys, Admit(p, k)
  PROVE  /\ pending' \in Seq(Keys) /\ IsInjective(pending')
         /\ Range(pending') = Range(pending) \cup {k}
         /\ Len(pending') = Len(pending) + 1
         /\ k \notin Range(pending) /\ k \notin Range(active)
<1>1. pending \in Seq(Keys) /\ IsInjective(pending)
      /\ index = Range(pending) \cup Range(active)
  BY DEF StructInv, TypeOK, QueueConsistent
<1>2. pending' = Append(pending, k) /\ k \notin index
  BY DEF Admit
<1>3. QED BY <1>1, <1>2, AppendFacts

\* A rotation keeps the pending tasks.
LEMMA RotateLists ==
  ASSUME StructInv, NEW p \in Pids, RotateDelayed(p)
  PROVE  /\ pending' \in Seq(Keys) /\ IsInjective(pending')
         /\ Range(pending') = Range(pending)
         /\ Len(pending') = Len(pending)
         /\ pending # <<>>
<1>1. pending \in Seq(Keys) /\ IsInjective(pending) /\ size = Len(pending)
  BY DEF StructInv, TypeOK, QueueConsistent
<1>2. Smaller(size, WalkEntries) \in 0..Len(pending)
  BY <1>1, ConstantAssumption DEF Smaller
<1>3. pending' = Rotated(pending, Smaller(size, WalkEntries)) /\ pending # <<>>
  BY DEF RotateDelayed
<1>4. QED BY <1>1, <1>2, <1>3, RotatedFacts

\* A claim moves one task from the pending to the active list.
LEMMA ClaimLists ==
  ASSUME StructInv, NEW p \in Pids, Claim(p)
  PROVE  \E k \in Keys :
            /\ StartWork(p, k)
            /\ k \in Range(pending) /\ k \notin Range(active)
            /\ pending' \in Seq(Keys) /\ IsInjective(pending')
            /\ Range(pending') = Range(pending) \ {k}
            /\ Len(pending') = Len(pending) - 1
            /\ active' \in Seq(Keys) /\ IsInjective(active')
            /\ Range(active') = Range(active) \cup {k}
            /\ Len(active') = Len(active) + 1
            /\ oldest' = IF pending' = <<>> THEN oldest ELSE Head(pending')
<1>1. /\ pending \in Seq(Keys) /\ IsInjective(pending) /\ size = Len(pending)
      /\ active \in Seq(Keys) /\ IsInjective(active)
      /\ Range(pending) \cap Range(active) = {}
  BY DEF StructInv, TypeOK, QueueConsistent
<1>2. PICK i \in 1..Smaller(size, WalkEntries) :
         /\ pending' = Tail(Rotated(pending, i - 1))
         /\ oldest' = IF pending' = <<>> THEN oldest ELSE Head(pending')
         /\ StartWork(p, pending[i])
  BY DEF Claim
<1>3. i \in 1..Len(pending) /\ i - 1 \in 0..Len(pending) /\ i - 1 < Len(pending)
      /\ (i - 1) + 1 = i
  BY <1>1, <1>2, ConstantAssumption DEF Smaller
<1> DEFINE k == pending[i]
           r == Rotated(pending, i - 1)
<1>4. /\ r \in Seq(Keys) /\ Len(r) = Len(pending) /\ Range(r) = Range(pending)
      /\ IsInjective(r) /\ r[1] = k
  BY <1>1, <1>3, RotatedFacts
<1>5. k \in Keys /\ k \in Range(pending)
  BY <1>1, <1>3 DEF Range
<1>6. active' = Append(active, k) /\ StartWork(p, k) /\ pending' = Tail(r)
  BY <1>2 DEF StartWork
<1> HIDE DEF k, r
<1>7. r # <<>>
  BY <1>3, <1>4
<1>8. /\ pending' \in Seq(Keys) /\ IsInjective(pending')
      /\ Range(pending') = Range(pending) \ {k}
      /\ Len(pending') = Len(pending) - 1
  BY <1>4, <1>6, <1>7, TailFacts
<1>9. k \notin Range(active)
  BY <1>1, <1>5
<1>10. /\ active' \in Seq(Keys) /\ IsInjective(active')
       /\ Range(active') = Range(active) \cup {k}
       /\ Len(active') = Len(active) + 1
  BY <1>1, <1>5, <1>6, <1>9, AppendFacts
<1>11. QED BY <1>2, <1>5, <1>6, <1>8, <1>9, <1>10

\* The end of a pass takes the task off the active list and requeues or
\* retires it.
LEMMA ReleaseLists ==
  ASSUME StructInv, NEW p \in Pids, item[p] # Null,
         NEW complete \in BOOLEAN, Release(p, complete)
  PROVE  /\ item[p] \in Keys /\ item[p] \in Range(active)
         /\ item[p] \notin Range(pending)
         /\ active' \in Seq(Keys) /\ IsInjective(active')
         /\ Range(active') = Range(active) \ {item[p]}
         /\ Len(active') = Len(active) - 1
         /\ pending' \in Seq(Keys) /\ IsInjective(pending')
         /\ \/ /\ Requeued(item[p])
               /\ Range(pending') = Range(pending) \cup {item[p]}
               /\ Len(pending') = Len(pending) + 1
            \/ Retired(item[p]) /\ pending' = pending
<1> DEFINE k == item[p]
<1>1. /\ pending \in Seq(Keys) /\ IsInjective(pending)
      /\ active \in Seq(Keys) /\ IsInjective(active)
      /\ Range(pending) \cap Range(active) = {}
  BY DEF StructInv, TypeOK, QueueConsistent
<1>2. k \in Keys /\ k \in Range(active) /\ k \notin Range(pending)
  BY <1>1 DEF StructInv, TypeOK, WorkConsistent
<1>3. active' = Without(active, k) /\ (Requeued(k) \/ Retired(k))
  BY DEF Release
<1> HIDE DEF k
<1>4. /\ active' \in Seq(Keys) /\ IsInjective(active')
      /\ Range(active') = Range(active) \ {k}
      /\ Len(active') = Len(active) - 1
  BY <1>1, <1>2, <1>3, WithoutFacts
<1>5. CASE Requeued(k)
  <2>1. pending' = Append(pending, k)
    BY <1>5 DEF Requeued
  <2>2. /\ pending' \in Seq(Keys) /\ IsInjective(pending')
        /\ Range(pending') = Range(pending) \cup {k}
        /\ Len(pending') = Len(pending) + 1
    BY <1>1, <1>2, <2>1, AppendFacts
  <2>3. QED BY <1>2, <1>4, <1>5, <2>2 DEF k
<1>6. CASE Retired(k)
  <2>1. pending' = pending
    BY <1>6 DEF Retired
  <2>2. QED BY <1>1, <1>2, <1>4, <1>6, <2>1 DEF k
<1>7. QED BY <1>3, <1>5, <1>6

\* Recovery moves lost tasks, and no others, to the pending tail.
LEMMA RecoverLists ==
  ASSUME StructInv, NEW p \in Pids, Recover(p)
  PROVE  /\ Lost \subseteq Range(active)
         /\ active' \in Seq(Keys) /\ IsInjective(active')
         /\ Range(active') = Range(active) \ Lost
         /\ pending' \in Seq(Keys) /\ IsInjective(pending')
         /\ Range(pending') = Range(pending) \cup Lost
         /\ \E n \in Nat :
               /\ Len(active') = Len(active) - n /\ n <= Len(active)
               /\ Len(pending') = Len(pending) + n
               /\ running' = running - n
               /\ size' = size + n
         /\ oldest' \in Keys \cup {Null}
         /\ \/ pending' = <<>>
            \/ oldest' \in Range(pending')
            \/ pending # <<>> /\ oldest' = oldest
<1> DEFINE n == Smaller(running, WalkEntries)
<1>1. /\ pending \in Seq(Keys) /\ IsInjective(pending)
      /\ active \in Seq(Keys) /\ IsInjective(active)
      /\ Range(pending) \cap Range(active) = {}
      /\ running = Len(active) /\ oldest \in Keys \cup {Null}
  BY DEF StructInv, TypeOK, QueueConsistent
<1>2. n \in 0..Len(active)
  BY <1>1, ConstantAssumption DEF Smaller
<1>3. PICK live \in InOrder(Scanned \ Lost, active), dead \in InOrder(Lost, active) :
         /\ active' = Dropped(active, n) \o live
         /\ pending' = pending \o dead
         /\ oldest' = IF dead = <<>> THEN oldest ELSE OldestAfter(dead[1])
         /\ running' = running - Len(dead)
         /\ size' = size + Len(dead)
  BY DEF Recover
<1>4. Lost \in SUBSET Scanned /\ Scanned = Leading(active, n)
  BY DEF Scanned, Lost
<1> HIDE DEF n
<1>5. /\ active' \in Seq(Keys) /\ IsInjective(active')
      /\ Range(active') = Range(active) \ Lost
      /\ Len(active') = Len(active) - Len(dead)
      /\ dead \in Seq(Keys) /\ IsInjective(dead) /\ Range(dead) = Lost
      /\ Len(dead) <= Len(active)
  <2>1. /\ Lost \in SUBSET Leading(active, n)
        /\ live \in InOrder(Leading(active, n) \ Lost, active)
        /\ dead \in InOrder(Lost, active)
    BY <1>3, <1>4
  <2>2. /\ Dropped(active, n) \o live \in Seq(Keys)
        /\ IsInjective(Dropped(active, n) \o live)
        /\ Range(Dropped(active, n) \o live) = Range(active) \ Lost
        /\ Len(Dropped(active, n) \o live) = Len(active) - Len(dead)
        /\ dead \in Seq(Keys) /\ IsInjective(dead)
        /\ Range(dead) = Lost /\ Len(dead) <= Len(active)
    BY ONLY <1>1, <1>2, <2>1, ScanFacts, SMTT(30)
  <2>3. QED BY <1>3, <2>2
<1>6. Lost \subseteq Range(active)
  <2>1. \A i \in 1..n : i \in DOMAIN active
    BY <1>1, <1>2
  <2>2. QED BY <1>4, <2>1 DEF Range, Leading
<1>7. dead \in Seq(Keys) /\ IsInjective(dead) /\ Range(pending) \cap Range(dead) = {}
  BY <1>1, <1>5, <1>6
<1>8. /\ pending \o dead \in Seq(Keys)
      /\ Len(pending \o dead) = Len(pending) + Len(dead)
  BY ONLY <1>1, <1>7, JoinFacts, Zenon
<1>9. IsInjective(pending \o dead)
  BY ONLY <1>1, <1>7, JoinFacts, Zenon
<1>10. Range(pending \o dead) = Range(pending) \cup Range(dead)
  BY ONLY <1>1, <1>7, JoinFacts, SMTT(20)
<1>11. /\ pending' \in Seq(Keys) /\ Len(pending') = Len(pending) + Len(dead)
       /\ IsInjective(pending') /\ Range(pending') = Range(pending) \cup Lost
  BY <1>3, <1>5, <1>8, <1>9, <1>10
<1>12. Len(dead) \in Nat
  BY <1>5
<1>13. dead # <<>> => dead[1] \in Range(dead)
  BY <1>5 DEF Range
<1>14. /\ oldest' \in Keys \cup {Null}
       /\ \/ pending' = <<>>
          \/ oldest' \in Range(pending')
          \/ pending # <<>> /\ oldest' = oldest
  <2>1. CASE dead = <<>>
    <3>1. oldest' = oldest /\ pending' = pending
      BY <1>1, <1>3, <2>1
    <3>2. QED BY <1>1, <3>1
  <2>2. CASE dead # <<>>
    <3>1. oldest' = IF pending = <<>> THEN dead[1] ELSE oldest
      BY <1>3, <2>2 DEF OldestAfter
    <3>2. dead[1] \in Range(pending') /\ dead[1] \in Keys
      BY <1>5, <1>11, <1>13, <2>2
    <3>3. QED BY <1>1, <3>1, <3>2
  <2>3. QED BY <2>1, <2>2
<1>15. QED BY <1>3, <1>5, <1>6, <1>11, <1>12, <1>14

-----------------------------------------------------------------------------
(* The two lists stay consistent with the index and within their bound *)

\* Every step preserves the consistency of the lists, the index, the counters
\* and the running flags, and the admission bound.
LEMMA QueueStep ==
  ASSUME StructInv, [Next]_vars
  PROVE  QueueConsistent' /\ WithinCapacity'
<1> USE DEF QueueConsistent, WithinCapacity
<1>0. /\ QueueConsistent /\ WithinCapacity /\ MaxSize \in Nat
      /\ pending \in Seq(Keys) /\ active \in Seq(Keys)
      /\ Len(pending) \in Nat /\ Len(active) \in Nat
  BY ConstantAssumption DEF StructInv, TypeOK
<1>1. ASSUME NEW p \in Pids, NEW k \in Keys, Admit(p, k)
      PROVE  QueueConsistent' /\ WithinCapacity'
  <2>1. UNCHANGED <<active, running, busy>> /\ index' = index \cup {k}
        /\ size' = size + 1 /\ size + running < MaxSize
    BY <1>1 DEF Admit, HasCredit
  <2>2. QED BY <1>0, <1>1, <2>1, AdmitLists
<1>2. ASSUME NEW p \in Pids, RotateDelayed(p)
      PROVE  QueueConsistent' /\ WithinCapacity'
  <2>1. UNCHANGED <<index, active, size, running, busy>>
    BY <1>2 DEF RotateDelayed, taskVars
  <2>2. QED BY <1>0, <1>2, <2>1, RotateLists
<1>3. ASSUME NEW p \in Pids, Claim(p)
      PROVE  QueueConsistent' /\ WithinCapacity'
  <2>1. PICK k \in Keys :
           /\ StartWork(p, k)
           /\ k \in Range(pending) /\ k \notin Range(active)
           /\ IsInjective(pending')
           /\ Range(pending') = Range(pending) \ {k}
           /\ Len(pending') = Len(pending) - 1
           /\ IsInjective(active')
           /\ Range(active') = Range(active) \cup {k}
           /\ Len(active') = Len(active) + 1
    BY <1>3, ClaimLists
  <2>2. /\ size' = size - 1 /\ running' = running + 1 /\ busy' = busy \cup {k}
        /\ index' = index
    BY <1>3, <2>1 DEF StartWork, Claim
  <2>3. QED BY <1>0, <2>1, <2>2
<1>4. ASSUME NEW p \in Pids, NEW complete \in BOOLEAN, item[p] # Null,
             Release(p, complete)
      PROVE  QueueConsistent' /\ WithinCapacity'
  <2>1. busy' = busy \ {item[p]} /\ running' = running - 1
    BY <1>4 DEF Release
  <2>2. CASE Requeued(item[p]) /\ Len(pending') = Len(pending) + 1
    <3>1. index' = index /\ size' = size + 1
      BY <2>2 DEF Requeued
    <3>2. ~Retired(item[p])
      <4>1. item[p] \in index
        BY <1>0, <1>4, ReleaseLists
      <4>2. QED BY <3>1, <4>1 DEF Retired
    <3>3. QED BY <1>0, <1>4, <2>1, <2>2, <3>1, <3>2, ReleaseLists
  <2>3. CASE Retired(item[p]) /\ pending' = pending
    <3>1. index' = index \ {item[p]} /\ size' = size
      BY <2>3 DEF Retired
    <3>2. /\ item[p] \in Range(active) /\ item[p] \notin Range(pending)
          /\ IsInjective(active') /\ Range(active') = Range(active) \ {item[p]}
          /\ Len(active') = Len(active) - 1
      BY <1>4, ReleaseLists
    <3>3. QED BY <1>0, <2>1, <2>3, <3>1, <3>2
  <2>4. QED BY <1>4, <2>2, <2>3, ReleaseLists
<1>5. ASSUME NEW p \in Pids, Recover(p)
      PROVE  QueueConsistent' /\ WithinCapacity'
  <2>1. index' = index /\ busy' = busy \ Lost
    BY <1>5 DEF Recover
  <2>2. PICK n \in Nat :
           /\ Len(active') = Len(active) - n /\ n <= Len(active)
           /\ Len(pending') = Len(pending) + n
           /\ running' = running - n
           /\ size' = size + n
    BY <1>5, RecoverLists
  <2>3. /\ Lost \subseteq Range(active)
        /\ IsInjective(active') /\ Range(active') = Range(active) \ Lost
        /\ IsInjective(pending') /\ Range(pending') = Range(pending) \cup Lost
    BY <1>5, RecoverLists
  <2>4. QED BY <1>0, <2>1, <2>2, <2>3
<1>6. ASSUME UNCHANGED <<index, pending, active, size, running, busy>>
      PROVE  QueueConsistent' /\ WithinCapacity'
  BY <1>0, <1>6
<1>7. ASSUME NEW p \in Pids, WorkerStep(p)
      PROVE  QueueConsistent' /\ WithinCapacity'
  <2>1. CASE Finish(p)
    <3>1. item[p] # Null
      BY <2>1 DEF StructInv, WorkConsistent, Finish
    <3>2. QED BY <1>4, <2>1, <3>1 DEF Finish
  <2>2. CASE FinalRelease(p)
    <3>1. item[p] # Null /\ Release(p, phase[p] = "complete")
          /\ (phase[p] = "complete") \in BOOLEAN
      BY <2>2 DEF FinalRelease
    <3>2. QED BY <1>4, <3>1
  <2>3. ASSUME \/ \E k \in Keys : Coalesce(p, k)
               \/ PostThread(p) \/ WalkDone(p)
               \/ \E f \in Files : Visit(p, f)
               \/ \E lost \in SUBSET Files : WalkError(p, lost)
               \/ InitWorker(p) \/ ExitWorker(p)
        PROVE  UNCHANGED <<index, pending, active, size, running, busy>>
    BY <2>3 DEF Coalesce, PostThread, WalkDone, Visit, WalkError, InitWorker,
                ExitWorker, zoneVars, taskVars
  <2>4. QED BY <1>1, <1>2, <1>3, <1>5, <1>6, <1>7, <2>1, <2>2, <2>3 DEF WorkerStep
<1>8. ASSUME NEW p \in Pids, ProcessStep(p)
      PROVE  UNCHANGED <<index, pending, active, size, running, busy>>
  BY <1>8 DEF ProcessStep, Spawn, Quit, Terminate, Crash, OtherStart,
              OtherExit, zoneVars, taskVars
<1>9. ASSUME \/ \E k \in Keys : RetryDue(k)
             \/ \E f \in Files : Store(f) \/ Evict(f)
             \/ UNCHANGED vars
      PROVE  UNCHANGED <<index, pending, active, size, running, busy>>
  BY <1>9 DEF RetryDue, Store, Evict, vars, zoneVars, taskVars
<1>10. QED BY <1>6, <1>7, <1>8, <1>9 DEF Next

-----------------------------------------------------------------------------
(* Types *)

\* The claim of a task gives every variable a value of its type.
LEMMA ClaimTypes ==
  ASSUME StructInv, NEW p \in Pids, Claim(p)
  PROVE  TypeOK'
<1>1. PICK k \in Keys :
         /\ StartWork(p, k)
         /\ k \in Range(pending)
         /\ pending' \in Seq(Keys) /\ Len(pending') = Len(pending) - 1
         /\ active' \in Seq(Keys)
         /\ oldest' = IF pending' = <<>> THEN oldest ELSE Head(pending')
  BY ClaimLists
<1>2. size' \in Nat /\ running' \in Nat
  <2>1. size = Len(pending) /\ pending \in Seq(Keys) /\ running \in Nat
    BY DEF StructInv, TypeOK, QueueConsistent
  <2>2. Len(pending') \in Nat
    BY <1>1
  <2>3. size' = size - 1 /\ running' = running + 1
    BY <1>1 DEF StartWork
  <2>4. QED BY <1>1, <2>1, <2>2, <2>3
<1>3. oldest' \in Keys \cup {Null}
  <2>1. oldest \in Keys \cup {Null}
    BY DEF StructInv, TypeOK
  <2>2. pending' # <<>> => Head(pending') \in Keys
    BY <1>1
  <2>3. QED BY <1>1, <2>1, <2>2
<1>4. slot[p] \in Slots
  BY DEF StructInv, SlotsConsistent, Claim, Serving
<1>5. /\ delayed' \subseteq Keys /\ busy' \subseteq Keys
      /\ owner' \in [Keys -> Pids \cup {Null}]
      /\ ownerSlot' \in [Keys -> Slots \cup {Null}]
      /\ ownerEpoch' \in [Keys -> Nat]
  BY <1>1, <1>4 DEF StartWork, StructInv, TypeOK
<1>6. /\ item' \in [Pids -> Keys \cup {Null}]
      /\ walkProtection' \in [Pids -> Confs \cup {Null}]
      /\ failed' \subseteq Pids
  BY <1>1 DEF StartWork, StructInv, TypeOK
<1>7. /\ phase' \in [Pids -> Phases]
      /\ todo' \in [Pids -> SUBSET Files]
      /\ due' \subseteq Keys \X Files
  BY <1>1 DEF StartWork, StructInv, TypeOK, Phases, Others
<1>8. /\ UNCHANGED <<index, owners, epochs, rerun, retries, protection,
                     nextProtection, pstate, slot, conf, files, requests,
                     wanted>>
  BY DEF Claim, slotVars, procVars, envVars
<1>9. QED BY <1>1, <1>2, <1>3, <1>5, <1>6, <1>7, <1>8 DEF StructInv, TypeOK

\* So does the end of a pass.
LEMMA ReleaseTypes ==
  ASSUME StructInv, NEW p \in Pids, item[p] # Null,
         NEW complete \in BOOLEAN, Release(p, complete),
         UNCHANGED <<slotVars, procVars, envVars, wanted>>
  PROVE  TypeOK'
<1> DEFINE k == item[p]
<1>1. /\ k \in Keys /\ active' \in Seq(Keys) /\ pending' \in Seq(Keys)
      /\ Requeued(k) \/ Retired(k)
      /\ k \in Range(active)
  BY ReleaseLists
<1>2. size' \in Nat /\ running' \in Nat
  <2>1. Len(active) \in Nat /\ Len(active) >= 1 /\ running = Len(active)
    BY <1>1 DEF StructInv, TypeOK, QueueConsistent, Range
  <2>2. running' = running - 1
    BY DEF Release
  <2>3. size' = size \/ size' = size + 1
    BY <1>1 DEF Requeued, Retired
  <2>4. QED BY <2>1, <2>2, <2>3 DEF StructInv, TypeOK
<1>3. index' \subseteq Keys /\ oldest' \in Keys \cup {Null} /\ rerun' \subseteq Keys
      /\ protection' \in [Keys -> Confs \cup {Null}]
  BY <1>1 DEF StructInv, TypeOK, Requeued, Retired, OldestAfter,
              KeepsNewestProtection
<1>4. retries' \in [Keys -> 0..MaxRetries]
  <2>1. retries \in [Keys -> 0..MaxRetries] /\ MaxRetries \in Nat
    BY ConstantAssumption DEF StructInv, TypeOK
  <2>2. retries[k] \in 0..MaxRetries
    BY <1>1, <2>1
  <2>3. PICK retry \in BOOLEAN :
           /\ retries' = [retries EXCEPT ![k] = IF retry THEN retries[k] + 1 ELSE 0]
           /\ retry => MayRetry(k)
    BY DEF Release
  <2>4. (IF retry THEN retries[k] + 1 ELSE 0) \in 0..MaxRetries
    BY <2>1, <2>2, <2>3 DEF MayRetry
  <2>5. QED BY <1>1, <2>1, <2>3, <2>4
<1>5. /\ delayed' \subseteq Keys /\ busy' \subseteq Keys
      /\ due' \subseteq Keys \X Files
  <2>1. /\ delayed' \in {delayed, delayed \cup {k}} /\ busy' = busy \ {k}
        /\ due' \in {due, Others(k)}
    BY DEF Release
  <2>2. QED BY <1>1, <2>1 DEF Others, StructInv, TypeOK
<1>6. /\ owner' \in [Keys -> Pids \cup {Null}]
      /\ ownerSlot' \in [Keys -> Slots \cup {Null}]
      /\ ownerEpoch' \in [Keys -> Nat]
      /\ nextProtection' \in [Keys -> Confs \cup {Null}]
  <2>1. /\ owner' = [owner EXCEPT ![k] = Null]
        /\ ownerSlot' = [ownerSlot EXCEPT ![k] = Null]
        /\ ownerEpoch' = [ownerEpoch EXCEPT ![k] = 0]
        /\ nextProtection' = [nextProtection EXCEPT ![k] = Null]
    BY DEF Release
  <2>2. QED BY <1>1, <2>1 DEF StructInv, TypeOK
<1>7. /\ item' \in [Pids -> Keys \cup {Null}]
      /\ phase' \in [Pids -> Phases]
      /\ todo' \in [Pids -> SUBSET Files]
      /\ failed' \subseteq Pids
      /\ walkProtection' \in [Pids -> Confs \cup {Null}]
  BY DEF Release, StructInv, TypeOK, Phases
<1>8. UNCHANGED <<owners, epochs, pstate, slot, conf, files, requests, wanted>>
  BY DEF slotVars, procVars, envVars
<1>9. QED BY <1>1, <1>2, <1>3, <1>4, <1>5, <1>6, <1>7, <1>8 DEF StructInv, TypeOK

\* So does recovery.
LEMMA RecoverTypes ==
  ASSUME StructInv, NEW p \in Pids, Recover(p)
  PROVE  TypeOK'
<1>1. /\ active' \in Seq(Keys) /\ pending' \in Seq(Keys)
      /\ oldest' \in Keys \cup {Null}
  BY RecoverLists
<1>2. size' \in Nat /\ running' \in Nat
  <2>1. PICK n \in Nat :
           /\ n <= Len(active)
           /\ running' = running - n
           /\ size' = size + n
    BY RecoverLists
  <2>2. running = Len(active) /\ active \in Seq(Keys) /\ size \in Nat
    BY DEF StructInv, TypeOK, QueueConsistent
  <2>3. QED BY <2>1, <2>2
<1>3. /\ busy' \subseteq Keys /\ rerun' \subseteq Keys
      /\ owner' \in [Keys -> Pids \cup {Null}]
      /\ ownerSlot' \in [Keys -> Slots \cup {Null}]
      /\ ownerEpoch' \in [Keys -> Nat]
      /\ protection' \in [Keys -> Confs \cup {Null}]
      /\ nextProtection' \in [Keys -> Confs \cup {Null}]
  BY DEF Recover, StructInv, TypeOK
<1>4. UNCHANGED <<index, owners, epochs, delayed, retries, pstate, slot, conf,
                  item, phase, todo, failed, walkProtection, files, requests,
                  due, wanted>>
  BY DEF Recover, slotVars, procVars, workVars, envVars, ghostVars
<1>5. QED BY <1>1, <1>2, <1>3, <1>4 DEF StructInv, TypeOK

\* Every step preserves the types.
LEMMA TypeStep ==
  ASSUME StructInv, [Next]_vars
  PROVE  TypeOK'
<1>0. TypeOK
  BY DEF StructInv
<1>1. ASSUME NEW p \in Pids, NEW k \in Keys, Coalesce(p, k)
      PROVE  TypeOK'
  <2>1. conf[p] \in Confs
    BY <1>1 DEF StructInv, SlotsConsistent, Coalesce, Serving
  <2>2. /\ rerun' \subseteq Keys /\ delayed' \subseteq Keys
        /\ retries' \in [Keys -> 0..MaxRetries]
        /\ protection' \in [Keys -> Confs \cup {Null}]
        /\ nextProtection' \in [Keys -> Confs \cup {Null}]
    <3>1. rerun' \in {rerun, rerun \cup {k}} /\ delayed' = delayed \ {k}
      BY <1>1 DEF Coalesce
    <3>2. retries' = [retries EXCEPT ![k] = 0] /\ 0 \in 0..MaxRetries
      BY <1>1, ConstantAssumption DEF Coalesce
    <3>3. /\ protection' \in {protection, [protection EXCEPT ![k] = conf[p]]}
          /\ nextProtection' \in {nextProtection, [nextProtection EXCEPT ![k] = conf[p]]}
      BY <1>1 DEF Coalesce
    <3>4. /\ [protection EXCEPT ![k] = conf[p]] \in [Keys -> Confs \cup {Null}]
          /\ [nextProtection EXCEPT ![k] = conf[p]] \in [Keys -> Confs \cup {Null}]
      BY <1>0, <2>1 DEF TypeOK
    <3>5. QED BY <1>0, <3>1, <3>2, <3>3, <3>4 DEF TypeOK
  <2>3. /\ requests' \in Nat /\ files' = files
        /\ due' \subseteq Keys \X Files /\ wanted' \in [Keys -> Confs \cup {Null}]
    BY <1>0, <1>1, <2>1 DEF Coalesce, Accept, Asked, Others, TypeOK
  <2>4. QED BY <1>0, <1>1, <2>2, <2>3
            DEF TypeOK, Coalesce, zoneVars, slotVars, procVars, workVars
<1>2. ASSUME NEW p \in Pids, NEW k \in Keys, Admit(p, k)
      PROVE  TypeOK'
  <2>1. conf[p] \in Confs
    BY <1>2 DEF StructInv, SlotsConsistent, Admit, Serving
  <2>2. /\ index' \subseteq Keys /\ oldest' \in Keys \cup {Null} /\ size' \in Nat
        /\ protection' \in [Keys -> Confs \cup {Null}] /\ pending' \in Seq(Keys)
    BY <1>0, <1>2, <2>1, AdmitLists DEF Admit, OldestAfter, TypeOK
  <2>3. /\ requests' \in Nat /\ files' = files
        /\ due' \subseteq Keys \X Files /\ wanted' \in [Keys -> Confs \cup {Null}]
    BY <1>0, <1>2, <2>1 DEF Admit, Accept, Asked, Others, TypeOK
  <2>4. QED BY <1>0, <1>2, <2>2, <2>3
            DEF TypeOK, Admit, slotVars, procVars, workVars
<1>3. ASSUME NEW p \in Pids, RotateDelayed(p)
      PROVE  TypeOK'
  <2>1. pending' \in Seq(Keys)
    BY <1>3, RotateLists
  <2>2. QED BY <1>0, <1>3, <2>1
            DEF TypeOK, RotateDelayed, slotVars, taskVars, procVars, workVars,
                envVars, ghostVars
<1>4. ASSUME NEW p \in Pids, PostThread(p)
      PROVE  TypeOK'
  BY <1>0, <1>4 DEF TypeOK, PostThread, Phases, zoneVars, slotVars, taskVars,
                    procVars, envVars, ghostVars
<1>5. ASSUME NEW p \in Pids, NEW f \in Files, Visit(p, f)
      PROVE  TypeOK'
  <2>1. /\ todo' \in [Pids -> SUBSET Files] /\ files' \subseteq Files
        /\ due' \subseteq Keys \X Files
    BY <1>0, <1>5 DEF TypeOK, Visit
  <2>2. QED BY <1>0, <1>5, <2>1
            DEF TypeOK, Visit, zoneVars, slotVars, taskVars, procVars
<1>6. ASSUME NEW p \in Pids, NEW lost \in SUBSET Files, WalkError(p, lost)
      PROVE  TypeOK'
  <2>1. todo' \in [Pids -> SUBSET Files] /\ failed' \subseteq Pids
    BY <1>0, <1>6 DEF TypeOK, WalkError
  <2>2. QED BY <1>0, <1>6, <2>1
            DEF TypeOK, WalkError, zoneVars, slotVars, taskVars, procVars,
                envVars, ghostVars
<1>7. ASSUME NEW p \in Pids, WalkDone(p)
      PROVE  TypeOK'
  BY <1>0, <1>7 DEF TypeOK, WalkDone, Phases, zoneVars, slotVars, taskVars,
                    procVars, envVars, ghostVars
<1>8. ASSUME NEW p \in Pids, Finish(p) \/ FinalRelease(p)
      PROVE  TypeOK'
  <2>1. item[p] # Null
    BY <1>8 DEF StructInv, WorkConsistent, Finish, FinalRelease
  <2>2. PICK complete \in BOOLEAN :
          Release(p, complete) /\ UNCHANGED <<slotVars, procVars, envVars, wanted>>
    BY <1>8 DEF Finish, FinalRelease
  <2>3. QED BY <2>1, <2>2, ReleaseTypes
<1>9. ASSUME NEW p \in Pids, InitWorker(p)
      PROVE  TypeOK'
  <2>1. slot[p] \in Slots
    BY <1>9 DEF StructInv, SlotsConsistent, InitWorker
  <2>2. /\ epochs' \in [Slots -> Nat] /\ owners' \in [Slots -> Pids \cup {Null}]
        /\ pstate' \in [Pids -> PStates]
    <3>1. epochs[slot[p]] \in Nat /\ epochs[slot[p]] + 1 \in Nat
      BY <1>0, <2>1 DEF TypeOK
    <3>2. \/ UNCHANGED <<owners, epochs>>
          \/ /\ owners' = [owners EXCEPT ![slot[p]] = p]
             /\ \E e \in Nat : epochs' = [epochs EXCEPT ![slot[p]] = e]
      BY <1>9, <3>1, Zenon DEF InitWorker, slotVars
    <3>3. pstate' \in [Pids -> PStates]
      <4>1. pstate' \in {[pstate EXCEPT ![p] = "fatal"], [pstate EXCEPT ![p] = "up"]}
        BY <1>9, Zenon DEF InitWorker
      <4>2. QED BY <1>0, <4>1 DEF TypeOK, PStates
    <3>4. QED BY <1>0, <2>1, <3>2, <3>3, ZenonT(40) DEF TypeOK
  <2>3. QED BY <1>0, <1>9, <2>2
            DEF TypeOK, InitWorker, zoneVars, taskVars, workVars, envVars, ghostVars
<1>10. ASSUME NEW p \in Pids, Gone(p)
       PROVE  /\ pstate' \in [Pids -> PStates]
              /\ slot' \in [Pids -> Slots \cup {Null}]
              /\ conf' \in [Pids -> Confs \cup {Null}]
              /\ item' \in [Pids -> Keys \cup {Null}]
              /\ phase' \in [Pids -> Phases]
              /\ todo' \in [Pids -> SUBSET Files]
              /\ failed' \subseteq Pids
              /\ walkProtection' \in [Pids -> Confs \cup {Null}]
  BY <1>0, <1>10 DEF TypeOK, Gone, PStates, Phases
<1>11. ASSUME NEW p \in Pids, ExitWorker(p)
       PROVE  TypeOK'
  <2>1. owners' \in [Slots -> Pids \cup {Null}]
    BY <1>0, <1>11 DEF TypeOK, ExitWorker
  <2>2. QED BY <1>0, <1>10, <1>11, <2>1
            DEF TypeOK, ExitWorker, zoneVars, taskVars, envVars, ghostVars
<1>12. ASSUME NEW p \in Pids, Crash(p)
       PROVE  TypeOK'
  BY <1>0, <1>10, <1>12
     DEF TypeOK, Crash, zoneVars, slotVars, taskVars, envVars, ghostVars
<1>13. ASSUME NEW p \in Pids, NEW s \in Slots, NEW c \in Confs, Spawn(p, s, c)
       PROVE  TypeOK'
  BY <1>0, <1>13 DEF TypeOK, Spawn, PStates, zoneVars, slotVars, taskVars,
                     workVars, envVars, ghostVars
<1>14. ASSUME NEW p \in Pids,
              Quit(p) \/ Terminate(p) \/ OtherStart(p) \/ OtherExit(p)
       PROVE  TypeOK'
  <2>1. pstate' \in [Pids -> PStates]
    BY <1>0, <1>14 DEF TypeOK, PStates, Quit, Terminate, OtherStart, OtherExit
  <2>2. QED BY <1>0, <1>14, <2>1
            DEF TypeOK, Quit, Terminate, OtherStart, OtherExit, zoneVars,
                slotVars, taskVars, workVars, envVars, ghostVars
<1>15. ASSUME NEW k \in Keys, RetryDue(k)
       PROVE  TypeOK'
  BY <1>0, <1>15 DEF TypeOK, RetryDue, zoneVars, slotVars, procVars, workVars,
                     envVars, ghostVars
<1>16. ASSUME NEW f \in Files, Store(f) \/ Evict(f)
       PROVE  TypeOK'
  <2>1. files' \subseteq Files /\ due' \subseteq Keys \X Files
    BY <1>0, <1>16 DEF TypeOK, Store, Evict, ghostVars
  <2>2. QED BY <1>0, <1>16, <2>1
            DEF TypeOK, Store, Evict, zoneVars, slotVars, taskVars, procVars,
                workVars, ghostVars
<1>17. ASSUME UNCHANGED vars
       PROVE  TypeOK'
  BY <1>0, <1>17 DEF TypeOK, vars, zoneVars, slotVars, taskVars, procVars,
                     workVars, envVars, ghostVars
<1>18. ASSUME NEW p \in Pids, WorkerStep(p)
       PROVE  TypeOK'
  BY <1>1, <1>2, <1>3, <1>4, <1>5, <1>6, <1>7, <1>8, <1>9, <1>11, <1>18,
     ClaimTypes, RecoverTypes DEF WorkerStep
<1>19. ASSUME NEW p \in Pids, ProcessStep(p)
       PROVE  TypeOK'
  BY <1>12, <1>13, <1>14, <1>19 DEF ProcessStep
<1>20. QED BY <1>15, <1>16, <1>17, <1>18, <1>19 DEF Next

-----------------------------------------------------------------------------
(* Slots and processes *)

\* Every step keeps one process per slot and the slots of workers their own.
LEMMA SlotsStep ==
  ASSUME StructInv, [Next]_vars
  PROVE  SlotsConsistent'
<1> USE DEF SlotsConsistent, Workers
<1>0. /\ SlotsConsistent
      /\ pstate \in [Pids -> PStates] /\ slot \in [Pids -> Slots \cup {Null}]
      /\ conf \in [Pids -> Confs \cup {Null}]
      /\ owners \in [Slots -> Pids \cup {Null}]
      /\ Null \notin Slots
  BY ConstantAssumption DEF StructInv, TypeOK
<1>1. ASSUME NEW p \in Pids, NEW s \in Slots, NEW c \in Confs, Spawn(p, s, c)
      PROVE  SlotsConsistent'
  <2>1. /\ pstate' = [pstate EXCEPT ![p] = "booting"]
        /\ slot' = [slot EXCEPT ![p] = s] /\ conf' = [conf EXCEPT ![p] = c]
        /\ owners' = owners
        /\ \A o \in Pids : slot[o] # s
    BY <1>1 DEF Spawn, slotVars
  <2>2. QED BY <1>0, <2>1
<1>2. ASSUME NEW p \in Pids, InitWorker(p)
      PROVE  SlotsConsistent'
  <2>1. slot' = slot /\ conf' = conf /\ pstate[p] \in {"booting", "up"}
    BY <1>2 DEF InitWorker
  <2>2. slot[p] \in Slots
    BY <1>0, <2>1
  <2>3. CASE pstate' = [pstate EXCEPT ![p] = "fatal"] /\ owners' = owners
    BY <1>0, <2>1, <2>3
  <2>4. CASE /\ pstate' = [pstate EXCEPT ![p] = "up"]
             /\ owners' = [owners EXCEPT ![slot[p]] = p]
    BY <1>0, <2>1, <2>2, <2>4
  <2>5. QED BY <1>2, <2>3, <2>4, Zenon DEF InitWorker, slotVars
<1>3. ASSUME NEW p \in Pids, pstate[p] \in {"up", "quitting"},
             NEW s \in {"quitting", "terminating"},
             pstate' = [pstate EXCEPT ![p] = s], UNCHANGED <<owners, slot, conf>>
      PROVE  SlotsConsistent'
  BY <1>0, <1>3
<1>4. ASSUME NEW p \in Pids, Gone(p), pstate[p] \notin {"none", "other"},
             owners' = owners \/ owners' = [owners EXCEPT ![slot[p]] = Null]
      PROVE  SlotsConsistent'
  <2>1. /\ pstate' = [pstate EXCEPT ![p] = "none"]
        /\ slot' = [slot EXCEPT ![p] = Null] /\ conf' = [conf EXCEPT ![p] = Null]
    BY <1>4 DEF Gone
  <2>2. slot[p] \in Slots
    BY <1>0, <1>4
  <2>3. /\ \A q \in Pids : pstate'[q] \notin {"none", "other"}
              => slot'[q] \in Slots /\ conf'[q] \in Confs
        /\ \A q \in Pids : pstate'[q] \in {"none", "other"} => slot'[q] = Null
        /\ \A q, r \in Pids : slot'[q] # Null /\ slot'[q] = slot'[r] => q = r
    BY <1>0, <2>1
  <2>4. ASSUME NEW q \in Pids, pstate'[q] \in {"up", "quitting", "terminating"}
        PROVE  owners'[slot'[q]] = q
    <3>1. q # p /\ pstate[q] = pstate'[q] /\ slot'[q] = slot[q]
      BY <1>0, <2>1, <2>4
    <3>2. slot[q] \in Slots /\ owners[slot[q]] = q /\ slot[q] # slot[p]
      BY <1>0, <2>2, <2>4, <3>1
    <3>3. QED BY <1>0, <1>4, <2>2, <3>1, <3>2
  <2>5. QED BY <2>3, <2>4
<1>5. ASSUME NEW p \in Pids, OtherStart(p) \/ OtherExit(p)
      PROVE  SlotsConsistent'
  <2>1. /\ pstate[p] \in {"none", "other"}
        /\ \E s \in {"none", "other"} : pstate' = [pstate EXCEPT ![p] = s]
        /\ slot' = slot /\ conf' = conf /\ owners' = owners
    BY <1>5 DEF OtherStart, OtherExit, slotVars
  <2>2. QED BY <1>0, <2>1
<1>6. ASSUME UNCHANGED <<owners, pstate, slot, conf>>
      PROVE  SlotsConsistent'
  BY <1>0, <1>6
<1>7. ASSUME NEW p \in Pids, WorkerStep(p)
      PROVE  SlotsConsistent'
  <2>1. CASE ExitWorker(p)
    BY <1>4, <2>1 DEF ExitWorker
  <2>2. ASSUME WorkerStep(p), ~InitWorker(p), ~ExitWorker(p)
        PROVE  UNCHANGED <<owners, pstate, slot, conf>>
    BY <2>2 DEF WorkerStep, Coalesce, Admit, RotateDelayed, Claim, PostThread,
                Visit, WalkError, WalkDone, Finish, Recover, FinalRelease,
                slotVars, procVars
  <2>3. QED BY <1>2, <1>6, <1>7, <2>1, <2>2
<1>8. ASSUME NEW p \in Pids, ProcessStep(p)
      PROVE  SlotsConsistent'
  <2>1. CASE Quit(p) \/ Terminate(p)
    BY <1>3, <2>1 DEF Quit, Terminate, slotVars
  <2>2. CASE Crash(p)
    BY <1>4, <2>2 DEF Crash, slotVars
  <2>3. QED BY <1>1, <1>5, <1>8, <2>1, <2>2 DEF ProcessStep
<1>9. ASSUME \/ \E k \in Keys : RetryDue(k)
             \/ \E f \in Files : Store(f) \/ Evict(f)
             \/ UNCHANGED vars
      PROVE  UNCHANGED <<owners, pstate, slot, conf>>
  BY <1>9 DEF RetryDue, Store, Evict, vars, slotVars, procVars
<1>10. QED BY <1>6, <1>7, <1>8, <1>9 DEF Next

-----------------------------------------------------------------------------
(* Workers and their tasks *)

\* WorkConsistent of one worker.
HoldsWell(p) ==
    /\ item[p] = Null <=> phase[p] = "idle"
    /\ item[p] # Null =>
          /\ p \in Workers
          /\ item[p] \in Range(active)
          /\ owner[item[p]] = p
          /\ ownerSlot[item[p]] = slot[p]
          /\ ownerEpoch[item[p]] = epochs[slot[p]]
          /\ phase[p] = "complete" => todo[p] = {}

\* Every step leaves each worker with the task it holds, marked as its own.
LEMMA WorkStep ==
  ASSUME StructInv, [Next]_vars
  PROVE  WorkConsistent'
<1>0. /\ WorkConsistent /\ SlotsConsistent /\ QueueConsistent
      /\ pstate \in [Pids -> PStates] /\ slot \in [Pids -> Slots \cup {Null}]
      /\ item \in [Pids -> Keys \cup {Null}] /\ phase \in [Pids -> Phases]
      /\ todo \in [Pids -> SUBSET Files]
      /\ owner \in [Keys -> Pids \cup {Null}]
      /\ ownerSlot \in [Keys -> Slots \cup {Null}]
      /\ ownerEpoch \in [Keys -> Nat] /\ epochs \in [Slots -> Nat]
      /\ active \in Seq(Keys)
      /\ Null \notin Slots /\ Null \notin Keys /\ Null \notin Pids
  BY ConstantAssumption DEF StructInv, TypeOK
<1>00. \A q \in Pids : HoldsWell(q)
  BY <1>0 DEF WorkConsistent, HoldsWell
<1>1. ASSUME \A q \in Pids : HoldsWell(q)'
      PROVE  WorkConsistent'
  BY <1>1 DEF WorkConsistent, HoldsWell
<1>2. ASSUME UNCHANGED <<active, owner, ownerSlot, ownerEpoch, epochs, slot,
                         item, phase, todo, pstate>>
      PROVE  WorkConsistent'
  BY <1>0, <1>2 DEF WorkConsistent, Workers
<1>3. ASSUME NEW p \in Pids, Claim(p)
      PROVE  WorkConsistent'
  <2>1. PICK k \in Keys :
           /\ StartWork(p, k) /\ k \notin Range(active)
           /\ Range(active') = Range(active) \cup {k}
    BY <1>3, ClaimLists
  <2>2. /\ item' = [item EXCEPT ![p] = k]
        /\ owner' = [owner EXCEPT ![k] = p]
        /\ ownerSlot' = [ownerSlot EXCEPT ![k] = slot[p]]
        /\ ownerEpoch' = [ownerEpoch EXCEPT ![k] = epochs[slot[p]]]
        /\ UNCHANGED <<slot, pstate, epochs>>
        /\ p \in Workers
    BY <1>3, <2>1 DEF StartWork, Claim, slotVars, procVars, Serving, Workers
  <2>3. \/ phase' = [phase EXCEPT ![p] = "scan"] /\ todo' = [todo EXCEPT ![p] = Files]
        \/ phase' = [phase EXCEPT ![p] = "complete"] /\ todo' = [todo EXCEPT ![p] = {}]
    BY <2>1 DEF StartWork
  <2>4. Workers' = Workers
    BY <2>2 DEF Workers
  <2>5. HoldsWell(p)'
    BY <1>0, <2>1, <2>2, <2>3, <2>4 DEF HoldsWell
  <2>6. ASSUME NEW q \in Pids, q # p
        PROVE  HoldsWell(q)'
    <3>1. HoldsWell(q) /\ (item[q] # Null => item[q] # k /\ item[q] \in Keys)
      BY <1>0, <1>00, <2>1 DEF HoldsWell
    <3>2. /\ item'[q] = item[q] /\ phase'[q] = phase[q] /\ todo'[q] = todo[q]
      BY <1>0, <2>2, <2>3, <2>6
    <3>3. item[q] # Null => /\ owner'[item[q]] = owner[item[q]]
                            /\ ownerSlot'[item[q]] = ownerSlot[item[q]]
                            /\ ownerEpoch'[item[q]] = ownerEpoch[item[q]]
      BY <1>0, <2>2, <3>1
    <3>4. QED BY <2>1, <2>2, <2>4, <3>1, <3>2, <3>3 DEF HoldsWell
  <2>7. QED BY <1>1, <2>5, <2>6
<1>4. ASSUME NEW p \in Pids, Finish(p) \/ FinalRelease(p)
      PROVE  WorkConsistent'
  <2>1. item[p] # Null
    BY <1>4, <1>0 DEF WorkConsistent, Finish, FinalRelease
  <2>2. PICK complete \in BOOLEAN :
          Release(p, complete) /\ UNCHANGED <<slotVars, procVars>>
    BY <1>4 DEF Finish, FinalRelease
  <2> DEFINE k == item[p]
  <2>3. /\ k \in Keys /\ owner[k] = p
        /\ Range(active') = Range(active) \ {k}
    BY <1>0, <1>00, <2>1, <2>2, ReleaseLists DEF HoldsWell
  <2>4. /\ item' = [item EXCEPT ![p] = Null]
        /\ phase' = [phase EXCEPT ![p] = "idle"]
        /\ todo' = [todo EXCEPT ![p] = {}]
        /\ owner' = [owner EXCEPT ![k] = Null]
        /\ ownerSlot' = [ownerSlot EXCEPT ![k] = Null]
        /\ ownerEpoch' = [ownerEpoch EXCEPT ![k] = 0]
        /\ UNCHANGED <<slot, pstate, epochs>>
    BY <2>2 DEF Release, slotVars, procVars
  <2>5. Workers' = Workers
    BY <2>4 DEF Workers
  <2>6. HoldsWell(p)'
    BY <1>0, <2>4 DEF HoldsWell
  <2>7. ASSUME NEW q \in Pids, q # p
        PROVE  HoldsWell(q)'
    <3>1. HoldsWell(q) /\ (item[q] # Null => item[q] # k /\ item[q] \in Keys)
      BY <1>0, <1>00, <2>3, <2>7 DEF HoldsWell
    <3>2. /\ item'[q] = item[q] /\ phase'[q] = phase[q] /\ todo'[q] = todo[q]
      BY <1>0, <2>4, <2>7
    <3>3. item[q] # Null => /\ owner'[item[q]] = owner[item[q]]
                            /\ ownerSlot'[item[q]] = ownerSlot[item[q]]
                            /\ ownerEpoch'[item[q]] = ownerEpoch[item[q]]
      BY <1>0, <2>3, <2>4, <3>1
    <3>4. QED BY <2>3, <2>4, <2>5, <3>1, <3>2, <3>3 DEF HoldsWell
  <2>8. QED BY <1>1, <2>6, <2>7
<1>5. ASSUME NEW p \in Pids, Recover(p)
      PROVE  WorkConsistent'
  <2>1. /\ Range(active') = Range(active) \ Lost
        /\ \A k \in Lost : ~LooksOwned(k)
    BY <1>5, RecoverLists DEF Lost
  <2>2. /\ owner' = [k \in Keys |-> IF k \in Lost THEN Null ELSE owner[k]]
        /\ ownerSlot' = [k \in Keys |-> IF k \in Lost THEN Null ELSE ownerSlot[k]]
        /\ ownerEpoch' = [k \in Keys |-> IF k \in Lost THEN 0 ELSE ownerEpoch[k]]
        /\ UNCHANGED <<item, phase, todo, slot, pstate, epochs>>
    BY <1>5 DEF Recover, workVars, procVars, slotVars
  <2>3. Workers' = Workers
    BY <2>2 DEF Workers
  <2>4. ASSUME NEW q \in Pids
        PROVE  HoldsWell(q)'
    <3>1. HoldsWell(q) /\ (item[q] # Null => item[q] \in Keys)
      BY <1>0, <1>00
    <3>2. item[q] # Null => LooksOwned(item[q])
      BY HolderIsOwner DEF HolderKeepsTask
    <3>3. item[q] # Null => item[q] \notin Lost
      BY <2>1, <3>2
    <3>4. item[q] # Null => /\ owner'[item[q]] = owner[item[q]]
                            /\ ownerSlot'[item[q]] = ownerSlot[item[q]]
                            /\ ownerEpoch'[item[q]] = ownerEpoch[item[q]]
      BY <2>2, <3>1, <3>3
    <3>5. QED BY <2>1, <2>2, <2>3, <3>1, <3>3, <3>4 DEF HoldsWell
  <2>5. QED BY <1>1, <2>4
<1>6. ASSUME NEW p \in Pids,
             UNCHANGED <<active, owner, ownerSlot, ownerEpoch, epochs, slot,
                         item, pstate>>,
             phase[p] # "idle" /\ phase[p] # "complete",
             \A q \in Pids : q # p => phase'[q] = phase[q] /\ todo'[q] = todo[q],
             phase'[p] # "idle",
             phase'[p] = "complete" => todo'[p] = {}
      PROVE  WorkConsistent'
  <2>1. Workers' = Workers
    BY <1>6 DEF Workers
  <2>2. ASSUME NEW q \in Pids
        PROVE  HoldsWell(q)'
    BY <1>00, <1>6, <2>1 DEF HoldsWell
  <2>3. QED BY <1>1, <2>2
<1>7. ASSUME NEW p \in Pids,
             PostThread(p) \/ WalkDone(p) \/ (\E f \in Files : Visit(p, f))
               \/ (\E lost \in SUBSET Files : WalkError(p, lost))
      PROVE  WorkConsistent'
  <2>1. /\ UNCHANGED <<active, owner, ownerSlot, ownerEpoch, epochs, slot,
                       item, pstate>>
        /\ phase[p] # "idle" /\ phase[p] # "complete"
    BY <1>7 DEF PostThread, WalkDone, Visit, WalkError, Walking, zoneVars,
                slotVars, taskVars, procVars
  <2>2. /\ \A q \in Pids : q # p => phase'[q] = phase[q] /\ todo'[q] = todo[q]
        /\ phase'[p] # "idle"
        /\ phase'[p] = "complete" => todo'[p] = {}
    BY <1>0, <1>7, <2>1 DEF PostThread, WalkDone, Visit, WalkError, Phases
  <2>3. QED BY <1>6, <2>1, <2>2
<1>8. ASSUME NEW p \in Pids,
             UNCHANGED <<active, owner, ownerSlot, ownerEpoch, item, phase, todo>>,
             \A q \in Pids : q # p => pstate'[q] = pstate[q] /\ slot'[q] = slot[q],
             \A q \in Workers : q # p => epochs'[slot[q]] = epochs[slot[q]],
             p \in Workers => p \in Workers' /\ slot'[p] = slot[p]
                                /\ epochs'[slot[p]] = epochs[slot[p]]
      PROVE  WorkConsistent'
  <2>1. ASSUME NEW q \in Workers
        PROVE  q \in Workers' /\ slot'[q] = slot[q] /\ epochs'[slot[q]] = epochs[slot[q]]
    BY <1>8, <2>1 DEF Workers
  <2>2. ASSUME NEW q \in Pids
        PROVE  HoldsWell(q)'
    BY <1>00, <1>8, <2>1 DEF HoldsWell
  <2>3. QED BY <1>1, <2>2
<1>9. ASSUME NEW p \in Pids, InitWorker(p)
      PROVE  WorkConsistent'
  <2>1. /\ UNCHANGED <<active, owner, ownerSlot, ownerEpoch, item, phase, todo, slot>>
        /\ pstate[p] \in {"booting", "up"}
        /\ pstate' \in {[pstate EXCEPT ![p] = "fatal"], [pstate EXCEPT ![p] = "up"]}
        /\ \/ epochs' = epochs
           \/ epochs' = [epochs EXCEPT ![slot[p]] = epochs[slot[p]] + 1]
        /\ ~OpensEpoch(p) =>
              pstate' = [pstate EXCEPT ![p] = "up"] /\ epochs' = epochs
    <3>1. [epochs EXCEPT ![slot[p]] = epochs[slot[p]]] = epochs
      BY <1>0
    <3>2. UNCHANGED <<active, owner, ownerSlot, ownerEpoch, item, phase, todo, slot>>
          /\ pstate[p] \in {"booting", "up"}
      BY <1>9 DEF InitWorker, zoneVars, taskVars, workVars
    <3>3. /\ pstate' \in {[pstate EXCEPT ![p] = "fatal"], [pstate EXCEPT ![p] = "up"]}
          /\ ~OpensEpoch(p) => pstate' = [pstate EXCEPT ![p] = "up"]
      BY <1>9, Zenon DEF InitWorker
    <3>4. CASE OpensEpoch(p)
      <4>1. \/ epochs' = epochs
            \/ epochs' = [epochs EXCEPT ![slot[p]] = epochs[slot[p]] + 1]
        BY <1>9, <3>4, Zenon DEF InitWorker, slotVars
      <4>2. QED BY <3>2, <3>3, <3>4, <4>1
    <3>5. CASE ~OpensEpoch(p)
      <4>1. epochs' = epochs
        BY <1>9, <3>1, <3>5, Zenon DEF InitWorker
      <4>2. QED BY <3>2, <3>3, <3>5, <4>1
    <3>6. QED BY <3>4, <3>5
  <2>2. slot[p] \in Slots
    BY <1>0, <2>1 DEF SlotsConsistent
  <2>3. \A q \in Workers : q # p => slot[q] \in Slots /\ slot[q] # slot[p]
    BY <1>0, <2>2 DEF SlotsConsistent, Workers
  <2>4. p \in Workers => ~OpensEpoch(p)
    BY <1>0, <2>1 DEF SlotsConsistent, Workers, OpensEpoch
  <2>5. \A q \in Workers : q # p => epochs'[slot[q]] = epochs[slot[q]]
    BY <1>0, <2>1, <2>2, <2>3
  <2>6. p \in Workers => p \in Workers' /\ epochs' = epochs
    BY <1>0, <2>1, <2>4 DEF Workers
  <2>7. \A q \in Pids : q # p => pstate'[q] = pstate[q]
    BY <1>0, <2>1
  <2>8. QED BY <1>8, <2>1, <2>5, <2>6, <2>7
<1>10. ASSUME NEW p \in Pids,
              (\E s \in Slots, c \in Confs : Spawn(p, s, c))
                \/ Quit(p) \/ Terminate(p) \/ OtherStart(p) \/ OtherExit(p)
       PROVE  WorkConsistent'
  <2>1. /\ UNCHANGED <<active, owner, ownerSlot, ownerEpoch, epochs, item,
                       phase, todo>>
        /\ \A q \in Pids : q # p => pstate'[q] = pstate[q] /\ slot'[q] = slot[q]
        /\ p \in Workers => p \in Workers' /\ slot'[p] = slot[p]
    BY <1>0, <1>10 DEF Spawn, Quit, Terminate, OtherStart, OtherExit, Workers,
                       zoneVars, slotVars, taskVars, workVars
  <2>2. QED BY <1>8, <2>1
<1>11. ASSUME NEW p \in Pids, ExitWorker(p) \/ Crash(p)
       PROVE  WorkConsistent'
  <2>1. /\ UNCHANGED <<active, owner, ownerSlot, ownerEpoch, epochs>>
        /\ Gone(p)
    BY <1>11 DEF ExitWorker, Crash, zoneVars, slotVars, taskVars
  <2>2. /\ \A q \in Pids : q # p =>
             /\ pstate'[q] = pstate[q] /\ slot'[q] = slot[q]
             /\ item'[q] = item[q] /\ phase'[q] = phase[q] /\ todo'[q] = todo[q]
        /\ item'[p] = Null /\ phase'[p] = "idle"
    BY <1>0, <2>1 DEF Gone
  <2>3. ASSUME NEW q \in Pids
        PROVE  HoldsWell(q)'
    BY <1>00, <2>1, <2>2 DEF HoldsWell, Workers
  <2>4. QED BY <1>1, <2>3
<1>12. ASSUME NEW p \in Pids, WorkerStep(p)
       PROVE  WorkConsistent'
  <2>1. CASE (\E k \in Keys : Coalesce(p, k) \/ Admit(p, k)) \/ RotateDelayed(p)
    <3>1. UNCHANGED <<active, owner, ownerSlot, ownerEpoch, epochs, slot,
                      item, phase, todo, pstate>>
      BY <2>1 DEF Coalesce, Admit, RotateDelayed, zoneVars, slotVars, taskVars,
                  procVars, workVars
    <3>2. QED BY <1>2, <3>1
  <2>2. QED BY <1>3, <1>4, <1>5, <1>7, <1>9, <1>11, <1>12, <2>1 DEF WorkerStep
<1>13. ASSUME NEW p \in Pids, ProcessStep(p)
       PROVE  WorkConsistent'
  BY <1>10, <1>11, <1>13 DEF ProcessStep
<1>14. ASSUME \/ \E k \in Keys : RetryDue(k)
              \/ \E f \in Files : Store(f) \/ Evict(f)
              \/ UNCHANGED vars
       PROVE  WorkConsistent'
  <2>1. UNCHANGED <<active, owner, ownerSlot, ownerEpoch, epochs, slot,
                    item, phase, todo, pstate>>
    BY <1>14 DEF RetryDue, Store, Evict, vars, zoneVars, slotVars, taskVars,
                 procVars, workVars
  <2>2. QED BY <1>2, <2>1
<1>15. QED BY <1>12, <1>13, <1>14 DEF Next

-----------------------------------------------------------------------------
(* The structural invariant *)

\* The initial state satisfies the structural invariant.
LEMMA StructInit == Init => StructInv
<1> SUFFICES ASSUME Init PROVE StructInv
  OBVIOUS
<1>1. Range(<<>>) = {} /\ IsInjective(<<>>) /\ Len(<<>>) = 0 /\ <<>> \in Seq(Keys)
  BY DEF Range, IsInjective
<1>2. TypeOK
  BY <1>1, ConstantAssumption DEF Init, TypeOK, PStates, Phases
<1>3. QueueConsistent /\ WithinCapacity
  BY <1>1, ConstantAssumption DEF Init, QueueConsistent, WithinCapacity
<1>4. SlotsConsistent /\ WorkConsistent
  BY DEF Init, SlotsConsistent, WorkConsistent, Workers
<1>5. QED BY <1>2, <1>3, <1>4 DEF StructInv

\* Every step preserves it.
LEMMA StructStep == StructInv /\ [Next]_vars => StructInv'
  BY TypeStep, QueueStep, SlotsStep, WorkStep DEF StructInv

\* The structural invariant holds in every reachable state.
THEOREM StructInvariant == Spec => []StructInv
  BY StructInit, StructStep, PTL DEF Spec

\* Every variable of the queue keeps a value of its type: retry counters never
\* pass the limit of the code, counters never wrap below zero.
THEOREM TypeCorrect == Spec => []TypeOK
<1>1. StructInv => TypeOK
  BY DEF StructInv
<1>2. QED BY <1>1, StructInvariant, PTL

\* Enqueue, claim, replay, retry, completion and recovery keep the two lists,
\* the index, the counters and the running flags in step.
THEOREM ListsMatchIndex == Spec => []QueueConsistent
<1>1. StructInv => QueueConsistent
  BY DEF StructInv
<1>2. QED BY <1>1, StructInvariant, PTL

\* Whatever is replayed, retried or recovered, no more than MaxSize tasks are
\* ever accepted at a time.
THEOREM AdmissionBound == Spec => []WithinCapacity
<1>1. StructInv => WithinCapacity
  BY DEF StructInv
<1>2. QED BY <1>1, StructInvariant, PTL

\* No task is taken from a live worker that walks for it, whatever crashes,
\* restarts and process id reuse go on around it.
THEOREM LiveHolderKeepsTask == Spec => []HolderKeepsTask
  BY HolderIsOwner, StructInvariant, PTL

-----------------------------------------------------------------------------
(* What the queue promises, on top of StructInv: the wait time is that of a *)
(* pending task, a successor exposes its predecessor's tasks, the next pass *)
(* uses the newest protection, no purge is lost                             *)

\* Facts about types every proof below starts from.
LEMMA BasicFacts ==
  ASSUME StructInv
  PROVE  /\ TypeOK /\ QueueConsistent /\ SlotsConsistent /\ WorkConsistent
         /\ index = Range(pending) \cup Range(active)
         /\ busy = Range(active)
         /\ Range(pending) \cap Range(active) = {}
         /\ index \subseteq Keys
         /\ Null \notin Keys /\ Null \notin Slots /\ Null \notin Confs
         /\ Null \notin Pids
  BY ConstantAssumption DEF StructInv, TypeOK, QueueConsistent

\* A task has one holder.
LEMMA OneHolder ==
  ASSUME StructInv, NEW p \in Pids, NEW q \in Pids,
         item[p] # Null, item[p] = item[q]
  PROVE  p = q
  BY DEF StructInv, WorkConsistent

-----------------------------------------------------------------------------
(* Wait time *)

\* Every step that changes the pending list leaves queue->oldest on a task of
\* the list, unless the list is empty.
LEMMA WaitTimeStep ==
  ASSUME StructInv, WaitTimeOfPending, [Next]_vars
  PROVE  WaitTimeOfPending'
<1> USE DEF WaitTimeOfPending
<1>1. ASSUME NEW p \in Pids, NEW k \in Keys, Admit(p, k)
      PROVE  WaitTimeOfPending'
  <2>1. oldest' = (IF pending = <<>> THEN k ELSE oldest)
        /\ Range(pending') = Range(pending) \cup {k}
    BY <1>1, AdmitLists DEF Admit, OldestAfter
  <2>2. QED BY <2>1
<1>2. ASSUME NEW p \in Pids, RotateDelayed(p)
      PROVE  WaitTimeOfPending'
  BY <1>2, RotateLists DEF RotateDelayed
<1>3. ASSUME NEW p \in Pids, Claim(p)
      PROVE  WaitTimeOfPending'
  <2>1. /\ oldest' = IF pending' = <<>> THEN oldest ELSE Head(pending')
        /\ pending' \in Seq(Keys)
    BY <1>3, ClaimLists
  <2>2. pending' # <<>> => Head(pending') \in Range(pending')
    BY <2>1 DEF Range
  <2>3. QED BY <2>1, <2>2
<1>4. ASSUME NEW p \in Pids, Finish(p) \/ FinalRelease(p)
      PROVE  WaitTimeOfPending'
  <2>1. item[p] # Null
    BY <1>4 DEF StructInv, WorkConsistent, Finish, FinalRelease
  <2>2. PICK complete \in BOOLEAN : Release(p, complete)
    BY <1>4 DEF Finish, FinalRelease
  <2>3. \/ Requeued(item[p]) /\ Range(pending') = Range(pending) \cup {item[p]}
        \/ Retired(item[p]) /\ pending' = pending
    BY <2>1, <2>2, ReleaseLists
  <2>4. QED BY <2>3 DEF Requeued, Retired, OldestAfter
<1>5. ASSUME NEW p \in Pids, Recover(p)
      PROVE  WaitTimeOfPending'
  BY <1>5, RecoverLists
<1>6. ASSUME UNCHANGED <<pending, oldest>>
      PROVE  WaitTimeOfPending'
  BY <1>6
<1>7. ASSUME NEW p \in Pids, WorkerStep(p)
      PROVE  WaitTimeOfPending'
  <2>1. ASSUME \/ \E k \in Keys : Coalesce(p, k)
               \/ PostThread(p) \/ WalkDone(p)
               \/ \E f \in Files : Visit(p, f)
               \/ \E lost \in SUBSET Files : WalkError(p, lost)
               \/ InitWorker(p) \/ ExitWorker(p)
        PROVE  UNCHANGED <<pending, oldest>>
    BY <2>1 DEF Coalesce, PostThread, WalkDone, Visit, WalkError, InitWorker,
                ExitWorker, zoneVars
  <2>2. QED BY <1>1, <1>2, <1>3, <1>4, <1>5, <1>6, <1>7, <2>1 DEF WorkerStep
<1>8. ASSUME \/ \E p \in Pids : ProcessStep(p)
             \/ \E k \in Keys : RetryDue(k)
             \/ \E f \in Files : Store(f) \/ Evict(f)
             \/ UNCHANGED vars
      PROVE  UNCHANGED <<pending, oldest>>
  BY <1>8 DEF ProcessStep, Spawn, Quit, Terminate, Crash, OtherStart, OtherExit,
              RetryDue, Store, Evict, vars, zoneVars
<1>9. QED BY <1>6, <1>7, <1>8 DEF Next

-----------------------------------------------------------------------------
(* Epochs *)

\* EpochsConsistent of one active task.
MarkedWell(k) ==
    /\ ownerSlot[k] \in Slots
    /\ ownerEpoch[k] <= epochs[ownerSlot[k]]
    /\ \A p \in Workers :
          slot[p] = ownerSlot[k] /\ epochs[slot[p]] = ownerEpoch[k] => item[p] = k

\* Epochs only grow, and in the present epoch of a slot only the task of its
\* worker is marked: a worker starts with a new epoch and one task at a time.
LEMMA EpochsStep ==
  ASSUME StructInv, EpochsConsistent, [Next]_vars
  PROVE  EpochsConsistent'
<1>0. /\ SlotsConsistent /\ WorkConsistent
      /\ pstate \in [Pids -> PStates] /\ slot \in [Pids -> Slots \cup {Null}]
      /\ item \in [Pids -> Keys \cup {Null}]
      /\ ownerSlot \in [Keys -> Slots \cup {Null}]
      /\ ownerEpoch \in [Keys -> Nat] /\ epochs \in [Slots -> Nat]
      /\ Range(active) \subseteq Keys
      /\ Null \notin Slots /\ Null \notin Keys
  BY BasicFacts DEF TypeOK
<1>00. \A k \in Range(active) : k \in Keys /\ MarkedWell(k)
  BY <1>0 DEF EpochsConsistent, MarkedWell
<1>1. ASSUME \A k \in Range(active)' : MarkedWell(k)'
      PROVE  EpochsConsistent'
  BY <1>1 DEF EpochsConsistent, MarkedWell
<1>2. ASSUME NEW p \in Pids, Claim(p)
      PROVE  EpochsConsistent'
  <2>1. PICK k \in Keys :
           /\ StartWork(p, k) /\ k \notin Range(active)
           /\ Range(active') = Range(active) \cup {k}
    BY <1>2, ClaimLists
  <2>2. /\ item' = [item EXCEPT ![p] = k]
        /\ ownerSlot' = [ownerSlot EXCEPT ![k] = slot[p]]
        /\ ownerEpoch' = [ownerEpoch EXCEPT ![k] = epochs[slot[p]]]
        /\ UNCHANGED <<slot, pstate, epochs>>
        /\ p \in Workers /\ item[p] = Null
    BY <1>2, <2>1 DEF StartWork, Claim, slotVars, procVars, Serving, Workers
  <2>3. Workers' = Workers
    BY <2>2 DEF Workers
  <2>4. slot[p] \in Slots /\ \A q \in Workers : slot[q] = slot[p] => q = p
    BY <1>0, <2>2 DEF SlotsConsistent, Workers
  <2>5. MarkedWell(k)'
    BY <1>0, <2>2, <2>3, <2>4 DEF MarkedWell
  <2>6. ASSUME NEW j \in Range(active)
        PROVE  MarkedWell(j)'
    <3>1. j # k /\ j \in Keys /\ MarkedWell(j)
      BY <1>00, <2>1
    <3>2. ownerSlot'[j] = ownerSlot[j] /\ ownerEpoch'[j] = ownerEpoch[j]
      BY <1>0, <2>2, <3>1
    <3>3. \A q \in Workers : item'[q] = IF q = p THEN k ELSE item[q]
      BY <1>0, <2>2 DEF Workers
    <3>4. QED BY <1>0, <2>2, <2>3, <3>1, <3>2, <3>3 DEF MarkedWell
  <2>7. QED BY <1>1, <2>1, <2>5, <2>6
<1>3. ASSUME NEW p \in Pids, Finish(p) \/ FinalRelease(p)
      PROVE  EpochsConsistent'
  <2>1. item[p] # Null
    BY <1>3, <1>0 DEF WorkConsistent, Finish, FinalRelease
  <2>2. PICK complete \in BOOLEAN :
          Release(p, complete) /\ UNCHANGED <<slotVars, procVars>>
    BY <1>3 DEF Finish, FinalRelease
  <2>3. Range(active') = Range(active) \ {item[p]}
    BY <2>1, <2>2, ReleaseLists
  <2>4. /\ item' = [item EXCEPT ![p] = Null]
        /\ ownerSlot' = [ownerSlot EXCEPT ![item[p]] = Null]
        /\ ownerEpoch' = [ownerEpoch EXCEPT ![item[p]] = 0]
        /\ UNCHANGED <<slot, pstate, epochs>>
    BY <2>2 DEF Release, slotVars, procVars
  <2>5. Workers' = Workers
    BY <2>4 DEF Workers
  <2>6. ASSUME NEW j \in Range(active'), j # item[p]
        PROVE  MarkedWell(j)'
    <3>1. j \in Keys /\ MarkedWell(j)
      BY <1>00, <2>3
    <3>2. ownerSlot'[j] = ownerSlot[j] /\ ownerEpoch'[j] = ownerEpoch[j]
      BY <1>0, <2>4, <2>6, <3>1
    <3>3. \A q \in Workers : item'[q] = IF q = p THEN Null ELSE item[q]
      BY <1>0, <2>4 DEF Workers
    <3>4. QED BY <2>4, <2>5, <2>6, <3>1, <3>2, <3>3 DEF MarkedWell
  <2>7. QED BY <1>1, <2>3, <2>6
<1>4. ASSUME NEW p \in Pids, Recover(p)
      PROVE  EpochsConsistent'
  <2>1. Range(active') = Range(active) \ Lost
    BY <1>4, RecoverLists
  <2>2. /\ ownerSlot' = [k \in Keys |-> IF k \in Lost THEN Null ELSE ownerSlot[k]]
        /\ ownerEpoch' = [k \in Keys |-> IF k \in Lost THEN 0 ELSE ownerEpoch[k]]
        /\ UNCHANGED <<item, slot, pstate, epochs>>
    BY <1>4 DEF Recover, workVars, procVars, slotVars
  <2>3. Workers' = Workers
    BY <2>2 DEF Workers
  <2>4. ASSUME NEW j \in Range(active')
        PROVE  MarkedWell(j)'
    <3>1. j \in Keys /\ j \notin Lost /\ MarkedWell(j)
      BY <1>00, <2>1
    <3>2. ownerSlot'[j] = ownerSlot[j] /\ ownerEpoch'[j] = ownerEpoch[j]
      BY <2>2, <3>1
    <3>3. QED BY <2>2, <2>3, <3>1, <3>2 DEF MarkedWell
  <2>5. QED BY <1>1, <2>4
<1>5. ASSUME UNCHANGED <<active, ownerSlot, ownerEpoch, item, slot>>,
             \A s \in Slots : epochs'[s] \in Nat /\ epochs[s] <= epochs'[s],
             \A q \in Workers' : \/ q \in Workers
                                 \/ epochs'[slot[q]] > epochs[slot[q]]
      PROVE  EpochsConsistent'
  <2>1. ASSUME NEW j \in Range(active)
        PROVE  MarkedWell(j)'
    <3>1. j \in Keys /\ MarkedWell(j)
      BY <1>00
    <3>2. ownerSlot[j] \in Slots /\ ownerEpoch[j] <= epochs[ownerSlot[j]]
          /\ ownerEpoch[j] \in Nat
      BY <1>0, <3>1 DEF MarkedWell
    <3>3. ASSUME NEW q \in Workers', slot[q] = ownerSlot[j],
                 epochs'[slot[q]] = ownerEpoch[j]
          PROVE  item[q] = j
      <4>1. epochs[slot[q]] \in Nat /\ epochs[slot[q]] = ownerEpoch[j]
        BY <1>0, <1>5, <3>2, <3>3
      <4>2. q \in Workers
        BY <1>5, <3>3, <4>1
      <4>3. QED BY <3>1, <3>3, <4>1, <4>2 DEF MarkedWell
    <3>4. ownerEpoch[j] <= epochs'[ownerSlot[j]]
      BY <1>0, <1>5, <3>2
    <3>5. QED BY <1>5, <3>2, <3>3, <3>4 DEF MarkedWell
  <2>2. QED BY <1>1, <1>5, <2>1
<1>6. ASSUME NEW p \in Pids, InitWorker(p)
      PROVE  EpochsConsistent'
  <2>1. /\ UNCHANGED <<active, ownerSlot, ownerEpoch, item, slot>>
        /\ pstate[p] \in {"booting", "up"}
    BY <1>6 DEF InitWorker, zoneVars, taskVars, workVars
  <2>2. slot[p] \in Slots
    BY <1>0, <2>1 DEF SlotsConsistent
  <2>3. p \notin Workers => OpensEpoch(p)
    BY <2>1 DEF Workers, OpensEpoch
  <2>4. [epochs EXCEPT ![slot[p]] = epochs[slot[p]]] = epochs
    BY <1>0
  <2>5. CASE pstate' = [pstate EXCEPT ![p] = "fatal"] /\ epochs' = epochs
    <3>1. Workers' \subseteq Workers
      BY <1>0, <2>5 DEF Workers
    <3>2. QED BY <1>0, <1>5, <2>1, <2>5, <3>1
  <2>6. CASE /\ pstate' = [pstate EXCEPT ![p] = "up"]
             /\ OpensEpoch(p)
             /\ epochs' = [epochs EXCEPT ![slot[p]] = epochs[slot[p]] + 1]
    <3>1. \A q \in Workers' : q \in Workers \/ q = p
      BY <1>0, <2>6 DEF Workers
    <3>2. \A s \in Slots : epochs'[s] \in Nat /\ epochs[s] <= epochs'[s]
      BY <1>0, <2>2, <2>6
    <3>3. epochs'[slot[p]] > epochs[slot[p]]
      BY <1>0, <2>2, <2>6
    <3>4. QED BY <1>5, <2>1, <3>1, <3>2, <3>3
  <2>7. CASE /\ pstate' = [pstate EXCEPT ![p] = "up"]
             /\ ~OpensEpoch(p) /\ epochs' = epochs
    <3>1. Workers' \subseteq Workers
      BY <1>0, <2>3, <2>7 DEF Workers
    <3>2. QED BY <1>0, <1>5, <2>1, <2>7, <3>1
  <2>8. CASE OpensEpoch(p)
    <3>1. \/ pstate' = [pstate EXCEPT ![p] = "fatal"] /\ epochs' = epochs
          \/ /\ pstate' = [pstate EXCEPT ![p] = "up"]
             /\ epochs' = [epochs EXCEPT ![slot[p]] = epochs[slot[p]] + 1]
      BY <1>6, <2>8, Zenon DEF InitWorker, slotVars
    <3>2. QED BY <2>5, <2>6, <2>8, <3>1
  <2>9. CASE ~OpensEpoch(p)
    <3>1. pstate' = [pstate EXCEPT ![p] = "up"] /\ epochs' = epochs
      BY <1>6, <2>4, <2>9, Zenon DEF InitWorker
    <3>2. QED BY <2>7, <2>9, <3>1
  <2>10. QED BY <2>8, <2>9
<1>7. ASSUME NEW p \in Pids, pstate' = [pstate EXCEPT ![p] = "booting"],
             UNCHANGED <<active, ownerSlot, ownerEpoch, item, epochs>>,
             \A q \in Pids : q # p => slot'[q] = slot[q]
      PROVE  EpochsConsistent'
  <2>1. \A q \in Workers' : q \in Workers /\ slot'[q] = slot[q]
    BY <1>0, <1>7 DEF Workers
  <2>2. \A j \in Range(active) : MarkedWell(j)'
    BY <1>00, <1>7, <2>1 DEF MarkedWell
  <2>3. QED BY <1>1, <1>7, <2>2
<1>8. ASSUME NEW p \in Pids, ExitWorker(p) \/ Crash(p)
      PROVE  EpochsConsistent'
  <2>1. /\ UNCHANGED <<active, ownerSlot, ownerEpoch, epochs>>
        /\ Gone(p)
    BY <1>8 DEF ExitWorker, Crash, zoneVars, slotVars, taskVars
  <2>2. \A q \in Workers' :
           q \in Workers /\ slot'[q] = slot[q] /\ item'[q] = item[q]
    BY <1>0, <2>1 DEF Gone, Workers
  <2>3. \A j \in Range(active) : MarkedWell(j)'
    BY <1>00, <2>1, <2>2 DEF MarkedWell
  <2>4. QED BY <1>1, <2>1, <2>3
<1>9. ASSUME UNCHANGED <<active, ownerSlot, ownerEpoch, item, slot, epochs>>,
             Workers' \subseteq Workers
      PROVE  EpochsConsistent'
  BY <1>0, <1>5, <1>9
<1>10. ASSUME NEW p \in Pids, WorkerStep(p)
       PROVE  EpochsConsistent'
  <2>1. ASSUME \/ \E k \in Keys : Coalesce(p, k) \/ Admit(p, k)
               \/ RotateDelayed(p) \/ PostThread(p) \/ WalkDone(p)
               \/ \E f \in Files : Visit(p, f)
               \/ \E lost \in SUBSET Files : WalkError(p, lost)
        PROVE  /\ UNCHANGED <<active, ownerSlot, ownerEpoch, item, slot, epochs>>
               /\ Workers' \subseteq Workers
    BY <2>1 DEF Coalesce, Admit, RotateDelayed, PostThread, WalkDone, Visit,
                WalkError, zoneVars, slotVars, taskVars, procVars, workVars,
                Workers
  <2>2. QED BY <1>2, <1>3, <1>4, <1>6, <1>8, <1>9, <1>10, <2>1 DEF WorkerStep
<1>11. ASSUME NEW p \in Pids, ProcessStep(p)
       PROVE  EpochsConsistent'
  <2>1. CASE \E s \in Slots, c \in Confs : Spawn(p, s, c)
    <3>1. /\ pstate' = [pstate EXCEPT ![p] = "booting"]
          /\ UNCHANGED <<active, ownerSlot, ownerEpoch, item, epochs>>
          /\ \A q \in Pids : q # p => slot'[q] = slot[q]
      BY <1>0, <2>1 DEF Spawn, zoneVars, slotVars, taskVars, workVars
    <3>2. QED BY <1>7, <3>1
  <2>2. CASE Quit(p) \/ Terminate(p) \/ OtherStart(p) \/ OtherExit(p)
    <3>1. /\ UNCHANGED <<active, ownerSlot, ownerEpoch, item, slot, epochs>>
          /\ Workers' \subseteq Workers
      BY <1>0, <2>2 DEF Quit, Terminate, OtherStart, OtherExit, Workers,
                        zoneVars, slotVars, taskVars, workVars
    <3>2. QED BY <1>9, <3>1
  <2>3. QED BY <1>8, <1>11, <2>1, <2>2 DEF ProcessStep
<1>12. ASSUME \/ \E k \in Keys : RetryDue(k)
              \/ \E f \in Files : Store(f) \/ Evict(f)
              \/ UNCHANGED vars
       PROVE  /\ UNCHANGED <<active, ownerSlot, ownerEpoch, item, slot, epochs>>
              /\ Workers' \subseteq Workers
  BY <1>12 DEF RetryDue, Store, Evict, vars, zoneVars, slotVars, taskVars,
               procVars, workVars, Workers
<1>13. QED BY <1>9, <1>10, <1>11, <1>12 DEF Next

\* Marks that only the holder carries expose the tasks nobody holds.
LEMMA EpochsExpose ==
  ASSUME StructInv, EpochsConsistent
  PROVE  SuccessorExposesOrphan
<1> SUFFICES ASSUME NEW k \in Keys, NEW p \in Pids, Orphan(k), Serving(p),
                    slot[p] = ownerSlot[k], LooksOwned(k)
             PROVE  FALSE
  BY DEF SuccessorExposesOrphan
<1>1. p \in Workers /\ k \in Range(active) /\ item[p] # k
  BY DEF Orphan, Serving, Workers
<1>2. epochs[slot[p]] = ownerEpoch[k]
  BY DEF LooksOwned
<1>3. QED BY <1>1, <1>2 DEF EpochsConsistent

-----------------------------------------------------------------------------
(* Protections and accepted purges *)

\* The state of one key's purge: what it will protect and what it is due.
KeyProtected(k) ==
    /\ k \in rerun => k \in busy
    /\ k \in rerun <=> nextProtection[k] # Null
    /\ k \in index =>
          /\ protection[k] \in Confs /\ wanted[k] \in Confs
          /\ IF k \in busy /\ nextProtection[k] # Null
                THEN nextProtection[k] = wanted[k]
                ELSE protection[k] = wanted[k]

PassProtected(p) ==
    item[p] # Null /\ item[p] \notin rerun => walkProtection[p] = wanted[item[p]]

DueProtected(k, f) ==
    <<k, f>> \in due => f \in (files \cap Match[k]) \ Protected[wanted[k]]

KeyDue(k, f) ==
    <<k, f>> \in due =>
        /\ k \in index
        /\ \/ k \in Range(pending) \cup rerun
           \/ \A p \in Pids : item[p] = k => f \in todo[p] \/ p \in failed

\* What is proved of protections and of accepted purges, key by key.
PurgeInv ==
    /\ \A k \in Keys : KeyProtected(k)
    /\ \A p \in Pids : PassProtected(p)
    /\ \A k \in Keys, f \in Files : DueProtected(k, f) /\ KeyDue(k, f)

\* The three invariants are PurgeInv, conjunct by conjunct.
LEMMA PurgeInvMeans ==
  ASSUME StructInv
  PROVE  PurgeInv <=> ProtectionConsistent /\ NewestProtection /\ NoLostPurge
<1>1. index \subseteq Keys /\ rerun \subseteq Keys
  BY DEF StructInv, TypeOK
<1>2. ASSUME PurgeInv
      PROVE  ProtectionConsistent /\ NewestProtection /\ NoLostPurge
  <2>1. ProtectionConsistent
    BY <1>1, <1>2 DEF PurgeInv, KeyProtected, PassProtected, DueProtected,
                      ProtectionConsistent
  <2>2. NewestProtection
    BY <1>1, <1>2 DEF PurgeInv, KeyProtected, NewestProtection
  <2>3. NoLostPurge
    BY <1>2 DEF PurgeInv, KeyDue, NoLostPurge
  <2>4. QED BY <2>1, <2>2, <2>3
<1>3. ASSUME ProtectionConsistent, NewestProtection, NoLostPurge
      PROVE  PurgeInv
  <2>1. \A k \in Keys : KeyProtected(k)
    BY <1>1, <1>3 DEF KeyProtected, ProtectionConsistent, NewestProtection
  <2>2. \A p \in Pids : PassProtected(p)
    BY <1>3 DEF PassProtected, ProtectionConsistent
  <2>3. \A k \in Keys, f \in Files : DueProtected(k, f) /\ KeyDue(k, f)
    BY <1>3 DEF DueProtected, KeyDue, ProtectionConsistent, NoLostPurge
  <2>4. QED BY <2>1, <2>2, <2>3 DEF PurgeInv
<1>4. QED BY <1>2, <1>3

\* A purge of an indexed key: the task is pending or will be replayed, with
\* the protection of this purge.
LEMMA CoalescePurge ==
  ASSUME StructInv, PurgeInv, NEW p \in Pids, NEW k \in Keys, Coalesce(p, k)
  PROVE  PurgeInv'
<1> DEFINE c == conf[p]
<1>1. /\ TypeOK /\ index = Range(pending) \cup Range(active)
      /\ busy = Range(active) /\ Null \notin Confs /\ Null \notin Keys
  BY BasicFacts
<1>2. c \in Confs
  BY DEF StructInv, SlotsConsistent, Coalesce, Serving
<1>3. /\ k \in index /\ UNCHANGED <<index, pending, active, busy, files, item,
                                     todo, failed, walkProtection>>
      /\ due' = Others(k) \cup Asked(k, c)
      /\ wanted' = [wanted EXCEPT ![k] = c]
  BY DEF Coalesce, Accept, zoneVars, workVars
<1>4. \/ /\ k \in busy
         /\ rerun' = rerun \cup {k}
         /\ nextProtection' = [nextProtection EXCEPT ![k] = c]
         /\ protection' = protection
      \/ /\ k \notin busy
         /\ protection' = [protection EXCEPT ![k] = c]
         /\ rerun' = rerun /\ nextProtection' = nextProtection
  BY DEF Coalesce
<1> HIDE DEF c
<1>5. wanted'[k] = c /\ \A j \in Keys : j # k => wanted'[j] = wanted[j]
  BY <1>1, <1>3 DEF TypeOK
<1>6. \A j \in Keys : j # k =>
         /\ protection'[j] = protection[j]
         /\ nextProtection'[j] = nextProtection[j]
         /\ j \in rerun' <=> j \in rerun
  BY <1>1, <1>4 DEF TypeOK
<1>7. ASSUME NEW j \in Keys
      PROVE  KeyProtected(j)'
  <2>1. CASE j # k
    <3>1. KeyProtected(j) /\ index' = index /\ busy' = busy
      BY <1>3 DEF PurgeInv
    <3>2. /\ protection'[j] = protection[j] /\ nextProtection'[j] = nextProtection[j]
          /\ j \in rerun' <=> j \in rerun
          /\ wanted'[j] = wanted[j]
      BY <1>5, <1>6, <2>1
    <3>3. QED BY <3>1, <3>2 DEF KeyProtected
  <2>2. CASE j = k /\ k \in busy
    BY <1>1, <1>2, <1>3, <1>4, <1>5, <2>2 DEF PurgeInv, KeyProtected, TypeOK
  <2>3. CASE j = k /\ k \notin busy
    BY <1>1, <1>2, <1>3, <1>4, <1>5, <2>3 DEF PurgeInv, KeyProtected, TypeOK
  <2>4. QED BY <2>1, <2>2, <2>3
<1>8. ASSUME NEW q \in Pids
      PROVE  PassProtected(q)'
  <2>1. item[q] # Null => item[q] \in Keys /\ item[q] \in busy
    BY <1>1 DEF StructInv, WorkConsistent, TypeOK
  <2>2. QED BY <1>3, <1>4, <1>5, <1>6, <2>1 DEF PurgeInv, PassProtected
<1>9. ASSUME NEW j \in Keys, NEW f \in Files
      PROVE  DueProtected(j, f)' /\ KeyDue(j, f)'
  <2>1. CASE j = k
    <3>1. <<k, f>> \in due' => f \in (files \cap Match[k]) \ Protected[c]
      BY <1>3 DEF Others, Asked
    <3>2. k \in Range(pending) \/ k \in rerun'
      BY <1>1, <1>3, <1>4
    <3>3. QED BY <1>3, <1>5, <2>1, <3>1, <3>2 DEF DueProtected, KeyDue
  <2>2. CASE j # k
    <3>1. <<j, f>> \in due' => <<j, f>> \in due
      BY <1>3, <2>2 DEF Others, Asked
    <3>2. QED BY <1>3, <1>5, <1>6, <2>2, <3>1 DEF PurgeInv, DueProtected, KeyDue
  <2>3. QED BY <2>1, <2>2
<1>10. QED BY <1>7, <1>8, <1>9 DEF PurgeInv

\* A purge of a new key: the task is pending.
LEMMA AdmitPurge ==
  ASSUME StructInv, PurgeInv, NEW p \in Pids, NEW k \in Keys, Admit(p, k)
  PROVE  PurgeInv'
<1> DEFINE c == conf[p]
<1>1. /\ TypeOK /\ index = Range(pending) \cup Range(active)
      /\ busy = Range(active) /\ Null \notin Confs /\ Null \notin Keys
  BY BasicFacts
<1>2. c \in Confs
  BY DEF StructInv, SlotsConsistent, Admit, Serving
<1>3. /\ k \notin index /\ index' = index \cup {k}
      /\ UNCHANGED <<active, busy, rerun, nextProtection, files, item,
                     todo, failed, walkProtection>>
      /\ due' = Others(k) \cup Asked(k, c)
      /\ wanted' = [wanted EXCEPT ![k] = c]
      /\ protection' = [protection EXCEPT ![k] = c]
  BY DEF Admit, Accept, workVars
<1>4. Range(pending') = Range(pending) \cup {k}
  BY AdmitLists
<1> HIDE DEF c
<1>5. /\ wanted'[k] = c /\ protection'[k] = c
      /\ \A j \in Keys : j # k => wanted'[j] = wanted[j] /\ protection'[j] = protection[j]
  BY <1>1, <1>3 DEF TypeOK
<1>6. ASSUME NEW j \in Keys
      PROVE  KeyProtected(j)'
  <2>1. CASE j # k
    BY <1>3, <1>5, <2>1 DEF PurgeInv, KeyProtected
  <2>2. CASE j = k
    BY <1>1, <1>2, <1>3, <1>5, <2>2 DEF PurgeInv, KeyProtected
  <2>3. QED BY <2>1, <2>2
<1>7. ASSUME NEW q \in Pids
      PROVE  PassProtected(q)'
  <2>1. item[q] # Null => item[q] \in Keys /\ item[q] # k
    BY <1>1, <1>3 DEF StructInv, WorkConsistent, TypeOK
  <2>2. QED BY <1>3, <1>5, <2>1 DEF PurgeInv, PassProtected
<1>8. ASSUME NEW j \in Keys, NEW f \in Files
      PROVE  DueProtected(j, f)' /\ KeyDue(j, f)'
  <2>1. CASE j = k
    <3>1. <<k, f>> \in due' => f \in (files \cap Match[k]) \ Protected[c]
      BY <1>3 DEF Others, Asked
    <3>2. QED BY <1>3, <1>4, <1>5, <2>1, <3>1 DEF DueProtected, KeyDue
  <2>2. CASE j # k
    <3>1. <<j, f>> \in due' => <<j, f>> \in due
      BY <1>3, <2>2 DEF Others, Asked
    <3>2. QED BY <1>3, <1>4, <1>5, <2>2, <3>1 DEF PurgeInv, DueProtected, KeyDue
  <2>3. QED BY <2>1, <2>2
<1>9. QED BY <1>6, <1>7, <1>8 DEF PurgeInv

\* A claim starts with every file to do and the protection of the latest purge.
LEMMA ClaimPurge ==
  ASSUME StructInv, PurgeInv, NEW p \in Pids, Claim(p)
  PROVE  PurgeInv'
<1>1. /\ TypeOK /\ index = Range(pending) \cup Range(active)
      /\ busy = Range(active) /\ Null \notin Keys
  BY BasicFacts
<1>2. PICK k \in Keys :
         /\ StartWork(p, k) /\ k \in Range(pending) /\ k \notin Range(active)
         /\ Range(pending') = Range(pending) \ {k}
  BY ClaimLists
<1>3. /\ UNCHANGED <<index, rerun, protection, nextProtection, files, wanted>>
      /\ busy' = busy \cup {k}
      /\ item' = [item EXCEPT ![p] = k]
      /\ walkProtection' = [walkProtection EXCEPT ![p] = protection[k]]
      /\ failed' = failed \ {p}
      /\ item[p] = Null
  BY <1>2 DEF Claim, StartWork, envVars
<1>4. \/ todo' = [todo EXCEPT ![p] = Files] /\ due' = due
      \/ todo' = [todo EXCEPT ![p] = {}] /\ due' = Others(k)
  BY <1>2 DEF StartWork
<1>5. k \notin rerun /\ nextProtection[k] = Null /\ protection[k] = wanted[k]
  BY <1>1, <1>2 DEF PurgeInv, KeyProtected
<1>6. \A q \in Pids : item[q] # Null => item[q] \in Keys /\ item[q] # k
  BY <1>1, <1>2 DEF StructInv, WorkConsistent, TypeOK
<1>7. /\ item'[p] = k /\ walkProtection'[p] = protection[k]
      /\ \A q \in Pids : q # p =>
            /\ item'[q] = item[q] /\ walkProtection'[q] = walkProtection[q]
            /\ todo'[q] = todo[q] /\ (q \in failed => q \in failed')
  BY <1>1, <1>3, <1>4 DEF TypeOK
<1>8. ASSUME NEW j \in Keys
      PROVE  KeyProtected(j)'
  <2>1. KeyProtected(j)
    BY DEF PurgeInv
  <2>2. CASE j = k
    BY <1>3, <1>5, <2>1, <2>2 DEF KeyProtected
  <2>3. CASE j # k
    BY <1>3, <2>1, <2>3 DEF KeyProtected
  <2>4. QED BY <2>2, <2>3
<1>9. ASSUME NEW q \in Pids
      PROVE  PassProtected(q)'
  <2>1. CASE q = p
    BY <1>3, <1>5, <1>7, <2>1 DEF PassProtected
  <2>2. CASE q # p
    BY <1>3, <1>7, <2>2 DEF PurgeInv, PassProtected
  <2>3. QED BY <2>1, <2>2
<1>10. ASSUME NEW j \in Keys, NEW f \in Files
       PROVE  DueProtected(j, f)' /\ KeyDue(j, f)'
  <2>1. <<j, f>> \in due' => <<j, f>> \in due
    BY <1>4 DEF Others
  <2>2. DueProtected(j, f)'
    BY <1>3, <2>1 DEF PurgeInv, DueProtected
  <2>3. CASE j = k
    <3>1. <<k, f>> \in due' => todo' = [todo EXCEPT ![p] = Files]
      BY <1>4 DEF Others
    <3>2. <<k, f>> \in due' => f \in todo'[p]
      BY <1>1, <3>1 DEF TypeOK
    <3>3. \A q \in Pids : item'[q] = k => q = p
      BY <1>6, <1>7, <1>1
    <3>4. QED BY <1>1, <1>2, <1>3, <2>2, <2>3, <3>2, <3>3 DEF KeyDue
  <2>4. CASE j # k
    <3>1. KeyDue(j, f)
      BY DEF PurgeInv
    <3>2. j \in Range(pending) => j \in Range(pending')
      BY <1>2, <2>4
    <3>3. \A q \in Pids : item'[q] = j =>
             q # p /\ item[q] = j /\ todo'[q] = todo[q] /\ (q \in failed => q \in failed')
      BY <1>7, <2>4
    <3>4. QED BY <1>3, <2>1, <2>2, <3>1, <3>2, <3>3 DEF KeyDue
  <2>5. QED BY <2>3, <2>4
<1>11. QED BY <1>8, <1>9, <1>10 DEF PurgeInv

\* The walk deletes a file it owes, unless the purge it owes it to is newer
\* than the pass.
LEMMA VisitPurge ==
  ASSUME StructInv, PurgeInv, NEW p \in Pids, NEW g \in Files, Visit(p, g)
  PROVE  PurgeInv'
<1>1. /\ TypeOK /\ Null \notin Keys
  BY BasicFacts
<1>2. /\ UNCHANGED <<index, pending, busy, rerun, protection, nextProtection,
                     wanted, item, failed, walkProtection>>
      /\ todo' = [todo EXCEPT ![p] = @ \ {g}]
      /\ files' = files \ ({g} \cap Doomed(p))
      /\ due' = due \cap (Keys \X files')
      /\ Walking(p)
  BY DEF Visit, zoneVars, taskVars
<1>3. \A j \in Keys : KeyProtected(j)'
  BY <1>2 DEF PurgeInv, KeyProtected
<1>4. \A q \in Pids : PassProtected(q)'
  BY <1>2 DEF PurgeInv, PassProtected
<1>5. ASSUME NEW j \in Keys, NEW f \in Files
      PROVE  DueProtected(j, f)' /\ KeyDue(j, f)'
  <2>1. <<j, f>> \in due' => <<j, f>> \in due /\ f \in files'
    BY <1>2
  <2>2. DueProtected(j, f) /\ KeyDue(j, f)
    BY DEF PurgeInv
  <2>3. DueProtected(j, f)'
    BY <1>2, <2>1, <2>2 DEF DueProtected
  <2>4. \A q \in Pids : q # p => todo'[q] = todo[q]
    BY <1>1, <1>2 DEF TypeOK
  <2>5. CASE f # g \/ item[p] # j
    <3>1. \A q \in Pids : item[q] = j /\ f \in todo[q] => f \in todo'[q]
      BY <1>1, <1>2, <2>4, <2>5 DEF TypeOK
    <3>2. QED BY <1>2, <2>1, <2>2, <2>3, <3>1 DEF KeyDue
  <2>6. CASE f = g /\ item[p] = j /\ j \notin rerun
    <3>1. walkProtection[p] = wanted[j]
      BY <1>1, <2>6 DEF PurgeInv, PassProtected
    <3>2. <<j, f>> \in due => f \in Doomed(p)
      BY <2>2, <2>6, <3>1 DEF DueProtected, Doomed
    <3>3. <<j, f>> \notin due'
      BY <1>2, <2>1, <2>6, <3>2
    <3>4. QED BY <2>3, <3>3 DEF KeyDue
  <2>7. CASE j \in rerun
    BY <1>2, <2>1, <2>2, <2>3, <2>7 DEF KeyDue
  <2>8. QED BY <2>5, <2>6, <2>7
<1>6. QED BY <1>3, <1>4, <1>5 DEF PurgeInv

\* A pass that ends without replay has deleted what was due, or counted an
\* error and is retried, or gives up and says so.
LEMMA ReleasePurge ==
  ASSUME StructInv, PurgeInv, NEW p \in Pids, item[p] # Null,
         NEW complete \in BOOLEAN, Release(p, complete),
         complete => todo[p] = {},
         UNCHANGED <<files, wanted>>
  PROVE  PurgeInv'
<1> DEFINE k == item[p]
<1>1. /\ TypeOK /\ index = Range(pending) \cup Range(active)
      /\ busy = Range(active) /\ Null \notin Keys
      /\ Range(pending) \cap Range(active) = {}
  BY BasicFacts
<1>2. /\ k \in Keys /\ k \in Range(active) /\ k \notin Range(pending)
      /\ \/ Requeued(k) /\ Range(pending') = Range(pending) \cup {k}
         \/ Retired(k) /\ pending' = pending
  BY ReleaseLists
<1>3. /\ busy' = busy \ {k}
      /\ nextProtection' = [nextProtection EXCEPT ![k] = Null]
      /\ item' = [item EXCEPT ![p] = Null]
      /\ todo' = [todo EXCEPT ![p] = {}]
      /\ failed' = failed \ {p}
      /\ walkProtection' = [walkProtection EXCEPT ![p] = Null]
      /\ due' \in {due, Others(k)}
  BY DEF Release
<1>4. /\ rerun' = rerun \ {k}
      /\ \A j \in Keys : j # k => protection'[j] = protection[j]
  BY <1>1, <1>2 DEF Requeued, Retired, KeepsNewestProtection, TypeOK
<1>5. /\ item'[p] = Null /\ nextProtection'[k] = Null
      /\ \A j \in Keys : j # k => nextProtection'[j] = nextProtection[j]
      /\ \A q \in Pids : q # p =>
            /\ item'[q] = item[q] /\ walkProtection'[q] = walkProtection[q]
            /\ todo'[q] = todo[q] /\ (q \in failed => q \in failed')
  BY <1>1, <1>2, <1>3 DEF TypeOK
<1>6. \A q \in Pids : q # p => item[q] # k
  BY OneHolder
<1>7. KeyProtected(k)
  BY <1>2 DEF PurgeInv
<1>8. CASE Requeued(k) /\ Range(pending') = Range(pending) \cup {k}
  <2>1. index' = index
    BY <1>8 DEF Requeued
  <2>2. protection'[k] =
          IF nextProtection[k] = Null THEN protection[k] ELSE nextProtection[k]
    BY <1>1, <1>2, <1>8 DEF Requeued, KeepsNewestProtection, TypeOK
  <2>3. protection'[k] \in Confs /\ protection'[k] = wanted[k]
    BY <1>1, <1>2, <1>7, <2>2 DEF KeyProtected
  <2>4. ASSUME NEW j \in Keys
        PROVE  KeyProtected(j)'
    <3>1. KeyProtected(j)
      BY DEF PurgeInv
    <3>2. CASE j = k
      BY <1>3, <1>4, <1>5, <1>7, <2>1, <2>3, <3>2 DEF KeyProtected
    <3>3. CASE j # k
      BY <1>3, <1>4, <1>5, <2>1, <3>1, <3>3 DEF KeyProtected
    <3>4. QED BY <3>2, <3>3
  <2>5. ASSUME NEW q \in Pids
        PROVE  PassProtected(q)'
    <3>1. CASE q = p
      BY <1>5, <3>1 DEF PassProtected
    <3>2. CASE q # p
      BY <1>4, <1>5, <1>6, <3>2 DEF PurgeInv, PassProtected
    <3>3. QED BY <3>1, <3>2
  <2>6. ASSUME NEW j \in Keys, NEW f \in Files
        PROVE  DueProtected(j, f)' /\ KeyDue(j, f)'
    <3>1. (<<j, f>> \in due' => <<j, f>> \in due) /\ DueProtected(j, f) /\ KeyDue(j, f)
      BY <1>3 DEF Others, PurgeInv
    <3>2. CASE j = k
      BY <1>8, <2>1, <3>1, <3>2 DEF DueProtected, KeyDue
    <3>3. CASE j # k
      <4>1. \A q \in Pids : item'[q] = j =>
               item[q] = j /\ todo'[q] = todo[q] /\ (q \in failed => q \in failed')
        BY <1>1, <1>5
      <4>2. j \in Range(pending) \cup rerun => j \in Range(pending') \cup rerun'
        BY <1>4, <1>8, <3>3
      <4>3. QED BY <2>1, <3>1, <4>1, <4>2 DEF DueProtected, KeyDue
    <3>4. QED BY <3>2, <3>3
  <2>7. QED BY <2>4, <2>5, <2>6 DEF PurgeInv
<1>9. CASE Retired(k) /\ pending' = pending
  <2>1. index' = index \ {k}
    BY <1>9 DEF Retired
  <2>2. k \notin rerun /\ complete /\ (p \in failed => due' = Others(k))
    <3>1. ~Requeued(k)
      BY <1>1, <1>2, <2>1 DEF Requeued
    <3>2. QED BY <3>1 DEF Release, NeedsReplay
  <2>3. ASSUME NEW f \in Files
        PROVE  <<k, f>> \notin due'
    <3>1. KeyDue(k, f) /\ (<<k, f>> \in due' => <<k, f>> \in due)
      BY <1>2, <1>3 DEF Others, PurgeInv
    <3>2. CASE p \in failed
      BY <2>2, <3>2 DEF Others
    <3>3. CASE p \notin failed
      BY <1>2, <2>2, <3>1, <3>3 DEF KeyDue
    <3>4. QED BY <3>2, <3>3
  <2>4. ASSUME NEW j \in Keys
        PROVE  KeyProtected(j)'
    <3>1. KeyProtected(j)
      BY DEF PurgeInv
    <3>2. CASE j = k
      BY <1>3, <1>4, <1>5, <2>1, <3>2 DEF KeyProtected
    <3>3. CASE j # k
      BY <1>3, <1>4, <1>5, <2>1, <3>1, <3>3 DEF KeyProtected
    <3>4. QED BY <3>2, <3>3
  <2>5. ASSUME NEW q \in Pids
        PROVE  PassProtected(q)'
    <3>1. CASE q = p
      BY <1>5, <3>1 DEF PassProtected
    <3>2. CASE q # p
      BY <1>4, <1>5, <1>6, <3>2 DEF PurgeInv, PassProtected
    <3>3. QED BY <3>1, <3>2
  <2>6. ASSUME NEW j \in Keys, NEW f \in Files
        PROVE  DueProtected(j, f)' /\ KeyDue(j, f)'
    <3>1. (<<j, f>> \in due' => <<j, f>> \in due) /\ DueProtected(j, f) /\ KeyDue(j, f)
      BY <1>3 DEF Others, PurgeInv
    <3>2. CASE j = k
      BY <2>3, <3>2 DEF DueProtected, KeyDue
    <3>3. CASE j # k
      <4>1. \A q \in Pids : item'[q] = j =>
               item[q] = j /\ todo'[q] = todo[q] /\ (q \in failed => q \in failed')
        BY <1>1, <1>5
      <4>2. j \in Range(pending) \cup rerun => j \in Range(pending') \cup rerun'
        BY <1>4, <1>9, <3>3
      <4>3. QED BY <2>1, <3>1, <3>3, <4>1, <4>2 DEF DueProtected, KeyDue
    <3>4. QED BY <3>2, <3>3
  <2>7. QED BY <2>4, <2>5, <2>6 DEF PurgeInv
<1>10. QED BY <1>2, <1>8, <1>9

\* Recovery sends lost tasks back with the protection of the latest purge.
LEMMA RecoverPurge ==
  ASSUME StructInv, PurgeInv, NEW p \in Pids, Recover(p)
  PROVE  PurgeInv'
<1>1. /\ TypeOK /\ index = Range(pending) \cup Range(active)
      /\ busy = Range(active) /\ index \subseteq Keys
      /\ Null \notin Keys /\ Null \notin Confs
  BY BasicFacts
<1>2. /\ Lost \subseteq Range(active)
      /\ Range(pending') = Range(pending) \cup Lost
  BY RecoverLists
<1>3. /\ busy' = busy \ Lost
      /\ rerun' = rerun \ Lost
      /\ protection' = [k \in Keys |->
                           IF k \in Lost /\ nextProtection[k] # Null
                           THEN nextProtection[k] ELSE protection[k]]
      /\ nextProtection' = [k \in Keys |-> IF k \in Lost THEN Null
                                           ELSE nextProtection[k]]
      /\ UNCHANGED <<index, item, todo, failed, walkProtection, files, due, wanted>>
  BY DEF Recover, workVars, envVars, ghostVars
<1>4. ASSUME NEW q \in Pids, item[q] # Null
      PROVE  item[q] \notin Lost
  BY <1>4, HolderIsOwner DEF HolderKeepsTask, Lost
<1>5. ASSUME NEW j \in Keys
      PROVE  KeyProtected(j)'
  <2>1. KeyProtected(j)
    BY DEF PurgeInv
  <2>2. CASE j \in Lost
    <3>1. j \notin busy' /\ j \notin rerun' /\ nextProtection'[j] = Null
      BY <1>3, <2>2
    <3>2. j \in index /\ j \in busy
      BY <1>1, <1>2, <2>2
    <3>3. protection'[j] = wanted[j] /\ protection'[j] \in Confs
      BY <1>3, <2>1, <2>2, <3>2 DEF KeyProtected
    <3>4. QED BY <1>3, <2>1, <3>1, <3>2, <3>3 DEF KeyProtected
  <2>3. CASE j \notin Lost
    <3>1. protection'[j] = protection[j] /\ nextProtection'[j] = nextProtection[j]
      BY <1>3, <2>3
    <3>2. QED BY <1>3, <2>1, <2>3, <3>1 DEF KeyProtected
  <2>4. QED BY <2>2, <2>3
<1>6. ASSUME NEW q \in Pids
      PROVE  PassProtected(q)'
  BY <1>3, <1>4 DEF PurgeInv, PassProtected
<1>7. ASSUME NEW j \in Keys, NEW f \in Files
      PROVE  DueProtected(j, f)' /\ KeyDue(j, f)'
  <2>1. DueProtected(j, f) /\ KeyDue(j, f)
    BY DEF PurgeInv
  <2>2. j \in Range(pending) \cup rerun => j \in Range(pending') \cup rerun'
    BY <1>2, <1>3
  <2>3. QED BY <1>3, <2>1, <2>2 DEF DueProtected, KeyDue
<1>8. QED BY <1>5, <1>6, <1>7 DEF PurgeInv

\* A worker that is gone has no pass any more.
LEMMA GonePurge ==
  ASSUME StructInv, PurgeInv, NEW p \in Pids, Gone(p),
         UNCHANGED <<zoneVars, taskVars, envVars, ghostVars>>
  PROVE  PurgeInv'
<1>1. TypeOK /\ Null \notin Keys
  BY BasicFacts
<1>2. UNCHANGED <<index, pending, busy, rerun, protection, nextProtection,
                  files, due, wanted>>
  BY DEF zoneVars, taskVars, envVars, ghostVars
<1>3. /\ item'[p] = Null
      /\ \A q \in Pids : q # p =>
            /\ item'[q] = item[q] /\ walkProtection'[q] = walkProtection[q]
            /\ todo'[q] = todo[q] /\ (q \in failed => q \in failed')
  BY <1>1 DEF Gone, TypeOK
<1>4. \A j \in Keys : KeyProtected(j)'
  BY <1>2 DEF PurgeInv, KeyProtected
<1>5. \A q \in Pids : PassProtected(q)'
  BY <1>2, <1>3 DEF PurgeInv, PassProtected
<1>6. ASSUME NEW j \in Keys, NEW f \in Files
      PROVE  DueProtected(j, f)' /\ KeyDue(j, f)'
  <2>1. DueProtected(j, f) /\ KeyDue(j, f)
    BY DEF PurgeInv
  <2>2. \A q \in Pids : item'[q] = j =>
           item[q] = j /\ todo'[q] = todo[q] /\ (q \in failed => q \in failed')
    BY <1>1, <1>3
  <2>3. QED BY <1>2, <2>1, <2>2 DEF DueProtected, KeyDue
<1>7. QED BY <1>4, <1>5, <1>6 DEF PurgeInv

\* Steps that leave tasks, files and what is due alone can only record errors.
LEMMA QuietPurge ==
  ASSUME StructInv, PurgeInv,
         UNCHANGED <<index, busy, rerun, protection, nextProtection, files,
                     item, walkProtection, due, wanted>>,
         Range(pending') = Range(pending),
         \A q \in Pids, f \in Files :
            f \in todo[q] \/ q \in failed => f \in todo'[q] \/ q \in failed'
  PROVE  PurgeInv'
<1>1. \A j \in Keys : KeyProtected(j)'
  BY DEF PurgeInv, KeyProtected
<1>2. \A q \in Pids : PassProtected(q)'
  BY DEF PurgeInv, PassProtected
<1>3. \A j \in Keys, f \in Files : DueProtected(j, f)' /\ KeyDue(j, f)'
  BY DEF PurgeInv, DueProtected, KeyDue
<1>4. QED BY <1>1, <1>2, <1>3 DEF PurgeInv

\* Files come and go around the queue; one that goes is due no more.
LEMMA FilesPurge ==
  ASSUME StructInv, PurgeInv,
         UNCHANGED <<zoneVars, taskVars, workVars, wanted>>,
         \/ files \subseteq files' /\ due' = due
         \/ files' \subseteq files /\ due' = due \cap (Keys \X files')
  PROVE  PurgeInv'
<1>1. UNCHANGED <<index, pending, busy, rerun, protection, nextProtection,
                  item, todo, failed, walkProtection, wanted>>
  BY DEF zoneVars, taskVars, workVars
<1>2. \A j \in Keys : KeyProtected(j)'
  BY <1>1 DEF PurgeInv, KeyProtected
<1>3. \A q \in Pids : PassProtected(q)'
  BY <1>1 DEF PurgeInv, PassProtected
<1>4. ASSUME NEW j \in Keys, NEW f \in Files
      PROVE  DueProtected(j, f)' /\ KeyDue(j, f)'
  <2>1. <<j, f>> \in due' => <<j, f>> \in due /\ (f \in files => f \in files')
    OBVIOUS
  <2>2. DueProtected(j, f) /\ KeyDue(j, f)
    BY DEF PurgeInv
  <2>3. QED BY <1>1, <2>1, <2>2 DEF DueProtected, KeyDue
<1>5. QED BY <1>2, <1>3, <1>4 DEF PurgeInv

\* Every step of the workers, of the master and of the cache keeps PurgeInv.
LEMMA PurgeStep ==
  ASSUME StructInv, PurgeInv, [Next]_vars
  PROVE  PurgeInv'
<1>0. TypeOK
  BY BasicFacts
<1>1. ASSUME NEW p \in Pids, Finish(p) \/ FinalRelease(p)
      PROVE  PurgeInv'
  <2>1. item[p] # Null /\ (phase[p] = "complete" => todo[p] = {})
    BY <1>1 DEF StructInv, WorkConsistent, Finish, FinalRelease
  <2>2. UNCHANGED <<files, wanted>>
    BY <1>1 DEF Finish, FinalRelease, envVars
  <2>3. PICK complete \in BOOLEAN :
          Release(p, complete) /\ (complete => phase[p] = "complete")
    BY <1>1 DEF Finish, FinalRelease
  <2>4. QED BY <2>1, <2>2, <2>3, ReleasePurge
<1>2. ASSUME NEW p \in Pids, RotateDelayed(p)
      PROVE  PurgeInv'
  <2>1. /\ UNCHANGED <<index, busy, rerun, protection, nextProtection, files,
                       item, walkProtection, due, wanted>>
        /\ UNCHANGED <<todo, failed>>
    BY <1>2 DEF RotateDelayed, taskVars, workVars, envVars, ghostVars
  <2>2. QED BY <1>2, <2>1, QuietPurge, RotateLists
<1>3. ASSUME NEW p \in Pids, NEW lost \in SUBSET Files, WalkError(p, lost)
      PROVE  PurgeInv'
  <2>1. UNCHANGED <<index, pending, busy, rerun, protection, nextProtection, files,
                    item, walkProtection, due, wanted>>
    BY <1>3 DEF WalkError, zoneVars, taskVars, envVars, ghostVars
  <2>2. \A q \in Pids, f \in Files :
           f \in todo[q] \/ q \in failed => f \in todo'[q] \/ q \in failed'
    BY <1>0, <1>3 DEF WalkError, TypeOK
  <2>3. QED BY <2>1, <2>2, QuietPurge
<1>4. ASSUME UNCHANGED <<index, pending, busy, rerun, protection, nextProtection,
                         files, item, todo, failed, walkProtection, due, wanted>>
      PROVE  PurgeInv'
  BY <1>4, QuietPurge
<1>5. ASSUME NEW p \in Pids, WorkerStep(p)
      PROVE  PurgeInv'
  <2>1. ASSUME PostThread(p) \/ WalkDone(p) \/ InitWorker(p)
        PROVE  UNCHANGED <<index, pending, busy, rerun, protection, nextProtection,
                           files, item, todo, failed, walkProtection, due, wanted>>
    BY <2>1 DEF PostThread, WalkDone, InitWorker, zoneVars, taskVars, workVars,
                envVars, ghostVars
  <2>2. CASE ExitWorker(p)
    BY <2>2, GonePurge DEF ExitWorker
  <2>3. QED BY <1>1, <1>2, <1>3, <1>4, <1>5, <2>1, <2>2, CoalescePurge, AdmitPurge,
               ClaimPurge, VisitPurge, RecoverPurge DEF WorkerStep
<1>6. ASSUME NEW p \in Pids, ProcessStep(p)
      PROVE  PurgeInv'
  <2>1. ASSUME \/ \E s \in Slots, c \in Confs : Spawn(p, s, c)
               \/ Quit(p) \/ Terminate(p) \/ OtherStart(p) \/ OtherExit(p)
        PROVE  UNCHANGED <<index, pending, busy, rerun, protection, nextProtection,
                           files, item, todo, failed, walkProtection, due, wanted>>
    BY <2>1 DEF Spawn, Quit, Terminate, OtherStart, OtherExit, zoneVars,
                taskVars, workVars, envVars, ghostVars
  <2>2. CASE Crash(p)
    BY <2>2, GonePurge DEF Crash
  <2>3. QED BY <1>4, <1>6, <2>1, <2>2 DEF ProcessStep
<1>7. ASSUME (\E k \in Keys : RetryDue(k)) \/ UNCHANGED vars
      PROVE  UNCHANGED <<index, pending, busy, rerun, protection, nextProtection,
                         files, item, todo, failed, walkProtection, due, wanted>>
  BY <1>7 DEF RetryDue, vars, zoneVars, taskVars, workVars, envVars, ghostVars
<1>8. ASSUME NEW f \in Files, Store(f) \/ Evict(f)
      PROVE  PurgeInv'
  <2>1. /\ UNCHANGED <<zoneVars, taskVars, workVars, wanted>>
        /\ \/ files \subseteq files' /\ due' = due
           \/ files' \subseteq files /\ due' = due \cap (Keys \X files')
    BY <1>8 DEF Store, Evict, ghostVars
  <2>2. QED BY <2>1, FilesPurge
<1>9. QED BY <1>4, <1>5, <1>6, <1>7, <1>8 DEF Next

-----------------------------------------------------------------------------
(* The invariant and what follows *)

\* All that is proved of the purge queue, as one inductive invariant.
SafetyInv ==
    /\ StructInv
    /\ WaitTimeOfPending
    /\ EpochsConsistent
    /\ PurgeInv

\* It holds initially: nothing is queued, marked or due.
LEMMA SafetyInit == Init => SafetyInv
<1> SUFFICES ASSUME Init PROVE SafetyInv
  OBVIOUS
<1>1. StructInv
  BY StructInit
<1>2. Range(<<>>) = {}
  BY DEF Range
<1>3. WaitTimeOfPending /\ EpochsConsistent
  BY <1>2 DEF Init, WaitTimeOfPending, EpochsConsistent
<1>4. PurgeInv
  BY DEF Init, PurgeInv, KeyProtected, PassProtected, DueProtected, KeyDue
<1>5. QED BY <1>1, <1>3, <1>4 DEF SafetyInv

\* Every step preserves it.
LEMMA SafetyStep == SafetyInv /\ [Next]_vars => SafetyInv'
  BY StructStep, WaitTimeStep, EpochsStep, PurgeStep DEF SafetyInv

\* The inductive invariant holds in every reachable state.
THEOREM SafetyInvariant == Spec => []SafetyInv
  BY SafetyInit, SafetyStep, PTL DEF Spec

\* The wait time an operator is shown is that of a task still waiting.
THEOREM WaitTimeTruthful == Spec => []WaitTimeOfPending
<1>1. SafetyInv => WaitTimeOfPending
  BY DEF SafetyInv
<1>2. QED BY <1>1, SafetyInvariant, PTL

\* A worker that takes over a slot exposes every task its predecessor left,
\* even under the same process id: recover will requeue it.
THEOREM SuccessorRecovers == Spec => []SuccessorExposesOrphan
<1>1. SafetyInv => SuccessorExposesOrphan
  BY EpochsExpose DEF SafetyInv
<1>2. QED BY <1>1, SafetyInvariant, PTL

\* Across reloads, replays, retries and crashes the next pass over a key uses
\* the protected paths of the latest accepted purge of the key.
THEOREM NextPassProtection == Spec => []NewestProtection
<1>1. SafetyInv => NewestProtection
  BY PurgeInvMeans DEF SafetyInv
<1>2. QED BY <1>1, SafetyInvariant, PTL

\* No accepted purge is lost: a file it was due to delete and that still
\* exists will be visited by a pass that has not passed it yet.
THEOREM AcceptedPurgeKept == Spec => []NoLostPurge
<1>1. SafetyInv => NoLostPurge
  BY PurgeInvMeans DEF SafetyInv
<1>2. QED BY <1>1, SafetyInvariant, PTL
=============================================================================
