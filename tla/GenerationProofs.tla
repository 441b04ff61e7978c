-------------------------- MODULE GenerationProofs --------------------------
(***************************************************************************)
(* Proofs about Generation, for every set of keys, texts, epochs and       *)
(* actors and every value of the bounds.                                   *)
(*                                                                         *)
(* The core is what an invalidation does to the version of one key: it     *)
(* becomes the new serial, above everything handed out before, or neither  *)
(* the version nor the number of accepted invalidations of the key         *)
(* changes.  FreshInv says for files, requests and probes what follows     *)
(* from it for what they know, and is inductive.                           *)
(***************************************************************************)
EXTENDS Generation, SequenceTheorems, SetProofs

-----------------------------------------------------------------------------
(* Nodes of a trie *)

\* The nodes on the way to s are the sequences, but for the empty one, that s
\* begins with; there are finitely many, and s itself is one.
LEMMA PathFacts ==
  ASSUME NEW S, NEW s \in Seq(S)
  PROVE  /\ IsFiniteSet(Path(s))
         /\ s # <<>> => s \in Path(s)
         /\ Path(s) \subseteq Seq(S) \ {<<>>}
         /\ \A t \in Seq(S) \ {<<>>} : t \in Path(s) <=> IsPrefix(t, s)
<1> DEFINE cut == [i \in 0..Len(s) |-> SubSeq(s, 1, i)]
<1>1. Len(s) \in Nat /\ s \in [1..Len(s) -> S]
  OBVIOUS
<1>2. Prefixes(s) = {cut[i] : i \in 0..Len(s)}
  BY DEF Prefixes
<1>3. \A i \in 0..Len(s) : /\ SubSeq(s, 1, i) \in Seq(S)
                           /\ Len(SubSeq(s, 1, i)) = i
  BY <1>1, SubSeqProperties
<1>4. cut \in Surjection(0..Len(s), Prefixes(s))
  BY <1>2 DEF Surjection
<1>5. IsFiniteSet(0..Len(s))
  BY <1>1, FS_Interval
<1>6. IsFiniteSet(Prefixes(s))
  BY <1>4, <1>5, FS_Surjection
<1>7. IsFiniteSet(Path(s))
  BY <1>6, FS_Difference DEF Path
<1>8. SubSeq(s, 1, Len(s)) = s
  BY <1>1
<1>9. s # <<>> => s \in Path(s)
  <2>1. Len(s) \in 0..Len(s)
    BY <1>1
  <2>2. s \in Prefixes(s)
    BY <1>8, <2>1 DEF Prefixes
  <2>3. QED BY <2>2 DEF Path
<1>10. Path(s) \subseteq Seq(S) \ {<<>>}
  BY <1>3 DEF Path, Prefixes
<1>11. ASSUME NEW t \in Seq(S) \ {<<>>}
       PROVE  t \in Path(s) <=> IsPrefix(t, s)
  <2>1. SubSeq(t, 1, Len(t)) = t /\ Len(t) \in Nat
    OBVIOUS
  <2>2. ASSUME t \in Path(s) PROVE IsPrefix(t, s)
    <3>1. PICK i \in 0..Len(s) : t = SubSeq(s, 1, i)
      BY <2>2 DEF Path, Prefixes
    <3>2. Len(t) = i
      BY <1>3, <3>1, SMTT(30)
    <3>3. QED BY <1>1, <2>1, <3>1, <3>2 DEF IsPrefix
  <2>3. ASSUME IsPrefix(t, s) PROVE t \in Path(s)
    <3>1. Len(t) \in 0..Len(s) /\ t = SubSeq(s, 1, Len(t))
      BY <1>1, <2>1, <2>3 DEF IsPrefix
    <3>2. QED BY <3>1 DEF Path, Prefixes
  <2>4. QED BY <2>2, <2>3
<1>12. QED BY <1>7, <1>9, <1>10, <1>11
-----------------------------------------------------------------------------
(* The generation of a key *)

\* The generations that the generation of key k is the maximum of, with
\* baseline b and the tries e and p.
Candidates(b, e, p, k) ==
    {b} \cup {e[s] : s \in {k} \cap DOMAIN e}
        \cup {p[s] : s \in Path(Lowered(k)) \cap DOMAIN p}

\* A trie whose generations are at most n.
Trie(t, n) == t \in [DOMAIN t -> 0..n]

\* A larger set with the same greatest member has the same maximum.
LEMMA SameMax ==
  ASSUME NEW S \in SUBSET Int, NEW T \in SUBSET Int, S \subseteq T,
         IsFiniteSet(T), S # {},
         \A y \in T : \E x \in S : x >= y
  PROVE  Max(T) = Max(S)
<1>1. IsFiniteSet(S)
  BY FS_Subset
<1>2. Max(S) \in S /\ \A y \in S : Max(S) >= y
  BY <1>1, MaxFacts
<1>3. Max(T) \in T /\ \A y \in T : Max(T) >= y
  BY MaxFacts
<1>4. PICK x \in S : x >= Max(T)
  BY <1>3
<1>5. Max(T) >= Max(S) /\ Max(S) >= x
  BY <1>2, <1>3
<1>6. Max(S) \in Int /\ Max(T) \in Int /\ x \in Int
  BY <1>2, <1>3
<1>7. QED BY <1>4, <1>5, <1>6

\* The generation of a key lies between the baseline and the last serial, and
\* no rule for the key is above it.
LEMMA CandidateFacts ==
  ASSUME NEW n \in Nat, NEW b \in 0..n, NEW e, Trie(e, n), NEW p, Trie(p, n), NEW k
  PROVE  /\ Candidates(b, e, p, k) \subseteq 0..n
         /\ IsFiniteSet(Candidates(b, e, p, k))
         /\ Max(Candidates(b, e, p, k)) \in Candidates(b, e, p, k)
         /\ \A y \in Candidates(b, e, p, k) : Max(Candidates(b, e, p, k)) >= y
         /\ Max(Candidates(b, e, p, k)) \in b..n
<1> DEFINE C == Candidates(b, e, p, k)
<1>1. b \in C
  BY DEF Candidates
<1>2. \A y \in C : y \in 0..n
  <2> SUFFICES ASSUME NEW y \in C PROVE y \in 0..n
    OBVIOUS
  <2>1. /\ \A x \in DOMAIN e : e[x] \in 0..n
        /\ \A x \in DOMAIN p : p[x] \in 0..n
    BY DEF Trie
  <2>2. \/ y = b
        \/ \E x \in DOMAIN e : y = e[x]
        \/ \E x \in DOMAIN p : y = p[x]
    BY DEF Candidates
  <2>3. QED BY <2>1, <2>2
<1> HIDE DEF C
<1>3. C \subseteq Int /\ C \subseteq Nat /\ \A y \in C : y <= n
  BY <1>2
<1>4. IsFiniteSet(C)
  BY <1>3, FS_BoundedSetOfNaturals
<1>5. Max(C) \in C /\ \A y \in C : Max(C) >= y
  BY <1>1, <1>3, <1>4, MaxFacts
<1>6. Max(C) \in b..n
  <2>1. Max(C) \in 0..n /\ Max(C) >= b
    BY <1>1, <1>2, <1>5
  <2>2. QED BY <2>1
<1>7. QED BY <1>2, <1>4, <1>5, <1>6 DEF C

\* A new exact rule is the generation of its key and of no other.
LEMMA ExactRule ==
  ASSUME NEW n \in Nat, NEW b \in 0..n, NEW e, Trie(e, n), NEW p, Trie(p, n),
         NEW s \in Seq(DOMAIN Lower) \ {<<>>}, NEW k
  PROVE  /\ Trie(WithRule(e, s, n + 1), n + 1)
         /\ s \in DOMAIN WithRule(e, s, n + 1)
         /\ k = s => Max(Candidates(b, WithRule(e, s, n + 1), p, k)) = n + 1
         /\ k # s => Max(Candidates(b, WithRule(e, s, n + 1), p, k))
                        = Max(Candidates(b, e, p, k))
<1> DEFINE w == WithRule(e, s, n + 1)
           C == Candidates(b, e, p, k)
           D == Candidates(b, w, p, k)
<1>1. s \in Path(s)
  BY PathFacts
<1>2. DOMAIN w = DOMAIN e \cup Path(s)
  BY DEF WithRule
<1>3. \A x \in DOMAIN w : w[x] = IF x = s THEN n + 1 ELSE IF x \in DOMAIN e THEN e[x] ELSE 0
  BY DEF WithRule
<1>4. w \in [DOMAIN w -> 0..(n + 1)]
  <2>1. \A x \in DOMAIN w : w[x] \in 0..(n + 1)
    BY <1>3 DEF Trie
  <2>2. w = [x \in DOMAIN w |-> w[x]]
    BY DEF WithRule
  <2> HIDE DEF w
  <2>3. QED BY <2>1, <2>2
<1> HIDE DEF w
<1>5. Trie(w, n + 1) /\ Trie(p, n + 1) /\ n + 1 \in Nat /\ b \in 0..(n + 1)
  BY <1>4 DEF Trie
<1>6. /\ D \subseteq 0..(n + 1) /\ IsFiniteSet(D)
      /\ Max(D) \in D /\ \A y \in D : Max(D) >= y
  BY <1>5, CandidateFacts
<1>7. ASSUME k = s PROVE Max(D) = n + 1
  <2>1. s \in {k} \cap DOMAIN w /\ w[s] = n + 1
    BY <1>1, <1>2, <1>3, <1>7
  <2>2. n + 1 \in D
    BY <2>1, Zenon DEF Candidates
  <2>3. Max(D) >= n + 1 /\ Max(D) \in 0..(n + 1)
    BY <1>6, <2>2
  <2> HIDE DEF D
  <2>4. QED BY <2>3
<1>8. ASSUME k # s PROVE Max(D) = Max(C)
  <2>1. C \subseteq D
    BY <1>2, <1>3, <1>8 DEF Candidates
  <2>2. D \subseteq C \cup {0}
    BY <1>2, <1>3, <1>8 DEF Candidates
  <2>3. b \in C /\ C \subseteq 0..n
    <3>1. C \subseteq 0..n
      BY CandidateFacts
    <3>2. QED BY <3>1 DEF Candidates
  <2> HIDE DEF C, D
  <2>4. \A y \in D : \E x \in C : x >= y
    <3> SUFFICES ASSUME NEW y \in D PROVE \E x \in C : x >= y
      OBVIOUS
    <3>1. CASE y \in C
      <4>1. y >= y
        BY <2>3, <3>1
      <4>2. QED BY <3>1, <4>1
    <3>2. CASE y = 0
      BY <2>3, <3>2
    <3>3. QED BY <2>2, <3>1, <3>2
  <2>5. D \in SUBSET Int /\ C \in SUBSET Int /\ C # {}
    BY <1>6, <2>3
  <2>6. QED BY <1>6, <2>1, <2>4, <2>5, SameMax
<1>9. QED BY <1>1, <1>2, <1>5, <1>7, <1>8 DEF w

\* A new prefix rule is the generation of the keys that, in lower case, begin
\* with it, and of no other.
LEMMA PrefixRule ==
  ASSUME NEW n \in Nat, NEW b \in 0..n, NEW e, Trie(e, n), NEW p, Trie(p, n),
         NEW s \in Seq(DOMAIN Lower) \ {<<>>}, NEW k
  PROVE  /\ Trie(WithRule(p, s, n + 1), n + 1)
         /\ s \in Path(Lowered(k)) =>
               Max(Candidates(b, e, WithRule(p, s, n + 1), k)) = n + 1
         /\ s \notin Path(Lowered(k)) =>
               Max(Candidates(b, e, WithRule(p, s, n + 1), k))
                  = Max(Candidates(b, e, p, k))
<1> DEFINE w == WithRule(p, s, n + 1)
           C == Candidates(b, e, p, k)
           D == Candidates(b, e, w, k)
<1>1. s \in Path(s)
  BY PathFacts
<1>2. DOMAIN w = DOMAIN p \cup Path(s)
  BY DEF WithRule
<1>3. \A x \in DOMAIN w : w[x] = IF x = s THEN n + 1 ELSE IF x \in DOMAIN p THEN p[x] ELSE 0
  BY DEF WithRule
<1>4. Trie(w, n + 1)
  BY ExactRule
<1> HIDE DEF w
<1>5. Trie(e, n + 1) /\ n + 1 \in Nat /\ b \in 0..(n + 1)
  BY DEF Trie
<1>6. /\ D \subseteq 0..(n + 1) /\ IsFiniteSet(D)
      /\ Max(D) \in D /\ \A y \in D : Max(D) >= y
  BY <1>4, <1>5, CandidateFacts
<1>7. ASSUME s \in Path(Lowered(k)) PROVE Max(D) = n + 1
  <2>1. s \in Path(Lowered(k)) \cap DOMAIN w /\ w[s] = n + 1
    BY <1>1, <1>2, <1>3, <1>7
  <2>2. n + 1 \in D
    BY <2>1, Zenon DEF Candidates
  <2>3. Max(D) >= n + 1 /\ Max(D) \in 0..(n + 1)
    BY <1>6, <2>2
  <2> HIDE DEF D
  <2>4. QED BY <2>3
<1>8. ASSUME s \notin Path(Lowered(k)) PROVE Max(D) = Max(C)
  <2>1. C \subseteq D
    BY <1>2, <1>3, <1>8 DEF Candidates
  <2>2. D \subseteq C \cup {0}
    BY <1>2, <1>3, <1>8 DEF Candidates
  <2>3. b \in C /\ C \subseteq 0..n
    <3>1. C \subseteq 0..n
      BY CandidateFacts
    <3>2. QED BY <3>1 DEF Candidates
  <2> HIDE DEF C, D
  <2>4. \A y \in D : \E x \in C : x >= y
    <3> SUFFICES ASSUME NEW y \in D PROVE \E x \in C : x >= y
      OBVIOUS
    <3>1. CASE y \in C
      <4>1. y >= y
        BY <2>3, <3>1
      <4>2. QED BY <3>1, <4>1
    <3>2. CASE y = 0
      BY <2>3, <3>2
    <3>3. QED BY <2>2, <3>1, <3>2
  <2>5. D \in SUBSET Int /\ C \in SUBSET Int /\ C # {}
    BY <1>6, <2>3
  <2>6. QED BY <1>6, <2>1, <2>4, <2>5, SameMax
<1>9. QED BY <1>4, <1>7, <1>8 DEF w
-----------------------------------------------------------------------------
(* What an invalidation does *)

\* TypeOK with what its count of nodes needs: the tries are finite.
TypeInv ==
    /\ TypeOK
    /\ IsFiniteSet(DOMAIN exact) /\ IsFiniteSet(DOMAIN prefix)

\* The generation of a key, and after a step.
LEMMA LookupFacts ==
  ASSUME NEW k
  PROVE  /\ Lookup(k) = Max(Candidates(baseline, exact, prefix, k))
         /\ Lookup(k)' = Max(Candidates(baseline', exact', prefix', k))
BY DEF Lookup, Candidates

\* The generation of a key is one that was handed out.
LEMMA LookupType ==
  ASSUME TypeInv, NEW k \in Keys
  PROVE  Lookup(k) \in baseline..serial
<1>1. /\ serial \in Nat /\ baseline \in 0..serial
      /\ Trie(exact, serial) /\ Trie(prefix, serial)
  BY DEF TypeInv, TypeOK, Trie
<1>2. QED BY <1>1, LookupFacts, CandidateFacts

\* A text in lower case is as long, and of the same bytes.
LEMMA LoweredFacts ==
  ASSUME NEW s \in Seq(DOMAIN Lower)
  PROVE  Lowered(s) \in Seq(DOMAIN Lower) /\ Len(Lowered(s)) = Len(s)
<1>1. Len(s) \in Nat /\ DOMAIN s = 1..Len(s)
  OBVIOUS
<1>2. \A i \in 1..Len(s) : Lower[s[i]] \in DOMAIN Lower
  BY <1>1, GenerationAssumption
<1>3. Lowered(s) = [i \in 1..Len(s) |-> Lower[s[i]]]
  BY <1>1 DEF Lowered
<1>4. QED BY <1>1, <1>2, <1>3

\* The rule of a text consists of bytes.
LEMMA RuleFacts ==
  ASSUME NEW text \in Texts \cup Keys
  PROVE  /\ text \in Seq(DOMAIN Lower) \ {<<>>}
         /\ Lowered(Front(text)) \in Seq(DOMAIN Lower)
<1>1. text \in Seq(DOMAIN Lower) \ {<<>>}
  BY GenerationAssumption
<1>2. Front(text) \in Seq(DOMAIN Lower)
  BY <1>1, SubSeqProperties DEF Front
<1>3. QED BY <1>1, <1>2, LoweredFacts

\* The nodes of a trie with one more rule.
LEMMA NodesAdded ==
  ASSUME NEW t, IsFiniteSet(DOMAIN t), NEW s \in Seq(DOMAIN Lower), NEW g
  PROVE  /\ IsFiniteSet(DOMAIN WithRule(t, s, g))
         /\ Cardinality(DOMAIN WithRule(t, s, g))
              = Cardinality(DOMAIN t) + Cardinality(Path(s) \ DOMAIN t)
         /\ Cardinality(DOMAIN t) \in Nat
         /\ Cardinality(Path(s) \ DOMAIN t) \in Nat
<1> DEFINE missing == Path(s) \ DOMAIN t
<1>1. IsFiniteSet(Path(s))
  BY PathFacts
<1>2. IsFiniteSet(missing)
  BY <1>1, FS_Difference
<1>3. DOMAIN WithRule(t, s, g) = DOMAIN t \cup missing /\ DOMAIN t \cap missing = {}
  BY DEF WithRule
<1>4. /\ IsFiniteSet(DOMAIN t \cup missing)
      /\ Cardinality(DOMAIN t \cup missing)
           = Cardinality(DOMAIN t) + Cardinality(missing) - Cardinality(DOMAIN t \cap missing)
  BY <1>2, FS_Union
<1>5. Cardinality(DOMAIN t) \in Nat /\ Cardinality(missing) \in Nat /\ Cardinality({}) = 0
  BY <1>2, FS_CardinalityType, FS_EmptySet
<1>6. DOMAIN t \cup missing = DOMAIN WithRule(t, s, g)
  BY <1>3, Zenon
<1> HIDE DEF missing
<1>7. /\ IsFiniteSet(DOMAIN WithRule(t, s, g))
      /\ Cardinality(DOMAIN WithRule(t, s, g)) = Cardinality(DOMAIN t) + Cardinality(missing)
  <2>1. Cardinality(DOMAIN t \cap missing) = 0
    BY <1>3, <1>5, Zenon
  <2>2. Cardinality(DOMAIN t \cup missing) = Cardinality(DOMAIN t) + Cardinality(missing)
    BY <1>4, <1>5, <2>1
  <2>3. QED BY <1>4, <1>6, <2>2, Zenon
<1>8. QED BY <1>5, <1>7 DEF missing

\* The tries, the serial and the counts keep their types, and the nodes in use
\* and those waiting to be freed fit in the zone.
LEMMA PublishTypes ==
  ASSUME TypeInv, NEW text \in Texts \cup Keys, NEW all \in BOOLEAN,
         NEW conditional \in BOOLEAN, Publish(text, all, conditional)
  PROVE  /\ serial' = serial + 1 /\ serial' \in 1..MaxSerial
         /\ baseline' \in 1..serial' /\ baseline' >= baseline
         /\ epoch' = epoch /\ markers' = markers
         /\ Trie(exact', serial') /\ Trie(prefix', serial')
         /\ IsFiniteSet(DOMAIN exact') /\ IsFiniteSet(DOMAIN prefix')
         /\ garbage' \in Nat /\ garbage' + Nodes' <= Capacity
         /\ accepted' \in [Keys -> Nat]
<1> DEFINE left     == garbage - Min2(garbage, Reclaim)
           selector == IsSelector(text, conditional)
           rule     == IF selector THEN Lowered(Front(text)) ELSE text
           missing  == Path(rule) \ DOMAIN (IF selector THEN prefix ELSE exact)
           nodes(e, p) == Cardinality(DOMAIN e) + Cardinality(DOMAIN p)
<1>1. /\ serial \in 1..MaxSerial /\ baseline \in 1..serial /\ MaxSerial \in Nat
      /\ Trie(exact, serial) /\ Trie(prefix, serial)
      /\ IsFiniteSet(DOMAIN exact) /\ IsFiniteSet(DOMAIN prefix)
      /\ garbage \in Nat /\ garbage + nodes(exact, prefix) <= Capacity
      /\ Reclaim \in Nat /\ Capacity \in Nat
      /\ accepted \in [Keys -> Nat]
  BY GenerationAssumption DEF TypeInv, TypeOK, Trie, Nodes
<1>2. serial' = serial + 1 /\ serial' \in 1..MaxSerial
  <2>1. serial < MaxSerial /\ serial' = serial + 1
    BY DEF Publish
  <2>2. QED BY <1>1, <2>1
<1>3. left \in Nat /\ left <= garbage
  BY <1>1 DEF Min2
<1>4. /\ Cardinality(DOMAIN exact) \in Nat /\ Cardinality(DOMAIN prefix) \in Nat
      /\ IsFiniteSet(DOMAIN NoRules) /\ Cardinality(DOMAIN NoRules) = 0
  BY <1>1, FS_CardinalityType, FS_EmptySet DEF NoRules
<1>5. Trie(NoRules, serial') /\ serial' \in Nat
  BY <1>2 DEF Trie, NoRules
<1>6. rule \in Seq(DOMAIN Lower)
  BY RuleFacts
<1>7. accepted' \in [Keys -> Nat]
  BY <1>1 DEF Publish
<1>8. epoch' = epoch /\ markers' = markers
  BY DEF Publish
<1>9. \/ Reset(left)
      \/ Exhausted(left)
      \/ /\ rule # <<>> /\ Cardinality(missing) <= Free(left)
         /\ IF selector
               THEN prefix' = WithRule(prefix, rule, serial') /\ exact' = exact
               ELSE exact' = WithRule(exact, rule, serial') /\ prefix' = prefix
         /\ garbage' = left
         /\ UNCHANGED baseline
  BY Zenon DEF Publish
<1>10. Nodes' = nodes(exact', prefix')
  BY DEF Nodes
<1> HIDE DEF left, rule
<1>11. CASE Reset(left)
  <2>1. baseline' = serial' /\ exact' = NoRules /\ prefix' = NoRules
        /\ garbage' = left + nodes(exact, prefix)
    BY <1>11 DEF Reset, Nodes
  <2>2. nodes(exact', prefix') = 0
    BY <1>4, <2>1
  <2>3. garbage' \in Nat /\ garbage' + Nodes' <= Capacity
    BY <1>1, <1>3, <1>4, <1>10, <2>1, <2>2
  <2>4. baseline' \in 1..serial' /\ baseline' >= baseline
    BY <1>1, <1>2, <2>1
  <2>5. QED BY <1>2, <1>4, <1>5, <1>7, <1>8, <2>1, <2>3, <2>4
<1>12. CASE Exhausted(left)
  <2>1. baseline' = serial' /\ exact' = NoRules /\ prefix' = NoRules
        /\ garbage' = Capacity
    BY <1>12 DEF Exhausted
  <2>2. nodes(exact', prefix') = 0
    BY <1>4, <2>1
  <2>3. garbage' \in Nat /\ garbage' + Nodes' <= Capacity
    BY <1>1, <1>10, <2>1, <2>2
  <2>4. baseline' \in 1..serial' /\ baseline' >= baseline
    BY <1>1, <1>2, <2>1
  <2>5. QED BY <1>2, <1>4, <1>5, <1>7, <1>8, <2>1, <2>3, <2>4
<1>13. CASE /\ rule # <<>> /\ Cardinality(missing) <= Free(left)
            /\ IF selector
                  THEN prefix' = WithRule(prefix, rule, serial') /\ exact' = exact
                  ELSE exact' = WithRule(exact, rule, serial') /\ prefix' = prefix
            /\ garbage' = left
            /\ UNCHANGED baseline
  <2>1. Free(left) = Capacity - nodes(exact, prefix) - left
    BY DEF Free, Nodes
  <2>2. baseline' \in 1..serial' /\ baseline' >= baseline
    BY <1>1, <1>2, <1>13
  <2>3. rule \in Seq(DOMAIN Lower) \ {<<>>}
    BY <1>6, <1>13
  <2>4. Trie(exact, serial') /\ Trie(prefix, serial')
    BY <1>1, <1>2 DEF Trie
  <2>5. CASE selector
    <3>1. prefix' = WithRule(prefix, rule, serial') /\ exact' = exact
          /\ missing = Path(rule) \ DOMAIN prefix
      BY <1>13, <2>5
    <3>2. /\ IsFiniteSet(DOMAIN prefix')
          /\ Cardinality(DOMAIN prefix') = Cardinality(DOMAIN prefix) + Cardinality(missing)
          /\ Cardinality(missing) \in Nat
      BY <1>1, <2>3, <3>1, NodesAdded
    <3>3. Trie(prefix', serial')
      BY <1>1, <1>2, <2>3, <3>1, ExactRule
    <3>4. garbage' + Nodes' <= Capacity
      BY <1>1, <1>3, <1>4, <1>10, <1>13, <2>1, <3>1, <3>2
    <3>5. QED BY <1>1, <1>2, <1>3, <1>7, <1>8, <1>13, <2>2, <2>4, <3>1, <3>2, <3>3, <3>4
  <2>6. CASE ~selector
    <3>1. exact' = WithRule(exact, rule, serial') /\ prefix' = prefix
          /\ missing = Path(rule) \ DOMAIN exact
      BY <1>13, <2>6
    <3>2. /\ IsFiniteSet(DOMAIN exact')
          /\ Cardinality(DOMAIN exact') = Cardinality(DOMAIN exact) + Cardinality(missing)
          /\ Cardinality(missing) \in Nat
      BY <1>1, <2>3, <3>1, NodesAdded
    <3>3. Trie(exact', serial')
      BY <1>1, <1>2, <2>3, <3>1, ExactRule
    <3>4. garbage' + Nodes' <= Capacity
      BY <1>1, <1>3, <1>4, <1>10, <1>13, <2>1, <3>1, <3>2
    <3>5. QED BY <1>1, <1>2, <1>3, <1>7, <1>8, <1>13, <2>2, <2>4, <3>1, <3>2, <3>3, <3>4
  <2>7. QED BY <2>5, <2>6
<1>14. QED BY <1>9, <1>11, <1>12, <1>13
\* The keys an invalidation is for get the new serial as their generation; so do
\* all keys, or the others keep theirs.
LEMMA PublishVersions ==
  ASSUME TypeInv, NEW text \in Texts \cup Keys, NEW all \in BOOLEAN,
         NEW conditional \in BOOLEAN, Publish(text, all, conditional)
  PROVE  /\ \A k \in Keys : all \/ k \in Covered(text, conditional) => Lookup(k)' = serial'
         /\ \/ \A k \in Keys : Lookup(k)' = serial'
            \/ /\ ~all
               /\ \A k \in Keys \ Covered(text, conditional) : Lookup(k)' = Lookup(k)
<1> DEFINE left     == garbage - Min2(garbage, Reclaim)
           selector == IsSelector(text, conditional)
           rule     == IF selector THEN Lowered(Front(text)) ELSE text
<1>1. /\ serial \in Nat /\ serial' = serial + 1 /\ baseline \in 0..serial
      /\ Trie(exact, serial) /\ Trie(prefix, serial)
  BY PublishTypes DEF TypeInv, TypeOK, Trie
<1>2. \/ Reset(left) \/ Exhausted(left)
      \/ /\ ~all /\ rule # <<>> /\ baseline' = baseline
         /\ IF selector
               THEN prefix' = WithRule(prefix, rule, serial') /\ exact' = exact
               ELSE exact' = WithRule(exact, rule, serial') /\ prefix' = prefix
  BY Zenon DEF Publish
<1>3. rule \in Seq(DOMAIN Lower)
  BY RuleFacts
<1>4. CASE Reset(left) \/ Exhausted(left)
  <2>1. baseline' = serial' /\ exact' = NoRules /\ prefix' = NoRules
    BY <1>4 DEF Reset, Exhausted
  <2>2. Trie(NoRules, serial') /\ serial' \in Nat
    BY <1>1 DEF Trie, NoRules
  <2>3. ASSUME NEW k \in Keys PROVE Lookup(k)' = serial'
    <3>1. Max(Candidates(serial', NoRules, NoRules, k)) \in serial'..serial'
      BY <2>2, CandidateFacts
    <3>2. Lookup(k)' \in serial'..serial'
      BY <2>1, <3>1, LookupFacts
    <3>3. QED BY <2>2, <3>2
  <2>4. QED BY <2>3
<1>5. CASE /\ ~all /\ rule # <<>> /\ baseline' = baseline
           /\ IF selector
                 THEN prefix' = WithRule(prefix, rule, serial') /\ exact' = exact
                 ELSE exact' = WithRule(exact, rule, serial') /\ prefix' = prefix
  <2> SUFFICES ASSUME NEW k \in Keys
               PROVE  /\ k \in Covered(text, conditional) => Lookup(k)' = serial'
                      /\ k \notin Covered(text, conditional) => Lookup(k)' = Lookup(k)
    BY <1>5
  <2>1. rule \in Seq(DOMAIN Lower) \ {<<>>}
    BY <1>3, <1>5
  <2>2. Lookup(k) = Max(Candidates(baseline, exact, prefix, k))
        /\ Lookup(k)' = Max(Candidates(baseline', exact', prefix', k))
    BY LookupFacts
  <2>3. CASE selector
    <3>1. baseline' = baseline /\ exact' = exact
          /\ prefix' = WithRule(prefix, rule, serial + 1)
      BY <1>1, <1>5, <2>3
    <3>2. Lowered(k) \in Seq(DOMAIN Lower)
      BY RuleFacts, LoweredFacts
    <3>3. k \in Covered(text, conditional) <=> IsPrefix(rule, Lowered(k))
      BY <2>3 DEF Covered
    <3>4. rule \in Path(Lowered(k)) <=> IsPrefix(rule, Lowered(k))
      BY <2>1, <3>2, PathFacts
    <3> HIDE DEF rule
    <3>5. /\ rule \in Path(Lowered(k)) => Lookup(k)' = serial + 1
          /\ rule \notin Path(Lowered(k)) => Lookup(k)' = Lookup(k)
      BY <1>1, <2>1, <2>2, <3>1, PrefixRule
    <3>6. QED BY <1>1, <3>3, <3>4, <3>5
  <2>4. CASE ~selector
    <3>1. baseline' = baseline /\ prefix' = prefix /\ rule = text
          /\ exact' = WithRule(exact, rule, serial + 1)
      BY <1>1, <1>5, <2>4
    <3>2. k \in Covered(text, conditional) <=> k = text
      BY <2>4 DEF Covered
    <3> HIDE DEF rule
    <3>3. /\ k = rule => Lookup(k)' = serial + 1
          /\ k # rule => Lookup(k)' = Lookup(k)
      BY <1>1, <2>1, <2>2, <3>1, ExactRule
    <3>4. QED BY <1>1, <3>1, <3>2, <3>3
  <2>5. QED BY <2>3, <2>4
<1>6. QED BY <1>2, <1>4, <1>5

\* The two ways an invalidation can end for a key: its generation is above every
\* one there was, or neither that nor the count of its invalidations changes.
LEMMA RenewedOrKept ==
  ASSUME TypeInv, NEW text \in Texts \cup Keys, NEW all \in BOOLEAN,
         NEW conditional \in BOOLEAN, Publish(text, all, conditional) \/ Refused,
         NEW k \in Keys
  PROVE  /\ serial' >= serial
         /\ \/ serial' > serial /\ Lookup(k)' = serial' /\ accepted'[k] >= accepted[k]
            \/ Lookup(k)' = Lookup(k) /\ accepted'[k] = accepted[k]
<1>1. serial \in Nat /\ accepted \in [Keys -> Nat]
  BY DEF TypeInv, TypeOK
<1>2. CASE Publish(text, all, conditional)
  <2>1. serial' = serial + 1
    BY <1>2, PublishTypes
  <2>2. accepted'[k] = IF all \/ k \in Covered(text, conditional)
                       THEN accepted[k] + 1 ELSE accepted[k]
    BY <1>2, Zenon DEF Publish
  <2>3. \/ Lookup(k)' = serial'
        \/ ~(all \/ k \in Covered(text, conditional)) /\ Lookup(k)' = Lookup(k)
    BY <1>2, PublishVersions
  <2>4. accepted'[k] >= accepted[k]
    BY <1>1, <2>2
  <2>5. QED BY <1>1, <2>1, <2>2, <2>3, <2>4
<1>3. CASE Refused
  <2>1. serial' = serial /\ accepted' = accepted
        /\ baseline' = baseline /\ exact' = exact /\ prefix' = prefix
    BY <1>3 DEF Refused, zoneVars
  <2>2. Lookup(k)' = Lookup(k)
    BY <2>1, LookupFacts
  <2>3. QED BY <1>1, <2>1, <2>2
<1>4. QED BY <1>2, <1>3
-----------------------------------------------------------------------------
(* Types *)

\* The part of TypeOK that is about the zone, and the one about its users.
ZoneTypes ==
    /\ serial \in 1..MaxSerial /\ baseline \in 1..serial
    /\ epoch \in markers /\ markers \subseteq Epochs
    /\ Trie(exact, serial) /\ Trie(prefix, serial)
    /\ IsFiniteSet(DOMAIN exact) /\ IsFiniteSet(DOMAIN prefix)
    /\ garbage \in Nat /\ garbage + Nodes <= Capacity
    /\ accepted \in [Keys -> Nat]

Snapshots ==
    [key : Keys, epoch : {epoch}, gen : 1..serial, since : Nat, seen : Nat \cup {Null}]

UserTypes ==
    /\ files \subseteq Files
    /\ request \in [Requests -> {Null} \cup Snapshots]
    /\ probe \in [Refreshers -> {Null} \cup [file : Files, at : Nat]]
    /\ doomed \in [Sweepers -> {Null} \cup Files]

\* TypeInv consists of these parts.
LEMMA TypeParts == TypeInv <=> ZoneTypes /\ UserTypes
BY Zenon DEF TypeInv, TypeOK, ZoneTypes, UserTypes, Snapshots, Trie

\* The types hold initially.
LEMMA TypeInit == Init => TypeInv
<1> SUFFICES ASSUME Init PROVE ZoneTypes /\ UserTypes
  BY TypeParts
<1>1. DOMAIN NoRules = {} /\ IsFiniteSet({}) /\ Cardinality({}) = 0
  BY FS_EmptySet DEF NoRules
<1>2. Trie(NoRules, 1)
  BY DEF Trie, NoRules
<1>3. Nodes = 0
  BY <1>1 DEF Init, Nodes
<1>4. ZoneTypes
  BY <1>1, <1>2, <1>3, GenerationAssumption DEF Init, ZoneTypes
<1>5. UserTypes
  BY DEF Init, UserTypes
<1>6. QED BY <1>4, <1>5

\* The records of users keep their types while the zone goes on.
LEMMA UsersKept ==
  ASSUME TypeInv, UNCHANGED <<files, request, probe, doomed>>,
         epoch' = epoch, markers' = markers, serial' \in Nat, serial' >= serial
  PROVE  UserTypes'
<1>1. UserTypes /\ serial \in Nat
  BY TypeParts DEF ZoneTypes
<1>2. Files' = Files
  BY DEF Files
<1>3. Snapshots \subseteq Snapshots'
  BY <1>1 DEF Snapshots
<1>4. QED BY <1>1, <1>2, <1>3 DEF UserTypes

\* An admitted or refused invalidation keeps the types of the zone.
LEMMA ZoneKept ==
  ASSUME TypeInv, NEW text \in Texts \cup Keys, NEW all \in BOOLEAN,
         NEW conditional \in BOOLEAN, Publish(text, all, conditional) \/ Refused
  PROVE  /\ ZoneTypes'
         /\ epoch' = epoch /\ markers' = markers /\ serial' \in Nat /\ serial' >= serial
<1>1. ZoneTypes
  BY TypeParts
<1>2. CASE Publish(text, all, conditional)
  <2>1. serial \in Nat /\ serial' = serial + 1
    BY <1>1, <1>2, PublishTypes DEF ZoneTypes
  <2>2. QED BY <1>1, <1>2, <2>1, PublishTypes DEF ZoneTypes
<1>3. CASE Refused
  BY <1>1, <1>3 DEF Refused, zoneVars, ZoneTypes, Nodes
<1>4. QED BY <1>2, <1>3
\* Every step keeps the types.
LEMMA TypeStep == TypeInv /\ [Next]_vars => TypeInv'
<1> SUFFICES ASSUME TypeInv, [Next]_vars PROVE ZoneTypes' /\ UserTypes'
  BY TypeParts, PTL
<1>1. ZoneTypes /\ UserTypes
  BY TypeParts
<1>2. /\ files \subseteq Files
      /\ request \in [Requests -> {Null} \cup Snapshots]
      /\ probe \in [Refreshers -> {Null} \cup [file : Files, at : Nat]]
      /\ doomed \in [Sweepers -> {Null} \cup Files]
      /\ serial \in 1..MaxSerial /\ epoch \in markers /\ MaxSerial \in Nat
      /\ accepted \in [Keys -> Nat]
  BY <1>1, GenerationAssumption DEF ZoneTypes, UserTypes
<1>3. UNCHANGED <<zoneVars, accepted>> =>
         ZoneTypes' /\ Files' = Files /\ Snapshots' = Snapshots
  BY <1>1 DEF zoneVars, ZoneTypes, Nodes, Files, Snapshots
<1>4. ASSUME NEW text \in Texts, NEW all \in BOOLEAN, Purge(text, all)
      PROVE  ZoneTypes' /\ UserTypes'
  <2>1. (Publish(text, all, FALSE) \/ Refused) /\ UNCHANGED <<files, request, probe, doomed>>
    BY <1>4 DEF Purge
  <2>2. ZoneTypes' /\ epoch' = epoch /\ markers' = markers
        /\ serial' \in Nat /\ serial' >= serial
    BY <2>1, ZoneKept
  <2>3. QED BY <2>1, <2>2, UsersKept
<1>5. ASSUME NEW j \in Refreshers, NEW f \in files, Collect(j, f)
      PROVE  ZoneTypes' /\ UserTypes'
  <2>1. f \in Files /\ accepted[f.key] \in Nat
    BY <1>2 DEF Files
  <2>2. [file |-> f, at |-> accepted[f.key]] \in [file : Files, at : Nat]
    BY <2>1
  <2>3. probe' \in [Refreshers -> {Null} \cup [file : Files, at : Nat]]
    BY <1>2, <1>5, <2>2 DEF Collect
  <2>4. QED BY <1>2, <1>3, <1>5, <2>3 DEF Collect, UserTypes
<1>6. ASSUME NEW j \in Refreshers, RefreshInvalidate(j)
      PROVE  ZoneTypes' /\ UserTypes'
  <2>1. probe[j].file \in Files
    BY <1>2, <1>6 DEF RefreshInvalidate
  <2>2. probe[j].file.key \in Keys
    BY <2>1 DEF Files
  <2>3. (Publish(probe[j].file.key, FALSE, TRUE) \/ Refused) /\ UNCHANGED <<files, request, doomed>>
        /\ probe' = [probe EXCEPT ![j] = Null]
    BY <1>6 DEF RefreshInvalidate
  <2>4. ZoneTypes' /\ epoch' = epoch /\ markers' = markers
        /\ serial' \in Nat /\ serial' >= serial
    BY <2>2, <2>3, ZoneKept
  <2>5. Files' = Files /\ Snapshots \subseteq Snapshots'
    BY <1>2, <2>4 DEF Files, Snapshots
  <2>6. QED BY <1>2, <2>3, <2>4, <2>5 DEF UserTypes
<1>7. ASSUME NEW j \in Refreshers, RefreshKeep(j)
      PROVE  ZoneTypes' /\ UserTypes'
  BY <1>2, <1>3, <1>7 DEF RefreshKeep, UserTypes
<1>8. ASSUME NEW w \in Sweepers, NEW f \in files, SweepCheck(w, f)
      PROVE  ZoneTypes' /\ UserTypes'
  BY <1>2, <1>3, <1>8 DEF SweepCheck, UserTypes
<1>9. ASSUME NEW w \in Sweepers, SweepUnlink(w)
      PROVE  ZoneTypes' /\ UserTypes'
  BY <1>2, <1>3, <1>9 DEF SweepUnlink, UserTypes
<1>10. ASSUME NEW f \in files, Evict(f)
       PROVE  ZoneTypes' /\ UserTypes'
  BY <1>2, <1>3, <1>10 DEF Evict, UserTypes
<1>11. ASSUME NEW r \in Requests, NEW k \in Keys, GenerationKey(r, k)
       PROVE  ZoneTypes' /\ UserTypes'
  <2>1. Lookup(k) \in 1..serial
    <3>1. Lookup(k) \in baseline..serial /\ baseline \in 1..serial
      BY <1>1, LookupType DEF ZoneTypes
    <3>2. QED BY <1>2, <3>1
  <2>2. [key |-> k, epoch |-> epoch, gen |-> Lookup(k), since |-> accepted[k],
         seen |-> Null] \in Snapshots
    BY <1>2, <2>1 DEF Snapshots
  <2>3. request' \in [Requests -> {Null} \cup Snapshots]
    BY <1>2, <1>11, <2>2 DEF GenerationKey
  <2>4. QED BY <1>2, <1>3, <1>11, <2>3 DEF GenerationKey, UserTypes
<1>12. ASSUME NEW r \in Requests, Fetch(r)
       PROVE  ZoneTypes' /\ UserTypes'
  <2>1. request[r] \in Snapshots
    BY <1>2, <1>12 DEF Fetch
  <2>2. accepted[request[r].key] \in Nat
    BY <1>2, <2>1 DEF Snapshots
  <2>3. [request[r] EXCEPT !.seen = accepted[request[r].key]] \in Snapshots
    BY <2>1, <2>2 DEF Snapshots
  <2>4. request' \in [Requests -> {Null} \cup Snapshots]
    BY <1>2, <1>12, <2>3 DEF Fetch
  <2>5. QED BY <1>2, <1>3, <1>12, <2>4 DEF Fetch, UserTypes
<1>13. ASSUME NEW r \in Requests, Store(r)
       PROVE  ZoneTypes' /\ UserTypes'
  <2> DEFINE q == request[r]
             f == [key |-> q.key, epoch |-> q.epoch, gen |-> q.gen, seen |-> q.seen]
  <2>1. q \in Snapshots /\ q.seen # Null
    BY <1>2, <1>13 DEF Store
  <2>2. f \in Files
    BY <1>2, <2>1 DEF Snapshots, Files
  <2>3. files' \subseteq files \cup {f} /\ request' = [request EXCEPT ![r] = Null]
        /\ UNCHANGED <<zoneVars, probe, doomed, accepted>>
    BY <1>13 DEF Store
  <2>4. files' \subseteq Files
    BY <1>2, <2>2, <2>3
  <2>5. QED BY <1>2, <1>3, <2>3, <2>4 DEF UserTypes
<1>14. ASSUME NEW r \in Requests, Done(r)
       PROVE  ZoneTypes' /\ UserTypes'
  BY <1>2, <1>3, <1>14 DEF Done, UserTypes
<1>15. ASSUME NEW e \in Epochs, Restart(e)
       PROVE  ZoneTypes' /\ UserTypes'
  <2>1. DOMAIN NoRules = {} /\ IsFiniteSet({}) /\ Cardinality({}) = 0
    BY FS_EmptySet DEF NoRules
  <2>2. Trie(NoRules, 1)
    BY DEF Trie, NoRules
  <2>3. exact' = NoRules /\ prefix' = NoRules /\ Nodes' = 0
    BY <1>15, <2>1 DEF Restart, Nodes
  <2>4. ZoneTypes'
    BY <1>1, <1>15, <2>1, <2>2, <2>3, GenerationAssumption DEF Restart, ZoneTypes
  <2>5. Files \subseteq Files'
    BY <1>15 DEF Restart, Files
  <2>6. UserTypes'
    BY <1>2, <1>15, <2>5 DEF Restart, UserTypes
  <2>7. QED BY <2>4, <2>6
<1>16. CASE UNCHANGED vars
  <2>1. UNCHANGED <<zoneVars, accepted>> /\ UNCHANGED <<files, request, probe, doomed>>
    BY <1>16 DEF vars
  <2>2. QED BY <1>2, <1>3, <2>1 DEF UserTypes
<1>17. QED
  BY <1>4, <1>5, <1>6, <1>7, <1>8, <1>9, <1>10, <1>11, <1>12, <1>13, <1>14, <1>15, <1>16
  DEF Next

\* The types hold for ever: in particular the nodes in use and those that wait
\* to be freed never need more memory than the zone has, and no snapshot of a
\* request is of another epoch or above the last serial.
THEOREM TypeCorrect == Spec => []TypeOK
<1>1. TypeInv => TypeOK
  BY DEF TypeInv
<1>2. QED BY TypeInit, TypeStep, <1>1, PTL DEF Spec
-----------------------------------------------------------------------------
(* Freshness *)

\* What was learnt when known invalidations of the key had been accepted, and is
\* kept under generation gen of epoch e: as long as that is what the key stands
\* for, no other invalidation has been accepted.
EntryFresh(key, e, gen, known) ==
    e = epoch => gen <= serial /\ (gen = Lookup(key) => known = accepted[key])

FilesFresh == \A f \in files : EntryFresh(f.key, f.epoch, f.gen, f.seen)

RequestFresh(q) ==
    /\ q.since <= accepted[q.key]
    /\ EntryFresh(q.key, q.epoch, q.gen, q.since)
    /\ q.seen # Null => EntryFresh(q.key, q.epoch, q.gen, q.seen)

RequestsFresh == \A r \in Requests : request[r] # Null => RequestFresh(request[r])

\* Requests with the same encoded key began between the same invalidations, and
\* what one has fetched will do for the other.
SnapshotsAgree ==
    \A r, o \in Requests :
        request[r] # Null /\ request[o] # Null /\ SameEntry(request[r], request[o]) =>
            /\ request[r].since = request[o].since
            /\ request[r].seen # Null => request[r].seen >= request[o].since

ProbeFresh(x) == EntryFresh(x.file.key, x.file.epoch, x.file.gen, x.at)

ProbesFresh == \A j \in Refreshers : probe[j] # Null => ProbeFresh(probe[j])

DoomedStale == \A w \in Sweepers : doomed[w] # Null => Stale(doomed[w])

\* The inductive invariant behind NeverServesStale and the action properties.
FreshInv ==
    /\ TypeInv
    /\ FilesFresh
    /\ RequestsFresh
    /\ SnapshotsAgree
    /\ NeverServesStale
    /\ ProbesFresh
    /\ DoomedStale

\* What a step within an epoch does to a key.
KeyStep(k) ==
    /\ epoch' = epoch /\ serial' \in Nat /\ serial' >= serial /\ accepted'[k] \in Nat
    /\ \/ serial' > serial /\ Lookup(k)' = serial' /\ accepted'[k] >= accepted[k]
       \/ Lookup(k)' = Lookup(k) /\ accepted'[k] = accepted[k]

\* An admitted or refused invalidation is such a step, and so is one that does
\* not touch the zone.
LEMMA InvalidationKeySteps ==
  ASSUME TypeInv, NEW text \in Texts \cup Keys, NEW all \in BOOLEAN,
         NEW conditional \in BOOLEAN, Publish(text, all, conditional) \/ Refused
  PROVE  \A k \in Keys : KeyStep(k)
BY ZoneKept, RenewedOrKept DEF KeyStep, ZoneTypes

LEMMA QuietKeySteps ==
  ASSUME TypeInv, UNCHANGED <<zoneVars, accepted>>
  PROVE  \A k \in Keys : KeyStep(k)
<1>1. serial \in Nat /\ accepted \in [Keys -> Nat]
  BY DEF TypeInv, TypeOK
<1>2. \A k \in Keys : Lookup(k)' = Lookup(k)
  BY DEF zoneVars, Lookup
<1>3. QED BY <1>1, <1>2 DEF KeyStep, zoneVars

\* Fresh entries stay fresh, and stale ones stale, within an epoch.
LEMMA EntriesKept ==
  ASSUME TypeInv, NEW k \in Keys, KeyStep(k)
  PROVE  /\ \A e, known : \A g \in Nat : EntryFresh(k, e, g, known) => EntryFresh(k, e, g, known)'
         /\ \A f : f.key = k /\ f.gen \in Nat /\ Stale(f) => Stale(f)'
         /\ \A n \in Nat : n <= accepted[k] => n <= accepted'[k]
<1>1. serial \in Nat /\ Lookup(k) \in Nat /\ Lookup(k) <= serial /\ accepted[k] \in Nat
  <2>1. Lookup(k) \in baseline..serial /\ serial \in Nat /\ baseline \in 1..serial
    BY LookupType DEF TypeInv, TypeOK
  <2>2. accepted[k] \in Nat
    BY DEF TypeInv, TypeOK
  <2>3. QED BY <2>1, <2>2
<1>2. /\ epoch' = epoch /\ serial' \in Nat /\ serial' >= serial /\ accepted'[k] \in Nat
      /\ \/ serial' > serial /\ Lookup(k)' = serial' /\ accepted'[k] >= accepted[k]
         \/ Lookup(k)' = Lookup(k) /\ accepted'[k] = accepted[k]
  BY DEF KeyStep
<1>3. ASSUME NEW e, NEW known, NEW g \in Nat, EntryFresh(k, e, g, known)
      PROVE  EntryFresh(k, e, g, known)'
  <2>1. e = epoch => g <= serial /\ (g = Lookup(k) => known = accepted[k])
    BY <1>3 DEF EntryFresh
  <2>2. e = epoch' => g <= serial' /\ (g = Lookup(k)' => known = accepted'[k])
    BY <1>1, <1>2, <2>1
  <2>3. QED BY <2>2 DEF EntryFresh
<1>4. ASSUME NEW f, f.key = k, f.gen \in Nat, Stale(f)
      PROVE  Stale(f)'
  <2>1. f.epoch # epoch \/ f.gen < Lookup(k)
    BY <1>4 DEF Stale
  <2>2. f.epoch # epoch' \/ f.gen < Lookup(k)'
    BY <1>1, <1>2, <1>4, <2>1
  <2>3. QED BY <1>4, <2>2 DEF Stale
<1>5. \A n \in Nat : n <= accepted[k] => n <= accepted'[k]
  <2>1. accepted'[k] >= accepted[k]
    BY <1>1, <1>2
  <2>2. QED BY <1>1, <1>2, <2>1
<1>6. QED BY <1>3, <1>4, <1>5

\* Within an epoch, entries that are only dropped keep what FreshInv says.
LEMMA UsersFreshKept ==
  ASSUME FreshInv, \A k \in Keys : KeyStep(k)
  PROVE  /\ files' \subseteq files => FilesFresh'
         /\ (\A r \in Requests : request'[r] \in {request[r], Null}) =>
               /\ RequestsFresh' /\ SnapshotsAgree'
               /\ files' \subseteq files => NeverServesStale'
         /\ (\A j \in Refreshers : probe'[j] \in {probe[j], Null}) => ProbesFresh'
         /\ (\A w \in Sweepers : doomed'[w] \in {doomed[w], Null}) => DoomedStale'
<1>1. TypeInv
  BY DEF FreshInv
<1>2. /\ files \subseteq Files
      /\ \A r \in Requests : request[r] # Null => request[r] \in Snapshots
      /\ \A j \in Refreshers : probe[j] # Null => probe[j] \in [file : Files, at : Nat]
      /\ \A w \in Sweepers : doomed[w] # Null => doomed[w] \in Files
      /\ serial \in Nat
  BY <1>1, TypeParts DEF UserTypes, ZoneTypes
<1>3. ASSUME NEW f \in Files PROVE f.key \in Keys /\ f.gen \in Nat
  BY <1>3, GenerationAssumption DEF Files
<1>4. ASSUME NEW q \in Snapshots PROVE q.key \in Keys /\ q.gen \in Nat /\ q.since \in Nat
  BY <1>2, <1>4 DEF Snapshots
<1>5. ASSUME files' \subseteq files PROVE FilesFresh'
  <2> SUFFICES ASSUME NEW f \in files'
               PROVE  EntryFresh(f.key, f.epoch, f.gen, f.seen)'
    BY DEF FilesFresh
  <2>1. f \in files /\ f \in Files
    BY <1>2, <1>5
  <2>2. EntryFresh(f.key, f.epoch, f.gen, f.seen)
    BY <2>1 DEF FreshInv, FilesFresh
  <2>3. f.key \in Keys /\ f.gen \in Nat
    BY <1>3, <2>1
  <2>4. QED BY <1>1, <2>2, <2>3, EntriesKept
<1>6. ASSUME \A r \in Requests : request'[r] \in {request[r], Null}
      PROVE  /\ RequestsFresh' /\ SnapshotsAgree'
             /\ files' \subseteq files => NeverServesStale'
  <2>1. RequestsFresh'
    <3> SUFFICES ASSUME NEW r \in Requests, NEW q, q = request'[r], q # Null
                 PROVE  RequestFresh(q)'
      BY DEF RequestsFresh
    <3>1. q = request[r]
      BY <1>6
    <3>2. q.key \in Keys /\ q.gen \in Nat /\ q.since \in Nat
      BY <1>2, <1>4, <3>1
    <3>3. RequestFresh(q)
      BY <3>1 DEF FreshInv, RequestsFresh
    <3>4. /\ q.since <= accepted[q.key] => q.since <= accepted'[q.key]
          /\ EntryFresh(q.key, q.epoch, q.gen, q.since)
                => EntryFresh(q.key, q.epoch, q.gen, q.since)'
          /\ EntryFresh(q.key, q.epoch, q.gen, q.seen)
                => EntryFresh(q.key, q.epoch, q.gen, q.seen)'
      BY <1>1, <3>2, EntriesKept
    <3>5. QED BY <3>3, <3>4 DEF RequestFresh
  <2>2. SnapshotsAgree'
    BY <1>6 DEF FreshInv, SnapshotsAgree
  <2>3. files' \subseteq files => NeverServesStale'
    BY <1>6 DEF FreshInv, NeverServesStale
  <2>4. QED BY <2>1, <2>2, <2>3
<1>7. ASSUME \A j \in Refreshers : probe'[j] \in {probe[j], Null} PROVE ProbesFresh'
  <2> SUFFICES ASSUME NEW j \in Refreshers, NEW x, x = probe'[j], x # Null
               PROVE  ProbeFresh(x)'
    BY DEF ProbesFresh
  <2>1. x = probe[j]
    BY <1>7
  <2>2. x.file.key \in Keys /\ x.file.gen \in Nat
    BY <1>2, <1>3, <2>1
  <2>3. ProbeFresh(x)
    BY <2>1 DEF FreshInv, ProbesFresh
  <2>4. QED BY <1>1, <2>2, <2>3, EntriesKept DEF ProbeFresh
<1>8. ASSUME \A w \in Sweepers : doomed'[w] \in {doomed[w], Null} PROVE DoomedStale'
  <2> SUFFICES ASSUME NEW w \in Sweepers, NEW f, f = doomed'[w], f # Null
               PROVE  Stale(f)'
    BY DEF DoomedStale
  <2>1. f = doomed[w]
    BY <1>8
  <2>2. f.key \in Keys /\ f.gen \in Nat
    BY <1>2, <1>3, <2>1
  <2>3. Stale(f)
    BY <2>1 DEF FreshInv, DoomedStale
  <2>4. QED BY <1>1, <2>2, <2>3, EntriesKept
<1>9. QED BY <1>5, <1>6, <1>7, <1>8

\* The cache is empty initially.
LEMMA FreshInit == Init => FreshInv
<1> SUFFICES ASSUME Init PROVE FreshInv
  OBVIOUS
<1>1. /\ files = {} /\ \A r \in Requests : request[r] = Null
      /\ \A j \in Refreshers : probe[j] = Null
      /\ \A w \in Sweepers : doomed[w] = Null
  BY DEF Init
<1>2. TypeInv
  BY TypeInit
<1>3. FilesFresh /\ RequestsFresh /\ SnapshotsAgree /\ NeverServesStale
  BY <1>1 DEF FilesFresh, RequestsFresh, SnapshotsAgree, NeverServesStale
<1>4. ProbesFresh /\ DoomedStale
  BY <1>1 DEF ProbesFresh, DoomedStale
<1>5. QED BY <1>2, <1>3, <1>4 DEF FreshInv

\* A new snapshot: whoever has the same encoded key has it since the same count.
LEMMA GenerationKeyFresh ==
  ASSUME FreshInv, NEW r \in Requests, NEW k \in Keys, GenerationKey(r, k)
  PROVE  RequestsFresh' /\ SnapshotsAgree' /\ NeverServesStale'
<1> DEFINE q == [key |-> k, epoch |-> epoch, gen |-> Lookup(k), since |-> accepted[k],
                 seen |-> Null]
<1>1. TypeInv /\ FilesFresh /\ RequestsFresh /\ SnapshotsAgree /\ NeverServesStale
  BY DEF FreshInv
<1>2. /\ Lookup(k) \in Nat /\ Lookup(k) <= serial /\ accepted[k] \in Nat
      /\ request \in [Requests -> {Null} \cup Snapshots]
  <2>1. Lookup(k) \in baseline..serial /\ ZoneTypes /\ UserTypes
    BY <1>1, LookupType, TypeParts
  <2>2. QED BY <2>1 DEF ZoneTypes, UserTypes
<1>3. /\ request' = [request EXCEPT ![r] = q]
      /\ UNCHANGED <<zoneVars, files, probe, doomed, accepted>>
  BY DEF GenerationKey
<1>4. request'[r] = q /\ \A o \in Requests \ {r} : request'[o] = request[o]
  BY <1>2, <1>3
<1>5. \A x : RequestFresh(x) => RequestFresh(x)'
  BY <1>3 DEF RequestFresh, EntryFresh, Lookup, zoneVars
<1>6. RequestFresh(q)
  BY <1>2 DEF RequestFresh, EntryFresh
<1>7. ASSUME NEW o \in Requests \ {r}, request[o] # Null, SameEntry(request[o], q)
      PROVE  /\ request[o].since = accepted[k]
             /\ request[o].seen # Null => request[o].seen = accepted[k]
  <2>1. RequestFresh(request[o])
    BY <1>1, <1>7 DEF RequestsFresh
  <2>2. request[o].key = k /\ request[o].epoch = epoch /\ request[o].gen = Lookup(k)
    BY <1>7 DEF SameEntry
  <2>3. QED BY <2>1, <2>2 DEF RequestFresh, EntryFresh
<1>8. ASSUME NEW f \in files, SameEntry(f, q)
      PROVE  f.seen = accepted[k]
  <2>1. EntryFresh(f.key, f.epoch, f.gen, f.seen)
    BY <1>1 DEF FilesFresh
  <2>2. QED BY <1>8, <2>1 DEF EntryFresh, SameEntry
<1>9. RequestsFresh'
  <2> SUFFICES ASSUME NEW o \in Requests, NEW x, x = request'[o], x # Null
               PROVE  RequestFresh(x)'
    BY DEF RequestsFresh
  <2>1. RequestFresh(x)
    <3>1. CASE o = r
      BY <1>4, <1>6, <3>1
    <3>2. CASE o # r
      BY <1>1, <1>4, <3>2 DEF RequestsFresh
    <3>3. QED BY <3>1, <3>2
  <2>2. QED BY <1>5, <2>1
<1>10. SnapshotsAgree'
  <2> SUFFICES ASSUME NEW u \in Requests, NEW o \in Requests,
                      request'[u] # Null, request'[o] # Null,
                      SameEntry(request'[u], request'[o])
               PROVE  /\ request'[u].since = request'[o].since
                      /\ request'[u].seen # Null => request'[u].seen >= request'[o].since
    BY DEF SnapshotsAgree, SameEntry
  <2>1. q.since = accepted[k] /\ q.seen = Null
    OBVIOUS
  <2>2. CASE u = r
    <3>1. o = r \/ request[o].since = accepted[k]
      <4>1. CASE o # r
        BY <1>4, <1>7, <2>2, <4>1 DEF SameEntry
      <4>2. QED BY <4>1
    <3>2. request'[u].seen = Null
      BY <1>4, <2>2
    <3>3. QED BY <1>4, <2>2, <3>1, <3>2
  <2>3. CASE u # r /\ o = r
    <3>1. request'[u] = request[u] /\ request'[o] = q
      BY <1>4, <2>3
    <3>2. /\ request[u].since = accepted[k]
          /\ request[u].seen # Null => request[u].seen = accepted[k]
      BY <1>7, <2>3, <3>1
    <3>3. QED BY <1>2, <3>1, <3>2
  <2>4. CASE u # r /\ o # r
    BY <1>1, <1>4, <2>4 DEF SnapshotsAgree
  <2>5. QED BY <2>2, <2>3, <2>4
<1>11. NeverServesStale'
  <2> SUFFICES ASSUME NEW o \in Requests, NEW f \in files,
                      request'[o] # Null, SameEntry(f, request'[o])
               PROVE  f.seen >= request'[o].since
    BY <1>3 DEF NeverServesStale, SameEntry
  <2>1. CASE o = r
    <3>1. f.seen = accepted[k]
      BY <1>4, <1>8, <2>1
    <3>2. QED BY <1>2, <1>4, <2>1, <3>1
  <2>2. CASE o # r
    BY <1>1, <1>4, <2>2 DEF NeverServesStale
  <2>3. QED BY <2>1, <2>2
<1>12. QED BY <1>9, <1>10, <1>11

\* The response of a request is as new as anyone with its encoded key needs.
LEMMA FetchFresh ==
  ASSUME FreshInv, NEW r \in Requests, Fetch(r)
  PROVE  RequestsFresh' /\ SnapshotsAgree' /\ NeverServesStale'
<1> DEFINE n == accepted[request[r].key]
           q == [request[r] EXCEPT !.seen = n]
<1>1. TypeInv /\ RequestsFresh /\ SnapshotsAgree /\ NeverServesStale
  BY DEF FreshInv
<1>2. /\ request \in [Requests -> {Null} \cup Snapshots] /\ request[r] \in Snapshots
      /\ accepted \in [Keys -> Nat]
  BY <1>1, TypeParts DEF UserTypes, ZoneTypes, Fetch
<1>3. request' = [request EXCEPT ![r] = q]
      /\ UNCHANGED <<zoneVars, files, probe, doomed, accepted>>
      /\ request[r] # Null
  BY DEF Fetch
<1>4. request'[r] = q /\ \A o \in Requests \ {r} : request'[o] = request[o]
  BY <1>2, <1>3
<1>5. /\ q.key = request[r].key /\ q.epoch = request[r].epoch /\ q.gen = request[r].gen
      /\ q.since = request[r].since /\ q.seen = n /\ n \in Nat
  BY <1>2 DEF Snapshots
<1>6. \A x : RequestFresh(x) => RequestFresh(x)'
  BY <1>3 DEF RequestFresh, EntryFresh, Lookup, zoneVars
<1>7. RequestFresh(q)
  <2>1. RequestFresh(request[r])
    BY <1>1, <1>3 DEF RequestsFresh
  <2> HIDE DEF n, q
  <2>2. QED BY <1>5, <2>1 DEF RequestFresh, EntryFresh, n
<1>8. RequestsFresh'
  <2> SUFFICES ASSUME NEW o \in Requests, NEW x, x = request'[o], x # Null
               PROVE  RequestFresh(x)'
    BY DEF RequestsFresh
  <2> HIDE DEF q
  <2>1. RequestFresh(x)
    BY <1>1, <1>4, <1>7 DEF RequestsFresh
  <2>2. QED BY <1>6, <2>1
<1>9. ASSUME NEW o \in Requests, request[o] # Null, request[o].key = request[r].key
      PROVE  n >= request[o].since
  <2>1. request[o].since <= accepted[request[o].key]
    BY <1>1, <1>9 DEF RequestsFresh, RequestFresh
  <2>2. request[o].since \in Nat
    BY <1>2, <1>9 DEF Snapshots
  <2>3. QED BY <1>5, <1>9, <2>1, <2>2
<1>10. SnapshotsAgree'
  <2> SUFFICES ASSUME NEW u \in Requests, NEW o \in Requests,
                      request'[u] # Null, request'[o] # Null,
                      SameEntry(request'[u], request'[o])
               PROVE  /\ request'[u].since = request'[o].since
                      /\ request'[u].seen # Null => request'[u].seen >= request'[o].since
    BY DEF SnapshotsAgree, SameEntry
  <2> HIDE DEF q, n
  <2>1. /\ \A v \in Requests : request'[v] # Null =>
              /\ request[v] # Null /\ request'[v].since = request[v].since
              /\ request'[v].key = request[v].key /\ request'[v].epoch = request[v].epoch
              /\ request'[v].gen = request[v].gen
    BY <1>3, <1>4, <1>5
  <2>2. SameEntry(request[u], request[o]) /\ request[u] # Null /\ request[o] # Null
    BY <2>1 DEF SameEntry
  <2>3. request'[u].since = request'[o].since
    BY <1>1, <2>1, <2>2 DEF SnapshotsAgree
  <2>4. CASE u = r
    <3>1. request'[u].seen = n
      BY <1>4, <1>5, <2>4
    <3>2. request[o].key = request[r].key
      BY <2>2, <2>4 DEF SameEntry
    <3>3. n >= request[o].since
      BY <1>9, <2>2, <3>2
    <3>4. QED BY <2>1, <2>3, <3>1, <3>3
  <2>5. CASE u # r
    <3>1. request'[u].seen = request[u].seen
      BY <1>4, <2>5
    <3>2. QED BY <1>1, <2>1, <2>2, <2>3, <3>1 DEF SnapshotsAgree
  <2>6. QED BY <2>4, <2>5
<1>11. NeverServesStale'
  <2> SUFFICES ASSUME NEW o \in Requests, NEW f \in files,
                      request'[o] # Null, SameEntry(f, request'[o])
               PROVE  f.seen >= request'[o].since
    BY <1>3 DEF NeverServesStale, SameEntry
  <2> HIDE DEF q, n
  <2>1. request[o] # Null /\ request'[o].since = request[o].since /\ SameEntry(f, request[o])
    BY <1>3, <1>4, <1>5 DEF SameEntry
  <2>2. QED BY <1>1, <2>1 DEF NeverServesStale
<1>12. QED BY <1>8, <1>10, <1>11

\* A response is stored under the snapshot it was fetched for.
LEMMA StoreFresh ==
  ASSUME FreshInv, NEW r \in Requests, Store(r)
  PROVE  FilesFresh' /\ NeverServesStale'
<1> DEFINE q == request[r]
           f == [key |-> q.key, epoch |-> q.epoch, gen |-> q.gen, seen |-> q.seen]
<1>1. TypeInv /\ FilesFresh /\ RequestsFresh /\ SnapshotsAgree /\ NeverServesStale
  BY DEF FreshInv
<1>2. request \in [Requests -> {Null} \cup Snapshots]
  BY <1>1, TypeParts DEF UserTypes
<1>3. /\ q # Null /\ q.seen # Null
      /\ files' \subseteq files \cup {f}
      /\ request' = [request EXCEPT ![r] = Null]
      /\ UNCHANGED <<zoneVars, probe, doomed, accepted>>
  BY DEF Store
<1>4. \A e, k, g, n : EntryFresh(k, e, g, n) => EntryFresh(k, e, g, n)'
  BY <1>3 DEF EntryFresh, Lookup, zoneVars
<1>5. f.key = q.key /\ f.epoch = q.epoch /\ f.gen = q.gen /\ f.seen = q.seen
  OBVIOUS
<1> HIDE DEF f
<1>6. EntryFresh(f.key, f.epoch, f.gen, f.seen)
  <2>1. RequestFresh(q)
    BY <1>1, <1>3 DEF RequestsFresh
  <2>2. QED BY <1>3, <1>5, <2>1 DEF RequestFresh
<1>7. FilesFresh'
  <2> SUFFICES ASSUME NEW g \in files'
               PROVE  EntryFresh(g.key, g.epoch, g.gen, g.seen)'
    BY DEF FilesFresh
  <2>1. EntryFresh(g.key, g.epoch, g.gen, g.seen)
    BY <1>1, <1>3, <1>6 DEF FilesFresh
  <2>2. QED BY <1>4, <2>1
<1>8. NeverServesStale'
  <2> SUFFICES ASSUME NEW o \in Requests, NEW g \in files',
                      request'[o] # Null, SameEntry(g, request'[o])
               PROVE  g.seen >= request'[o].since
    BY DEF NeverServesStale, SameEntry
  <2>1. o # r /\ request'[o] = request[o]
    BY <1>2, <1>3
  <2>2. CASE g \in files
    BY <1>1, <2>1, <2>2 DEF NeverServesStale
  <2>3. CASE g = f
    <3>1. SameEntry(q, request[o])
      BY <1>5, <2>1, <2>3 DEF SameEntry
    <3>2. q.seen >= request[o].since
      BY <1>1, <1>3, <2>1, <3>1 DEF SnapshotsAgree
    <3>3. QED BY <1>5, <2>1, <2>3, <3>2
  <2>4. QED BY <1>3, <2>2, <2>3
<1>9. QED BY <1>7, <1>8

\* Every step keeps FreshInv.
LEMMA FreshStep == FreshInv /\ [Next]_vars => FreshInv'
<1> SUFFICES ASSUME FreshInv, [Next]_vars PROVE FreshInv'
  OBVIOUS
<1>1. TypeInv /\ TypeInv'
  <2>1. TypeInv
    BY DEF FreshInv
  <2>2. QED BY <2>1, TypeStep
<1>2. /\ request \in [Requests -> {Null} \cup Snapshots]
      /\ probe \in [Refreshers -> {Null} \cup [file : Files, at : Nat]]
      /\ doomed \in [Sweepers -> {Null} \cup Files]
      /\ files \subseteq Files
      /\ serial \in Nat
  BY <1>1, TypeParts DEF ZoneTypes, UserTypes
<1> DEFINE Parts == /\ FilesFresh /\ RequestsFresh /\ SnapshotsAgree
                    /\ NeverServesStale /\ ProbesFresh /\ DoomedStale
<1>3. SUFFICES Parts'
  BY <1>1 DEF FreshInv
<1>4. UNCHANGED <<zoneVars, accepted>> => \A k \in Keys : KeyStep(k)
  BY <1>1, QuietKeySteps
<1>5. ASSUME NEW text \in Texts, NEW all \in BOOLEAN, Purge(text, all)
      PROVE  Parts'
  <2>1. (Publish(text, all, FALSE) \/ Refused) /\ UNCHANGED <<files, request, probe, doomed>>
    BY <1>5 DEF Purge
  <2>2. \A k \in Keys : KeyStep(k)
    BY <1>1, <2>1, InvalidationKeySteps
  <2>3. QED BY <2>1, <2>2, UsersFreshKept
<1>6. ASSUME NEW j \in Refreshers, NEW f \in files, Collect(j, f)
      PROVE  Parts'
  <2> DEFINE x == [file |-> f, at |-> accepted[f.key]]
  <2>1. /\ Current(f) /\ probe' = [probe EXCEPT ![j] = x]
        /\ UNCHANGED <<zoneVars, files, request, doomed, accepted>>
    BY <1>6 DEF Collect
  <2>2. \A k \in Keys : KeyStep(k)
    BY <1>4, <2>1
  <2>3. \A i \in Refreshers : probe'[i] = IF i = j THEN x ELSE probe[i]
    BY <1>2, <2>1
  <2>4. \A y : ProbeFresh(y) => ProbeFresh(y)'
    BY <2>1 DEF ProbeFresh, EntryFresh, Lookup, zoneVars
  <2>5. ProbeFresh(x)
    <3>1. f \in Files /\ f.key \in Keys
      BY <1>2 DEF Files
    <3>2. Lookup(f.key) \in Nat /\ Lookup(f.key) <= serial
      <4>1. Lookup(f.key) \in baseline..serial /\ baseline \in 1..serial
        BY <1>1, <3>1, LookupType DEF TypeInv, TypeOK
      <4>2. QED BY <1>2, <4>1
    <3>3. f.epoch = epoch /\ f.gen = Lookup(f.key)
      BY <2>1 DEF Current, Version
    <3>4. QED BY <3>2, <3>3 DEF ProbeFresh, EntryFresh
  <2>6. ProbesFresh'
    <3> SUFFICES ASSUME NEW i \in Refreshers, NEW y, y = probe'[i], y # Null
                 PROVE  ProbeFresh(y)'
      BY DEF ProbesFresh
    <3> HIDE DEF x
    <3>1. ProbeFresh(y)
      BY <2>3, <2>5 DEF FreshInv, ProbesFresh
    <3>2. QED BY <2>4, <3>1
  <2>7. QED BY <2>1, <2>2, <2>6, UsersFreshKept
<1>7. ASSUME NEW j \in Refreshers, RefreshInvalidate(j)
      PROVE  Parts'
  <2>1. probe[j].file.key \in Keys
    BY <1>2, <1>7 DEF RefreshInvalidate, Files
  <2>2. /\ Publish(probe[j].file.key, FALSE, TRUE) \/ Refused
        /\ UNCHANGED <<files, request, doomed>>
        /\ probe' = [probe EXCEPT ![j] = Null]
    BY <1>7 DEF RefreshInvalidate
  <2>3. \A k \in Keys : KeyStep(k)
    BY <1>1, <2>1, <2>2, InvalidationKeySteps
  <2>4. \A i \in Refreshers : probe'[i] \in {probe[i], Null}
    BY <1>2, <2>2
  <2>5. QED BY <2>2, <2>3, <2>4, UsersFreshKept
<1>8. ASSUME NEW j \in Refreshers, RefreshKeep(j)
      PROVE  Parts'
  <2>1. /\ probe' = [probe EXCEPT ![j] = Null]
        /\ UNCHANGED <<zoneVars, files, request, doomed, accepted>>
    BY <1>8 DEF RefreshKeep
  <2>2. \A i \in Refreshers : probe'[i] \in {probe[i], Null}
    BY <1>2, <2>1
  <2>3. QED BY <1>4, <2>1, <2>2, UsersFreshKept
<1>9. ASSUME NEW w \in Sweepers, NEW f \in files, SweepCheck(w, f)
      PROVE  Parts'
  <2>1. /\ Stale(f) /\ doomed' = [doomed EXCEPT ![w] = f]
        /\ UNCHANGED <<zoneVars, files, request, probe, accepted>>
    BY <1>9 DEF SweepCheck
  <2>2. \A v \in Sweepers : doomed'[v] = IF v = w THEN f ELSE doomed[v]
    BY <1>2, <2>1
  <2>3. \A g : Stale(g) => Stale(g)'
    BY <2>1 DEF Stale, Lookup, zoneVars
  <2>4. DoomedStale'
    <3> SUFFICES ASSUME NEW v \in Sweepers, NEW g, g = doomed'[v], g # Null
                 PROVE  Stale(g)'
      BY DEF DoomedStale
    <3>1. Stale(g)
      BY <2>1, <2>2 DEF FreshInv, DoomedStale
    <3>2. QED BY <2>3, <3>1
  <2>5. QED BY <1>4, <2>1, <2>4, UsersFreshKept
<1>10. ASSUME NEW w \in Sweepers, SweepUnlink(w)
       PROVE  Parts'
  <2>1. /\ files' \subseteq files /\ doomed' = [doomed EXCEPT ![w] = Null]
        /\ UNCHANGED <<zoneVars, request, probe, accepted>>
    BY <1>10 DEF SweepUnlink
  <2>2. \A v \in Sweepers : doomed'[v] \in {doomed[v], Null}
    BY <1>2, <2>1
  <2>3. QED BY <1>4, <2>1, <2>2, UsersFreshKept
<1>11. ASSUME NEW f \in files, Evict(f)
       PROVE  Parts'
  <2>1. files' \subseteq files /\ UNCHANGED <<zoneVars, request, probe, doomed, accepted>>
    BY <1>11 DEF Evict
  <2>2. QED BY <1>4, <2>1, UsersFreshKept
<1>12. ASSUME NEW r \in Requests, NEW k \in Keys, GenerationKey(r, k)
       PROVE  Parts'
  <2>1. UNCHANGED <<zoneVars, files, probe, doomed, accepted>>
    BY <1>12 DEF GenerationKey
  <2>2. QED BY <1>4, <1>12, <2>1, UsersFreshKept, GenerationKeyFresh
<1>13. ASSUME NEW r \in Requests, Fetch(r)
       PROVE  Parts'
  <2>1. UNCHANGED <<zoneVars, files, probe, doomed, accepted>>
    BY <1>13 DEF Fetch
  <2>2. QED BY <1>4, <1>13, <2>1, UsersFreshKept, FetchFresh
<1>14. ASSUME NEW r \in Requests, Store(r)
       PROVE  Parts'
  <2>1. /\ request' = [request EXCEPT ![r] = Null]
        /\ UNCHANGED <<zoneVars, probe, doomed, accepted>>
    BY <1>14 DEF Store
  <2>2. \A o \in Requests : request'[o] \in {request[o], Null}
    BY <1>2, <2>1
  <2>3. QED BY <1>4, <1>14, <2>1, <2>2, UsersFreshKept, StoreFresh
<1>15. ASSUME NEW r \in Requests, Done(r)
       PROVE  Parts'
  <2>1. /\ request' = [request EXCEPT ![r] = Null]
        /\ UNCHANGED <<zoneVars, files, probe, doomed, accepted>>
    BY <1>15 DEF Done
  <2>2. \A o \in Requests : request'[o] \in {request[o], Null}
    BY <1>2, <2>1
  <2>3. QED BY <1>4, <2>1, <2>2, UsersFreshKept
<1>16. ASSUME NEW e \in Epochs, Restart(e)
       PROVE  Parts'
  <2>1. /\ e \notin markers /\ epoch' = e /\ files' = files
        /\ request' = [r \in Requests |-> Null]
        /\ probe' = [j \in Refreshers |-> Null]
        /\ doomed' = [w \in Sweepers |-> Null]
    BY <1>16 DEF Restart, FreshEpoch
  <2>2. FilesFresh'
    <3> SUFFICES ASSUME NEW f \in files'
                 PROVE  EntryFresh(f.key, f.epoch, f.gen, f.seen)'
      BY DEF FilesFresh
    <3>1. f.epoch \in markers
      BY <1>2, <2>1 DEF Files
    <3>2. f.epoch # epoch'
      BY <2>1, <3>1
    <3>3. QED BY <3>2 DEF EntryFresh
  <2>3. RequestsFresh' /\ SnapshotsAgree' /\ NeverServesStale'
    BY <2>1 DEF RequestsFresh, SnapshotsAgree, NeverServesStale
  <2>4. ProbesFresh' /\ DoomedStale'
    BY <2>1 DEF ProbesFresh, DoomedStale
  <2>5. QED BY <2>2, <2>3, <2>4
<1>17. CASE UNCHANGED vars
  BY <1>4, <1>17, UsersFreshKept DEF vars
<1>18. QED
  BY <1>5, <1>6, <1>7, <1>8, <1>9, <1>10, <1>11, <1>12, <1>13, <1>14, <1>15, <1>16, <1>17
  DEF Next

\* FreshInv holds for ever.
LEMMA FreshAlways == Spec => []FreshInv
BY FreshInit, FreshStep, PTL DEF Spec

\* No request is answered with a response fetched before an invalidation that
\* was accepted before the request began, whatever is written late, lost at a
\* restart or dropped under memory pressure.
THEOREM StaleNeverServed == Spec => []NeverServesStale
<1>1. FreshInv => NeverServesStale
  BY DEF FreshInv
<1>2. QED BY FreshAlways, <1>1, PTL

\* A file that the sweep unlinks after it found the entry stale is not the one a
\* request that begins now would look up, although it may have been stored again
\* in between (the check and the unlink are two steps).
THEOREM SweepSparesCurrent == Spec => SweepKeepsCurrent
<1>1. ASSUME FreshInv, [Next]_vars, NEW w \in Sweepers, SweepUnlink(w),
             NEW f \in files \ files'
      PROVE  ~Current(f)
  <2>1. doomed[w] # Null /\ files' = {g \in files : ~SameEntry(g, doomed[w])}
    BY <1>1 DEF SweepUnlink
  <2>2. SameEntry(f, doomed[w])
    BY <1>1, <2>1
  <2>3. Stale(doomed[w]) /\ doomed[w] \in Files
    <3>1. doomed \in [Sweepers -> {Null} \cup Files]
      BY <1>1 DEF FreshInv, TypeInv, TypeOK
    <3>2. QED BY <1>1, <2>1, <3>1 DEF FreshInv, DoomedStale
  <2>4. f.epoch # epoch \/ f.gen < Lookup(f.key)
    BY <2>2, <2>3 DEF Stale, SameEntry
  <2>5. f.key \in Keys
    BY <2>2, <2>3 DEF SameEntry, Files
  <2>6. f.gen \in Nat /\ Lookup(f.key) \in Nat
    <3>1. Lookup(f.key) \in baseline..serial /\ baseline \in 1..serial /\ serial \in Nat
      BY <1>1, <2>5, LookupType DEF FreshInv, TypeInv, TypeOK
    <3>2. f.gen \in 1..MaxSerial /\ MaxSerial \in Nat
      BY <2>2, <2>3, GenerationAssumption DEF SameEntry, Files
    <3>3. QED BY <3>1, <3>2
  <2>7. QED BY <2>4, <2>6 DEF Current, Version
<1>2. FreshInv /\ [Next]_vars =>
         [\A w \in Sweepers : SweepUnlink(w) => \A f \in files \ files' : ~Current(f)]_vars
  BY <1>1
<1>3. QED BY FreshAlways, <1>2, PTL DEF Spec, SweepKeepsCurrent

\* A REFRESH carries its decision out only if no invalidation of the key came
\* between collecting the entry and now, so that it never discards the response
\* that was fetched after that invalidation.
THEOREM RefreshSparesNewer == Spec => RefreshActsOnCurrent
<1>1. ASSUME FreshInv, [Next]_vars, NEW j \in Refreshers, RefreshInvalidate(j)
      PROVE  probe[j].at = accepted[probe[j].file.key]
  <2>1. probe[j] # Null /\ Current(probe[j].file)
    BY <1>1 DEF RefreshInvalidate, StillExpected
  <2>2. ProbeFresh(probe[j])
    BY <1>1, <2>1 DEF FreshInv, ProbesFresh
  <2>3. QED BY <2>1, <2>2 DEF ProbeFresh, EntryFresh, Current, Version
<1>2. FreshInv /\ [Next]_vars =>
         [\A j \in Refreshers :
             RefreshInvalidate(j) => probe[j].at = accepted[probe[j].file.key]]_vars
  BY <1>1
<1>3. QED BY FreshAlways, <1>2, PTL DEF Spec, RefreshActsOnCurrent

\* The epoch and the baseline that the status endpoint tells are enough to judge
\* a file without the rules, and exact when there are none.
THEOREM ViewIsTruthful == Spec => []ViewTruthful
<1>1. ASSUME TypeInv PROVE ViewTruthful
  <2> SUFFICES ASSUME NEW k \in Keys, NEW e \in markers, NEW g \in 1..serial
               PROVE  LET f == [key |-> k, epoch |-> e, gen |-> g]
                      IN  /\ e # epoch \/ g < baseline => Stale(f)
                          /\ exact = NoRules /\ prefix = NoRules /\ Stale(f)
                                => e # epoch \/ g < baseline
    BY DEF ViewTruthful
  <2> DEFINE f == [key |-> k, epoch |-> e, gen |-> g]
  <2>1. serial \in Nat /\ baseline \in 1..serial /\ Lookup(k) \in baseline..serial
    BY <1>1, LookupType DEF TypeInv, TypeOK
  <2>2. Stale(f) <=> e # epoch \/ g < Lookup(k)
    BY DEF Stale
  <2>3. ASSUME exact = NoRules, prefix = NoRules PROVE Lookup(k) = baseline
    <3>1. Candidates(baseline, exact, prefix, k) = {baseline}
      BY <2>3 DEF Candidates, NoRules
    <3>2. /\ baseline \in 0..serial /\ Trie(exact, serial) /\ Trie(prefix, serial)
      BY <1>1, <2>1 DEF TypeInv, TypeOK, Trie
    <3>3. Lookup(k) \in {baseline}
      BY <2>1, <3>1, <3>2, LookupFacts, CandidateFacts
    <3>4. QED BY <3>3
  <2>4. QED BY <2>1, <2>2, <2>3
<1>2. QED BY TypeInit, TypeStep, <1>1, PTL DEF Spec

-----------------------------------------------------------------------------
(* The generations implement versions that never come back *)

\* The versions key k has had, as the refinement mapping gives them.
UsedOf(k) == ((markers \ {epoch}) \X (1..MaxSerial)) \cup ({epoch} \X (1..Lookup(k)))

\* What Renew asks of a key that is renewed, of one that is not, and of all.
Renewed(k) == Version(k)' \notin UsedOf(k)
Untouched(k) == Version(k)' = Version(k) /\ UsedOf(k)' = UsedOf(k)
Remembered(k) == UsedOf(k) \cup {Version(k)'} \subseteq UsedOf(k)'

\* Renew of the abstract specification, under the mapping.
LEMMA RenewMapped ==
  ASSUME NEW S \in SUBSET Keys,
         \A k \in S : Renewed(k), \A k \in Keys \ S : Untouched(k), \A k \in Keys : Remembered(k)
  PROVE  Versions!Renew(S)
<1>1. \A k \in Keys : Renewed(k) \/ k \notin S
  OBVIOUS
<1>2. QED BY DEF Versions!Renew, Renewed, Untouched, Remembered, UsedOf

\* A key with a higher generation in the same epoch is renewed.
LEMMA HigherIsNew ==
  ASSUME TypeInv, TypeInv', NEW k \in Keys, epoch' = epoch, markers' = markers
  PROVE  /\ Lookup(k)' > Lookup(k) => Renewed(k) /\ Remembered(k)
         /\ Lookup(k)' = Lookup(k) => Untouched(k) /\ Remembered(k)
<1>1. /\ Lookup(k) \in 1..serial /\ serial \in 1..MaxSerial /\ MaxSerial \in Nat
      /\ epoch \in markers
  <2>1. Lookup(k) \in baseline..serial /\ ZoneTypes
    BY LookupType, TypeParts
  <2>2. QED BY <2>1, GenerationAssumption DEF ZoneTypes
<1>2. Lookup(k)' \in 1..serial' /\ serial' \in 1..MaxSerial
  <2>1. (Lookup(k) \in baseline..serial)' /\ (baseline \in 1..serial)' /\ (serial \in 1..MaxSerial)'
    BY LookupType, TypeParts, PTL DEF ZoneTypes, TypeInv, TypeOK
  <2>2. QED BY <1>1, <2>1
<1>3. ASSUME Lookup(k)' > Lookup(k) PROVE Renewed(k)
  BY <1>1, <1>2, <1>3 DEF Renewed, UsedOf, Version
<1>4. ASSUME Lookup(k)' >= Lookup(k) PROVE Remembered(k)
  <2>1. Version(k)' \in UsedOf(k)'
    BY <1>1, <1>2 DEF UsedOf, Version
  <2>2. 1..Lookup(k) \subseteq 1..Lookup(k)'
    BY <1>1, <1>2, <1>4
  <2>3. UsedOf(k) \subseteq UsedOf(k)'
    BY <2>2 DEF UsedOf
  <2>4. QED BY <2>1, <2>3 DEF Remembered
<1>5. ASSUME Lookup(k)' = Lookup(k) PROVE Untouched(k)
  BY <1>5 DEF Untouched, UsedOf, Version
<1>6. QED BY <1>1, <1>2, <1>3, <1>4, <1>5

\* An admitted invalidation is one of the abstract specification.
LEMMA PublishMapped ==
  ASSUME TypeInv, TypeInv', NEW text \in Texts \cup Keys, NEW all \in BOOLEAN,
         NEW conditional \in BOOLEAN, Publish(text, all, conditional),
         all \/ Covered(text, conditional)
                   \in {Covered(t, FALSE) : t \in Texts} \cup {{k} : k \in Keys}
  PROVE  Versions!Next
<1> DEFINE S == IF all THEN Keys ELSE Covered(text, conditional)
<1>1. epoch' = epoch /\ markers' = markers /\ serial' = serial + 1 /\ serial \in Nat
  BY PublishTypes DEF TypeInv, TypeOK
<1>2. S \subseteq Keys /\ \A k \in Keys : k \in S <=> all \/ k \in Covered(text, conditional)
  BY DEF Covered
<1>3. S \in ({Covered(t, FALSE) : t \in Texts} \cup {{k} : k \in Keys}) \cup {Keys}
  BY Zenon
<1>4. /\ \A k \in S : Lookup(k)' = serial'
      /\ \/ \A k \in Keys : Lookup(k)' = serial'
         \/ \A k \in Keys \ S : Lookup(k)' = Lookup(k)
  BY <1>2, PublishVersions
<1>5. accepted' = [k \in Keys |-> IF k \in S THEN accepted[k] + 1 ELSE accepted[k]]
  BY <1>2 DEF Publish
<1> HIDE DEF S
<1>6. ASSUME NEW k \in Keys PROVE serial' > Lookup(k)
  <2>1. Lookup(k) \in baseline..serial /\ baseline \in 1..serial
    BY LookupType DEF TypeInv, TypeOK
  <2>2. QED BY <1>1, <2>1
<1>7. ASSUME NEW k \in Keys, Lookup(k)' = serial' PROVE Renewed(k) /\ Remembered(k)
  BY <1>1, <1>6, <1>7, HigherIsNew
<1>8. ASSUME NEW k \in Keys, Lookup(k)' = Lookup(k) PROVE Untouched(k) /\ Remembered(k)
  BY <1>1, <1>8, HigherIsNew
<1>9. Versions!Renew(S) \/ Versions!Renew(Keys)
  <2>1. CASE \A k \in Keys : Lookup(k)' = serial'
    <3>1. \A k \in Keys : Renewed(k) /\ Remembered(k)
      BY <1>7, <2>1
    <3>2. \A k \in Keys \ Keys : Untouched(k)
      OBVIOUS
    <3>3. QED BY <3>1, <3>2, RenewMapped
  <2>2. CASE \A k \in Keys \ S : Lookup(k)' = Lookup(k)
    <3>1. \A k \in S : Renewed(k) /\ Remembered(k)
      BY <1>2, <1>4, <1>7
    <3>2. \A k \in Keys \ S : Untouched(k) /\ Remembered(k)
      BY <1>8, <2>2
    <3>3. QED BY <1>2, <3>1, <3>2, RenewMapped
  <2>3. QED BY <1>4, <2>1, <2>2
<1>10. Versions!Invalidate(S)
  BY <1>5, <1>9 DEF Versions!Invalidate
<1>11. QED BY <1>3, <1>10 DEF Versions!Next

\* A restart is one of the abstract specification: its marker is new.
LEMMA RestartMapped ==
  ASSUME TypeInv, TypeInv', NEW e \in Epochs, Restart(e)
  PROVE  Versions!Next
<1>1. e \notin markers /\ epoch' = e /\ markers' = markers \cup {e} /\ accepted' = accepted
  BY DEF Restart, FreshEpoch
<1>2. ASSUME NEW k \in Keys PROVE Renewed(k) /\ Remembered(k)
  <2>1. /\ Lookup(k) \in 1..MaxSerial /\ epoch \in markers /\ Lookup(k)' \in Nat \ {0}
    <3>1. Lookup(k) \in baseline..serial /\ ZoneTypes
      BY LookupType, TypeParts
    <3>2. (Lookup(k) \in baseline..serial)' /\ (baseline \in 1..serial)' /\ (serial \in 1..MaxSerial)'
      BY LookupType, PTL DEF TypeInv, TypeOK
    <3>3. QED BY <3>1, <3>2, GenerationAssumption DEF ZoneTypes
  <2>2. Renewed(k)
    BY <1>1, <2>1 DEF Renewed, UsedOf, Version
  <2>3. UsedOf(k) \subseteq UsedOf(k)'
    <3>1. 1..Lookup(k) \subseteq 1..MaxSerial
      BY <2>1, GenerationAssumption
    <3>2. \A x \in UsedOf(k) : x \in (markers' \ {epoch'}) \X (1..MaxSerial)
      BY <1>1, <2>1, <3>1 DEF UsedOf
    <3>3. QED BY <3>2 DEF UsedOf
  <2>4. Version(k)' \in UsedOf(k)'
    BY <2>1 DEF UsedOf, Version
  <2>5. QED BY <2>2, <2>3, <2>4 DEF Remembered
<1>3. Versions!Renew(Keys)
  <2>1. \A k \in Keys \ Keys : Untouched(k)
    OBVIOUS
  <2>2. QED BY <1>2, <2>1, RenewMapped
<1>4. QED BY <1>1, <1>3 DEF Versions!Next, Versions!Restart

\* The initial states of the mapping: a key has had one version.
LEMMA VersionsInit == Init => Versions!Init
<1> SUFFICES ASSUME Init PROVE Versions!Init
  OBVIOUS
<1>1. epoch \in markers /\ markers = {epoch} /\ accepted = [k \in Keys |-> 0]
  BY DEF Init
<1>2. ASSUME NEW k \in Keys PROVE UsedOf(k) = {Version(k)}
  <2>1. Lookup(k) \in 1..1
    BY TypeInit, LookupType DEF Init
  <2>2. Lookup(k) = 1 /\ 1..1 = {1}
    BY <2>1
  <2>3. QED BY <1>1, <2>2 DEF UsedOf, Version
<1>3. [k \in Keys |-> UsedOf(k)] = [k \in Keys |-> {Version(k)}]
  BY <1>2
<1>4. QED BY <1>1, <1>3 DEF Versions!Init, UsedOf

\* Every step maps to an invalidation, to a restart or to a stutter.
LEMMA VersionsStep ==
  ASSUME TypeInv, TypeInv', [Next]_vars
  PROVE  [Versions!Next]_(Versions!vars)
<1>1. UNCHANGED <<zoneVars, accepted>> => UNCHANGED Versions!vars
  BY DEF zoneVars, Versions!vars, Version, Lookup
<1>2. probe \in [Refreshers -> {Null} \cup [file : Files, at : Nat]]
  BY DEF TypeInv, TypeOK
<1>3. ASSUME NEW text \in Texts, NEW all \in BOOLEAN, Purge(text, all)
      PROVE  [Versions!Next]_(Versions!vars)
  <2>1. Publish(text, all, FALSE) \/ Refused
    BY <1>3 DEF Purge
  <2>2. CASE Publish(text, all, FALSE)
    <3>1. Covered(text, FALSE) \in {Covered(t, FALSE) : t \in Texts} \cup {{k} : k \in Keys}
      BY Zenon
    <3>2. QED BY <2>2, <3>1, PublishMapped
  <2>3. QED BY <1>1, <2>1, <2>2 DEF Refused
<1>4. ASSUME NEW j \in Refreshers, RefreshInvalidate(j)
      PROVE  [Versions!Next]_(Versions!vars)
  <2> DEFINE k == probe[j].file.key
  <2>1. k \in Keys
    BY <1>2, <1>4 DEF RefreshInvalidate, Files
  <2>2. Publish(k, FALSE, TRUE) \/ Refused
    BY <1>4 DEF RefreshInvalidate
  <2> HIDE DEF k
  <2>3. CASE Publish(k, FALSE, TRUE)
    <3>1. Covered(k, TRUE) = {k}
      BY <2>1 DEF Covered, IsSelector
    <3>2. Covered(k, TRUE) \in {Covered(t, FALSE) : t \in Texts} \cup {{x} : x \in Keys}
      BY <2>1, <3>1, Zenon
    <3>3. QED BY <2>1, <2>3, <3>2, PublishMapped
  <2>4. QED BY <1>1, <2>2, <2>3 DEF Refused
<1>5. ASSUME NEW e \in Epochs, Restart(e)
      PROVE  [Versions!Next]_(Versions!vars)
  BY <1>5, RestartMapped
<1>6. ASSUME NEW j \in Refreshers, (\E f \in files : Collect(j, f)) \/ RefreshKeep(j)
      PROVE  [Versions!Next]_(Versions!vars)
  BY <1>1, <1>6 DEF Collect, RefreshKeep
<1>7. ASSUME NEW w \in Sweepers, (\E f \in files : SweepCheck(w, f)) \/ SweepUnlink(w)
      PROVE  [Versions!Next]_(Versions!vars)
  BY <1>1, <1>7 DEF SweepCheck, SweepUnlink
<1>8. ASSUME NEW f \in files, Evict(f)
      PROVE  [Versions!Next]_(Versions!vars)
  BY <1>1, <1>8 DEF Evict
<1>9. ASSUME NEW r \in Requests,
             (\E k \in Keys : GenerationKey(r, k)) \/ Fetch(r) \/ Store(r) \/ Done(r)
      PROVE  [Versions!Next]_(Versions!vars)
  BY <1>1, <1>9 DEF GenerationKey, Fetch, Store, Done
<1>10. CASE UNCHANGED vars
  BY <1>1, <1>10 DEF vars
<1>11. QED
  BY <1>3, <1>4, <1>5, <1>6, <1>7, <1>8, <1>9, <1>10 DEF Next

\* Tries, baseline, epochs and serial implement versions that never come back: an
\* accepted invalidation gives every key it covers a version the key never had
\* and leaves the others theirs unless it broadens to the whole namespace, and a
\* restart renews all.
THEOREM VersionsImplemented == Spec => ImplementsVersions
<1>1. Spec => []TypeInv
  BY TypeInit, TypeStep, PTL DEF Spec
<1>2. TypeInv /\ TypeInv' /\ [Next]_vars => [Versions!Next]_(Versions!vars)
  BY VersionsStep
<1>3. QED BY <1>1, <1>2, VersionsInit, PTL DEF Spec, ImplementsVersions, Versions!Spec
=============================================================================
