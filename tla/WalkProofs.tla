----------------------------- MODULE WalkProofs -----------------------------
(***************************************************************************)
(* Proofs about the directory walk: that comparing bytes protects exactly  *)
(* the paths that are named, component by component; that the cursor is    *)
(* in order; that nothing protected is entered or visited; and that a walk *)
(* that reports success missed nothing.  And about Selectors, for keys,    *)
(* names and limits of any length: that the files a walk deletes are those *)
(* the request is about.                                                   *)
(***************************************************************************)
EXTENDS Walk, Selectors, SetProofs, SequenceTheorems

-----------------------------------------------------------------------------
(* Joined sequences *)

\* g gives the first sequences of s joined, for the first m of them.
Joins(s, m, g) == g = [i \in 1..m |-> IF i = 1 THEN s[i] ELSE g[i - 1] \o s[i]]

\* s and t are the same up to m.
Agree(s, t, m) == \A i \in 1..m : s[i] = t[i]

\* Such functions agree as long as the sequences do.
LEMMA JoinsAgree ==
  ASSUME NEW s, NEW t, NEW m \in Nat, NEW k \in Nat, k >= m, NEW g, NEW h,
         Agree(s, t, m), Joins(s, m, g), Joins(t, k, h)
  PROVE  Agree(g, h, m)
<1> DEFINE Bad == {i \in 1..m : g[i] # h[i]}
<1>1. SUFFICES ASSUME Bad # {} PROVE FALSE
  BY DEF Agree
<1>2. Bad \subseteq 0..m
  OBVIOUS
<1>3. PICK i \in Bad : \A j \in Bad : i <= j
  <2> HIDE DEF Bad
  <2>1. QED BY <1>1, <1>2, ExtremesUpTo
<1>4. i \in 1..m /\ i \in 1..k /\ g[i] # h[i]
  BY <1>3
<1>5. /\ g[i] = IF i = 1 THEN s[i] ELSE g[i - 1] \o s[i]
      /\ h[i] = IF i = 1 THEN t[i] ELSE h[i - 1] \o t[i]
  BY <1>4, Zenon DEF Joins
<1>6. i # 1 => i - 1 \in 1..m /\ i - 1 \notin Bad
  BY <1>3, <1>4
<1>7. i # 1 => g[i - 1] = h[i - 1]
  BY <1>6
<1>8. QED BY <1>4, <1>5, <1>7 DEF Agree

\* There is such a function.
LEMMA JoinsExist ==
  ASSUME NEW B, NEW s \in Seq(Seq(B)), NEW m \in 0..Len(s)
  PROVE  \E g \in [1..m -> Seq(B)] : Joins(s, m, g)
<1> DEFINE Good(k) == \E g \in [1..k -> Seq(B)] : Joins(s, k, g)
           Bad == {k \in 0..Len(s) : ~Good(k)}
<1>1. SUFFICES ASSUME Bad # {} PROVE FALSE
  BY Zenon
<1>2. Bad \subseteq 0..Len(s) /\ Len(s) \in Nat
  OBVIOUS
<1>3. PICK k \in Bad : \A j \in Bad : k <= j
  <2> HIDE DEF Bad
  <2>1. QED BY <1>1, <1>2, ExtremesUpTo
<1>4. k \in 0..Len(s) /\ k \in Nat /\ ~Good(k)
  BY <1>3
<1>5. CASE k = 0
  <2> DEFINE g == [i \in 1..0 |-> s[i]]
  <2>1. g \in [1..0 -> Seq(B)]
    OBVIOUS
  <2>2. Joins(s, 0, g)
    BY DEF Joins
  <2>3. QED BY <1>4, <1>5, <2>1, <2>2
<1>6. CASE k # 0
  <2>1. k - 1 \in 0..Len(s) /\ ~(k <= k - 1)
    BY <1>4, <1>6
  <2>b. k - 1 \notin Bad
    <3> HIDE DEF Bad
    <3>1. QED BY <1>3, <2>1
  <2>2. PICK g \in [1..(k - 1) -> Seq(B)] : Joins(s, k - 1, g)
    BY <2>1, <2>b
  <2> DEFINE last == IF k = 1 THEN s[k] ELSE g[k - 1] \o s[k]
             h == [i \in 1..k |-> IF i = k THEN last ELSE g[i]]
  <2>3. s[k] \in Seq(B)
    BY <1>4, <1>6
  <2>4. last \in Seq(B)
    <3>1. CASE k = 1
      BY <2>3, <3>1
    <3>2. CASE k # 1
      <4>1. g[k - 1] \in Seq(B)
        BY <1>4, <1>6, <3>2
      <4>2. g[k - 1] \o s[k] \in Seq(B)
        BY <2>3, <4>1, ConcatProperties
      <4>3. QED BY <3>2, <4>2
    <3>3. QED BY <3>1, <3>2
  <2>5. h \in [1..k -> Seq(B)]
    <3> HIDE DEF last
    <3>1. QED BY <1>4, <2>4
  <2>6. \A i \in 1..k : h[i] = IF i = 1 THEN s[i] ELSE h[i - 1] \o s[i]
    <3> SUFFICES ASSUME NEW i \in 1..k
                 PROVE  h[i] = IF i = 1 THEN s[i] ELSE h[i - 1] \o s[i]
      OBVIOUS
    <3>1. i # 1 => i - 1 \in 1..k /\ i - 1 # k /\ i - 1 \in 1..(k - 1)
      BY <1>4
    <3>2. i # 1 => h[i - 1] = g[i - 1]
      BY <3>1
    <3>3. CASE i = k
      <4>1. h[i] = last
        BY <3>3
      <4>2. QED BY <3>2, <3>3, <4>1
    <3>4. CASE i # k
      <4>1. i \in 1..(k - 1)
        BY <1>4, <3>4
      <4>2. g[i] = IF i = 1 THEN s[i] ELSE g[i - 1] \o s[i]
        BY <2>2, <4>1, Zenon DEF Joins
      <4>3. h[i] = g[i]
        BY <3>4
      <4> HIDE DEF h
      <4>4. QED BY <3>2, <4>2, <4>3
    <3>5. QED BY <3>3, <3>4
  <2>7. h = [i \in 1..k |-> h[i]]
    BY Zenon
  <2> HIDE DEF h
  <2>8. Joins(s, k, h)
    BY <2>6, <2>7, Zenon DEF Joins
  <2>9. QED BY <1>4, <2>5, <2>8
<1>7. QED BY <1>5, <1>6

\* What joining all of s yields.
Joined(s) == CHOOSE g : Joins(s, Len(s), g)

\* The library's flattening is the last of the joins.
LEMMA FlattenFacts ==
  ASSUME NEW B, NEW s \in Seq(Seq(B))
  PROVE  /\ Joins(s, Len(s), Joined(s))
         /\ \A i \in 1..Len(s) : Joined(s)[i] \in Seq(B)
         /\ FlattenSeq(s) = IF Len(s) = 0 THEN <<>> ELSE Joined(s)[Len(s)]
         /\ FlattenSeq(s) \in Seq(B)
<1>1. Len(s) \in Nat /\ Len(s) \in 0..Len(s)
  OBVIOUS
<1>2. PICK h \in [1..Len(s) -> Seq(B)] : Joins(s, Len(s), h)
  BY <1>1, JoinsExist
<1>3. Joins(s, Len(s), Joined(s))
  BY <1>2 DEF Joined
<1>4. \A i \in 1..Len(s) : Joined(s)[i] = h[i]
  <2> DEFINE g == Joined(s)
  <2>1. Joins(s, Len(s), g)
    BY <1>3
  <2>2. Agree(s, s, Len(s))
    BY DEF Agree
  <2> HIDE DEF g
  <2>3. Agree(g, h, Len(s))
    BY <1>1, <1>2, <2>1, <2>2, JoinsAgree
  <2>4. QED BY <2>3 DEF g, Agree
<1>5. FlattenSeq(s) = IF Len(s) = 0 THEN <<>> ELSE Joined(s)[Len(s)]
  <2>1. CASE Len(s) = 0
    BY <2>1 DEF FlattenSeq
  <2>2. CASE Len(s) # 0
    BY <2>2 DEF FlattenSeq, Joined, Joins
  <2>3. QED BY <2>1, <2>2
<1>6. \A i \in 1..Len(s) : Joined(s)[i] \in Seq(B)
  BY <1>4
<1>7. FlattenSeq(s) \in Seq(B)
  BY <1>1, <1>5, <1>6
<1>8. QED BY <1>3, <1>5, <1>6, <1>7

\* A sequence at the end comes at the end.
LEMMA FlattenAppend ==
  ASSUME NEW B, NEW s \in Seq(Seq(B)), NEW x \in Seq(B)
  PROVE  FlattenSeq(Append(s, x)) = FlattenSeq(s) \o x
<1>m. PICK t, m : t = Append(s, x) /\ m = Len(s)
  OBVIOUS
<1>1. /\ t \in Seq(Seq(B)) /\ Len(t) = m + 1 /\ t[m + 1] = x /\ m \in Nat
      /\ \A i \in 1..m : t[i] = s[i]
  BY <1>m, AppendProperties
<1>2. Joins(s, m, Joined(s)) /\ FlattenSeq(s) = IF m = 0 THEN <<>> ELSE Joined(s)[m]
  BY <1>m, FlattenFacts
<1>3. Joins(t, m + 1, Joined(t)) /\ FlattenSeq(t) = Joined(t)[m + 1]
  BY <1>1, FlattenFacts
<1>4. \A i \in 1..m : Joined(s)[i] = Joined(t)[i]
  <2>1. PICK g, h, k : g = Joined(s) /\ h = Joined(t) /\ k = m + 1
    OBVIOUS
  <2>2. m \in Nat /\ k \in Nat /\ k >= m
    BY <1>1, <2>1
  <2>3. Agree(s, t, m)
    BY <1>1 DEF Agree
  <2>4. Joins(s, m, g) /\ Joins(t, k, h)
    BY <1>2, <1>3, <2>1
  <2>5. Agree(g, h, m)
    BY <2>2, <2>3, <2>4, JoinsAgree
  <2>6. QED BY <2>1, <2>5 DEF Agree
<1>5. m + 1 \in 1..(m + 1)
  BY <1>1
<1>6. Joined(t)[m + 1] = IF m + 1 = 1 THEN t[m + 1] ELSE Joined(t)[(m + 1) - 1] \o t[m + 1]
  BY <1>3, <1>5, Zenon DEF Joins
<1>7. CASE m = 0
  <2>1. FlattenSeq(t) = x /\ FlattenSeq(s) = <<>>
    BY <1>1, <1>2, <1>3, <1>6, <1>7
  <2>2. <<>> \o x = x
    BY ConcatEmptySeq
  <2>3. QED BY <1>m, <2>1, <2>2
<1>8. CASE m # 0
  <2>1. (m + 1) - 1 = m /\ m + 1 # 1 /\ m \in 1..m
    BY <1>1, <1>8
  <2>2. FlattenSeq(t) = Joined(s)[m] \o x
    BY <1>1, <1>3, <1>4, <1>6, <2>1
  <2>3. QED BY <1>m, <1>2, <1>8, <2>2
<1>9. QED BY <1>7, <1>8

-----------------------------------------------------------------------------
(* Paths as bytes *)

Path == Seq(Names)

\* The path a sequence of names begins with.
Upto(p, k) == SubSeq(p, 1, k)

\* What a name adds to a path.
Piece(name) == <<Sep>> \o name

\* Names begin and are made of bytes.
LEMMA NameFacts ==
  ASSUME NEW name \in Names
  PROVE  /\ name \in Seq(Bytes) /\ Len(name) \in Nat \ {0}
         /\ \A i \in 1..Len(name) : name[i] # Sep
         /\ Piece(name) \in Seq(Bytes) /\ Len(Piece(name)) = Len(name) + 1
         /\ Piece(name)[1] = Sep
         /\ \A i \in 1..Len(name) : Piece(name)[i + 1] = name[i]
<1>1. name \in Seq(Bytes) /\ name # <<>> /\ Sep \notin ToSet(name)
  BY WalkAssumption
<1>2. Len(name) \in Nat \ {0} /\ DOMAIN name = 1..Len(name)
  BY <1>1, EmptySeq
<1>3. \A i \in 1..Len(name) : name[i] # Sep
  BY <1>1, <1>2 DEF ToSet
<1>4. <<Sep>> \in Seq(Bytes) /\ Len(<<Sep>>) = 1 /\ <<Sep>>[1] = Sep
  <2>1. Sep \in Bytes
    BY WalkAssumption
  <2>2. QED BY <2>1
<1>5. /\ Piece(name) \in Seq(Bytes) /\ Len(Piece(name)) = 1 + Len(name)
      /\ \A i \in 1..(1 + Len(name)) :
            Piece(name)[i] = IF i <= 1 THEN <<Sep>>[i] ELSE name[i - 1]
  <2>1. PICK s : s = <<Sep>>
    OBVIOUS
  <2>2. s \in Seq(Bytes) /\ Len(s) = 1
    BY <1>4, <2>1
  <2>3. /\ s \o name \in Seq(Bytes) /\ Len(s \o name) = Len(s) + Len(name)
        /\ \A i \in 1..(Len(s) + Len(name)) :
              (s \o name)[i] = IF i <= Len(s) THEN s[i] ELSE name[i - Len(s)]
    BY <1>1, <2>2, ConcatProperties
  <2>4. QED BY <2>1, <2>2, <2>3 DEF Piece
<1>6. Piece(name)[1] = Sep
  BY <1>2, <1>4, <1>5
<1>7. \A i \in 1..Len(name) : Piece(name)[i + 1] = name[i]
  <2> SUFFICES ASSUME NEW i \in 1..Len(name) PROVE Piece(name)[i + 1] = name[i]
    OBVIOUS
  <2>1. i + 1 \in 1..(1 + Len(name)) /\ ~(i + 1 <= 1) /\ (i + 1) - 1 = i
    BY <1>2
  <2>2. QED BY <1>5, <2>1
<1>8. QED BY <1>1, <1>2, <1>3, <1>5, <1>6, <1>7

\* What the names of a path add.
Pieces(p) == [i \in DOMAIN p |-> <<Sep>> \o p[i]]

\* They are as many sequences of bytes as there are names.
LEMMA PiecesFacts ==
  ASSUME NEW p \in Path
  PROVE  /\ Pieces(p) \in Seq(Seq(Bytes)) /\ Len(Pieces(p)) = Len(p)
         /\ \A i \in 1..Len(p) : Pieces(p)[i] = Piece(p[i])
<1>1. Len(p) \in Nat /\ DOMAIN p = 1..Len(p) /\ \A i \in 1..Len(p) : p[i] \in Names
  BY DEF Path
<1>2. \A i \in 1..Len(p) : Pieces(p)[i] = Piece(p[i]) /\ Piece(p[i]) \in Seq(Bytes)
  BY <1>1, NameFacts DEF Pieces, Piece
<1>3. Pieces(p) = [i \in 1..Len(p) |-> Pieces(p)[i]]
  BY <1>1 DEF Pieces
<1>4. Pieces(p) \in [1..Len(p) -> Seq(Bytes)]
  BY <1>2, <1>3
<1>5. QED BY <1>1, <1>2, <1>4

\* The text of a path with one more name.
LEMMA TextAppend ==
  ASSUME NEW p \in Path, NEW name \in Names
  PROVE  /\ Append(p, name) \in Path
         /\ Text(p) \in Seq(Bytes)
         /\ Text(Append(p, name)) = Text(p) \o Piece(name)
<1> DEFINE q == Append(p, name)
<1>1. /\ q \in Path /\ Len(q) = Len(p) + 1 /\ q[Len(p) + 1] = name
      /\ \A i \in 1..Len(p) : q[i] = p[i]
  BY AppendProperties DEF Path
<1>2. Len(p) \in Nat
  BY DEF Path
<1> HIDE DEF q
<1>3. /\ Pieces(p) \in Seq(Seq(Bytes)) /\ Len(Pieces(p)) = Len(p)
      /\ \A i \in 1..Len(p) : Pieces(p)[i] = Piece(p[i])
  BY PiecesFacts
<1>4. /\ Pieces(q) \in Seq(Seq(Bytes)) /\ Len(Pieces(q)) = Len(p) + 1
      /\ \A i \in 1..(Len(p) + 1) : Pieces(q)[i] = Piece(q[i])
  BY <1>1, PiecesFacts
<1>5. Piece(name) \in Seq(Bytes)
  BY NameFacts
<1>6. Pieces(q) = Append(Pieces(p), Piece(name))
  <2>1. PICK s, t, x : s = Pieces(p) /\ t = Pieces(q) /\ x = Piece(name)
    OBVIOUS
  <2>2. /\ Append(s, x) \in Seq(Seq(Bytes)) /\ Len(Append(s, x)) = Len(s) + 1
        /\ \A i \in 1..Len(s) : Append(s, x)[i] = s[i]
        /\ Append(s, x)[Len(s) + 1] = x
    BY <1>3, <1>5, <2>1, AppendProperties
  <2>3. Len(t) = Len(s) + 1 /\ t \in Seq(Seq(Bytes)) /\ Len(s) = Len(p)
    BY <1>3, <1>4, <2>1
  <2>4. ASSUME NEW i \in 1..Len(t) PROVE t[i] = Append(s, x)[i]
    <3>1. CASE i = Len(p) + 1
      BY <1>1, <1>2, <1>4, <2>1, <2>2, <2>3, <3>1
    <3>2. CASE i # Len(p) + 1
      <4>1. i \in 1..Len(p) /\ i \in 1..(Len(p) + 1)
        BY <1>2, <2>3, <2>4, <3>2
      <4>2. t[i] = Piece(q[i]) /\ s[i] = Piece(p[i]) /\ q[i] = p[i]
        BY <1>1, <1>3, <1>4, <2>1, <4>1
      <4>3. Append(s, x)[i] = s[i]
        BY <2>2, <2>3, <4>1
      <4>4. QED BY <4>2, <4>3
    <3>3. QED BY <3>1, <3>2
  <2>5. t = Append(s, x)
    <3>1. PICK u : u = Append(s, x)
      OBVIOUS
    <3>2. u \in Seq(Seq(Bytes)) /\ Len(t) = Len(u) /\ \A i \in 1..Len(t) : t[i] = u[i]
      BY <2>2, <2>3, <2>4, <3>1
    <3>3. t = u
      BY <2>3, <3>2, SeqEqual
    <3>4. QED BY <3>1, <3>3
  <2>6. QED BY <2>1, <2>5
<1>7. /\ FlattenSeq(Pieces(q)) = FlattenSeq(Pieces(p)) \o Piece(name)
      /\ FlattenSeq(Pieces(p)) \in Seq(Bytes)
  BY <1>3, <1>5, <1>6, FlattenAppend, FlattenFacts
<1>8. Root \in Seq(Bytes)
  BY WalkAssumption
<1>9. Text(p) = Root \o FlattenSeq(Pieces(p)) /\ Text(q) = Root \o FlattenSeq(Pieces(q))
  BY Zenon DEF Text, Pieces
<1>10. (Root \o FlattenSeq(Pieces(p))) \o Piece(name) = Root \o (FlattenSeq(Pieces(p)) \o Piece(name))
  <2>1. PICK s, x : s = FlattenSeq(Pieces(p)) /\ x = Piece(name)
    OBVIOUS
  <2>2. s \in Seq(Bytes) /\ x \in Seq(Bytes)
    BY <1>5, <1>7, <2>1
  <2>3. (Root \o s) \o x = Root \o (s \o x)
    BY <1>8, <2>2, ConcatAssociative
  <2>4. QED BY <2>1, <2>3
<1>11. Text(p) \in Seq(Bytes)
  BY <1>7, <1>8, <1>9, ConcatProperties
<1>12. QED BY <1>1, <1>7, <1>9, <1>10, <1>11 DEF q

\* The empty path is the root.
LEMMA TextEmpty == Text(<<>>) = Root /\ <<>> \in Path /\ Len(Root) \in Nat \ {0}
<1>1. <<>> \in Path /\ Len(<<>>) = 0
  BY DEF Path
<1>2. Pieces(<<>>) \in Seq(Seq(Bytes)) /\ Len(Pieces(<<>>)) = 0
  BY <1>1, PiecesFacts
<1>3. FlattenSeq(Pieces(<<>>)) = <<>>
  BY <1>2, FlattenFacts
<1>4. Root \in Seq(Bytes) /\ Root # <<>>
  BY WalkAssumption
<1>5. Text(<<>>) = Root \o <<>>
  BY <1>3, Zenon DEF Text, Pieces
<1>6. QED BY <1>1, <1>4, <1>5, ConcatEmptySeq, EmptySeq
\* The first names of a path are a path.
LEMMA UptoFacts ==
  ASSUME NEW p \in Path, NEW k \in 0..Len(p)
  PROVE  /\ Upto(p, k) \in Path /\ Len(Upto(p, k)) = k /\ k \in Nat
         /\ \A i \in 1..k : Upto(p, k)[i] = p[i]
         /\ k = Len(p) => Upto(p, k) = p
         /\ k = 0 => Upto(p, k) = <<>>
<1>1. Len(p) \in Nat /\ k \in Nat /\ \A i \in 1..k : p[i] \in Names
  BY DEF Path
<1>2. /\ SubSeq(p, 1, k) \in Seq(Names)
      /\ Len(SubSeq(p, 1, k)) = IF 1 <= k THEN k - 1 + 1 ELSE 0
      /\ \A i \in 1..(k - 1 + 1) : SubSeq(p, 1, k)[i] = p[1 + i - 1]
  <2>1. 1 \in Int /\ k \in Int /\ \A i \in 1..k : p[i] \in Names
    BY <1>1
  <2>2. QED BY <2>1, SubSeqProperties
<1>3. Len(SubSeq(p, 1, k)) = k /\ \A i \in 1..k : SubSeq(p, 1, k)[i] = p[i]
  BY <1>1, <1>2
<1>4. k = Len(p) => SubSeq(p, 1, k) = p
  BY SubSeqFull DEF Path
<1>5. k = 0 => SubSeq(p, 1, k) = <<>>
  BY <1>1, <1>2, <1>3, EmptySeq
<1>6. QED BY <1>1, <1>2, <1>3, <1>4, <1>5 DEF Upto, Path

\* Each of them comes after those before it.
LEMMA UptoNext ==
  ASSUME NEW p \in Path, NEW k \in Nat, k < Len(p)
  PROVE  /\ p[k + 1] \in Names /\ Upto(p, k) \in Path /\ Upto(p, k + 1) \in Path
         /\ Upto(p, k + 1) = Append(Upto(p, k), p[k + 1])
<1>1. Len(p) \in Nat /\ k \in 0..Len(p) /\ k + 1 \in 0..Len(p) /\ k + 1 \in 1..Len(p)
  BY DEF Path
<1>2. p[k + 1] \in Names
  BY <1>1 DEF Path
<1>3. PICK s, t, x : s = Upto(p, k) /\ t = Upto(p, k + 1) /\ x = p[k + 1]
  OBVIOUS
<1>4. s \in Path /\ Len(s) = k /\ \A i \in 1..k : s[i] = p[i]
  BY <1>1, <1>3, UptoFacts
<1>5. t \in Path /\ Len(t) = k + 1 /\ \A i \in 1..(k + 1) : t[i] = p[i]
  BY <1>1, <1>3, UptoFacts
<1>6. PICK u : u = Append(s, x)
  OBVIOUS
<1>7. /\ u \in Seq(Names) /\ Len(u) = k + 1 /\ u[k + 1] = x
      /\ \A i \in 1..k : u[i] = s[i]
  BY <1>2, <1>3, <1>4, <1>6, AppendProperties DEF Path
<1>8. ASSUME NEW i \in 1..(k + 1) PROVE t[i] = u[i]
  <2>1. CASE i = k + 1
    BY <1>3, <1>5, <1>7, <2>1
  <2>2. CASE i # k + 1
    <3>1. i \in 1..k
      BY <2>2
    <3>2. QED BY <1>4, <1>5, <1>7, <3>1
  <2>3. QED BY <2>1, <2>2
<1>9. t = u
  <2>1. t \in Seq(Names) /\ u \in Seq(Names) /\ Len(t) = Len(u) /\ Len(t) = k + 1
    BY <1>5, <1>7 DEF Path
  <2>2. \A i \in 1..Len(t) : t[i] = u[i]
    BY <1>8, <2>1
  <2>3. QED BY <2>1, <2>2, SeqEqual
<1>10. QED BY <1>2, <1>3, <1>4, <1>5, <1>6, <1>9

\* The text of a path is made of bytes.
LEMMA TextType ==
  ASSUME NEW p \in Path
  PROVE  Text(p) \in Seq(Bytes) /\ Len(Text(p)) \in Nat
<1>1. CASE Len(p) = 0
  <2>1. p = <<>>
    BY <1>1, EmptySeq DEF Path
  <2>2. QED BY <2>1, TextEmpty, WalkAssumption
<1>2. CASE Len(p) # 0
  <2>1. p[1] \in Names
    BY <1>2 DEF Path
  <2>2. QED BY <2>1, TextAppend
<1>3. QED BY <1>1, <1>2

\* A name adds a separator and its own bytes to the text.
LEMMA TextNext ==
  ASSUME NEW p \in Path, NEW name \in Names
  PROVE  LET a == Text(p)
             b == Text(Append(p, name))
         IN  /\ Len(a) \in Nat /\ Len(name) \in Nat \ {0}
             /\ Len(b) = Len(a) + 1 + Len(name)
             /\ Agree(a, b, Len(a))
             /\ b[Len(a) + 1] = Sep
             /\ \A i \in (Len(a) + 2)..Len(b) : b[i] # Sep
<1>1. PICK a, b, x : a = Text(p) /\ b = Text(Append(p, name)) /\ x = Piece(name)
  OBVIOUS
<1>2. b = a \o x /\ a \in Seq(Bytes)
  BY <1>1, TextAppend
<1>3. /\ x \in Seq(Bytes) /\ Len(name) \in Nat \ {0} /\ Len(x) = Len(name) + 1 /\ x[1] = Sep
      /\ \A i \in 1..Len(name) : x[i + 1] = name[i] /\ name[i] # Sep
  BY <1>1, NameFacts
<1>4. /\ Len(b) = Len(a) + Len(x)
      /\ \A i \in 1..(Len(a) + Len(x)) : b[i] = IF i <= Len(a) THEN a[i] ELSE x[i - Len(a)]
  BY <1>2, <1>3, ConcatProperties, ZenonT(30)
<1>5. PICK la : la = Len(a)
  OBVIOUS
<1>6. la \in Nat
  BY <1>2, <1>5
<1>7. PICK ln : ln = Len(name)
  OBVIOUS
<1>8. ln \in Nat \ {0} /\ Len(b) = la + 1 + ln
  BY <1>3, <1>4, <1>5, <1>6, <1>7
<1>9. \A i \in 1..(la + 1 + ln) : b[i] = IF i <= la THEN a[i] ELSE x[i - la]
  BY <1>3, <1>4, <1>5, <1>6, <1>7, <1>8
<1>10. Agree(a, b, la)
  <2>1. ASSUME NEW i \in 1..la PROVE a[i] = b[i]
    <3>1. i \in 1..(la + 1 + ln) /\ i <= la
      BY <1>6, <1>8
    <3>2. QED BY <1>9, <3>1
  <2>2. QED BY <2>1 DEF Agree
<1>11. b[la + 1] = Sep
  <2>1. la + 1 \in 1..(la + 1 + ln) /\ ~(la + 1 <= la) /\ (la + 1) - la = 1
    BY <1>6, <1>8
  <2>2. QED BY <1>3, <1>9, <2>1
<1>12. ASSUME NEW i \in (la + 2)..Len(b) PROVE b[i] # Sep
  <2>1. PICK j : j = i - la - 1
    OBVIOUS
  <2>2. i \in 1..(la + 1 + ln) /\ ~(i <= la) /\ j \in 1..ln /\ i - la = j + 1
    BY <1>6, <1>8, <2>1
  <2>3. b[i] = x[j + 1]
    BY <1>9, <2>2
  <2>4. QED BY <1>3, <1>7, <2>2, <2>3
<1>13. QED BY <1>1, <1>5, <1>6, <1>7, <1>8, <1>10, <1>11, <1>12
\* The text of a path begins with those of the paths it is below.
LEMMA TextUpto ==
  ASSUME NEW p \in Path, NEW j \in 0..Len(p), NEW k \in j..Len(p)
  PROVE  LET a == Text(Upto(p, j))
             b == Text(Upto(p, k))
         IN  /\ Len(a) \in Nat /\ Len(b) \in Nat /\ Len(a) <= Len(b)
             /\ Agree(a, b, Len(a))
<1> DEFINE T(i) == Text(Upto(p, i))
           Good(i) == Len(T(j)) <= Len(T(i)) /\ Agree(T(j), T(i), Len(T(j)))
           Bad == {i \in j..Len(p) : ~Good(i)}
<1>1. Len(p) \in Nat /\ j \in Nat
  BY DEF Path
<1>2. \A i \in 0..Len(p) : T(i) \in Seq(Bytes) /\ Len(T(i)) \in Nat
  BY UptoFacts, TextType
<1>3. ASSUME Bad # {} PROVE FALSE
  <2>1. Bad \subseteq 0..Len(p)
    BY <1>1
  <2>2. PICK i \in Bad : \A h \in Bad : i <= h
    <3> HIDE DEF Bad
    <3>1. QED BY <1>1, <1>3, <2>1, ExtremesUpTo
  <2>3. i \in j..Len(p) /\ i \in 0..Len(p) /\ ~Good(i)
    BY <1>1, <2>2
  <2>4. Good(j)
    <3>1. Len(T(j)) \in Nat
      BY <1>2
    <3> HIDE DEF T
    <3>2. QED BY <3>1 DEF Agree
  <2>5. i # j
    BY <2>3, <2>4
  <2>6. PICK h : h = i - 1
    OBVIOUS
  <2>7. h \in j..Len(p) /\ h \in 0..Len(p) /\ h \in Nat /\ h < Len(p) /\ i = h + 1 /\ ~(i <= h)
    BY <1>1, <2>3, <2>5, <2>6
  <2>8. h \notin Bad
    <3> HIDE DEF Bad
    <3>1. QED BY <2>2, <2>7
  <2>9. Good(h)
    <3> HIDE DEF Good
    <3>1. QED BY <2>7, <2>8
  <2>10. /\ p[h + 1] \in Names /\ Upto(p, h) \in Path
         /\ Upto(p, i) = Append(Upto(p, h), p[h + 1])
    BY <2>7, UptoNext
  <2>11. PICK name \in Names, q \in Path : name = p[h + 1] /\ q = Upto(p, h)
    BY <2>10
  <2>12. /\ Len(T(h)) <= Len(T(i)) /\ Agree(T(h), T(i), Len(T(h)))
    <3>1. PICK a, b : a = Text(q) /\ b = Text(Append(q, name))
      OBVIOUS
    <3>2. /\ Len(a) \in Nat /\ Len(name) \in Nat \ {0} /\ Len(b) = Len(a) + 1 + Len(name)
          /\ Agree(a, b, Len(a))
      BY <3>1, TextNext
    <3>3. Len(a) <= Len(b)
      BY <3>2
    <3>4. T(h) = a /\ T(i) = b
      BY <2>10, <2>11, <3>1
    <3> HIDE DEF T
    <3>5. QED BY <3>2, <3>3, <3>4
  <2>13. Good(i)
    <3>1. PICK la, lh, li : la = Len(T(j)) /\ lh = Len(T(h)) /\ li = Len(T(i))
      OBVIOUS
    <3>2. la \in Nat /\ lh \in Nat /\ li \in Nat
      BY <1>2, <2>3, <2>7, <3>1
    <3> HIDE DEF T
    <3>3. la <= lh /\ lh <= li /\ Agree(T(j), T(h), la) /\ Agree(T(h), T(i), lh)
      BY <2>9, <2>12, <3>1
    <3>4. la <= li
      BY <3>2, <3>3
    <3>5. Agree(T(j), T(i), la)
      <4>1. ASSUME NEW x \in 1..la PROVE T(j)[x] = T(i)[x]
        <5>1. x \in 1..lh
          BY <3>2, <3>3
        <5>2. QED BY <3>3, <5>1 DEF Agree
      <4>2. QED BY <4>1 DEF Agree
    <3>6. QED BY <3>1, <3>4, <3>5
  <2>14. QED BY <2>3, <2>13
<1>4. Good(k)
  <2>1. k \notin Bad
    BY <1>3
  <2> HIDE DEF Good
  <2>2. QED BY <2>1
<1>5. Len(T(j)) \in Nat /\ Len(T(k)) \in Nat
  BY <1>1, <1>2
<1>6. QED BY <1>4, <1>5

\* Below a path comes a separator.
LEMMA TextBelow ==
  ASSUME NEW p \in Path, NEW j \in Nat, j < Len(p)
  PROVE  LET a == Text(Upto(p, j))
             b == Text(p)
         IN  Len(a) < Len(b) /\ b[Len(a) + 1] = Sep
<1>1. Len(p) \in Nat /\ j + 1 \in 0..Len(p) /\ Len(p) \in (j + 1)..Len(p) /\ Len(p) \in 0..Len(p)
  BY DEF Path
<1>2. PICK a, b, c : a = Text(Upto(p, j)) /\ b = Text(p) /\ c = Text(Upto(p, j + 1))
  OBVIOUS
<1>3. Upto(p, Len(p)) = p
  BY <1>1, UptoFacts
<1>4. Len(c) \in Nat /\ Len(b) \in Nat /\ Len(c) <= Len(b) /\ Agree(c, b, Len(c))
  <2>1. PICK h, k : h = j + 1 /\ k = Len(p)
    OBVIOUS
  <2>2. h \in 0..Len(p) /\ k \in h..Len(p)
    BY <1>1, <2>1
  <2>3. /\ Len(Text(Upto(p, h))) \in Nat /\ Len(Text(Upto(p, k))) \in Nat
        /\ Len(Text(Upto(p, h))) <= Len(Text(Upto(p, k)))
        /\ Agree(Text(Upto(p, h)), Text(Upto(p, k)), Len(Text(Upto(p, h))))
    BY <2>2, TextUpto
  <2>4. QED BY <1>2, <1>3, <2>1, <2>3
<1>5. /\ p[j + 1] \in Names /\ Upto(p, j) \in Path
      /\ Upto(p, j + 1) = Append(Upto(p, j), p[j + 1])
  BY UptoNext
<1>6. PICK name \in Names, q \in Path : name = p[j + 1] /\ q = Upto(p, j)
  BY <1>5
<1>7. /\ Len(a) \in Nat /\ Len(name) \in Nat \ {0} /\ Len(c) = Len(a) + 1 + Len(name)
      /\ c[Len(a) + 1] = Sep
  <2>1. a = Text(q) /\ c = Text(Append(q, name))
    BY <1>2, <1>5, <1>6
  <2>2. QED BY <2>1, TextNext
<1>8. Len(a) + 1 \in 1..Len(c) /\ Len(a) < Len(b)
  BY <1>4, <1>7
<1>9. b[Len(a) + 1] = Sep
  BY <1>4, <1>7, <1>8 DEF Agree
<1>10. QED BY <1>2, <1>8, <1>9

\* A separator in the text of a path, or its end, ends the text of a path it is below.
LEMMA Boundary ==
  ASSUME NEW p \in Path, NEW m \in Nat, Len(Root) <= m, m <= Len(Text(p)),
         m = Len(Text(p)) \/ Text(p)[m + 1] = Sep
  PROVE  \E k \in 0..Len(p) : m = Len(Text(Upto(p, k)))
<1> DEFINE T(i) == Text(Upto(p, i))
           From == {i \in 0..Len(p) : m <= Len(T(i))}
<1>1. Len(p) \in Nat /\ Len(p) \in 0..Len(p) /\ Upto(p, Len(p)) = p /\ Upto(p, 0) = <<>>
  <2>1. Len(p) \in Nat
    BY DEF Path
  <2>2. Len(p) \in 0..Len(p) /\ 0 \in 0..Len(p)
    BY <2>1
  <2>3. QED BY <2>1, <2>2, UptoFacts
<1>2. \A i \in 0..Len(p) : T(i) \in Seq(Bytes) /\ Len(T(i)) \in Nat
  BY UptoFacts, TextType
<1>3. Len(p) \in From
  BY <1>1
<1>4. From \subseteq 0..Len(p)
  OBVIOUS
<1>5. PICK i \in From : \A h \in From : i <= h
  <2> HIDE DEF From
  <2>1. QED BY <1>1, <1>3, <1>4, ExtremesUpTo
<1>6. i \in 0..Len(p) /\ m <= Len(T(i)) /\ Len(T(i)) \in Nat
  BY <1>2, <1>5
<1>7. CASE i = 0
  <2>1. T(0) = Root
    BY <1>1, TextEmpty
  <2>2. m = Len(T(0))
    BY <1>6, <1>7, <2>1, TextEmpty
  <2>3. QED BY <1>6, <1>7, <2>2
<1>8. CASE i # 0
  <2>1. PICK h : h = i - 1
    OBVIOUS
  <2>2. h \in 0..Len(p) /\ h \in Nat /\ h < Len(p) /\ i = h + 1 /\ ~(i <= h)
    BY <1>1, <1>6, <1>8, <2>1
  <2>3. Len(T(h)) < m
    <3>1. h \notin From
      <4> HIDE DEF From
      <4>1. QED BY <1>5, <2>2
    <3>2. ~(m <= Len(T(h))) /\ Len(T(h)) \in Nat
      <4>1. ~(m <= Len(T(h)))
        <5> HIDE DEF T
        <5>1. QED BY <2>2, <3>1
      <4>2. QED BY <1>2, <2>2, <4>1
    <3> HIDE DEF T, From
    <3>3. QED BY <3>2
  <2>4. /\ p[h + 1] \in Names /\ Upto(p, h) \in Path
        /\ Upto(p, i) = Append(Upto(p, h), p[h + 1])
    BY <2>2, UptoNext
  <2>5. PICK name \in Names, q \in Path : name = p[h + 1] /\ q = Upto(p, h)
    BY <2>4
  <2>6. PICK a, b, c : a = T(h) /\ b = T(i) /\ c = Text(p)
    OBVIOUS
  <2>7. /\ Len(a) \in Nat /\ Len(b) \in Nat
        /\ \A x \in (Len(a) + 2)..Len(b) : b[x] # Sep
    <3>1. a = Text(q) /\ b = Text(Append(q, name))
      BY <2>4, <2>5, <2>6
    <3>2. Len(b) \in Nat
      BY <1>6, <2>6
    <3>3. QED BY <3>1, <3>2, TextNext
  <2>8. Len(b) <= Len(c) /\ Len(c) \in Nat /\ Agree(b, c, Len(b))
    <3>1. PICK k : k = Len(p)
      OBVIOUS
    <3>2. k \in i..Len(p)
      BY <1>1, <1>6, <3>1
    <3>3. /\ Len(Text(Upto(p, i))) <= Len(Text(Upto(p, k))) /\ Len(Text(Upto(p, k))) \in Nat
          /\ Agree(Text(Upto(p, i)), Text(Upto(p, k)), Len(Text(Upto(p, i))))
      BY <1>6, <3>2, TextUpto
    <3>4. QED BY <1>1, <2>6, <3>1, <3>3
  <2>9. m = Len(b)
    <3>1. SUFFICES ASSUME m # Len(b) PROVE FALSE
      OBVIOUS
    <3>2. m <= Len(b) /\ Len(a) < m
      BY <1>6, <2>3, <2>6
    <3>3. m + 1 \in (Len(a) + 2)..Len(b) /\ m + 1 \in 1..Len(b) /\ m # Len(c)
      BY <2>7, <2>8, <3>1, <3>2
    <3>4. c[m + 1] = Sep
      BY <2>6, <3>3
    <3>5. b[m + 1] = Sep
      BY <2>8, <3>3, <3>4 DEF Agree
    <3>6. QED BY <2>7, <3>3, <3>5
  <2>10. QED BY <1>6, <2>6, <2>9
<1>9. QED BY <1>7, <1>8
-----------------------------------------------------------------------------
(* Protection *)

\* A prefix is the same up to its length.
LEMMA PrefixAgrees ==
  ASSUME NEW s \in Seq(Bytes), NEW t \in Seq(Bytes)
  PROVE  IsPrefix(s, t) <=> Len(s) <= Len(t) /\ Agree(s, t, Len(s))
<1>1. Len(s) \in Nat /\ Len(t) \in Nat
  OBVIOUS
<1>2. SubSeq(s, 1, Len(s)) = s
  BY SubSeqFull
<1>3. ASSUME Len(s) <= Len(t)
      PROVE  SubSeq(t, 1, Len(s)) = s <=> Agree(s, t, Len(s))
  <2>1. PICK m, u : m = Len(s) /\ u = SubSeq(t, 1, m)
    OBVIOUS
  <2>2. \A i \in 1..m : t[i] \in Bytes
    BY <1>1, <1>3, <2>1
  <2>3. /\ u \in Seq(Bytes) /\ Len(u) = IF 1 <= m THEN m - 1 + 1 ELSE 0
        /\ \A i \in 1..(m - 1 + 1) : u[i] = t[1 + i - 1]
    BY <1>1, <2>1, <2>2, SubSeqProperties
  <2>4. Len(u) = m /\ \A i \in 1..m : u[i] = t[i]
    BY <1>1, <2>1, <2>3
  <2>5. u = s => Agree(s, t, m)
    BY <2>4 DEF Agree
  <2>6. ASSUME Agree(s, t, m) PROVE u = s
    <3>1. Len(u) = Len(s) /\ \A i \in 1..Len(u) : u[i] = s[i]
      BY <2>1, <2>4, <2>6 DEF Agree
    <3>2. QED BY <2>3, <3>1, SeqEqual
  <2>7. QED BY <2>1, <2>5, <2>6
<1>4. QED BY <1>2, <1>3 DEF IsPrefix

\* What is left of a path without the separators at its end.
LEMMA TrimmedFacts ==
  ASSUME NEW s \in Seq(Bytes), s # <<>>
  PROVE  LET t == Trimmed(s)
         IN  /\ t \in Seq(Bytes) /\ Len(t) \in 1..Len(s) /\ Agree(t, s, Len(t))
             /\ Len(t) = 1 \/ t[Len(t)] # Sep
             /\ \A i \in 1..Len(s) : s[i] # Sep => i <= Len(t)
<1> DEFINE S == {1} \cup {i \in DOMAIN s : s[i] # Sep}
<1>1. Len(s) \in Nat \ {0} /\ DOMAIN s = 1..Len(s)
  BY EmptySeq
<1>2. PICK m : m = Max(S)
  OBVIOUS
<1>3. m \in S /\ \A i \in S : m >= i
  <2>1. S \subseteq 0..Len(s) /\ S # {} /\ S \in SUBSET Int
    BY <1>1
  <2>2. IsFiniteSet(0..Len(s))
    BY <1>1, FS_Interval
  <2> HIDE DEF S
  <2>3. IsFiniteSet(S)
    BY <2>1, <2>2, FS_Subset
  <2>4. QED BY <1>2, <2>1, <2>3, MaxFacts
<1>4. m \in 1..Len(s) /\ (m = 1 \/ s[m] # Sep)
  BY <1>1, <1>3
<1>5. \A i \in 1..Len(s) : s[i] # Sep => i <= m
  BY <1>1, <1>3
<1>6. PICK t : t = SubSeq(s, 1, m)
  OBVIOUS
<1>7. Trimmed(s) = t
  BY <1>2, <1>6 DEF Trimmed
<1> HIDE DEF S
<1>8. m \in Int /\ \A i \in 1..m : s[i] \in Bytes
  BY <1>1, <1>4
<1>9. /\ t \in Seq(Bytes) /\ Len(t) = IF 1 <= m THEN m - 1 + 1 ELSE 0
      /\ \A i \in 1..(m - 1 + 1) : t[i] = s[1 + i - 1]
  BY <1>6, <1>8, SubSeqProperties
<1>10. Len(t) = m /\ \A i \in 1..m : t[i] = s[i]
  BY <1>1, <1>4, <1>9
<1>11. Agree(t, s, m)
  BY <1>10 DEF Agree
<1>12. m = 1 \/ t[m] # Sep
  BY <1>1, <1>4, <1>10
<1>13. QED BY <1>4, <1>5, <1>7, <1>9, <1>10, <1>11, <1>12

\* The root has none at its end.
LEMMA TrimmedRoot == Trimmed(Root) = Root
<1>1. Root \in Seq(Bytes) /\ Root # <<>> /\ Root[Len(Root)] # Sep
  BY WalkAssumption DEF Last
<1>2. Len(Root) \in Nat \ {0}
  BY <1>1, EmptySeq
<1>3. PICK t : t = Trimmed(Root)
  OBVIOUS
<1>4. /\ t \in Seq(Bytes) /\ Len(t) \in 1..Len(Root) /\ Agree(t, Root, Len(t))
      /\ \A i \in 1..Len(Root) : Root[i] # Sep => i <= Len(t)
  BY <1>1, <1>3, TrimmedFacts
<1>5. Len(t) = Len(Root)
  BY <1>1, <1>2, <1>4
<1>6. t = Root
  <2>1. \A i \in 1..Len(t) : t[i] = Root[i]
    BY <1>4 DEF Agree
  <2>2. QED BY <1>1, <1>4, <1>5, <2>1, SeqEqual
<1>7. QED BY <1>3, <1>6

\* What it is for a path to contain another, without the words.
LEMMA ContainsMeans ==
  ASSUME NEW s \in Seq(Bytes), NEW root \in Seq(Bytes), NEW r \in Seq(Bytes), r = Trimmed(root)
  PROVE  PathContains(s, root) <=>
            /\ Len(r) <= Len(s) /\ Agree(r, s, Len(r))
            /\ Len(s) = Len(r) \/ r[Len(r)] = Sep \/ s[Len(r) + 1] = Sep
<1>1. PathContains(s, root) <=>
         /\ IsPrefix(r, s)
         /\ Len(s) = Len(r) \/ Last(r) = Sep \/ s[Len(r) + 1] = Sep
  BY DEF PathContains
<1>2. IsPrefix(r, s) <=> Len(r) <= Len(s) /\ Agree(r, s, Len(r))
  BY PrefixAgrees
<1>3. QED BY <1>1, <1>2 DEF Last

\* The text of a path contains the text of the paths it is below.
LEMMA TextInside ==
  ASSUME NEW p \in Path, NEW k \in 0..Len(p)
  PROVE  LET a == Text(Upto(p, k))
             b == Text(p)
         IN  /\ a \in Seq(Bytes) /\ b \in Seq(Bytes) /\ Len(a) \in Nat
             /\ Len(a) <= Len(b) /\ Agree(a, b, Len(a))
             /\ Len(b) = Len(a) \/ b[Len(a) + 1] = Sep
<1>1. Len(p) \in Nat /\ k \in Nat
  BY DEF Path
<1>2. Upto(p, k) \in Path /\ Upto(p, Len(p)) = p /\ (k = Len(p) => Upto(p, k) = p)
  <2>1. Len(p) \in 0..Len(p)
    BY <1>1
  <2>2. QED BY <2>1, UptoFacts
<1>3. Text(Upto(p, k)) \in Seq(Bytes) /\ Text(p) \in Seq(Bytes)
  BY <1>2, TextType
<1>4. PICK m : m = Len(p)
  OBVIOUS
<1>5. /\ Len(Text(Upto(p, k))) \in Nat /\ Len(Text(Upto(p, k))) <= Len(Text(Upto(p, m)))
      /\ Agree(Text(Upto(p, k)), Text(Upto(p, m)), Len(Text(Upto(p, k))))
  <2>1. m \in k..Len(p)
    BY <1>1, <1>4
  <2>2. QED BY <2>1, TextUpto
<1>6. CASE k = Len(p)
  BY <1>2, <1>3, <1>4, <1>5, <1>6
<1>7. CASE k # Len(p)
  <2>1. k < Len(p)
    BY <1>1, <1>7
  <2>2. Text(p)[Len(Text(Upto(p, k))) + 1] = Sep
    BY <1>1, <2>1, TextBelow
  <2>3. QED BY <1>2, <1>3, <1>4, <1>5, <2>2
<1>8. QED BY <1>6, <1>7
\* The text of any path contains the root.
LEMMA RootContains ==
  ASSUME NEW p \in Path
  PROVE  PathContains(Text(p), Root)
<1>1. Len(p) \in Nat /\ 0 \in 0..Len(p)
  BY DEF Path
<1>2. Upto(p, 0) = <<>>
  BY <1>1, UptoFacts
<1>3. Text(Upto(p, 0)) = Root
  BY <1>2, TextEmpty
<1>4. /\ Root \in Seq(Bytes) /\ Text(p) \in Seq(Bytes)
      /\ Len(Root) <= Len(Text(p)) /\ Agree(Root, Text(p), Len(Root))
      /\ Len(Text(p)) = Len(Root) \/ Text(p)[Len(Root) + 1] = Sep
  BY <1>1, <1>3, TextInside
<1>5. QED BY <1>4, TrimmedRoot, ContainsMeans

\* A protected path inside the root is longer than the root without the separators
\* at its end too, and does not end with one.
LEMMA ProtectedFacts ==
  ASSUME NEW q \in Protected, PathContains(q, Root)
  PROVE  LET t == Trimmed(q)
         IN  t \in Seq(Bytes) /\ Len(t) \in Nat /\ Len(Root) < Len(t) /\ t[Len(t)] # Sep
<1>1. q \in Seq(Bytes) /\ q # <<>> /\ Trimmed(q) # Root
  BY WalkAssumption
<1>2. Root \in Seq(Bytes) /\ Root # <<>> /\ Root[Len(Root)] # Sep
  BY WalkAssumption DEF Last
<1>3. Len(Root) \in Nat \ {0} /\ Len(q) \in Nat
  BY <1>1, <1>2, EmptySeq
<1>4. Len(Root) <= Len(q) /\ Agree(Root, q, Len(Root))
  BY <1>1, <1>2, TrimmedRoot, ContainsMeans
<1>5. PICK t : t = Trimmed(q)
  OBVIOUS
<1>6. /\ t \in Seq(Bytes) /\ Len(t) \in 1..Len(q) /\ Agree(t, q, Len(t))
      /\ Len(t) = 1 \/ t[Len(t)] # Sep
      /\ \A i \in 1..Len(q) : q[i] # Sep => i <= Len(t)
  BY <1>1, <1>5, TrimmedFacts
<1>7. Len(Root) <= Len(t)
  <2>1. Len(Root) \in 1..Len(Root) /\ Len(Root) \in 1..Len(q)
    BY <1>3, <1>4
  <2>2. q[Len(Root)] # Sep
    BY <1>2, <1>4, <2>1 DEF Agree
  <2>3. QED BY <1>6, <2>1, <2>2
<1>8. Len(Root) # Len(t)
  <2>1. SUFFICES ASSUME Len(Root) = Len(t) PROVE FALSE
    OBVIOUS
  <2>2. \A i \in 1..Len(t) : t[i] = Root[i]
    BY <1>4, <1>6, <2>1 DEF Agree
  <2>3. t = Root
    BY <1>2, <1>6, <2>1, <2>2, SeqEqual
  <2>4. QED BY <1>1, <1>5, <2>3
<1>9. Len(t) \in Nat /\ Len(Root) < Len(t) /\ Len(t) # 1
  <2>1. PICK lt, lr : lt = Len(t) /\ lr = Len(Root)
    OBVIOUS
  <2>2. lt \in Nat /\ lr \in Nat \ {0} /\ lr <= lt /\ lr # lt
    BY <1>3, <1>6, <1>7, <1>8, <2>1
  <2>3. lr < lt /\ lt # 1
    BY <2>2
  <2>4. QED BY <2>1, <2>2, <2>3
<1>10. QED BY <1>5, <1>6, <1>9

\* Comparing bytes protects exactly the entries that are named, and what is below
\* them: neither a name that only begins like a protected one, nor separators at
\* the end of a protected path, nor the length of the root change that
\* (ngx_http_cache_purge_is_protected_path, ngx_http_cache_purge_path_contains).
THEOREM ProtectionByName ==
  ASSUME NEW p \in Path
  PROVE  IsProtected(Text(p)) <=> MustKeep(p)
<1> DEFINE s == Text(p)
<1>1. s \in Seq(Bytes) /\ Len(s) \in Nat /\ PathContains(s, Root)
  BY TextType, RootContains
<1>2. Len(p) \in Nat /\ DOMAIN p = 1..Len(p)
  BY DEF Path
<1>3. Root \in Seq(Bytes) /\ Len(Root) \in Nat \ {0} /\ Trimmed(Root) = Root
  BY TextEmpty, TrimmedRoot, WalkAssumption
<1> HIDE DEF s
<1>4. ASSUME IsProtected(s) PROVE MustKeep(p)
  <2>1. PICK q \in Protected : PathContains(q, Root) /\ PathContains(s, q)
    BY <1>1, <1>4 DEF IsProtected
  <2>2. q \in Seq(Bytes)
    BY WalkAssumption
  <2>3. PICK t : t = Trimmed(q)
    OBVIOUS
  <2>4. t \in Seq(Bytes) /\ Len(t) \in Nat /\ Len(Root) < Len(t) /\ t[Len(t)] # Sep
    BY <2>1, <2>3, ProtectedFacts
  <2>5. /\ Len(t) <= Len(s) /\ Agree(t, s, Len(t))
        /\ Len(s) = Len(t) \/ s[Len(t) + 1] = Sep
    BY <1>1, <2>1, <2>2, <2>3, <2>4, ContainsMeans
  <2>6. PICK m : m = Len(t)
    OBVIOUS
  <2>7. PICK k \in 0..Len(p) : m = Len(Text(Upto(p, k)))
    <3>1. m \in Nat /\ Len(Root) <= m /\ m <= Len(Text(p))
      BY <1>3, <2>4, <2>5, <2>6 DEF s
    <3>2. m = Len(Text(p)) \/ Text(p)[m + 1] = Sep
      BY <2>5, <2>6 DEF s
    <3>3. QED BY <3>1, <3>2, Boundary
  <2>8. PICK a : a = Text(Upto(p, k))
    OBVIOUS
  <2>9. a \in Seq(Bytes) /\ Len(a) = m /\ Agree(a, s, m)
    <3>1. a \in Seq(Bytes) /\ Agree(a, s, Len(a))
      BY <2>8, TextInside DEF s
    <3>2. QED BY <2>7, <2>8, <3>1
  <2>10. a = t
    <3>1. \A i \in 1..Len(t) : a[i] = t[i]
      BY <2>5, <2>6, <2>9 DEF Agree
    <3>2. QED BY <2>4, <2>6, <2>9, <3>1, SeqEqual
  <2>11. k \in DOMAIN p
    <3>1. k # 0
      <4>1. SUFFICES ASSUME k = 0 PROVE FALSE
        OBVIOUS
      <4>2. Upto(p, k) = <<>>
        BY <4>1, UptoFacts
      <4>3. m = Len(Root)
        BY <2>7, <4>2, TextEmpty
      <4>4. QED BY <1>3, <2>4, <2>6, <4>3
    <3>2. QED BY <1>2, <3>1
  <2>12. QED BY <2>3, <2>8, <2>10, <2>11 DEF MustKeep, Upto
<1>5. ASSUME MustKeep(p) PROVE IsProtected(s)
  <2>1. PICK k \in DOMAIN p, q \in Protected : Text(Upto(p, k)) = Trimmed(q)
    BY <1>5 DEF MustKeep, Upto
  <2>2. q \in Seq(Bytes) /\ q # <<>>
    BY WalkAssumption
  <2>3. PICK t, u : t = Trimmed(q) /\ u = Upto(p, k)
    OBVIOUS
  <2>4. t \in Seq(Bytes) /\ Len(t) \in 1..Len(q) /\ Agree(t, q, Len(t))
    BY <2>2, <2>3, TrimmedFacts
  <2>5. k \in 0..Len(p) /\ k \in Nat /\ k # 0
    BY <1>2, <2>1
  <2>6. u \in Path /\ Len(u) = k /\ 0 < Len(u) /\ Text(u) = t
    <3>1. u \in Path /\ Len(u) = k /\ Text(u) = t
      BY <2>1, <2>3, <2>5, UptoFacts
    <3>2. QED BY <2>5, <3>1
  <2>7. PathContains(s, q)
    <3>1. /\ Len(t) <= Len(s) /\ Agree(t, s, Len(t))
          /\ Len(s) = Len(t) \/ s[Len(t) + 1] = Sep
      BY <2>1, <2>3, <2>5, TextInside DEF s
    <3>2. QED BY <1>1, <2>2, <2>3, <2>4, <3>1, ContainsMeans
  <2>8. Len(Root) < Len(t) /\ t[Len(Root) + 1] = Sep /\ Agree(Root, t, Len(Root))
    <3>1. Upto(u, 0) = <<>> /\ 0 \in 0..Len(u)
      <4>1. 0 \in 0..Len(u)
        BY <2>5, <2>6
      <4>2. QED BY <2>6, <4>1, UptoFacts
    <3>2. Text(Upto(u, 0)) = Root
      BY <3>1, TextEmpty
    <3>3. Len(Root) < Len(t) /\ t[Len(Root) + 1] = Sep
      <4>1. 0 \in Nat
        OBVIOUS
      <4>2. QED BY <2>6, <3>2, <4>1, TextBelow
    <3>4. Agree(Root, t, Len(Root))
      BY <2>6, <3>1, <3>2, TextInside
    <3>5. QED BY <3>3, <3>4
  <2>9. Len(q) \in Nat /\ Len(t) \in Nat /\ Len(t) <= Len(q)
    BY <2>2, <2>4
  <2>10. Len(Root) < Len(q) /\ Len(Root) <= Len(q)
    BY <1>3, <2>8, <2>9
  <2>11. PathContains(q, Root)
    <3>1. q[Len(Root) + 1] = Sep
      <4>1. Len(Root) + 1 \in 1..Len(t)
        BY <1>3, <2>8, <2>9
      <4>2. QED BY <2>4, <2>8, <4>1 DEF Agree
    <3>2. Agree(Root, q, Len(Root))
      <4>1. ASSUME NEW i \in 1..Len(Root) PROVE Root[i] = q[i]
        <5>1. i \in 1..Len(t)
          BY <1>3, <2>8, <2>9
        <5>2. QED BY <2>4, <2>8, <5>1 DEF Agree
      <4>2. QED BY <4>1 DEF Agree
    <3>3. QED BY <1>3, <2>2, <2>10, <3>1, <3>2, ContainsMeans
  <2>12. Len(q) > Len(Trimmed(Root))
    BY <1>3, <2>9, <2>10
  <2>13. QED BY <2>7, <2>11, <2>12 DEF IsProtected
<1>6. QED BY <1>4, <1>5 DEF s
-----------------------------------------------------------------------------
(* The invariants *)

FrameType == [dir : Path, len : Nat, todo : SUBSET Names]

Dirs(fs) == {fs[i].dir : i \in DOMAIN fs}

\* Each open directory is the one that the path of the last one names at its depth.
Stack(fs) ==
    /\ fs \in Seq(FrameType)
    /\ fs # <<>> => Len(Last(fs).dir) = Len(fs) - 1
    /\ \A i \in DOMAIN fs : /\ fs[i].dir = Upto(Last(fs).dir, i - 1)
                            /\ fs[i].len = Len(Text(fs[i].dir))

\* The buffer begins with the path of the last open directory.
Buffered(fs, s) ==
    /\ s \in Seq(Bytes)
    /\ fs # <<>> => LET t == Text(Last(fs).dir)
                    IN  Len(t) <= Len(s) /\ Agree(t, s, Len(t))

TreeInv == \A p \in DOMAIN tree : p \in Path /\ p # <<>> /\ IsDir(Front(p)) /\ tree[p] \in Kinds

CountInv ==
    /\ n \in 0..Limit
    /\ result \in {Null, "new", "again", "ok", "error", "abort", "given up"}
    /\ faults \in Nat /\ errors \in Nat /\ errors <= faults

FramesInv ==
    /\ Stack(frames)
    /\ Buffered(frames, path)
    /\ handles = Dirs(frames)
    /\ result \notin {Null, "again"} => frames = <<>>

\* The cursor is in order, in terms that every step keeps.
CursorInv == TreeInv /\ CountInv /\ FramesInv

KeepInv == (\A p \in visited : ~MustKeep(p)) /\ (\A d \in Dirs(frames) : ~MustKeep(d))

\* The walk comes to p, or to a directory that p is in.
Ahead(fs, p) ==
    \E i \in DOMAIN fs : i <= Len(p) /\ Upto(p, i - 1) = fs[i].dir /\ p[i] \in fs[i].todo

\* A file that must be visited still lies ahead, unless an error was counted.
OwedInv ==
    /\ \A p \in stable : p \in DOMAIN tree /\ tree[p] = "file"
    /\ result = "ok" => errors = 0
    /\ result \in {Null, "again", "ok"} /\ errors = 0 =>
          \A p \in stable : MustKeep(p) \/ Last(p) \notin CacheNames \/ Ahead(frames, p)
-----------------------------------------------------------------------------
(* The stack of directories *)

\* What a stack is made of.
LEMMA StackFacts ==
  ASSUME NEW fs, Stack(fs)
  PROVE  /\ Len(fs) \in Nat /\ DOMAIN fs = 1..Len(fs) /\ (fs # <<>> <=> Len(fs) # 0)
         /\ \A i \in 1..Len(fs) :
               /\ fs[i].dir \in Path /\ fs[i].todo \subseteq Names /\ fs[i].len \in Nat
               /\ Len(fs[i].dir) = i - 1
               /\ fs[i].dir = Upto(Last(fs).dir, i - 1) /\ fs[i].len = Len(Text(fs[i].dir))
         /\ fs # <<>> => Last(fs) = fs[Len(fs)] /\ Len(fs) \in 1..Len(fs)
<1>1. fs \in Seq(FrameType) /\ Len(fs) \in Nat /\ DOMAIN fs = 1..Len(fs)
  BY DEF Stack
<1>2. fs # <<>> <=> Len(fs) # 0
  BY <1>1, EmptySeq
<1>3. fs # <<>> => Last(fs) = fs[Len(fs)] /\ Len(fs) \in 1..Len(fs)
  BY <1>1, <1>2 DEF Last
<1>4. ASSUME NEW i \in 1..Len(fs)
      PROVE  /\ fs[i].dir \in Path /\ fs[i].todo \subseteq Names /\ fs[i].len \in Nat
             /\ Len(fs[i].dir) = i - 1
             /\ fs[i].dir = Upto(Last(fs).dir, i - 1) /\ fs[i].len = Len(Text(fs[i].dir))
  <2>1. fs[i] \in FrameType
    BY <1>1
  <2>2. fs[i].dir \in Path /\ fs[i].todo \subseteq Names /\ fs[i].len \in Nat
    BY <2>1 DEF FrameType
  <2>3. fs[i].dir = Upto(Last(fs).dir, i - 1) /\ fs[i].len = Len(Text(fs[i].dir))
    BY <1>1, Zenon DEF Stack
  <2>4. fs # <<>>
    BY <1>1, <1>2
  <2>5. Last(fs).dir \in Path /\ Len(Last(fs).dir) = Len(fs) - 1
    <3>1. fs[Len(fs)] \in FrameType
      BY <1>1, <1>3, <2>4
    <3>2. QED BY <1>3, <2>4, <3>1 DEF Stack, FrameType
  <2>6. PICK d, k : d = Last(fs).dir /\ k = i - 1
    OBVIOUS
  <2>7. d \in Path /\ k \in 0..Len(d)
    <3>1. PICK m : m = Len(fs)
      OBVIOUS
    <3>2. m \in Nat /\ i \in 1..m /\ d \in Path /\ Len(d) = m - 1
      BY <1>1, <2>5, <2>6, <3>1, Zenon
    <3>3. k \in 0..(m - 1)
      BY <2>6, <3>2
    <3>4. QED BY <3>2, <3>3
  <2>8. Len(Upto(d, k)) = k
    BY <2>7, UptoFacts
  <2>9. QED BY <2>2, <2>3, <2>6, <2>8
<1>5. QED BY <1>1, <1>2, <1>3, <1>4

\* Names taken or added do not change which directories are open.
LEMMA StackSame ==
  ASSUME NEW fs, Stack(fs), NEW gs, gs \in Seq(FrameType), Len(gs) = Len(fs),
         \A i \in 1..Len(fs) : gs[i].dir = fs[i].dir /\ gs[i].len = fs[i].len
  PROVE  /\ Stack(gs) /\ Dirs(gs) = Dirs(fs) /\ (gs = <<>> <=> fs = <<>>)
         /\ fs # <<>> => Last(gs).dir = Last(fs).dir
<1>1. /\ Len(fs) \in Nat /\ DOMAIN fs = 1..Len(fs) /\ (fs # <<>> <=> Len(fs) # 0)
      /\ fs # <<>> => Last(fs) = fs[Len(fs)] /\ Len(fs) \in 1..Len(fs)
  BY StackFacts
<1>2. DOMAIN gs = 1..Len(fs) /\ (gs # <<>> <=> Len(fs) # 0)
  BY EmptySeq
<1>3. gs = <<>> <=> fs = <<>>
  BY <1>1, <1>2
<1>4. fs # <<>> => Last(gs).dir = Last(fs).dir
  BY <1>1 DEF Last
<1>5. Dirs(gs) = Dirs(fs)
  BY <1>1, <1>2 DEF Dirs
<1>6. gs # <<>> => Len(Last(gs).dir) = Len(gs) - 1
  BY <1>3, <1>4 DEF Stack
<1>7. ASSUME NEW i \in DOMAIN gs
      PROVE  gs[i].dir = Upto(Last(gs).dir, i - 1) /\ gs[i].len = Len(Text(gs[i].dir))
  <2>1. i \in DOMAIN fs /\ i \in 1..Len(fs) /\ fs # <<>>
    BY <1>1, <1>2
  <2>2. fs[i].dir = Upto(Last(fs).dir, i - 1) /\ fs[i].len = Len(Text(fs[i].dir))
    BY <2>1 DEF Stack
  <2>3. gs[i].dir = fs[i].dir /\ gs[i].len = fs[i].len
    BY <2>1
  <2>4. QED BY <1>4, <2>1, <2>2, <2>3
<1>8. QED BY <1>3, <1>4, <1>5, <1>6, <1>7 DEF Stack

\* The first names of the first names of a path.
LEMMA UptoUpto ==
  ASSUME NEW p \in Path, NEW j \in 0..Len(p), NEW k \in 0..j
  PROVE  Upto(Upto(p, j), k) = Upto(p, k)
<1>1. Len(p) \in Nat /\ j \in Nat /\ k \in Nat /\ k \in 0..Len(p)
  BY DEF Path
<1>2. PICK q, r, s : q = Upto(p, j) /\ r = Upto(q, k) /\ s = Upto(p, k)
  OBVIOUS
<1>3. q \in Path /\ Len(q) = j /\ \A i \in 1..j : q[i] = p[i]
  BY <1>2, UptoFacts
<1>4. r \in Path /\ Len(r) = k /\ \A i \in 1..k : r[i] = q[i]
  BY <1>2, <1>3, UptoFacts
<1>5. s \in Path /\ Len(s) = k /\ \A i \in 1..k : s[i] = p[i]
  BY <1>1, <1>2, UptoFacts
<1>6. \A i \in 1..Len(r) : r[i] = s[i]
  BY <1>1, <1>3, <1>4, <1>5
<1>7. r = s
  BY <1>4, <1>5, <1>6, SeqEqual DEF Path
<1>8. QED BY <1>2, <1>7

\* Closing the last directory.
LEMMA StackFront ==
  ASSUME NEW fs, Stack(fs), fs # <<>>
  PROVE  /\ Stack(Front(fs)) /\ Dirs(Front(fs)) = Dirs(fs) \ {Last(fs).dir}
         /\ Len(Front(fs)) = Len(fs) - 1
         /\ \A i \in 1..(Len(fs) - 1) : Front(fs)[i] = fs[i]
         /\ Front(fs) # <<>> =>
               Last(Front(fs)).dir = Upto(Last(fs).dir, Len(Last(fs).dir) - 1)
<1>1. PICK m, gs : m = Len(fs) /\ gs = Front(fs)
  OBVIOUS
<1>2. /\ m \in Nat /\ DOMAIN fs = 1..m /\ m # 0 /\ Last(fs) = fs[m]
      /\ \A i \in 1..m :
            /\ fs[i].dir \in Path /\ Len(fs[i].dir) = i - 1
            /\ fs[i].dir = Upto(Last(fs).dir, i - 1) /\ fs[i].len = Len(Text(fs[i].dir))
  BY <1>1, StackFacts
<1>3. gs \in Seq(FrameType) /\ Len(gs) = m - 1 /\ \A i \in 1..(m - 1) : gs[i] = fs[i]
  <2>1. fs \in Seq(FrameType)
    BY DEF Stack
  <2>2. PICK k : k = m - 1
    OBVIOUS
  <2>3. k \in Nat /\ k \in Int /\ \A i \in 1..k : fs[i] \in FrameType
    BY <1>1, <1>2, <2>1, <2>2
  <2>4. /\ SubSeq(fs, 1, k) \in Seq(FrameType)
        /\ Len(SubSeq(fs, 1, k)) = IF 1 <= k THEN k - 1 + 1 ELSE 0
        /\ \A i \in 1..(k - 1 + 1) : SubSeq(fs, 1, k)[i] = fs[1 + i - 1]
    BY <2>3, SubSeqProperties
  <2>5. Len(SubSeq(fs, 1, k)) = k /\ \A i \in 1..k : SubSeq(fs, 1, k)[i] = fs[i]
    BY <2>3, <2>4
  <2>6. QED BY <1>1, <2>2, <2>4, <2>5 DEF Front
<1>4. DOMAIN gs = 1..(m - 1) /\ (gs # <<>> <=> m - 1 # 0)
  BY <1>2, <1>3, EmptySeq
<1>5. PICK d : d = Last(fs).dir
  OBVIOUS
<1>6. d \in Path /\ Len(d) = m - 1 /\ fs[m].dir = d
  <2>1. m \in 1..m
    BY <1>2
  <2>2. QED BY <1>2, <1>5, <2>1
<1>7. gs # <<>> => Last(gs) = fs[m - 1] /\ m - 1 \in 1..m /\ Last(gs).dir = Upto(d, m - 2)
  <2>1. SUFFICES ASSUME gs # <<>>
                 PROVE  Last(gs) = fs[m - 1] /\ m - 1 \in 1..m /\ Last(gs).dir = Upto(d, m - 2)
    OBVIOUS
  <2>2. m - 1 \in 1..(m - 1) /\ m - 1 \in 1..m /\ (m - 1) - 1 = m - 2
    BY <1>2, <1>4, <2>1
  <2>3. Last(gs) = fs[m - 1]
    BY <1>3, <2>2 DEF Last
  <2>4. QED BY <1>2, <1>5, <2>2, <2>3
<1>8. gs # <<>> => Len(Last(gs).dir) = Len(gs) - 1
  <2>1. m - 1 \in 1..m => Len(fs[m - 1].dir) = (m - 1) - 1
    BY <1>2
  <2>2. QED BY <1>3, <1>7, <2>1
<1>9. ASSUME NEW i \in DOMAIN gs
      PROVE  gs[i].dir = Upto(Last(gs).dir, i - 1) /\ gs[i].len = Len(Text(gs[i].dir))
  <2>1. i \in 1..m /\ i \in 1..(m - 1) /\ gs[i] = fs[i] /\ gs # <<>>
    BY <1>2, <1>3, <1>4, EmptySeq
  <2>2. fs[i].dir = Upto(d, i - 1) /\ fs[i].len = Len(Text(fs[i].dir))
    BY <1>2, <1>5, <2>1
  <2>3. PICK j, k : j = m - 2 /\ k = i - 1
    OBVIOUS
  <2>4. j \in 0..Len(d) /\ k \in 0..j
    <3>1. i \in 1..(m - 1) /\ m \in Nat
      BY <1>2, <2>1
    <3>2. j \in 0..(m - 1) /\ k \in 0..j
      BY <2>3, <3>1
    <3>3. QED BY <1>6, <3>2
  <2>5. Upto(Upto(d, j), k) = Upto(d, k)
    BY <1>6, <2>4, UptoUpto
  <2>6. QED BY <1>7, <2>1, <2>2, <2>3, <2>5
<1>10. Stack(gs)
  BY <1>3, <1>8, <1>9 DEF Stack
<1>11. Dirs(gs) = Dirs(fs) \ {d}
  <2>1. ASSUME NEW x \in Dirs(gs) PROVE x \in Dirs(fs) /\ x # d
    <3>1. PICK i \in 1..(m - 1) : x = gs[i].dir
      BY <1>4 DEF Dirs
    <3>2. i \in 1..m /\ x = fs[i].dir /\ Len(fs[i].dir) = i - 1
      BY <1>2, <1>3, <3>1
    <3>3. i - 1 # m - 1
      BY <1>2, <3>1
    <3>4. QED BY <1>2, <1>6, <3>2, <3>3 DEF Dirs
  <2>2. ASSUME NEW x \in Dirs(fs), x # d PROVE x \in Dirs(gs)
    <3>1. PICK i \in 1..m : x = fs[i].dir
      BY <1>2 DEF Dirs
    <3>2. i # m
      BY <1>6, <2>2, <3>1
    <3>3. i \in 1..(m - 1)
      BY <1>2, <3>1, <3>2
    <3>4. QED BY <1>3, <1>4, <3>1, <3>3 DEF Dirs
  <2>3. QED BY <2>1, <2>2
<1>12. Len(d) - 1 = m - 2
  BY <1>2, <1>6
<1>13. QED BY <1>1, <1>3, <1>5, <1>7, <1>10, <1>11, <1>12
\* One more name at the end changes nothing before it.
LEMMA UptoAppend ==
  ASSUME NEW p \in Path, NEW name \in Names, NEW k \in 0..Len(p)
  PROVE  Upto(Append(p, name), k) = Upto(p, k)
<1>1. Len(p) \in Nat /\ k \in Nat
  BY DEF Path
<1>2. PICK q, r, s : q = Append(p, name) /\ r = Upto(q, k) /\ s = Upto(p, k)
  OBVIOUS
<1>3. q \in Path /\ Len(q) = Len(p) + 1 /\ \A i \in 1..Len(p) : q[i] = p[i]
  BY <1>2, AppendProperties DEF Path
<1>4. r \in Path /\ Len(r) = k /\ \A i \in 1..k : r[i] = q[i]
  <2>1. k \in 0..Len(q)
    BY <1>1, <1>3
  <2>2. QED BY <1>2, <1>3, <2>1, UptoFacts
<1>5. s \in Path /\ Len(s) = k /\ \A i \in 1..k : s[i] = p[i]
  BY <1>2, UptoFacts
<1>6. \A i \in 1..Len(r) : r[i] = s[i]
  BY <1>1, <1>3, <1>4, <1>5
<1>7. r = s
  BY <1>4, <1>5, <1>6, SeqEqual DEF Path
<1>8. QED BY <1>2, <1>7

\* A stack is a sequence of frames.
LEMMA StackSequence ==
  ASSUME NEW fs, Stack(fs)
  PROVE  fs \in Seq(FrameType)
BY DEF Stack

\* What one frame more does to a sequence of frames.
LEMMA PushDirs ==
  ASSUME NEW fs \in Seq(FrameType), NEW f \in FrameType
  PROVE  /\ Dirs(Append(fs, f)) = Dirs(fs) \cup {f.dir}
         /\ Append(fs, f) # <<>> /\ Last(Append(fs, f)) = f
<1>1. PICK m, gs : m = Len(fs) /\ gs = Append(fs, f)
  OBVIOUS
<1>2. m \in Nat /\ DOMAIN fs = 1..m
  BY <1>1
<1>3. /\ gs \in Seq(FrameType) /\ gs # <<>> /\ Len(gs) = m + 1 /\ gs[m + 1] = f
      /\ \A i \in 1..m : gs[i] = fs[i]
  BY <1>1, AppendProperties
<1>4. DOMAIN gs = 1..(m + 1) /\ Last(gs) = f
  BY <1>3 DEF Last
<1>5. Dirs(gs) = Dirs(fs) \cup {f.dir}
  <2>1. ASSUME NEW x \in Dirs(gs) PROVE x \in Dirs(fs) \/ x = f.dir
    <3>1. PICK i \in 1..(m + 1) : x = gs[i].dir
      BY <1>4 DEF Dirs
    <3>2. CASE i = m + 1
      BY <1>3, <3>1, <3>2
    <3>3. CASE i # m + 1
      <4>1. i \in 1..m
        BY <1>2, <3>3
      <4>2. QED BY <1>2, <1>3, <3>1, <4>1 DEF Dirs
    <3>4. QED BY <3>2, <3>3
  <2>2. ASSUME NEW x \in Dirs(fs) PROVE x \in Dirs(gs)
    <3>1. PICK i \in 1..m : x = fs[i].dir
      BY <1>2 DEF Dirs
    <3>2. i \in 1..(m + 1)
      BY <1>2
    <3>3. QED BY <1>3, <1>4, <3>1, <3>2 DEF Dirs
  <2>3. f.dir \in Dirs(gs)
    <3>1. m + 1 \in 1..(m + 1)
      BY <1>2
    <3>2. QED BY <1>3, <1>4, <3>1 DEF Dirs
  <2>4. QED BY <2>1, <2>2, <2>3
<1>6. QED BY <1>1, <1>3, <1>4, <1>5

\* Opening a directory in the last one.
LEMMA StackPush ==
  ASSUME NEW fs, Stack(fs), fs # <<>>, NEW name \in Names, NEW f \in FrameType,
         f.dir = Append(Last(fs).dir, name), f.len = Len(Text(f.dir))
  PROVE  /\ Stack(Append(fs, f)) /\ Dirs(Append(fs, f)) = Dirs(fs) \cup {f.dir}
         /\ Append(fs, f) # <<>> /\ Last(Append(fs, f)) = f /\ Len(Append(fs, f)) = Len(fs) + 1
         /\ \A i \in 1..Len(fs) : Append(fs, f)[i] = fs[i]
         /\ Append(fs, f)[Len(fs) + 1] = f
<1>1. PICK m, gs, d : m = Len(fs) /\ gs = Append(fs, f) /\ d = Last(fs).dir
  OBVIOUS
<1>2. /\ m \in Nat /\ DOMAIN fs = 1..m /\ m # 0 /\ Last(fs) = fs[m]
      /\ \A i \in 1..m :
            /\ fs[i].dir \in Path /\ Len(fs[i].dir) = i - 1
            /\ fs[i].dir = Upto(d, i - 1) /\ fs[i].len = Len(Text(fs[i].dir))
  BY <1>1, StackFacts
<1>3. d \in Path /\ Len(d) = m - 1
  <2>1. m \in 1..m
    BY <1>2
  <2>2. QED BY <1>1, <1>2, <2>1
<1>4. /\ gs \in Seq(FrameType) /\ gs # <<>> /\ Len(gs) = m + 1 /\ gs[m + 1] = f
      /\ \A i \in 1..m : gs[i] = fs[i]
  BY <1>1, AppendProperties DEF Stack
<1>5. DOMAIN gs = 1..(m + 1) /\ Last(gs) = f
  BY <1>4 DEF Last
<1>6. f.dir \in Path /\ f.dir = Append(d, name) /\ Len(f.dir) = m
  <2>1. Len(Append(d, name)) = Len(d) + 1
    BY <1>3, AppendProperties DEF Path
  <2>2. (m - 1) + 1 = m
    BY <1>2
  <2>3. QED BY <1>1, <1>3, <2>1, <2>2 DEF FrameType
<1>7. Len(Last(gs).dir) = Len(gs) - 1
  BY <1>2, <1>4, <1>5, <1>6
<1>8. ASSUME NEW i \in DOMAIN gs
      PROVE  gs[i].dir = Upto(Last(gs).dir, i - 1) /\ gs[i].len = Len(Text(gs[i].dir))
  <2>1. CASE i = m + 1
    <3>1. i - 1 = m /\ m \in 0..Len(f.dir) /\ m = Len(f.dir)
      <4>1. (m + 1) - 1 = m /\ m \in 0..m
        BY <1>2
      <4>2. QED BY <1>6, <2>1, <4>1
    <3>2. Upto(f.dir, m) = f.dir
      BY <1>6, <3>1, UptoFacts
    <3>3. QED BY <1>4, <1>5, <2>1, <3>1, <3>2
  <2>2. CASE i # m + 1
    <3>1. i \in 1..m /\ gs[i] = fs[i]
      <4>1. i \in 1..(m + 1)
        BY <1>5
      <4>2. i \in 1..m
        BY <1>2, <2>2, <4>1
      <4>3. QED BY <1>4, <4>2
    <3>2. PICK k : k = i - 1
      OBVIOUS
    <3>3. k \in 0..Len(d)
      <4>1. i \in 1..m /\ m \in Nat
        BY <1>2, <3>1
      <4>2. k \in 0..(m - 1)
        BY <3>2, <4>1
      <4>3. QED BY <1>3, <4>2
    <3>4. Upto(Append(d, name), k) = Upto(d, k)
      BY <1>3, <3>3, UptoAppend
    <3>5. QED BY <1>2, <1>5, <1>6, <3>1, <3>2, <3>4
  <2>3. QED BY <2>1, <2>2
<1>9. Stack(gs)
  BY <1>4, <1>7, <1>8 DEF Stack
<1>10. Dirs(gs) = Dirs(fs) \cup {f.dir}
  BY <1>1, StackSequence, PushDirs
<1>11. QED BY <1>1, <1>4, <1>5, <1>9, <1>10

\* The buffer up to the length of a frame is the path of its directory.
LEMMA BufferNames ==
  ASSUME NEW fs, Stack(fs), NEW s, Buffered(fs, s), NEW i \in 1..Len(fs)
  PROVE  SubSeq(s, 1, fs[i].len) = Text(fs[i].dir) /\ fs[i].len <= Len(s)
<1>1. PICK m, d : m = Len(fs) /\ d = Last(fs).dir
  OBVIOUS
<1>2. /\ m \in Nat /\ i \in 1..m /\ m # 0 /\ fs # <<>> /\ d = fs[m].dir
      /\ \A j \in 1..m :
            /\ fs[j].dir \in Path /\ Len(fs[j].dir) = j - 1
            /\ fs[j].dir = Upto(d, j - 1) /\ fs[j].len = Len(Text(fs[j].dir))
  <2>1. m # 0
    BY <1>1, StackFacts
  <2>2. QED BY <1>1, <2>1, StackFacts
<1>3. d \in Path /\ Len(d) = m - 1
  <2>1. m \in 1..m
    BY <1>2
  <2>2. QED BY <1>2, <2>1
<1>4. PICK k, a, t : k = i - 1 /\ a = Text(fs[i].dir) /\ t = Text(d)
  OBVIOUS
<1>5. k \in 0..Len(d) /\ a = Text(Upto(d, k)) /\ fs[i].len = Len(a)
  <2>1. k \in 0..(m - 1)
    BY <1>2, <1>4
  <2>2. QED BY <1>2, <1>3, <1>4, <2>1
<1>6. /\ a \in Seq(Bytes) /\ t \in Seq(Bytes) /\ Len(a) \in Nat /\ Len(t) \in Nat
      /\ Len(a) <= Len(t) /\ Agree(a, t, Len(a))
  <2>1. /\ a \in Seq(Bytes) /\ t \in Seq(Bytes) /\ Len(a) \in Nat
        /\ Len(a) <= Len(t) /\ Agree(a, t, Len(a))
    BY <1>3, <1>4, <1>5, TextInside
  <2>2. QED BY <2>1
<1>7. s \in Seq(Bytes) /\ Len(t) <= Len(s) /\ Agree(t, s, Len(t)) /\ Len(s) \in Nat
  BY <1>1, <1>2, <1>4 DEF Buffered
<1>8. Len(a) <= Len(s)
  BY <1>6, <1>7
<1>9. Agree(a, s, Len(a))
  <2>1. ASSUME NEW j \in 1..Len(a) PROVE a[j] = s[j]
    <3>1. j \in 1..Len(t)
      BY <1>6
    <3>2. QED BY <1>6, <1>7, <3>1 DEF Agree
  <2>2. QED BY <2>1 DEF Agree
<1>10. IsPrefix(a, s)
  BY <1>6, <1>7, <1>8, <1>9, PrefixAgrees
<1>11. SubSeq(s, 1, Len(a)) = a
  <2>1. SubSeq(a, 1, Len(a)) = a
    BY <1>6, SubSeqFull
  <2>2. QED BY <1>10, <2>1 DEF IsPrefix
<1>12. QED BY <1>4, <1>5, <1>8, <1>11

\* A path that the last open directory is the beginning of fills the buffer rightly.
LEMMA BufferedBelow ==
  ASSUME NEW p \in Path, NEW k \in 0..Len(p), NEW fs,
         fs # <<>> => Last(fs).dir = Upto(p, k)
  PROVE  Buffered(fs, Text(p))
<1>1. Text(p) \in Seq(Bytes)
  BY TextType
<1>2. /\ Len(Text(Upto(p, k))) <= Len(Text(p))
      /\ Agree(Text(Upto(p, k)), Text(p), Len(Text(Upto(p, k))))
  BY TextInside
<1>3. QED BY <1>1, <1>2 DEF Buffered

\* What putting a name after the path of the last directory yields.
LEMMA NamedText ==
  ASSUME NEW fs, Stack(fs), fs # <<>>, NEW s, Buffered(fs, s), NEW name \in Names
  PROVE  /\ Last(fs).dir \in Path /\ Append(Last(fs).dir, name) \in Path
         /\ SubSeq(s, 1, Last(fs).len) = Text(Last(fs).dir)
         /\ SubSeq(s, 1, Last(fs).len) \o <<Sep>> \o name = Text(Append(Last(fs).dir, name))
<1>1. PICK d, a : d = Last(fs).dir /\ a = Text(d)
  OBVIOUS
<1>2. d \in Path /\ SubSeq(s, 1, Last(fs).len) = a
  <2>1. Len(fs) \in 1..Len(fs) /\ Last(fs) = fs[Len(fs)] /\ fs[Len(fs)].dir \in Path
    BY StackFacts
  <2>2. QED BY <1>1, <2>1, BufferNames
<1>3. a \in Seq(Bytes) /\ Append(d, name) \in Path /\ Text(Append(d, name)) = a \o Piece(name)
  BY <1>1, <1>2, TextAppend
<1>4. (a \o <<Sep>>) \o name = a \o (<<Sep>> \o name)
  <2>1. Sep \in Bytes
    BY WalkAssumption
  <2>2. PICK x : x = <<Sep>>
    OBVIOUS
  <2>3. x \in Seq(Bytes) /\ name \in Seq(Bytes)
    BY <2>1, <2>2, NameFacts
  <2>4. (a \o x) \o name = a \o (x \o name)
    BY <1>3, <2>3, ConcatAssociative
  <2>5. QED BY <2>2, <2>4
<1>5. QED BY <1>1, <1>2, <1>3, <1>4 DEF Piece
\* A path without its last name.
LEMMA FrontLast ==
  ASSUME NEW p \in Path, p # <<>>
  PROVE  /\ Front(p) \in Path /\ Last(p) \in Names /\ p = Append(Front(p), Last(p))
         /\ Len(p) \in Nat \ {0} /\ Front(p) = Upto(p, Len(p) - 1)
<1>1. Len(p) \in Nat \ {0}
  BY EmptySeq DEF Path
<1>2. PICK k : k = Len(p) - 1
  OBVIOUS
<1>3. k \in Nat /\ k < Len(p) /\ k + 1 = Len(p) /\ Len(p) \in 0..Len(p)
  BY <1>1, <1>2
<1>4. /\ p[k + 1] \in Names /\ Upto(p, k) \in Path /\ Upto(p, k + 1) = Append(Upto(p, k), p[k + 1])
  BY <1>3, UptoNext
<1>5. Upto(p, Len(p)) = p
  BY <1>3, UptoFacts
<1>6. Front(p) = Upto(p, k) /\ Last(p) = p[k + 1]
  BY <1>2, <1>3 DEF Front, Last, Upto
<1>7. QED BY <1>1, <1>2, <1>3, <1>4, <1>5, <1>6

\* The first open directory.
LEMMA StackOne ==
  ASSUME NEW f \in FrameType, f.dir = <<>>, f.len = Len(Root)
  PROVE  /\ Stack(<<f>>) /\ Dirs(<<f>>) = {<<>>} /\ <<f>> # <<>> /\ Last(<<f>>) = f
         /\ DOMAIN <<f>> = {1} /\ <<f>>[1] = f
<1>1. PICK fs : fs = <<f>>
  OBVIOUS
<1>2. /\ fs \in Seq(FrameType) /\ fs # <<>> /\ Len(fs) = 1 /\ fs[1] = f /\ DOMAIN fs = 1..1
  BY <1>1
<1>3. Last(fs) = f /\ DOMAIN fs = {1}
  BY <1>2 DEF Last
<1>4. Text(f.dir) = Root /\ f.dir \in Path /\ Len(f.dir) = 0
  BY TextEmpty
<1>5. Upto(f.dir, 0) = <<>>
  <2>1. 0 \in 0..Len(f.dir)
    BY <1>4
  <2>2. QED BY <1>4, <2>1, UptoFacts
<1>6. Stack(fs)
  BY <1>2, <1>3, <1>4, <1>5 DEF Stack
<1>7. Dirs(fs) = {<<>>}
  BY <1>2, <1>3 DEF Dirs
<1>8. QED BY <1>1, <1>2, <1>3, <1>6, <1>7

\* No directory is open.
LEMMA StackNone == Stack(<<>>) /\ Dirs(<<>>) = {} /\ \A s \in Seq(Bytes) : Buffered(<<>>, s)
<1>1. <<>> \in Seq(FrameType) /\ DOMAIN <<>> = {}
  OBVIOUS
<1>2. QED BY <1>1 DEF Stack, Dirs, Buffered

\* The buffer stays right when the last directory stays the last.
LEMMA BufferedSame ==
  ASSUME NEW fs, NEW gs, NEW s, Buffered(fs, s), gs = <<>> <=> fs = <<>>,
         fs # <<>> => Last(gs).dir = Last(fs).dir
  PROVE  Buffered(gs, s)
BY DEF Buffered

\* What is left when a name is taken off the last directory.
LEMMA TakenFacts ==
  ASSUME Stack(frames), frames # <<>>, NEW name \in Names
  PROVE  LET gs == Taken(name)
         IN  /\ Stack(gs) /\ gs # <<>> /\ Last(gs).dir = Top.dir /\ Dirs(gs) = Dirs(frames)
             /\ Len(gs) = Len(frames)
             /\ \A i \in 1..Len(frames) :
                   /\ gs[i].dir = frames[i].dir
                   /\ i # Len(frames) => gs[i].todo = frames[i].todo
                   /\ i = Len(frames) => gs[i].todo = frames[i].todo \ {name}
<1>1. PICK fs, m, gs : fs = frames /\ m = Len(fs) /\ gs = Taken(name)
  OBVIOUS
<1>2. /\ Stack(fs) /\ fs # <<>> /\ fs \in Seq(FrameType)
      /\ m \in 1..m /\ m \in Nat /\ DOMAIN fs = 1..m
  BY <1>1, StackFacts DEF Stack
<1>3. gs = [i \in 1..m |-> IF i = m THEN [fs[m] EXCEPT !.todo = @ \ {name}] ELSE fs[i]]
  BY <1>1, <1>2 DEF Taken
<1>4. \A i \in 1..m : fs[i] \in FrameType
  BY <1>1, <1>2
<1>5. PICK f : f = [fs[m] EXCEPT !.todo = @ \ {name}]
  OBVIOUS
<1>6. f \in FrameType /\ f.dir = fs[m].dir /\ f.len = fs[m].len /\ f.todo = fs[m].todo \ {name}
  <2>1. fs[m] \in FrameType
    BY <1>2, <1>4
  <2>2. QED BY <1>5, <2>1 DEF FrameType
<1>7. \A i \in 1..m : gs[i] = IF i = m THEN f ELSE fs[i]
  BY <1>3, <1>5
<1>8. gs \in Seq(FrameType) /\ Len(gs) = m
  <2>1. gs \in [1..m -> FrameType]
    BY <1>3, <1>4, <1>5, <1>6
  <2>2. QED BY <1>2, <2>1
<1>9. \A i \in 1..m : gs[i].dir = fs[i].dir /\ gs[i].len = fs[i].len
  BY <1>6, <1>7
<1>10. /\ Stack(gs) /\ Dirs(gs) = Dirs(fs) /\ gs # <<>> /\ Last(gs).dir = Last(fs).dir
  BY <1>1, <1>2, <1>8, <1>9, StackSame
<1>11. \A i \in 1..m : /\ i # m => gs[i].todo = fs[i].todo
                       /\ i = m => gs[i].todo = fs[i].todo \ {name}
  BY <1>6, <1>7
<1>12. QED BY <1>1, <1>8, <1>9, <1>10, <1>11 DEF Top

\* A directory that is opened makes a frame.
LEMMA FrameFacts ==
  ASSUME NEW p \in Path, NEW s, s = Text(p)
  PROVE  LET f == Frame(p, s)
         IN  f \in FrameType /\ f.dir = p /\ f.len = Len(s) /\ f.todo = Children(p)
<1>1. Len(s) \in Nat
  BY TextType
<1>2. Children(p) \subseteq Names
  BY DEF Children
<1>3. QED BY <1>1, <1>2 DEF Frame, FrameType

\* Removing a file, or a directory with nothing in it, leaves a tree.
LEMMA TreeLess ==
  ASSUME TreeInv, NEW p \in DOMAIN tree, tree[p] = "file" \/ Children(p) = {},
         tree' = [q \in DOMAIN tree \ {p} |-> tree[q]]
  PROVE  TreeInv'
<1>1. DOMAIN tree' = DOMAIN tree \ {p} /\ \A q \in DOMAIN tree \ {p} : tree'[q] = tree[q]
  OBVIOUS
<1>2. ASSUME NEW q \in DOMAIN tree \ {p}
      PROVE  /\ q \in Path /\ q # <<>> /\ tree[q] \in Kinds
             /\ Front(q) = <<>> \/ (Front(q) \in DOMAIN tree \ {p} /\ tree[Front(q)] = "dir")
  <2>1. q \in Path /\ q # <<>> /\ tree[q] \in Kinds /\ IsDir(Front(q))
    BY DEF TreeInv
  <2>2. q = Append(Front(q), Last(q)) /\ Last(q) \in Names
    BY <2>1, FrontLast
  <2>3. Front(q) = p => Last(q) \in Children(p)
    BY <2>2 DEF Children
  <2>4. ASSUME Front(q) # <<>> PROVE Front(q) \in DOMAIN tree \ {p} /\ tree[Front(q)] = "dir"
    <3>1. Front(q) \in DOMAIN tree /\ tree[Front(q)] = "dir"
      BY <2>1, <2>4 DEF IsDir
    <3>2. Front(q) # p
      BY <2>3, <3>1
    <3>3. QED BY <3>1, <3>2
  <2>5. QED BY <2>1, <2>4
<1>3. QED BY <1>1, <1>2 DEF TreeInv, IsDir
\* Where others can make an entry.
LEMMA PlaceFacts ==
  ASSUME TreeInv, NEW p \in Places
  PROVE  p \in Path /\ p # <<>>
<1>1. PICK q \in {<<>>} \cup DOMAIN tree, name \in Names : p = Append(q, name)
  BY DEF Places
<1>2. q \in Path
  BY TextEmpty DEF TreeInv
<1>3. QED BY <1>1, <1>2, AppendProperties DEF Path

\* An entry more leaves a tree, and what an open directory may return more of.
LEMMA CreateFacts ==
  ASSUME TreeInv, Stack(frames), NEW p \in Places, NEW kind \in Kinds, Create(p, kind)
  PROVE  /\ TreeInv'
         /\ DOMAIN tree \subseteq DOMAIN tree' /\ \A q \in DOMAIN tree : tree'[q] = tree[q]
         /\ Stack(frames') /\ Dirs(frames') = Dirs(frames) /\ (frames' = <<>> <=> frames = <<>>)
         /\ frames # <<>> => Last(frames').dir = Last(frames).dir
         /\ Len(frames') = Len(frames)
         /\ \A i \in 1..Len(frames) : /\ frames'[i].dir = frames[i].dir
                                      /\ frames[i].todo \subseteq frames'[i].todo
<1>1. p \in Path /\ p # <<>> /\ Last(p) \in Names
  BY PlaceFacts, FrontLast
<1>2. /\ p \notin DOMAIN tree /\ IsDir(Front(p))
      /\ tree' = [q \in DOMAIN tree \cup {p} |-> IF q = p THEN kind ELSE tree[q]]
      /\ \/ frames' = [i \in DOMAIN frames |->
                        IF frames[i].dir = Front(p)
                        THEN [frames[i] EXCEPT !.todo = @ \cup {Last(p)}] ELSE frames[i]]
         \/ frames' = frames
  BY Zenon DEF Create
<1>3. /\ DOMAIN tree' = DOMAIN tree \cup {p} /\ tree'[p] = kind
      /\ \A q \in DOMAIN tree : tree'[q] = tree[q]
  BY <1>2
<1>4. TreeInv'
  <2>1. ASSUME NEW q \in DOMAIN tree
        PROVE  /\ q \in Path /\ q # <<>> /\ tree[q] \in Kinds
               /\ Front(q) = <<>> \/ (Front(q) \in DOMAIN tree /\ tree[Front(q)] = "dir")
    BY DEF TreeInv, IsDir
  <2>2. Front(p) = <<>> \/ (Front(p) \in DOMAIN tree /\ tree[Front(p)] = "dir")
    BY <1>2 DEF IsDir
  <2>3. QED BY <1>1, <1>3, <2>1, <2>2 DEF TreeInv, IsDir
<1>5. PICK fs, gs, m : fs = frames /\ gs = frames' /\ m = Len(fs)
  OBVIOUS
<1>6. Stack(fs) /\ fs \in Seq(FrameType) /\ DOMAIN fs = 1..m /\ m \in Nat
  BY <1>5, StackFacts DEF Stack
<1>7. /\ gs \in Seq(FrameType) /\ Len(gs) = m
      /\ \A i \in 1..m : /\ gs[i].dir = fs[i].dir /\ gs[i].len = fs[i].len
                         /\ fs[i].todo \subseteq gs[i].todo
  <2>1. CASE gs = fs
    BY <1>5, <1>6, <2>1
  <2>2. CASE gs # fs
    <3> DEFINE more(f) == [f EXCEPT !.todo = @ \cup {Last(p)}]
               at(i) == IF fs[i].dir = Front(p) THEN more(fs[i]) ELSE fs[i]
    <3>1. gs = [i \in 1..m |-> at(i)]
      BY <1>2, <1>5, <1>6, <2>2, Zenon
    <3>2. ASSUME NEW f \in FrameType
          PROVE  more(f) \in FrameType /\ more(f).dir = f.dir /\ more(f).len = f.len
                 /\ f.todo \subseteq more(f).todo
      BY <1>1 DEF FrameType
    <3> HIDE DEF more
    <3>3. ASSUME NEW i \in 1..m
          PROVE  at(i) \in FrameType /\ at(i).dir = fs[i].dir /\ at(i).len = fs[i].len
                 /\ fs[i].todo \subseteq at(i).todo
      <4>1. fs[i] \in FrameType
        BY <1>5, <1>6
      <4>2. CASE fs[i].dir = Front(p)
        BY <3>2, <4>1, <4>2
      <4>3. CASE fs[i].dir # Front(p)
        BY <4>1, <4>3
      <4>4. QED BY <4>2, <4>3
    <3> HIDE DEF at
    <3>4. gs \in [1..m -> FrameType] /\ \A i \in 1..m : gs[i] = at(i)
      BY <3>1, <3>3
    <3>5. gs \in Seq(FrameType) /\ Len(gs) = m
      BY <1>6, <3>4
    <3>6. QED BY <3>3, <3>4, <3>5
  <2>3. QED BY <2>1, <2>2
<1>8. /\ Stack(gs) /\ Dirs(gs) = Dirs(fs) /\ (gs = <<>> <=> fs = <<>>)
      /\ fs # <<>> => Last(gs).dir = Last(fs).dir
  BY <1>5, <1>6, <1>7, StackSame
<1>9. QED BY <1>3, <1>4, <1>5, <1>7, <1>8

-----------------------------------------------------------------------------
(* The cursor is in order *)

\* In the beginning nothing is open.
LEMMA CursorInit == Init => CursorInv
<1>1. SUFFICES ASSUME Init PROVE CursorInv
  OBVIOUS
<1>2. /\ tree \in Trees /\ frames = <<>> /\ path = <<>> /\ n = 0 /\ errors = 0 /\ handles = {}
      /\ result = "new" /\ faults = 0
  BY <1>1 DEF Init
<1>3. TreeInv
  BY <1>2, WalkAssumption DEF TreeInv, IsDir, Path
<1>4. CountInv
  <2>1. Limit \in Nat
    BY WalkAssumption
  <2>2. QED BY <1>2, <2>1 DEF CountInv
<1>5. FramesInv
  <2>1. <<>> \in Seq(Bytes)
    OBVIOUS
  <2>2. QED BY <1>2, <2>1, StackNone DEF FramesInv
<1>6. QED BY <1>3, <1>4, <1>5 DEF CursorInv

\* A step that leaves the tree alone.
LEMMA TreeSame ==
  ASSUME TreeInv, UNCHANGED tree
  PROVE  TreeInv'
BY DEF TreeInv, IsDir

\* A fault is counted by the bound on faults.
LEMMA FaultCounts == ASSUME faults \in Nat, Fault PROVE faults' \in Nat /\ faults' = faults + 1
BY DEF Fault

\* The walk begins.
LEMMA StartKeeps == CursorInv /\ Start => CursorInv'
<1>1. SUFFICES ASSUME CursorInv, Start PROVE CursorInv'
  OBVIOUS
<1>2. TreeInv /\ CountInv /\ FramesInv
  BY <1>1 DEF CursorInv
<1>3. /\ result = "new" /\ path' = Root /\ UNCHANGED <<tree, n>>
      /\ \/ /\ frames' = <<Frame(<<>>, Root)>> /\ handles' = {<<>>}
            /\ result' = Null
            /\ UNCHANGED errors /\ NoFault
         \/ /\ result' = "error" /\ errors' \in {0, 1}
            /\ UNCHANGED <<frames, handles>> /\ Fault
         \/ /\ result' = "abort" /\ errors' = 1
            /\ UNCHANGED <<frames, handles>> /\ Fault
  BY <1>1, Zenon DEF Start
<1>4. Root \in Seq(Bytes) /\ Text(<<>>) = Root /\ <<>> \in Path /\ Null # "new"
  BY TextEmpty, WalkAssumption
<1>5. frames = <<>> /\ handles = {}
  BY <1>2, <1>3, <1>4, StackNone DEF FramesInv
<1>6. TreeInv'
  BY <1>2, <1>3, TreeSame
<1>7. CountInv'
  <2>1. /\ n \in 0..Limit /\ faults \in Nat /\ errors \in Nat /\ errors <= faults
    BY <1>2 DEF CountInv
  <2>2. /\ faults' \in Nat /\ errors' \in Nat /\ errors' <= faults'
        /\ result' \in {Null, "new", "again", "ok", "error", "abort", "given up"}
    <3>1. CASE result' = Null /\ UNCHANGED errors /\ NoFault
      BY <2>1, <3>1 DEF NoFault
    <3>2. CASE result' = "error" /\ errors' \in {0, 1} /\ Fault
      <4>1. faults' = faults + 1 /\ faults' \in Nat /\ 0 <= faults' /\ 1 <= faults'
        BY <2>1, <3>2 DEF Fault
      <4>2. errors' = 0 \/ errors' = 1
        BY <3>2
      <4>3. QED BY <3>2, <4>1, <4>2
    <3>3. CASE result' = "abort" /\ errors' = 1 /\ Fault
      <4>1. faults' = faults + 1 /\ faults' \in Nat /\ 1 <= faults'
        BY <2>1, <3>3 DEF Fault
      <4>2. QED BY <3>3, <4>1
    <3>4. QED BY <1>3, <3>1, <3>2, <3>3, Zenon
  <2>3. QED BY <1>3, <2>1, <2>2 DEF CountInv
<1>8. FramesInv'
  <2>1. CASE frames' = <<Frame(<<>>, Root)>> /\ handles' = {<<>>} /\ result' = Null
    <3>1. PICK f : f = Frame(<<>>, Root)
      OBVIOUS
    <3>2. f \in FrameType /\ f.dir = <<>> /\ f.len = Len(Root)
      BY <1>4, <3>1, FrameFacts
    <3>3. Stack(<<f>>) /\ Dirs(<<f>>) = {<<>>} /\ Last(<<f>>) = f
      BY <3>2, StackOne
    <3>4. Buffered(<<f>>, Root)
      <4>1. 0 \in 0..Len(<<>>) /\ Upto(<<>>, 0) = <<>>
        <5>1. Len(<<>>) = 0 /\ 0 \in 0..Len(<<>>)
          OBVIOUS
        <5>2. QED BY <1>4, <5>1, UptoFacts
      <4>2. Last(<<f>>).dir = Upto(<<>>, 0)
        BY <3>2, <3>3, <4>1
      <4>3. Buffered(<<f>>, Text(<<>>))
        BY <1>4, <4>1, <4>2, BufferedBelow
      <4>4. QED BY <1>4, <4>3
    <3>5. QED BY <1>3, <2>1, <3>1, <3>3, <3>4 DEF FramesInv
  <2>2. CASE UNCHANGED <<frames, handles>>
    BY <1>3, <1>4, <1>5, <2>2, StackNone DEF FramesInv
  <2>3. QED BY <1>3, <2>1, <2>2
<1>9. QED BY <1>6, <1>7, <1>8 DEF CursorInv
\* What every iteration finds and does.
LEMMA IterateFacts ==
  ASSUME CursorInv, Iterate
  PROVE  /\ Stack(frames) /\ frames # <<>> /\ Buffered(frames, path) /\ path \in Seq(Bytes)
         /\ handles = Dirs(frames) /\ Top.dir \in Path /\ Top.todo \subseteq Names
         /\ Top = frames[Len(frames)] /\ Len(frames) \in 1..Len(frames)
         /\ result = Null /\ n' \in 0..Limit /\ faults \in Nat /\ errors \in Nat
         /\ errors <= faults
<1>1. result = Null /\ frames # <<>> /\ ~(n >= Limit) /\ n' = n + 1
  BY DEF Iterate, Walking, SliceOver
<1>2. n \in 0..Limit /\ faults \in Nat /\ errors \in Nat /\ errors <= faults /\ Limit \in Nat
  BY WalkAssumption DEF CursorInv, CountInv
<1>3. n' \in 0..Limit
  BY <1>1, <1>2
<1>4. Stack(frames) /\ Buffered(frames, path) /\ handles = Dirs(frames)
  BY DEF CursorInv, FramesInv
<1>5. PICK fs, m : fs = frames /\ m = Len(fs)
  OBVIOUS
<1>6. m \in 1..m /\ Last(fs) = fs[m] /\ fs[m].dir \in Path /\ fs[m].todo \subseteq Names
  BY <1>1, <1>4, <1>5, StackFacts
<1>7. QED BY <1>1, <1>2, <1>3, <1>4, <1>5, <1>6 DEF Top, Buffered

\* A directory is read to its end, or not.
LEMMA EndOfDirKeeps == CursorInv /\ EndOfDir => CursorInv'
<1>1. SUFFICES ASSUME CursorInv, EndOfDir PROVE CursorInv'
  OBVIOUS
<1>2. Iterate
  BY <1>1 DEF EndOfDir
<1>3. /\ frames' = Front(frames) /\ handles' = handles \ {Top.dir} /\ path' = SubSeq(path, 1, Top.len)
      /\ UNCHANGED <<tree, result>>
      /\ \/ errors' = errors /\ NoFault
         \/ errors' = errors + 1 /\ Fault
  BY <1>1 DEF EndOfDir, Close, ReadErrors
<1>4. /\ Stack(frames) /\ frames # <<>> /\ Buffered(frames, path)
      /\ handles = Dirs(frames) /\ Top.dir \in Path
      /\ Top = frames[Len(frames)] /\ Len(frames) \in 1..Len(frames)
      /\ result = Null /\ n' \in 0..Limit /\ faults \in Nat /\ errors \in Nat
      /\ errors <= faults
  BY <1>1, <1>2, IterateFacts
<1>5. TreeInv'
  BY <1>1, <1>3, TreeSame DEF CursorInv
<1>6. CountInv'
  <2>1. faults' \in Nat /\ errors' \in Nat /\ errors' <= faults'
    <3>1. CASE errors' = errors /\ NoFault
      BY <1>4, <3>1 DEF NoFault
    <3>2. CASE errors' = errors + 1 /\ Fault
      BY <1>4, <3>2 DEF Fault
    <3>3. QED BY <1>3, <3>1, <3>2
  <2>2. QED BY <1>3, <1>4, <2>1 DEF CountInv
<1>7. FramesInv'
  <2>1. PICK fs, d, s : fs = frames /\ d = Top.dir /\ s = path
    OBVIOUS
  <2>2. d \in Path /\ d = Last(fs).dir
    BY <1>4, <2>1 DEF Top
  <2>3. SubSeq(s, 1, fs[Len(fs)].len) = Text(d)
    BY <1>4, <2>1, BufferNames
  <2>4. path' = Text(d)
    BY <1>3, <1>4, <2>1, <2>3
  <2>5. /\ Stack(Front(fs)) /\ Dirs(Front(fs)) = Dirs(fs) \ {d}
        /\ Front(fs) # <<>> => Last(Front(fs)).dir = Upto(d, Len(d) - 1)
        /\ Len(Front(fs)) = Len(fs) - 1 /\ Len(d) = Len(fs) - 1
    BY <1>4, <2>1, <2>2, StackFront DEF Stack
  <2>6. Buffered(Front(fs), Text(d))
    <3>1. CASE Front(fs) = <<>>
      BY <2>2, <3>1, TextType, StackNone
    <3>2. CASE Front(fs) # <<>>
      <4>1. Len(Front(fs)) # 0 /\ Len(d) \in Nat /\ Len(d) # 0
        BY <2>2, <2>5, <3>2, StackFacts DEF Path
      <4>2. PICK k, gs : k = Len(d) - 1 /\ gs = Front(fs)
        OBVIOUS
      <4>3. k \in 0..Len(d)
        BY <4>1, <4>2
      <4>4. Buffered(gs, Text(d))
        BY <2>2, <2>5, <3>2, <4>2, <4>3, BufferedBelow
      <4>5. QED BY <4>2, <4>4
    <3>3. QED BY <3>1, <3>2
  <2>7. result' = Null
    BY <1>3, <1>4
  <2>8. QED BY <1>3, <1>4, <2>1, <2>4, <2>5, <2>6, <2>7 DEF FramesInv
<1>8. QED BY <1>5, <1>6, <1>7 DEF CursorInv

\* The walk is given up by itself or its owner.
LEMMA UnwoundFacts ==
  ASSUME FramesInv, Unwound, path' = Root
  PROVE  FramesInv'
<1>1. frames' = <<>> /\ handles' = handles \ Dirs(frames) /\ handles = Dirs(frames)
  BY DEF Unwound, FramesInv, Dirs
<1>2. Root \in Seq(Bytes)
  BY WalkAssumption
<1>3. handles' = {}
  BY <1>1
<1>4. QED BY <1>1, <1>2, <1>3, StackNone DEF FramesInv

\* The walk aborts.
LEMMA AbortKeeps == CursorInv /\ Abort => CursorInv'
<1>1. SUFFICES ASSUME CursorInv, Abort PROVE CursorInv'
  OBVIOUS
<1>2. /\ Iterate /\ Unwound /\ path' = Root /\ errors' = errors + 1 /\ Fault /\ result' = "abort"
      /\ UNCHANGED tree
  BY <1>1 DEF Abort
<1>3. n' \in 0..Limit /\ faults \in Nat /\ errors \in Nat /\ errors <= faults
  BY <1>1, <1>2, IterateFacts
<1>4. TreeInv'
  BY <1>1, <1>2, TreeSame DEF CursorInv
<1>5. CountInv'
  BY <1>2, <1>3 DEF CountInv, Fault
<1>6. FramesInv'
  BY <1>1, <1>2, UnwoundFacts DEF CursorInv
<1>7. QED BY <1>4, <1>5, <1>6 DEF CursorInv

\* The owner closes the cursor.
LEMMA GiveUpKeeps == CursorInv /\ GiveUp => CursorInv'
<1>1. SUFFICES ASSUME CursorInv, GiveUp PROVE CursorInv'
  OBVIOUS
<1>2. /\ Unwound /\ path' = Root /\ result' = "given up" /\ UNCHANGED <<tree, n, errors, faults>>
  BY <1>1 DEF GiveUp
<1>3. TreeInv'
  BY <1>1, <1>2, TreeSame DEF CursorInv
<1>4. CountInv'
  BY <1>1, <1>2 DEF CountInv, CursorInv
<1>5. FramesInv'
  BY <1>1, <1>2, UnwoundFacts DEF CursorInv
<1>6. QED BY <1>3, <1>4, <1>5 DEF CursorInv

\* Slices begin and end, and the walk does.
LEMMA SliceKeeps == CursorInv /\ (Pause \/ Resume \/ Finish) => CursorInv'
<1>1. SUFFICES ASSUME CursorInv, Pause \/ Resume \/ Finish PROVE CursorInv'
  OBVIOUS
<1>2. /\ UNCHANGED <<tree, frames, path, errors, handles, faults>> /\ n' \in {n, 0}
      /\ result' \in {Null, "again", "ok", "error"}
      /\ result' \notin {Null, "again"} => frames = <<>>
  <2>1. CASE Pause
    BY <2>1 DEF Pause
  <2>2. CASE Resume
    BY <2>2 DEF Resume
  <2>3. CASE Finish
    BY <2>3 DEF Finish
  <2>4. QED BY <1>1, <2>1, <2>2, <2>3
<1>3. TreeInv'
  BY <1>1, <1>2, TreeSame DEF CursorInv
<1>4. CountInv'
  <2>1. Limit \in Nat
    BY WalkAssumption
  <2>2. n' \in 0..Limit
    <3>1. n \in 0..Limit
      BY <1>1 DEF CountInv, CursorInv
    <3>2. 0 \in 0..Limit
      BY <2>1
    <3>3. QED BY <1>2, <3>1, <3>2
  <2>3. QED BY <1>1, <1>2, <2>2 DEF CountInv, CursorInv
<1>5. FramesInv'
  BY <1>1, <1>2 DEF FramesInv, CursorInv
<1>6. QED BY <1>3, <1>4, <1>5 DEF CursorInv
\* What an entry is taken for, by the path it has.
Handled(p, gs) ==
    \/ /\ p \in DOMAIN tree /\ errors' = errors + 1 /\ Fault
       /\ frames' = gs
       /\ UNCHANGED <<tree, handles, visited, stable>>
    \/ /\ Visits(p, Text(p))
       /\ visited' = visited \cup {p} /\ stable' = stable \ {p}
       /\ \/ tree' = [q \in DOMAIN tree \ {p} |-> tree[q]]
          \/ tree' = tree
       /\ frames' = gs
       /\ UNCHANGED <<handles, errors>> /\ NoFault
    \/ /\ Descends(p, Text(p))
       /\ frames' = Append(gs, Frame(p, Text(p)))
       /\ handles' = handles \cup {p}
       /\ UNCHANGED <<tree, errors, visited, stable>> /\ NoFault
    \/ /\ ~Visits(p, Text(p)) /\ ~Descends(p, Text(p))
       /\ frames' = gs
       /\ UNCHANGED <<tree, handles, errors, visited, stable>> /\ NoFault

\* The buffer names the entry, so what is compared, opened and visited is its path.
LEMMA EntryFacts ==
  ASSUME CursorInv, NEW name \in Names, Entry(name)
  PROVE  /\ Iterate /\ name \in Top.todo /\ UNCHANGED <<result, changes>>
         /\ Append(Top.dir, name) \in Path /\ path' = Text(Append(Top.dir, name))
         /\ Handled(Append(Top.dir, name), Taken(name))
<1>1. Iterate /\ name \in Top.todo /\ UNCHANGED <<result, changes>> /\ path' = WithName(name)
  BY Zenon DEF Entry
<1>2. Stack(frames) /\ frames # <<>> /\ Buffered(frames, path)
  BY <1>1, IterateFacts
<1>3. /\ Append(Last(frames).dir, name) \in Path
      /\ SubSeq(path, 1, Last(frames).len) \o <<Sep>> \o name = Text(Append(Last(frames).dir, name))
  <2>1. PICK fs, s : fs = frames /\ s = path
    OBVIOUS
  <2>2. /\ Append(Last(fs).dir, name) \in Path
        /\ SubSeq(s, 1, Last(fs).len) \o <<Sep>> \o name = Text(Append(Last(fs).dir, name))
    BY <1>2, <2>1, NamedText
  <2>3. QED BY <2>1, <2>2
<1>4. Append(Top.dir, name) \in Path /\ WithName(name) = Text(Append(Top.dir, name))
  BY <1>3 DEF Top, WithName
<1>5. Handled(Append(Top.dir, name), Taken(name))
  <2>1. PICK p, s : p = Append(Top.dir, name) /\ s = Text(p)
    OBVIOUS
  <2>2. s = WithName(name)
    BY <1>4, <2>1
  <2>3. \/ /\ p \in DOMAIN tree /\ errors' = errors + 1 /\ Fault
           /\ frames' = Taken(name)
           /\ UNCHANGED <<tree, handles, visited, stable>>
        \/ /\ Visits(p, s)
           /\ visited' = visited \cup {p} /\ stable' = stable \ {p}
           /\ \/ tree' = [q \in DOMAIN tree \ {p} |-> tree[q]]
              \/ tree' = tree
           /\ frames' = Taken(name)
           /\ UNCHANGED <<handles, errors>> /\ NoFault
        \/ /\ Descends(p, s)
           /\ frames' = Append(Taken(name), Frame(p, s))
           /\ handles' = handles \cup {p}
           /\ UNCHANGED <<tree, errors, visited, stable>> /\ NoFault
        \/ /\ ~Visits(p, s) /\ ~Descends(p, s)
           /\ frames' = Taken(name)
           /\ UNCHANGED <<tree, handles, errors, visited, stable>> /\ NoFault
    BY <2>1, <2>2, Zenon DEF Entry
  <2>4. Handled(p, Taken(name))
    BY <2>1, <2>3, Zenon DEF Handled
  <2>5. QED BY <2>1, <2>4
<1>6. QED BY <1>1, <1>4, <1>5

\* The stack after an entry, and the path in the buffer.
LEMMA EntryFrames ==
  ASSUME CursorInv, NEW name \in Names, Iterate, NEW p \in Path, p = Append(Top.dir, name),
         Handled(p, Taken(name))
  PROVE  /\ Stack(frames') /\ Buffered(frames', Text(p)) /\ frames' # <<>>
         /\ \/ frames' = Taken(name) /\ Dirs(frames') = Dirs(frames) /\ UNCHANGED handles
            \/ /\ Descends(p, Text(p)) /\ frames' = Append(Taken(name), Frame(p, Text(p)))
               /\ Dirs(frames') = Dirs(frames) \cup {p} /\ handles' = handles \cup {p}
<1>1. Stack(frames) /\ frames # <<>> /\ Top.dir \in Path
  BY IterateFacts
<1>2. PICK gs, d : gs = Taken(name) /\ d = Top.dir
  OBVIOUS
<1>3. Stack(gs) /\ gs # <<>> /\ Last(gs).dir = d /\ Dirs(gs) = Dirs(frames) /\ d \in Path
  BY <1>1, <1>2, TakenFacts
<1>4. PICK k : k = Len(d)
  OBVIOUS
<1>5. k \in Nat /\ k \in 0..Len(d) /\ Len(p) = k + 1 /\ p = Append(d, name)
  BY <1>2, <1>3, <1>4, AppendProperties DEF Path
<1>6. k \in 0..Len(p) /\ Upto(p, k) = d
  <2>1. k \in 0..Len(p)
    BY <1>5
  <2>2. Upto(p, k) = Upto(d, k)
    BY <1>3, <1>5, UptoAppend
  <2>3. Upto(d, k) = d
    BY <1>3, <1>4, <1>5, UptoFacts
  <2>4. QED BY <2>1, <2>2, <2>3
<1>7. Buffered(gs, Text(p))
  <2>1. Last(gs).dir = Upto(p, k)
    BY <1>3, <1>6
  <2>2. QED BY <1>6, <2>1, BufferedBelow
<1>8. CASE frames' = gs /\ UNCHANGED handles
  BY <1>2, <1>3, <1>7, <1>8
<1>9. CASE Descends(p, Text(p)) /\ frames' = Append(gs, Frame(p, Text(p))) /\ handles' = handles \cup {p}
  <2>1. PICK f, s : s = Text(p) /\ f = Frame(p, s)
    OBVIOUS
  <2>2. f \in FrameType /\ f.dir = p /\ f.len = Len(s)
    BY <2>1, FrameFacts
  <2>3. f.dir = Append(Last(gs).dir, name) /\ f.len = Len(Text(f.dir))
    BY <1>3, <1>5, <2>1, <2>2
  <2>4. /\ Stack(Append(gs, f)) /\ Dirs(Append(gs, f)) = Dirs(gs) \cup {f.dir}
        /\ Append(gs, f) # <<>> /\ Last(Append(gs, f)) = f
    <3>1. Stack(gs) /\ gs # <<>> /\ name \in Names /\ f \in FrameType
      BY <1>3, <2>2
    <3>2. f.dir = Append(Last(gs).dir, name)
      BY <2>3
    <3>3. f.len = Len(Text(f.dir))
      BY <2>3
    <3>4. Stack(Append(gs, f))
      BY <3>1, <3>2, <3>3, StackPush, Zenon
    <3>5. gs \in Seq(FrameType)
      BY <3>1, StackSequence
    <3>6. QED BY <3>1, <3>4, <3>5, PushDirs
  <2>5. Buffered(Append(gs, f), Text(p))
    <3>1. PICK hs, h : hs = Append(gs, f) /\ h = Len(p)
      OBVIOUS
    <3>2. h \in 0..Len(p) /\ Last(hs).dir = Upto(p, h)
      <4>1. h \in 0..Len(p)
        BY <1>5, <3>1
      <4>2. Upto(p, h) = p
        BY <3>1, <4>1, UptoFacts
      <4>3. QED BY <2>2, <2>4, <3>1, <4>1, <4>2
    <3>3. Buffered(hs, Text(p))
      BY <3>2, BufferedBelow
    <3>4. QED BY <3>1, <3>3
  <2>6. frames' = Append(gs, f)
    BY <1>9, <2>1
  <2>7. /\ Stack(frames') /\ Buffered(frames', Text(p)) /\ frames' # <<>>
        /\ Dirs(frames') = Dirs(frames) \cup {p}
    BY <1>3, <2>2, <2>4, <2>5, <2>6
  <2>8. QED BY <1>2, <1>9, <2>7
<1>10. (frames' = gs /\ UNCHANGED handles)
       \/ (Descends(p, Text(p)) /\ frames' = Append(gs, Frame(p, Text(p))) /\ handles' = handles \cup {p})
  BY <1>2, Zenon DEF Handled
<1>11. QED BY <1>8, <1>9, <1>10
\* An entry is returned.
LEMMA EntryKeeps == CursorInv /\ (\E name \in Names : Entry(name)) => CursorInv'
<1>1. SUFFICES ASSUME CursorInv, NEW name \in Names, Entry(name) PROVE CursorInv'
  OBVIOUS
<1>2. PICK p, gs : p = Append(Top.dir, name) /\ gs = Taken(name)
  OBVIOUS
<1>3. /\ Iterate /\ UNCHANGED result /\ p \in Path /\ path' = Text(p) /\ Handled(p, gs)
  BY <1>1, <1>2, EntryFacts
<1>4. /\ Stack(frames) /\ handles = Dirs(frames) /\ result = Null /\ n' \in 0..Limit
      /\ faults \in Nat /\ errors \in Nat /\ errors <= faults
  BY <1>1, <1>3, IterateFacts
<1>5. TreeInv'
  <2>1. TreeInv
    BY <1>1 DEF CursorInv
  <2>2. CASE tree' = tree
    BY <2>1, <2>2, TreeSame
  <2>3. CASE Visits(p, Text(p)) /\ tree' = [q \in DOMAIN tree \ {p} |-> tree[q]]
    <3>1. p \in DOMAIN tree /\ tree[p] = "file"
      BY <2>3 DEF Visits
    <3>2. QED BY <2>1, <2>3, <3>1, TreeLess
  <2>4. tree' = tree \/ (Visits(p, Text(p)) /\ tree' = [q \in DOMAIN tree \ {p} |-> tree[q]])
    BY <1>3, Zenon DEF Handled
  <2>5. QED BY <2>2, <2>3, <2>4
<1>6. CountInv'
  <2>1. (errors' = errors /\ NoFault) \/ (errors' = errors + 1 /\ Fault)
    BY <1>3, Zenon DEF Handled
  <2>2. faults' \in Nat /\ errors' \in Nat /\ errors' <= faults'
    <3>1. CASE errors' = errors /\ NoFault
      BY <1>4, <3>1 DEF NoFault
    <3>2. CASE errors' = errors + 1 /\ Fault
      BY <1>4, <3>2 DEF Fault
    <3>3. QED BY <2>1, <3>1, <3>2
  <2>3. QED BY <1>3, <1>4, <2>2 DEF CountInv
<1>7. FramesInv'
  <2>1. /\ Stack(frames') /\ Buffered(frames', Text(p))
        /\ \/ Dirs(frames') = Dirs(frames) /\ UNCHANGED handles
           \/ Dirs(frames') = Dirs(frames) \cup {p} /\ handles' = handles \cup {p}
    BY <1>1, <1>2, <1>3, EntryFrames
  <2>2. handles' = Dirs(frames') /\ result' = Null
    BY <1>3, <1>4, <2>1
  <2>3. QED BY <1>3, <2>1, <2>2 DEF FramesInv
<1>8. QED BY <1>5, <1>6, <1>7 DEF CursorInv

\* Others add and remove entries.
LEMMA OthersKeep == CursorInv /\ Others => CursorInv'
<1>1. SUFFICES ASSUME CursorInv, Others PROVE CursorInv'
  OBVIOUS
<1>2. TreeInv /\ CountInv /\ FramesInv
  BY <1>1 DEF CursorInv
<1>3. ASSUME NEW p \in Places, NEW kind \in Kinds, Create(p, kind) PROVE CursorInv'
  <2>1. UNCHANGED <<path, n, errors, result, handles, faults>>
    BY <1>3, Zenon DEF Create
  <2>2. Stack(frames) /\ Buffered(frames, path) /\ handles = Dirs(frames)
    BY <1>2 DEF FramesInv
  <2>3. /\ TreeInv' /\ Stack(frames') /\ Dirs(frames') = Dirs(frames)
        /\ (frames' = <<>> <=> frames = <<>>)
        /\ frames # <<>> => Last(frames').dir = Last(frames).dir
    BY <1>2, <1>3, <2>2, CreateFacts
  <2>4. Buffered(frames', path)
    <3>1. PICK fs, gs, s : fs = frames /\ gs = frames' /\ s = path
      OBVIOUS
    <3>2. Buffered(gs, s)
      BY <2>2, <2>3, <3>1, BufferedSame
    <3>3. QED BY <3>1, <3>2
  <2>5. FramesInv'
    BY <1>2, <2>1, <2>2, <2>3, <2>4 DEF FramesInv
  <2>6. CountInv'
    BY <1>2, <2>1 DEF CountInv
  <2>7. QED BY <2>3, <2>5, <2>6 DEF CursorInv
<1>4. ASSUME NEW p \in DOMAIN tree, Vanish(p) PROVE CursorInv'
  <2>1. /\ Children(p) = {} /\ tree' = [q \in DOMAIN tree \ {p} |-> tree[q]]
        /\ UNCHANGED <<frames, path, n, errors, result, handles, faults>>
    BY <1>4, Zenon DEF Vanish, cursor
  <2>2. TreeInv'
    BY <1>2, <2>1, TreeLess
  <2>3. CountInv' /\ FramesInv'
    BY <1>2, <2>1 DEF CountInv, FramesInv
  <2>4. QED BY <2>2, <2>3 DEF CursorInv
<1>5. QED BY <1>1, <1>3, <1>4 DEF Others

\* Every step keeps it.
LEMMA CursorStep == CursorInv /\ [Next]_vars => CursorInv'
<1>1. SUFFICES ASSUME CursorInv, [Next]_vars PROVE CursorInv'
  OBVIOUS
<1>2. CASE UNCHANGED vars
  <2>1. UNCHANGED <<tree, frames, path, n, errors, result, handles, faults>>
    BY <1>2, Zenon DEF vars, cursor
  <2>2. TreeInv'
    BY <1>1, <2>1, TreeSame DEF CursorInv
  <2>3. QED BY <1>1, <2>1, <2>2 DEF CursorInv, CountInv, FramesInv
<1>3. CASE Next
  BY <1>1, <1>3, StartKeeps, EndOfDirKeeps, AbortKeeps, EntryKeeps, SliceKeeps, GiveUpKeeps,
     OthersKeep DEF Next, Walker
<1>4. QED BY <1>1, <1>2, <1>3

\* The stack, the buffer, the open directories and the counters fit together in
\* every state.
LEMMA CursorInvariant == Spec => []CursorInv
<1>1. QED BY CursorInit, CursorStep, PTL DEF Spec

\* What the invariant says is what the run checks.
LEMMA CursorMeans == CursorInv => CursorConsistent
<1>1. SUFFICES ASSUME CursorInv PROVE CursorConsistent
  OBVIOUS
<1>2. TreeInv /\ CountInv /\ FramesInv
  BY <1>1 DEF CursorInv
<1>3. PICK fs, s : fs = frames /\ s = path
  OBVIOUS
<1>4. Stack(fs) /\ Buffered(fs, s) /\ handles = Dirs(fs)
  BY <1>2, <1>3 DEF FramesInv
<1>5. /\ DOMAIN fs = 1..Len(fs) /\ Len(fs) \in Nat
      /\ \A i \in 1..Len(fs) :
            /\ fs[i].dir \in Path /\ fs[i].todo \subseteq Names
            /\ Len(fs[i].dir) = i - 1 /\ fs[i].dir = Upto(Last(fs).dir, i - 1)
  BY <1>4, StackFacts
<1>6. ASSUME NEW i \in DOMAIN fs
      PROVE  fs[i].dir = IF i = 1 THEN <<>> ELSE Append(fs[i - 1].dir, Last(fs[i].dir))
  <2>1. i \in 1..Len(fs) /\ fs[i].dir \in Path /\ Len(fs[i].dir) = i - 1
    BY <1>5
  <2>2. CASE i = 1
    <3>1. Len(fs[i].dir) = 0
      BY <2>1, <2>2
    <3>2. fs[i].dir = <<>>
      BY <2>1, <3>1, EmptySeq DEF Path
    <3>3. QED BY <2>2, <3>2
  <2>3. CASE i # 1
    <3>1. PICK p, k : p = fs[i].dir /\ k = i - 1
      OBVIOUS
    <3>2. k \in 1..Len(fs) /\ k \in Nat /\ k # 0 /\ Len(p) = k /\ p \in Path
      BY <1>5, <2>1, <2>3, <3>1
    <3>3. p # <<>>
      BY <3>2, EmptySeq DEF Path
    <3>4. p = Append(Front(p), Last(p)) /\ Front(p) = Upto(p, k - 1)
      BY <3>2, <3>3, FrontLast
    <3>5. Front(p) = fs[k].dir
      <4>1. PICK d, j : d = Last(fs).dir /\ j = k - 1
        OBVIOUS
      <4>2. p = Upto(d, k) /\ fs[k].dir = Upto(d, j)
        BY <1>5, <2>1, <3>1, <3>2, <4>1
      <4>3. d \in Path /\ k \in 0..Len(d) /\ j \in 0..k
        <5>1. Len(fs) \in 1..Len(fs) /\ Last(fs) = fs[Len(fs)]
          BY <1>4, <1>5, <2>1, StackFacts
        <5>2. d \in Path /\ Len(d) = Len(fs) - 1
          BY <1>5, <4>1, <5>1, Zenon
        <5>3. PICK m : m = Len(fs)
          OBVIOUS
        <5>4. m \in Nat /\ i \in 1..m
          BY <1>5, <2>1, <5>3
        <5>5. k \in 0..(m - 1) /\ j \in 0..k
          BY <2>3, <3>1, <4>1, <5>4
        <5>6. QED BY <5>2, <5>3, <5>5
      <4>4. Upto(Upto(d, k), j) = Upto(d, j)
        BY <4>3, UptoUpto
      <4>5. QED BY <3>4, <4>1, <4>2, <4>4
    <3>6. QED BY <2>3, <3>1, <3>4, <3>5
  <2>4. QED BY <2>2, <2>3
<1>7. PathNamesFrames
  BY <1>3, <1>4, <1>5, BufferNames DEF PathNamesFrames
<1>8. HandlesBalanced
  BY <1>3, <1>4 DEF HandlesBalanced, Dirs
<1>9. TypeOK
  <2>1. errors \in 0..faults /\ n \in 0..Limit
        /\ result \in {Null, "new", "again", "ok", "error", "abort", "given up"}
    <3>1. errors \in Nat /\ faults \in Nat /\ errors <= faults
      BY <1>2 DEF CountInv
    <3>2. errors \in 0..faults
      BY <3>1
    <3>3. QED BY <1>2, <3>2 DEF CountInv
  <2>2. \A p \in DOMAIN tree : IsDir(Front(p)) /\ tree[p] \in Kinds
    BY <1>2 DEF TreeInv
  <2>3. QED BY <1>3, <1>5, <1>6, <2>1, <2>2 DEF TypeOK
<1>10. QED BY <1>7, <1>8, <1>9 DEF CursorConsistent

\* The cursor is in order at the start and the end of every slice and after every
\* fault: the buffer names the directory that is read, each frame is one name
\* below the one before it, and exactly the directories with a frame are open
\* (ngx_http_cache_purge_walk_step, _open and _close).
THEOREM CursorAlwaysConsistent == Spec => []CursorConsistent
<1>1. QED BY CursorInvariant, CursorMeans, PTL
-----------------------------------------------------------------------------
(* Nothing protected is entered or visited *)

\* What is protected, or is below it, is not entered or visited.
LEMMA NotProtected ==
  ASSUME NEW p \in Path, Visits(p, Text(p)) \/ Descends(p, Text(p))
  PROVE  ~MustKeep(p)
BY ProtectionByName DEF Visits, Descends

\* The root itself is not protected.
LEMMA RootFree == ~MustKeep(<<>>)
BY DEF MustKeep

\* Every step enters and visits nothing protected.
LEMMA KeepStep == CursorInv /\ KeepInv /\ [Next]_vars => KeepInv'
<1>1. SUFFICES ASSUME CursorInv, KeepInv, [Next]_vars PROVE KeepInv'
  OBVIOUS
<1>2. Stack(frames)
  BY <1>1 DEF CursorInv, FramesInv
<1>3. ASSUME UNCHANGED visited, Dirs(frames') \subseteq Dirs(frames) PROVE KeepInv'
  BY <1>1, <1>3 DEF KeepInv
<1>4. ASSUME Start PROVE KeepInv'
  <2>1. UNCHANGED visited /\ (frames' = <<Frame(<<>>, Root)>> \/ frames' = frames)
    BY <1>4 DEF Start
  <2>2. CASE frames' = <<Frame(<<>>, Root)>>
    <3>1. <<>> \in Path /\ Text(<<>>) = Root
      BY TextEmpty
    <3>2. PICK f : f = Frame(<<>>, Root)
      OBVIOUS
    <3>3. f \in FrameType /\ f.dir = <<>> /\ f.len = Len(Root)
      BY <3>1, <3>2, FrameFacts
    <3>4. Dirs(frames') = {<<>>}
      BY <2>2, <3>2, <3>3, StackOne
    <3>5. QED BY <1>1, <2>1, <3>4, RootFree DEF KeepInv
  <2>3. QED BY <1>3, <2>1, <2>2
<1>5. ASSUME EndOfDir PROVE KeepInv'
  <2>1. Iterate /\ frames' = Front(frames) /\ UNCHANGED visited
    BY <1>5 DEF EndOfDir, Close
  <2>2. Dirs(Front(frames)) = Dirs(frames) \ {Last(frames).dir}
    BY <1>1, <1>2, <2>1, IterateFacts, StackFront
  <2>3. QED BY <1>3, <2>1, <2>2
<1>6. ASSUME Abort \/ GiveUp PROVE KeepInv'
  <2>1. frames' = <<>> /\ UNCHANGED visited
    BY <1>6 DEF Abort, GiveUp, Unwound
  <2>2. QED BY <1>3, <2>1, StackNone
<1>7. ASSUME Pause \/ Resume \/ Finish PROVE KeepInv'
  <2>1. UNCHANGED <<frames, visited>>
    BY <1>7 DEF Pause, Resume, Finish
  <2>2. QED BY <1>3, <2>1
<1>8. ASSUME NEW name \in Names, Entry(name) PROVE KeepInv'
  <2>1. PICK p, gs : p = Append(Top.dir, name) /\ gs = Taken(name)
    OBVIOUS
  <2>2. Iterate /\ p \in Path /\ Handled(p, gs)
    BY <1>1, <1>8, <2>1, EntryFacts
  <2>3. Dirs(frames') = Dirs(frames)
        \/ (Descends(p, Text(p)) /\ Dirs(frames') = Dirs(frames) \cup {p})
    BY <1>1, <2>1, <2>2, EntryFrames
  <2>4. visited' = visited \/ (Visits(p, Text(p)) /\ visited' = visited \cup {p})
    BY <2>2, Zenon DEF Handled
  <2>5. \A d \in Dirs(frames') : ~MustKeep(d)
    BY <1>1, <2>2, <2>3, NotProtected DEF KeepInv
  <2>6. \A q \in visited' : ~MustKeep(q)
    BY <1>1, <2>2, <2>4, NotProtected DEF KeepInv
  <2>7. QED BY <2>5, <2>6 DEF KeepInv
<1>9. ASSUME Others PROVE KeepInv'
  <2>1. ASSUME NEW p \in Places, NEW kind \in Kinds, Create(p, kind) PROVE KeepInv'
    <3>1. Dirs(frames') = Dirs(frames)
      BY <1>1, <1>2, <2>1, CreateFacts DEF CursorInv
    <3>2. UNCHANGED visited
      BY <2>1, Zenon DEF Create
    <3>3. QED BY <1>3, <3>1, <3>2
  <2>2. ASSUME NEW p \in DOMAIN tree, Vanish(p) PROVE KeepInv'
    <3>1. UNCHANGED <<frames, visited>>
      BY <2>2, Zenon DEF Vanish, cursor
    <3>2. QED BY <1>3, <3>1
  <2>3. QED BY <1>9, <2>1, <2>2 DEF Others
<1>10. CASE UNCHANGED vars
  <2>1. UNCHANGED <<frames, visited>>
    BY <1>10, Zenon DEF vars, cursor
  <2>2. QED BY <1>3, <2>1
<1>11. CASE Next
  BY <1>4, <1>5, <1>6, <1>7, <1>8, <1>9, <1>11 DEF Next, Walker
<1>12. QED BY <1>1, <1>10, <1>11

\* Nothing protected is entered or handed to the visitor, whatever names resemble
\* it and whatever others do to the tree meanwhile
\* (ngx_http_cache_purge_skip_protected_dir and the visitors).
THEOREM AlwaysKeepsProtected == Spec => []KeepsProtected
<1>1. Init => KeepInv
  BY StackNone DEF Init, KeepInv
<1>2. CursorInv /\ KeepInv => KeepsProtected
  <2>1. SUFFICES ASSUME CursorInv, KeepInv PROVE KeepsProtected
    OBVIOUS
  <2>2. QED BY <2>1 DEF KeepInv, KeepsProtected, Dirs
<1>3. Spec => []KeepInv
  BY <1>1, KeepStep, CursorInvariant, PTL DEF Spec
<1>4. QED BY <1>2, <1>3, CursorInvariant, PTL
-----------------------------------------------------------------------------
(* Nothing is missed *)

\* The directories that an entry is in are in the tree.
LEMMA TreePrefix ==
  ASSUME TreeInv, NEW p \in DOMAIN tree, NEW k \in 1..Len(p)
  PROVE  Upto(p, k) \in DOMAIN tree /\ (k < Len(p) => tree[Upto(p, k)] = "dir")
<1> DEFINE In(j) == Upto(p, j) \in DOMAIN tree
           Out == {j \in 1..Len(p) : ~In(j)}
<1>1. p \in Path /\ p # <<>> /\ Len(p) \in Nat /\ Len(p) \in 0..Len(p)
  BY DEF TreeInv, Path
<1>2. Upto(p, Len(p)) = p
  BY <1>1, UptoFacts
<1>3. ASSUME NEW j \in 1..Len(p), j # Len(p), In(j + 1)
      PROVE  Upto(p, j) \in DOMAIN tree /\ tree[Upto(p, j)] = "dir"
  <2>1. j \in Nat /\ j # 0 /\ j < Len(p) /\ j + 1 \in 0..Len(p) /\ j \in 0..(j + 1) /\ j \in 0..Len(p)
    BY <1>1, <1>3
  <2>2. PICK h, q : h = j + 1 /\ q = Upto(p, h)
    OBVIOUS
  <2>3. q \in DOMAIN tree /\ q \in Path /\ q # <<>> /\ IsDir(Front(q))
    BY <1>3, <2>2 DEF TreeInv
  <2>4. Len(q) = h
    BY <1>1, <2>1, <2>2, UptoFacts
  <2>5. Front(q) = Upto(q, h - 1) /\ h - 1 = j
    BY <2>1, <2>2, <2>3, <2>4, FrontLast
  <2>6. Upto(Upto(p, h), j) = Upto(p, j)
    BY <1>1, <2>1, <2>2, UptoUpto
  <2>7. Front(q) = Upto(p, j)
    BY <2>2, <2>5, <2>6
  <2>8. Upto(p, j) # <<>>
    <3>1. Len(Upto(p, j)) = j
      BY <1>1, <2>1, UptoFacts
    <3>2. Len(<<>>) = 0
      OBVIOUS
    <3>3. QED BY <2>1, <3>1, <3>2
  <2>9. QED BY <2>3, <2>7, <2>8 DEF IsDir
<1>4. ASSUME Out # {} PROVE FALSE
  <2>1. Out \subseteq 0..Len(p)
    OBVIOUS
  <2>2. PICK j \in Out : \A h \in Out : j >= h
    <3> HIDE DEF Out
    <3>1. QED BY <1>1, <1>4, <2>1, ExtremesUpTo
  <2>3. j \in 1..Len(p) /\ ~In(j)
    BY <2>2
  <2>4. j # Len(p)
    BY <1>2, <2>3
  <2>5. PICK h : h = j + 1
    OBVIOUS
  <2>6. h \in 1..Len(p) /\ ~(j >= h)
    BY <1>1, <2>3, <2>4, <2>5
  <2>7. h \notin Out
    <3> HIDE DEF Out
    <3>1. QED BY <2>2, <2>6
  <2>8. In(j + 1)
    BY <2>5, <2>6, <2>7
  <2>9. QED BY <1>3, <2>3, <2>4, <2>8
<1>5. \A j \in 1..Len(p) : In(j)
  BY <1>4
<1>6. k < Len(p) => k + 1 \in 1..Len(p) /\ k # Len(p)
  BY <1>1
<1>7. QED BY <1>3, <1>5, <1>6

\* The name that a path goes on with is in the directory before it.
LEMMA NextChild ==
  ASSUME TreeInv, NEW p \in DOMAIN tree, NEW k \in Nat, k < Len(p)
  PROVE  p[k + 1] \in Children(Upto(p, k))
<1>1. p \in Path /\ Len(p) \in Nat /\ k + 1 \in 1..Len(p)
  BY DEF TreeInv, Path
<1>2. p[k + 1] \in Names /\ Upto(p, k + 1) = Append(Upto(p, k), p[k + 1])
  BY <1>1, UptoNext
<1>3. Upto(p, k + 1) \in DOMAIN tree
  BY <1>1, TreePrefix
<1>4. QED BY <1>2, <1>3 DEF Children

\* What is above something that need not be kept need not be kept.
LEMMA KeepBelow ==
  ASSUME NEW p \in Path, NEW k \in 0..Len(p), MustKeep(Upto(p, k))
  PROVE  MustKeep(p)
<1>1. PICK q : q = Upto(p, k)
  OBVIOUS
<1>2. q \in Path /\ Len(q) = k /\ DOMAIN q = 1..k /\ Len(p) \in Nat /\ DOMAIN p = 1..Len(p)
  BY <1>1, UptoFacts DEF Path
<1>3. PICK j \in 1..k, r \in Protected : Text(Upto(q, j)) = Trimmed(r)
  BY <1>1, <1>2 DEF MustKeep, Upto
<1>4. j \in 0..k /\ j \in 1..Len(p)
  BY <1>2
<1>5. Upto(q, j) = Upto(p, j)
  BY <1>1, <1>4, UptoUpto
<1>6. QED BY <1>2, <1>3, <1>4, <1>5 DEF MustKeep, Upto

\* What the walk owes: only what is visited, gone or counted as an error falls out.
Owes(p) == ~MustKeep(p) /\ Last(p) \in CacheNames

\* An entry that is returned is taken care of, and with it what is below it.
LEMMA EntryOwed ==
  ASSUME CursorInv, Iterate, NEW name \in Names, NEW q \in Path, q = Append(Top.dir, name),
         Handled(q, Taken(name)), errors' = errors,
         NEW p \in DOMAIN tree, tree[p] = "file", p \in stable', Owes(p), Ahead(frames, p)
  PROVE  Ahead(frames', p)
<1>1. PICK fs, gs, m : fs = frames /\ gs = Taken(name) /\ m = Len(fs)
  OBVIOUS
<1>2. /\ Stack(fs) /\ fs # <<>> /\ m \in 1..m /\ m \in Nat /\ Top = fs[m]
      /\ DOMAIN fs = 1..m /\ errors \in Nat
  BY <1>1, IterateFacts, StackFacts
<1>3. /\ Stack(gs) /\ gs # <<>> /\ Last(gs).dir = Top.dir /\ Len(gs) = m /\ DOMAIN gs = 1..m
      /\ \A i \in 1..m :
            /\ gs[i].dir = fs[i].dir
            /\ i # m => gs[i].todo = fs[i].todo
            /\ i = m => gs[i].todo = fs[i].todo \ {name}
  BY <1>1, <1>2, TakenFacts, StackFacts
<1>4. TreeInv /\ p \in Path /\ p # <<>> /\ Len(p) \in Nat
  BY DEF CursorInv, TreeInv, Path
<1>5. PICK i \in 1..m : i <= Len(p) /\ Upto(p, i - 1) = fs[i].dir /\ p[i] \in fs[i].todo
  BY <1>1, <1>2 DEF Ahead
<1>6. ~(errors' = errors + 1)
  BY <1>2
<1>7. /\ frames' = gs \/ (Descends(q, Text(q)) /\ frames' = Append(gs, Frame(q, Text(q))))
      /\ Visits(q, Text(q)) => stable' = stable \ {q} \/ Descends(q, Text(q))
      /\ Descends(q, Text(q)) /\ ~Visits(q, Text(q)) => frames' = Append(gs, Frame(q, Text(q)))
  BY <1>1, <1>6, Zenon DEF Handled
<1>8. PICK f : f = Frame(q, Text(q))
  OBVIOUS
<1>9. f \in FrameType /\ f.dir = q /\ f.todo = Children(q)
  BY <1>8, FrameFacts
<1>10. /\ DOMAIN Append(gs, f) = 1..(m + 1) /\ Append(gs, f)[m + 1] = f
       /\ \A j \in 1..m : Append(gs, f)[j] = gs[j]
  <2>1. gs \in Seq(FrameType)
    BY <1>3 DEF Stack
  <2>2. QED BY <1>3, <1>9, <2>1, AppendProperties
<1>11. CASE i # m \/ p[i] # name
  <2>1. p[i] \in gs[i].todo /\ gs[i].dir = fs[i].dir
    BY <1>3, <1>5, <1>11
  <2>2. i \in DOMAIN gs /\ i \in DOMAIN Append(gs, f) /\ Append(gs, f)[i] = gs[i]
    BY <1>2, <1>3, <1>10
  <2>3. Ahead(gs, p) /\ Ahead(Append(gs, f), p)
    BY <1>2, <1>5, <2>1, <2>2 DEF Ahead
  <2>4. QED BY <1>7, <1>8, <2>3
<1>12. CASE i = m /\ p[i] = name
  <2>1. PICK k : k = m - 1
    OBVIOUS
  <2>2. k \in Nat /\ k < Len(p) /\ k + 1 = m /\ m \in 0..Len(p) /\ m \in 1..Len(p)
    BY <1>2, <1>4, <1>5, <1>12, <2>1
  <2>3. q = Upto(p, m)
    <3>1. Upto(p, k + 1) = Append(Upto(p, k), p[k + 1])
      BY <1>4, <2>2, UptoNext
    <3>2. QED BY <1>2, <1>5, <1>12, <2>1, <2>2, <3>1
  <2>4. ~MustKeep(q)
    BY <1>4, <2>2, <2>3, KeepBelow DEF Owes
  <2>5. ~IsProtected(Text(q))
    BY <2>4, ProtectionByName
  <2>6. CASE m = Len(p)
    <3>1. q = p
      BY <1>4, <2>2, <2>3, <2>6, UptoFacts
    <3>2. Visits(q, Text(q))
      BY <2>5, <3>1 DEF Visits, Owes
    <3>3. ~Descends(q, Text(q))
      BY <1>4, <3>1 DEF Descends, IsDir
    <3>4. stable' = stable \ {p}
      BY <1>7, <3>1, <3>2, <3>3
    <3>5. QED BY <3>4
  <2>7. CASE m # Len(p)
    <3>1. m < Len(p) /\ m + 1 <= Len(p)
      BY <1>4, <2>2, <2>7
    <3>2. q \in DOMAIN tree /\ tree[q] = "dir"
      BY <1>4, <2>2, <2>3, <3>1, TreePrefix
    <3>3. Descends(q, Text(q)) /\ ~Visits(q, Text(q))
      BY <2>5, <3>2 DEF Descends, IsDir, Visits
    <3>4. frames' = Append(gs, f)
      BY <1>7, <1>8, <3>3
    <3>5. p[m + 1] \in f.todo
      BY <1>2, <1>4, <1>9, <2>3, <3>1, NextChild
    <3>6. m + 1 \in 1..(m + 1) /\ (m + 1) - 1 = m
      BY <1>2
    <3>7. Ahead(Append(gs, f), p)
      BY <1>9, <1>10, <2>3, <3>1, <3>5, <3>6 DEF Ahead
    <3>8. QED BY <3>4, <3>7
  <2>8. QED BY <2>6, <2>7
<1>13. QED BY <1>11, <1>12
\* What a step may do to what is owed: all that is said of the state after it.
LEMMA OwedSame ==
  ASSUME OwedInv, TreeInv,
         \A p \in stable' : p \in stable /\ p \in DOMAIN tree' /\ tree'[p] = "file",
         result' = "ok" => errors' = 0,
         result' \in {Null, "again", "ok"} /\ errors' = 0 =>
            /\ result \in {Null, "again", "ok"} /\ errors = 0
            /\ \A p \in stable' : Owes(p) /\ Ahead(frames, p) => Ahead(frames', p)
  PROVE  OwedInv'
<1>1. ASSUME result' \in {Null, "again", "ok"}, errors' = 0, NEW p \in stable'
      PROVE  MustKeep(p) \/ Last(p) \notin CacheNames \/ Ahead(frames', p)
  <2>1. result \in {Null, "again", "ok"} /\ errors = 0 /\ p \in stable
    BY <1>1
  <2>2. MustKeep(p) \/ Last(p) \notin CacheNames \/ Ahead(frames, p)
    BY <2>1, Zenon DEF OwedInv
  <2>3. Owes(p) /\ Ahead(frames, p) => Ahead(frames', p)
    BY <1>1
  <2>4. QED BY <2>2, <2>3 DEF Owes
<1>2. QED BY <1>1 DEF OwedInv

\* Every file that must be visited stays ahead until it is.
LEMMA OwedStep == CursorInv /\ OwedInv /\ [Next]_vars => OwedInv'
<1>1. SUFFICES ASSUME CursorInv, OwedInv, [Next]_vars PROVE OwedInv'
  OBVIOUS
<1>2. TreeInv /\ Stack(frames) /\ errors \in Nat
  BY <1>1 DEF CursorInv, FramesInv, CountInv
<1>3. \A p \in stable : p \in DOMAIN tree /\ tree[p] = "file"
  BY <1>1 DEF OwedInv
<1>4. Null \notin {"new", "again", "ok", "error", "abort", "given up"}
  BY WalkAssumption
<1>5. ASSUME Start PROVE OwedInv'
  <2>1. /\ result = "new" /\ UNCHANGED <<tree, stable>>
        /\ \/ frames' = <<Frame(<<>>, Root)>> /\ result' = Null
           \/ result' \in {"error", "abort"}
    BY <1>5 DEF Start
  <2>2. CASE result' \in {"error", "abort"}
    BY <1>3, <1>4, <2>1, <2>2 DEF OwedInv
  <2>3. CASE frames' = <<Frame(<<>>, Root)>> /\ result' = Null
    <3>1. PICK f : f = Frame(<<>>, Root)
      OBVIOUS
    <3>2. f \in FrameType /\ f.dir = <<>> /\ f.todo = Children(<<>>) /\ <<>> \in Path
      <4>1. <<>> \in Path /\ Text(<<>>) = Root
        BY TextEmpty
      <4>2. QED BY <3>1, <4>1, FrameFacts
    <3>3. ASSUME NEW p \in stable PROVE Ahead(frames', p)
      <4>1. p \in DOMAIN tree /\ p \in Path /\ p # <<>>
        BY <1>2, <1>3 DEF TreeInv
      <4>2. Len(p) \in Nat \ {0}
        BY <4>1, FrontLast
      <4>3. 0 \in 0..Len(p) /\ 0 \in Nat /\ 0 < Len(p) /\ 1 <= Len(p)
        BY <4>2
      <4>4. Upto(p, 0) = <<>>
        BY <4>1, <4>3, UptoFacts
      <4>5. p[0 + 1] \in Children(Upto(p, 0))
        BY <1>2, <4>1, <4>3, NextChild
      <4>6. Ahead(<<f>>, p)
        BY <3>2, <4>3, <4>4, <4>5 DEF Ahead
      <4>7. QED BY <2>3, <3>1, <4>6
    <3>4. result' # "ok"
      BY <1>4, <2>3
    <3>5. QED BY <1>3, <2>1, <3>3, <3>4 DEF OwedInv
  <2>4. QED BY <2>1, <2>2, <2>3
<1>6. ASSUME EndOfDir PROVE OwedInv'
  <2>1. /\ Iterate /\ frames' = Front(frames) /\ UNCHANGED <<tree, result, stable>>
        /\ (Top.todo = {} /\ errors' = errors) \/ errors' = errors + 1
    BY <1>6 DEF EndOfDir, Close, ReadErrors
  <2>2. /\ frames # <<>> /\ result = Null /\ Top = frames[Len(frames)]
    BY <1>1, <2>1, IterateFacts
  <2>3. errors' = 0 => Top.todo = {} /\ errors = 0
    BY <1>2, <2>1
  <2>4. ASSUME NEW p, Top.todo = {}, Ahead(frames, p) PROVE Ahead(frames', p)
    <3>1. PICK fs, gs, m : fs = frames /\ gs = Front(fs) /\ m = Len(fs)
      OBVIOUS
    <3>2. /\ Stack(gs) /\ Len(gs) = m - 1 /\ \A i \in 1..(m - 1) : gs[i] = fs[i]
          /\ DOMAIN fs = 1..m /\ m \in Nat
      BY <1>2, <2>2, <3>1, StackFront, StackFacts
    <3>3. DOMAIN gs = 1..(m - 1)
      BY <3>2, StackFacts
    <3>4. PICK i \in 1..m : i <= Len(p) /\ Upto(p, i - 1) = fs[i].dir /\ p[i] \in fs[i].todo
      BY <2>4, <3>1, <3>2 DEF Ahead
    <3>5. i # m
      BY <2>2, <2>4, <3>1, <3>4
    <3>6. i \in 1..(m - 1)
      BY <3>2, <3>4, <3>5
    <3>7. Ahead(gs, p)
      BY <3>2, <3>3, <3>4, <3>6 DEF Ahead
    <3>8. QED BY <2>1, <3>1, <3>7
  <2>5. result' = Null /\ result' # "ok"
    BY <1>4, <2>1, <2>2
  <2>6. \A p \in stable' : p \in stable /\ p \in DOMAIN tree' /\ tree'[p] = "file"
    BY <1>3, <2>1
  <2>7. errors' = 0 => \A p \in stable' : Owes(p) /\ Ahead(frames, p) => Ahead(frames', p)
    BY <2>3, <2>4
  <2>8. QED BY <1>1, <1>2, <2>2, <2>3, <2>5, <2>6, <2>7, OwedSame
<1>7. ASSUME Abort \/ GiveUp PROVE OwedInv'
  <2>1. result' \in {"abort", "given up"} /\ UNCHANGED <<tree, stable>>
    BY <1>7 DEF Abort, GiveUp
  <2>2. QED BY <1>3, <1>4, <2>1 DEF OwedInv
<1>8. ASSUME Pause \/ Resume PROVE OwedInv'
  <2>1. /\ result \in {Null, "again"} /\ result' \in {Null, "again"}
        /\ UNCHANGED <<tree, frames, errors, stable>>
    BY <1>8 DEF Pause, Resume, Walking
  <2>2. result' # "ok"
    BY <1>4, <2>1
  <2>3. QED BY <1>1, <1>2, <1>3, <2>1, <2>2, OwedSame
<1>9. ASSUME Finish PROVE OwedInv'
  <2>1. /\ result = Null /\ UNCHANGED <<tree, frames, errors, stable>>
        /\ result' = IF errors > 0 THEN "error" ELSE "ok"
    BY <1>9 DEF Finish
  <2>2. errors > 0 <=> errors # 0
    BY <1>2
  <2>3. result' = "ok" => errors' = 0
    BY <2>1, <2>2
  <2>4. QED BY <1>1, <1>2, <1>3, <2>1, <2>3, OwedSame
<1>10. ASSUME NEW name \in Names, Entry(name) PROVE OwedInv'
  <2>1. PICK q, gs : q = Append(Top.dir, name) /\ gs = Taken(name)
    OBVIOUS
  <2>2. Iterate /\ q \in Path /\ Handled(q, gs) /\ UNCHANGED result
    BY <1>1, <1>10, <2>1, EntryFacts
  <2>3. result = Null /\ result' # "ok"
    BY <1>1, <1>4, <2>2, IterateFacts
  <2>4. errors' = errors \/ errors' = errors + 1
    BY <2>2, Zenon DEF Handled
  <2>5. errors' = 0 => errors = 0 /\ errors' = errors
    BY <1>2, <2>4
  <2>6. \/ stable' = stable /\ tree' = tree
        \/ /\ stable' = stable \ {q}
           /\ tree' = tree \/ tree' = [r \in DOMAIN tree \ {q} |-> tree[r]]
    BY <2>2, Zenon DEF Handled
  <2>7. \A p \in stable' : p \in stable /\ p \in DOMAIN tree' /\ tree'[p] = "file"
    BY <1>3, <2>6
  <2>8. ASSUME errors' = errors, NEW p \in stable', Owes(p), Ahead(frames, p)
        PROVE  Ahead(frames', p)
    <3>1. p \in DOMAIN tree /\ tree[p] = "file"
      BY <1>3, <2>7
    <3>2. QED BY <1>1, <2>1, <2>2, <2>8, <3>1, EntryOwed
  <2>9. QED BY <1>1, <1>2, <2>2, <2>3, <2>5, <2>7, <2>8, OwedSame
<1>11. ASSUME Others PROVE OwedInv'
  <2>1. ASSUME NEW c \in Places, NEW kind \in Kinds, Create(c, kind) PROVE OwedInv'
    <3>1. UNCHANGED <<result, errors, stable>>
      BY <2>1, Zenon DEF Create
    <3>2. /\ DOMAIN tree \subseteq DOMAIN tree' /\ \A q \in DOMAIN tree : tree'[q] = tree[q]
          /\ Stack(frames') /\ Len(frames') = Len(frames)
          /\ \A i \in 1..Len(frames) : /\ frames'[i].dir = frames[i].dir
                                       /\ frames[i].todo \subseteq frames'[i].todo
      BY <1>2, <2>1, CreateFacts
    <3>3. DOMAIN frames = 1..Len(frames) /\ DOMAIN frames' = 1..Len(frames)
      BY <1>2, <3>2, StackFacts
    <3>4. ASSUME NEW p, Ahead(frames, p) PROVE Ahead(frames', p)
      BY <3>2, <3>3, <3>4 DEF Ahead
    <3>5. \A p \in stable' : p \in stable /\ p \in DOMAIN tree' /\ tree'[p] = "file"
      BY <1>3, <3>1, <3>2
    <3>6. result' = "ok" => errors' = 0
      BY <1>1, <3>1 DEF OwedInv
    <3>7. QED BY <1>1, <1>2, <3>1, <3>4, <3>5, <3>6, OwedSame
  <2>2. ASSUME NEW c \in DOMAIN tree, Vanish(c) PROVE OwedInv'
    <3>1. /\ tree' = [q \in DOMAIN tree \ {c} |-> tree[q]] /\ stable' = stable \ {c}
          /\ UNCHANGED <<frames, result, errors>>
      BY <2>2, Zenon DEF Vanish, cursor
    <3>2. \A p \in stable' : p \in stable /\ p \in DOMAIN tree' /\ tree'[p] = "file"
      BY <1>3, <3>1
    <3>3. result' = "ok" => errors' = 0
      BY <1>1, <3>1 DEF OwedInv
    <3>4. QED BY <1>1, <1>2, <3>1, <3>2, <3>3, OwedSame
  <2>3. QED BY <1>11, <2>1, <2>2 DEF Others
<1>12. CASE UNCHANGED vars
  <2>1. UNCHANGED <<tree, frames, result, errors, stable>>
    BY <1>12, Zenon DEF vars, cursor
  <2>2. result' = "ok" => errors' = 0
    BY <1>1, <2>1 DEF OwedInv
  <2>3. QED BY <1>1, <1>2, <1>3, <2>1, <2>2, OwedSame
<1>13. CASE Next
  BY <1>5, <1>6, <1>7, <1>8, <1>9, <1>10, <1>11, <1>13 DEF Next, Walker
<1>14. QED BY <1>1, <1>12, <1>13

\* In the beginning nothing is owed yet.
LEMMA OwedInit == Init => OwedInv
BY WalkAssumption DEF Init, OwedInv

\* A walk that reports success has visited every cache file that was there from its
\* beginning to its end and is not protected, whatever came and went meanwhile and
\* however the walk was sliced; otherwise it reports an error
\* (ngx_http_cache_purge_walk_step).
THEOREM NothingIsMissed == Spec => []NothingMissed
<1>1. Spec => []OwedInv
  BY OwedInit, OwedStep, CursorInvariant, PTL DEF Spec
<1>2. CursorInv /\ OwedInv => NothingMissed
  <2>1. SUFFICES ASSUME CursorInv, OwedInv, result = "ok", NEW p \in stable
                 PROVE  MustKeep(p) \/ Last(p) \notin CacheNames
    BY DEF NothingMissed
  <2>2. frames = <<>> /\ errors = 0
    BY <2>1, WalkAssumption DEF CursorInv, FramesInv, OwedInv
  <2>3. ~Ahead(frames, p)
    BY <2>2 DEF Ahead
  <2>4. QED BY <2>1, <2>2, <2>3 DEF OwedInv
<1>3. QED BY <1>1, <1>2, CursorInvariant, PTL

-----------------------------------------------------------------------------
(* Sequences of bytes, and the comparison of selectors *)

KeyBytes == DOMAIN Lower

\* What a tag in front of a name is good for: both can be told from the whole.
LEMMA TagFacts ==
  ASSUME NEW S, NEW s \in Seq(S), NEW a
  PROVE  /\ Head(<<a>> \o s) = a
         /\ Tail(<<a>> \o s) = s
         /\ Len(<<a>> \o s) = Len(s) + 1
<1> DEFINE U == S \cup {a}
<1>1. s \in Seq(U) /\ <<a>> \in Seq(U)
  OBVIOUS
<1> HIDE DEF U
<1>2. /\ <<a>> \o s \in Seq(U)
      /\ Len(<<a>> \o s) = Len(s) + 1
      /\ (<<a>> \o s)[1] = a
      /\ \A i \in 1..Len(s) : (<<a>> \o s)[i + 1] = s[i]
  BY <1>1
<1>3. Head(<<a>> \o s) = a
  BY <1>2
<1>4. Tail(<<a>> \o s) \in Seq(U) /\ Len(Tail(<<a>> \o s)) = Len(s)
  BY <1>1, <1>2
<1>5. \A i \in 1..Len(s) : Tail(<<a>> \o s)[i] = s[i]
  BY <1>1, <1>2
<1>6. Tail(<<a>> \o s) = s
  BY <1>1, <1>4, <1>5
<1>7. QED BY <1>2, <1>3, <1>6

\* The image of a text has its length, and the image of each of its bytes.
LEMMA LoweredFacts ==
  ASSUME NEW s \in Seq(KeyBytes)
  PROVE  /\ Lowered(s) \in Seq({Lower[b] : b \in KeyBytes})
         /\ Len(Lowered(s)) = Len(s)
         /\ \A i \in 1..Len(s) : Lowered(s)[i] = Lower[s[i]]
<1>1. DOMAIN s = 1..Len(s) /\ Len(s) \in Nat /\ \A i \in 1..Len(s) : s[i] \in KeyBytes
  OBVIOUS
<1>2. Lowered(s) = [i \in 1..Len(s) |-> Lower[s[i]]]
  BY <1>1 DEF Lowered
<1>3. QED BY <1>1, <1>2

\* A prefix, byte by byte.
LEMMA PrefixBytes ==
  ASSUME NEW S, NEW s \in Seq(S), NEW t \in Seq(S)
  PROVE  IsPrefix(s, t) <=> /\ Len(s) <= Len(t)
                            /\ \A i \in 1..Len(s) : s[i] = t[i]
<1>1. Len(s) \in Nat /\ Len(t) \in Nat
  OBVIOUS
<1>2. SubSeq(s, 1, Len(s)) = [i \in 1..Len(s) |-> s[i]]
  OBVIOUS
<1>3. ASSUME Len(s) <= Len(t) PROVE SubSeq(t, 1, Len(s)) = [i \in 1..Len(s) |-> t[i]]
  BY <1>1, <1>3
<1>4. ASSUME Len(s) <= Len(t)
      PROVE  SubSeq(s, 1, Len(s)) = SubSeq(t, 1, Len(s)) <=> \A i \in 1..Len(s) : s[i] = t[i]
  BY <1>2, <1>3, <1>4
<1>5. QED BY <1>4 DEF IsPrefix

\* The bytes of a cache file from its key on: the key, and a newline.
LEMMA BufferFacts ==
  ASSUME NEW s \in Seq(KeyBytes)
  PROVE  /\ s \o <<LF>> \in Seq(KeyBytes)
         /\ Len(s \o <<LF>>) = Len(s) + 1
         /\ \A i \in 1..Len(s) : (s \o <<LF>>)[i] = s[i]
         /\ (s \o <<LF>>)[Len(s) + 1] = LF
<1>1. <<LF>> \in Seq(KeyBytes) /\ Len(<<LF>>) = 1 /\ <<LF>>[1] = LF
  BY SelectorsAssumption DEF KeyBytes
<1>2. QED BY <1>1

\* Keys of requests and of files are texts, and no namespace is too long.
LEMMA TextFacts ==
  /\ \A k \in Keys : k \in Seq(KeyBytes)
  /\ \A e \in Entries : e.key \in Seq(KeyBytes)
  /\ \A ns \in Namespaces : ns \in Seq(KeyBytes) /\ Len(ns) <= KeyMax
  /\ KeyMax \in Nat \ {0}
BY SelectorsAssumption DEF Entries, KeyBytes

\* A walk without a selector deletes every file of its namespace, or every file.
LEMMA WholeWalk ==
  ASSUME NEW ns, NEW e \in Entries
  PROVE  Deletes([key |-> <<>>, exact |-> FALSE, ns |-> ns], e)
            <=> (ns # None => e.stale = ns)
<1> DEFINE x == [key |-> <<>>, exact |-> FALSE, ns |-> ns]
           buffer == e.key \o <<LF>>
<1>1. e.key \in Seq(KeyBytes) /\ KeyMax \in Nat \ {0}
  BY TextFacts
<1>2. buffer \in Seq(KeyBytes) /\ Len(buffer) \in Nat
  BY <1>1, BufferFacts
<1>3. SubSeq(buffer, 1, 0) = <<>> /\ Len(<<>>) = 0
  BY <1>2
<1>4. x.key = <<>> /\ x.exact = FALSE /\ x.ns = ns
  OBVIOUS
<1> HIDE DEF x, buffer
<1>5. KeyMatches(x, buffer)
  BY <1>3, <1>4 DEF KeyMatches
<1>6. Deletes(x, e) <=>
         /\ Len(x.key) < KeyMax
         /\ x.exact => x.key # <<>>
         /\ Len(buffer) >= Len(x.key) + (IF x.exact THEN 1 ELSE 0)
         /\ x.ns # None => e.stale = x.ns
         /\ KeyMatches(x, buffer)
  BY DEF Deletes, buffer
<1>7. Deletes(x, e) <=> (ns # None => e.stale = ns)
  BY <1>1, <1>2, <1>3, <1>4, <1>5, <1>6
<1>8. QED BY <1>7 DEF x

\* A walk for a prefix deletes the files whose key begins with it whatever the
\* case, and those whose key it is but for a newline.
LEMMA PrefixWalk ==
  ASSUME NEW p \in Seq(KeyBytes), Len(p) < KeyMax, NEW e \in Entries
  PROVE  Deletes([key |-> p, exact |-> FALSE, ns |-> None], e)
            <=> \/ IsPrefix(Lowered(p), Lowered(e.key))
                \/ Lowered(p) = Lowered(e.key \o <<LF>>)
<1> DEFINE x == [key |-> p, exact |-> FALSE, ns |-> None]
           buffer == e.key \o <<LF>>
           len == Len(p)
           m == Len(e.key)
           Image == {Lower[b] : b \in KeyBytes}
<1>1. e.key \in Seq(KeyBytes) /\ KeyMax \in Nat \ {0} /\ len \in Nat /\ m \in Nat
  BY TextFacts
<1>2. /\ buffer \in Seq(KeyBytes) /\ Len(buffer) = m + 1
      /\ \A i \in 1..m : buffer[i] = e.key[i]
  BY <1>1, BufferFacts
<1>3. x.key = p /\ x.exact = FALSE /\ x.ns = None
  OBVIOUS
<1>4. /\ Lowered(p) \in Seq(Image) /\ Len(Lowered(p)) = len
      /\ \A i \in 1..len : Lowered(p)[i] = Lower[p[i]]
  BY LoweredFacts
<1>5. /\ Lowered(e.key) \in Seq(Image) /\ Len(Lowered(e.key)) = m
      /\ \A i \in 1..m : Lowered(e.key)[i] = Lower[e.key[i]]
  BY <1>1, LoweredFacts
<1>6. /\ Lowered(buffer) \in Seq(Image) /\ Len(Lowered(buffer)) = m + 1
      /\ \A i \in 1..m + 1 : Lowered(buffer)[i] = Lower[buffer[i]]
  BY <1>2, LoweredFacts
<1>7. IsPrefix(Lowered(p), Lowered(e.key)) <=>
         len <= m /\ \A i \in 1..len : Lower[p[i]] = Lower[e.key[i]]
  <2>1. IsPrefix(Lowered(p), Lowered(e.key)) <=>
           len <= m /\ \A i \in 1..len : Lowered(p)[i] = Lowered(e.key)[i]
    <3> HIDE DEF Image, len, m
    <3>1. \A s \in Seq(Image), t \in Seq(Image) :
             IsPrefix(s, t) <=> Len(s) <= Len(t) /\ \A i \in 1..Len(s) : s[i] = t[i]
      BY PrefixBytes
    <3>2. QED BY <1>4, <1>5, <3>1
  <2>2. ASSUME len <= m, NEW i \in 1..len PROVE i \in 1..m
    BY <1>1, <2>2
  <2> HIDE DEF len, m
  <2>3. ASSUME len <= m
        PROVE  (\A i \in 1..len : Lowered(p)[i] = Lowered(e.key)[i])
                  <=> \A i \in 1..len : Lower[p[i]] = Lower[e.key[i]]
    BY <1>4, <1>5, <2>2, <2>3
  <2>4. QED BY <2>1, <2>3
<1> HIDE DEF x, buffer
<1>8. Deletes(x, e) <=> len <= m + 1 /\ Lowered(SubSeq(buffer, 1, len)) = Lowered(p)
  <2>1. Deletes(x, e) <=>
           /\ Len(x.key) < KeyMax
           /\ x.exact => x.key # <<>>
           /\ Len(buffer) >= Len(x.key) + (IF x.exact THEN 1 ELSE 0)
           /\ x.ns # None => e.stale = x.ns
           /\ KeyMatches(x, buffer)
    BY DEF Deletes, buffer
  <2>2. KeyMatches(x, buffer) <=> Lowered(SubSeq(buffer, 1, len)) = Lowered(p)
    BY <1>3 DEF KeyMatches
  <2>3. QED BY <1>1, <1>2, <1>3, <2>1, <2>2
<1>9. CASE len <= m
  <2> DEFINE part == SubSeq(buffer, 1, len)
  <2>1. /\ part \in Seq(KeyBytes) /\ Len(part) = len
        /\ \A i \in 1..len : part[i] = buffer[i] /\ buffer[i] = e.key[i]
    BY <1>1, <1>2, <1>9
  <2> HIDE DEF part
  <2>2. /\ Lowered(part) \in Seq(Image) /\ Len(Lowered(part)) = len
        /\ \A i \in 1..len : Lowered(part)[i] = Lower[part[i]]
    BY <2>1, LoweredFacts
  <2> HIDE DEF len, m, Image
  <2>3. Lowered(part) = Lowered(p) <=>
           \A i \in 1..len : Lowered(part)[i] = Lowered(p)[i]
    BY <1>4, <2>2
  <2>4. \A i \in 1..len : /\ Lowered(p)[i] = Lower[p[i]]
                        /\ Lowered(part)[i] = Lower[e.key[i]]
    BY <1>4, <2>1, <2>2
  <2>5. Lowered(part) = Lowered(p) <=> \A i \in 1..len : Lower[p[i]] = Lower[e.key[i]]
    BY <2>3, <2>4
  <2>6. Lowered(p) # Lowered(buffer)
    BY <1>1, <1>4, <1>6, <1>9
  <2>7. len <= m + 1
    BY <1>1, <1>9
  <2>8. Deletes(x, e) <=> IsPrefix(Lowered(p), Lowered(e.key))
    BY <1>7, <1>8, <1>9, <2>5, <2>7 DEF part
  <2>9. QED BY <2>6, <2>8 DEF x, buffer
<1>10. CASE len = m + 1
  <2>1. SubSeq(buffer, 1, len) = buffer
    BY <1>1, <1>2, <1>10
  <2>2. ~(len <= m) /\ len <= m + 1
    BY <1>1, <1>10
  <2> HIDE DEF len, m, Image
  <2>3. Deletes(x, e) <=> Lowered(buffer) = Lowered(p)
    BY <1>8, <2>1, <2>2
  <2>4. ~IsPrefix(Lowered(p), Lowered(e.key))
    BY <1>7, <2>2
  <2>5. QED BY <2>3, <2>4 DEF x, buffer
<1>11. CASE len > m + 1
  <2>1. ~(len <= m) /\ ~(len <= m + 1)
    BY <1>1, <1>11
  <2>2. Lowered(p) # Lowered(buffer)
    BY <1>1, <1>4, <1>6, <1>11
  <2>3. QED BY <1>7, <1>8, <2>1, <2>2 DEF x, buffer
<1>12. QED BY <1>1, <1>9, <1>10, <1>11

\* A walk for an exact key deletes the file that has it, and those whose key
\* goes on after a newline.
LEMMA ExactWalk ==
  ASSUME NEW k \in Seq(KeyBytes), k # <<>>, Len(k) < KeyMax,
         NEW e \in Entries
  PROVE  Deletes([key |-> k, exact |-> TRUE, ns |-> None], e)
            <=> e.key = k \/ IsPrefix(k \o <<LF>>, e.key)
<1> DEFINE x == [key |-> k, exact |-> TRUE, ns |-> None]
           buffer == e.key \o <<LF>>
           sought == k \o <<LF>>
           len == Len(k)
           m == Len(e.key)
<1>0. \A s \in Seq(KeyBytes), t \in Seq(KeyBytes) :
         IsPrefix(s, t) <=> Len(s) <= Len(t) /\ \A i \in 1..Len(s) : s[i] = t[i]
  BY PrefixBytes
<1>1. e.key \in Seq(KeyBytes) /\ KeyMax \in Nat \ {0} /\ len \in Nat /\ m \in Nat
  BY TextFacts
<1>2. /\ buffer \in Seq(KeyBytes) /\ Len(buffer) = m + 1
      /\ \A i \in 1..m : buffer[i] = e.key[i]
      /\ buffer[m + 1] = LF
  BY <1>1, BufferFacts
<1>3. /\ sought \in Seq(KeyBytes) /\ Len(sought) = len + 1
      /\ \A i \in 1..len : sought[i] = k[i]
      /\ sought[len + 1] = LF
  BY BufferFacts
<1>4. x.key = k /\ x.exact = TRUE /\ x.ns = None
  OBVIOUS
<1> HIDE DEF x, buffer, sought
<1>5. Deletes(x, e) <=> len + 1 <= m + 1 /\ IsPrefix(sought, buffer)
  <2>1. Deletes(x, e) <=>
           /\ Len(x.key) < KeyMax
           /\ x.exact => x.key # <<>>
           /\ Len(buffer) >= Len(x.key) + (IF x.exact THEN 1 ELSE 0)
           /\ x.ns # None => e.stale = x.ns
           /\ KeyMatches(x, buffer)
    BY DEF Deletes, buffer
  <2>2. KeyMatches(x, buffer) <=> IsPrefix(sought, buffer)
    BY <1>4 DEF KeyMatches, sought
  <2>3. QED BY <1>1, <1>2, <1>4, <2>1, <2>2
<1>6. IsPrefix(sought, buffer) <=>
         len + 1 <= m + 1 /\ \A i \in 1..len + 1 : sought[i] = buffer[i]
  <2> HIDE DEF len, m
  <2>1. IsPrefix(sought, buffer) <=>
           /\ Len(sought) <= Len(buffer)
           /\ \A i \in 1..Len(sought) : sought[i] = buffer[i]
    BY <1>0, <1>2, <1>3, Zenon
  <2>2. Len(sought) = len + 1 /\ Len(buffer) = m + 1
    BY <1>2, <1>3
  <2>3. QED BY <2>1, <2>2
<1>7. IsPrefix(sought, e.key) <=>
         len + 1 <= m /\ \A i \in 1..len + 1 : sought[i] = e.key[i]
  <2> HIDE DEF len, m
  <2>1. IsPrefix(sought, e.key) <=>
           /\ Len(sought) <= Len(e.key)
           /\ \A i \in 1..Len(sought) : sought[i] = e.key[i]
    BY <1>0, <1>1, <1>3, Zenon
  <2>2. Len(sought) = len + 1 /\ Len(e.key) = m
    BY <1>3 DEF m
  <2>3. QED BY <2>1, <2>2
<1>8. CASE len < m
  <2>1. 1..len + 1 \subseteq 1..m /\ len + 1 <= m + 1 /\ len + 1 <= m
    BY <1>1, <1>8
  <2>2. \A i \in 1..len + 1 : buffer[i] = e.key[i]
    BY <1>2, <2>1
  <2>3. e.key # k
    BY <1>1, <1>8
  <2>4. sought[len + 1] = LF /\ \A i \in 1..len + 1 : sought[i] = buffer[i] <=> sought[i] = e.key[i]
    BY <1>3, <2>2
  <2>5. Deletes(x, e) <=> IsPrefix(sought, e.key)
    BY <1>5, <1>6, <1>7, <2>1, <2>4
  <2>6. QED BY <2>3, <2>5 DEF x, sought
<1>9. CASE len = m
  <2>1. ~(len + 1 <= m) /\ len + 1 <= m + 1 /\ len + 1 \in 1..len + 1 /\ 1..len \subseteq 1..len + 1
        /\ \A i \in 1..len + 1 : i \in 1..len \/ i = len + 1
    BY <1>1, <1>9
  <2>2. sought[len + 1] = buffer[len + 1]
    BY <1>2, <1>3, <1>9
  <2>3. (\A i \in 1..len + 1 : sought[i] = buffer[i]) <=> \A i \in 1..len : k[i] = e.key[i]
    BY <1>2, <1>3, <1>9, <2>1, <2>2
  <2>4. e.key = k <=> \A i \in 1..len : k[i] = e.key[i]
    BY <1>1, <1>9
  <2>5. ~IsPrefix(sought, e.key)
    BY <1>7, <2>1
  <2>6. Deletes(x, e) <=> e.key = k
    BY <1>5, <1>6, <2>1, <2>3, <2>4
  <2>7. QED BY <2>5, <2>6 DEF x, sought
<1>10. CASE len > m
  <2>1. ~(len + 1 <= m) /\ ~(len + 1 <= m + 1) /\ e.key # k
    BY <1>1, <1>10
  <2>2. QED BY <1>5, <1>7, <2>1 DEF x, sought
<1>11. QED BY <1>1, <1>8, <1>9, <1>10

-----------------------------------------------------------------------------
(* What a request looks for, and what it is about *)

\* What the walk of a request looks for: its own context, or that of the worker
\* that claimed its task.
Walks(c, k, x) ==
    \/ Route(c, k) = "queue" /\ x = ClaimedContext(Index(c, k))
    \/ /\ Route(c, k) \in {"all", "partial", "exact"}
       /\ Route(c, k) = "exact" => c.vary /\ k # <<>>
       /\ x = OwnContext(Route(c, k), k)

\* The routes, each with the conditions that lead to it.
LEMMA RouteFacts ==
  ASSUME NEW c, NEW k
  PROVE  /\ Route(c, k) \in {"refused", "queue", "all", "partial", "exact"}
         /\ Route(c, k) = "refused" => TooLong(c, k)
         /\ Route(c, k) = "queue" => ~TooLong(c, k) /\ Queued(c, k)
         /\ Route(c, k) \in {"all", "partial", "exact"}
               => ~TooLong(c, k) /\ ~Queued(c, k)
         /\ Route(c, k) = "all" => c.all
         /\ Route(c, k) = "partial" => ~c.all /\ IsPartial(k)
         /\ Route(c, k) = "exact" => ~c.all /\ ~IsPartial(k)
BY DEF Route

\* A key that is queued fits into its task.
LEMMA QueuedFits ==
  ASSUME NEW c \in Locations, NEW k \in Keys,
         Route(c, k) = "queue"
  PROVE  ~Declined(c, k) /\ Len(Index(c, k)) <= KeyMax + 1
<1>1. ~TooLong(c, k) /\ Queued(c, k)
  BY RouteFacts
<1>2. k \in Seq(KeyBytes) /\ KeyMax \in Nat \ {0} /\ <<>> \in Seq(KeyBytes) /\ Len(<<>>) = 0
  BY TextFacts
<1>3. CASE c.ns # None
  <2>1. c.ns \in Seq(KeyBytes) /\ Len(c.ns) <= KeyMax
    BY <1>3, TextFacts DEF Locations
  <2>2. Len(Index(c, k)) = Len(c.ns) + 1
    BY <1>3, <2>1, TagFacts DEF Index
  <2>3. ~Declined(c, k)
    BY <1>1, <1>3 DEF TooLong, Declined
  <2>4. QED BY <1>2, <2>1, <2>2, <2>3
<1>4. CASE c.ns = None
  <2> DEFINE kept == IF c.all THEN <<>> ELSE k
  <2>1. ~c.all => Len(k) <= KeyMax
    BY <1>1, <1>2, <1>4 DEF TooLong, Queued
  <2>2. kept \in Seq(KeyBytes) /\ Len(kept) <= KeyMax
    BY <1>2, <2>1
  <2>3. Index(c, k) = <<"L">> \o kept
    BY <1>4 DEF Index
  <2> HIDE DEF kept
  <2>4. Len(Index(c, k)) = Len(kept) + 1
    BY <2>2, <2>3, TagFacts
  <2>5. ~Declined(c, k)
    BY <1>2, <1>4, <2>1 DEF Declined
  <2>6. QED BY <1>2, <2>2, <2>4, <2>5
<1>5. QED BY <1>3, <1>4

\* A prefix without its star is a text that the walk accepts.
LEMMA PrefixFacts ==
  ASSUME NEW k \in Keys, IsPartial(k), Len(k) <= KeyMax
  PROVE  /\ Front(k) \in Seq(KeyBytes) /\ Len(Front(k)) < KeyMax
         /\ WithoutStar(k) = Front(k)
<1>1. k \in Seq(KeyBytes) /\ KeyMax \in Nat \ {0} /\ k # <<>>
  BY TextFacts DEF IsPartial
<1>2. Len(k) \in Nat /\ Len(k) > 0
  BY <1>1
<1>3. Front(k) \in Seq(KeyBytes) /\ Len(Front(k)) = Len(k) - 1
  <2>1. Front(k) = SubSeq(k, 1, Len(k) - 1)
    BY Zenon DEF Front
  <2>2. PICK ns \in Nat : Len(k) = ns + 1
    BY <1>2
  <2>3. SubSeq(k, 1, ns) \in Seq(KeyBytes) /\ Len(SubSeq(k, 1, ns)) = ns /\ Len(k) - 1 = ns
    BY <1>1, <2>2
  <2>4. QED BY <2>1, <2>3
<1>4. WithoutStar(k) = Front(k)
  BY DEF WithoutStar, IsPartial
<1>5. QED BY <1>1, <1>2, <1>3, <1>4

\* The context a worker makes of an index key.
LEMMA ClaimedFacts ==
  ASSUME NEW c \in Locations, NEW k \in Keys,
         Route(c, k) = "queue"
  PROVE  /\ c.ns # None =>
               ClaimedContext(Index(c, k)) = [key |-> <<>>, exact |-> FALSE, ns |-> c.ns]
         /\ c.ns = None /\ c.all =>
               ClaimedContext(Index(c, k)) = [key |-> <<>>, exact |-> FALSE, ns |-> None]
         /\ c.ns = None /\ ~c.all =>
               /\ IsPartial(k) /\ Len(k) <= KeyMax
               /\ ClaimedContext(Index(c, k))
                     = [key |-> Front(k), exact |-> FALSE, ns |-> None]
<1>1. ~TooLong(c, k) /\ Queued(c, k)
  BY RouteFacts
<1>2. k \in Seq(KeyBytes) /\ <<>> \in Seq(KeyBytes) /\ KeyMax \in Nat
  BY TextFacts
<1>3. ASSUME c.ns # None
      PROVE  ClaimedContext(Index(c, k)) = [key |-> <<>>, exact |-> FALSE, ns |-> c.ns]
  <2>1. c.ns \in Seq(KeyBytes)
    BY <1>3, TextFacts DEF Locations
  <2>2. Head(Index(c, k)) = "G" /\ Tail(Index(c, k)) = c.ns
    BY <1>3, <2>1, TagFacts DEF Index
  <2>3. QED BY <2>2 DEF ClaimedContext
<1>4. ASSUME c.ns = None, c.all
      PROVE  ClaimedContext(Index(c, k)) = [key |-> <<>>, exact |-> FALSE, ns |-> None]
  <2>1. Index(c, k) = <<"L">> \o <<>>
    BY <1>4 DEF Index
  <2>2. Head(Index(c, k)) = "L" /\ Tail(Index(c, k)) = <<>>
    BY <1>2, <2>1, TagFacts
  <2>3. QED BY <2>2 DEF ClaimedContext, WithoutStar
<1>5. ASSUME c.ns = None, ~c.all
      PROVE  /\ IsPartial(k) /\ Len(k) <= KeyMax
             /\ ClaimedContext(Index(c, k))
                   = [key |-> Front(k), exact |-> FALSE, ns |-> None]
  <2>1. IsPartial(k) /\ Len(k) <= KeyMax
    BY <1>1, <1>2, <1>5 DEF TooLong, Queued
  <2>2. Index(c, k) = <<"L">> \o k
    BY <1>5 DEF Index
  <2>3. Head(Index(c, k)) = "L" /\ Tail(Index(c, k)) = k
    BY <1>2, <2>2, TagFacts
  <2>4. ClaimedContext(Index(c, k))
           = [key |-> WithoutStar(k), exact |-> FALSE, ns |-> None]
    BY <2>3 DEF ClaimedContext
  <2>5. WithoutStar(k) = Front(k)
    BY Zenon, <2>1, PrefixFacts
  <2>6. QED BY <2>1, <2>4, <2>5
<1>6. QED BY <1>3, <1>4, <1>5

\* Whatever way a selector takes, the walk deletes the files the request is
\* about, and of others only those that have a newline at a border of the key.
LEMMA WalkMeans ==
  ASSUME NEW c \in Locations, NEW k \in Keys, NEW x, Walks(c, k, x)
  PROVE  {e \in Entries : Deletes(x, e)}
            = Meant(c, k) \cup Continued(c, k) \cup Ended(c, k)
<1> DEFINE Right == Meant(c, k) \cup Continued(c, k) \cup Ended(c, k)
<1>1. Right \subseteq Entries
  BY DEF Meant, Continued, Ended
<1>2. SUFFICES ASSUME NEW e \in Entries PROVE Deletes(x, e) <=> e \in Right
  BY <1>1
<1>3. /\ e \in Meant(c, k) <=>
            IF c.ns # None THEN e.stale = c.ns
            ELSE c.all \/ IF IsPartial(k)
                          THEN IsPrefix(Lowered(Front(k)), Lowered(e.key))
                          ELSE e.key = k
      /\ e \in Continued(c, k) <=>
            ~c.all /\ Route(c, k) = "exact" /\ IsPrefix(k \o <<LF>>, e.key)
      /\ e \in Ended(c, k) <=>
            /\ c.ns = None /\ ~c.all /\ IsPartial(k)
            /\ Lowered(Front(k)) = Lowered(e.key \o <<LF>>)
  BY Zenon DEF Meant, Continued, Ended
<1> HIDE DEF Right
<1>4. e \in Right <=> \/ e \in Meant(c, k)
                      \/ e \in Continued(c, k)
                      \/ e \in Ended(c, k)
  BY Zenon DEF Right
<1>5. ASSUME IsPartial(k), Len(k) <= KeyMax, c.ns = None, ~c.all, Route(c, k) # "exact",
             x = [key |-> Front(k), exact |-> FALSE, ns |-> None]
      PROVE  Deletes(x, e) <=> e \in Right
  <2>1. Front(k) \in Seq(KeyBytes) /\ Len(Front(k)) < KeyMax
    BY <1>5, PrefixFacts
  <2>2. Deletes(x, e)
           <=> \/ IsPrefix(Lowered(Front(k)), Lowered(e.key))
               \/ Lowered(Front(k)) = Lowered(e.key \o <<LF>>)
    BY <1>5, <2>1, PrefixWalk
  <2>3. QED BY <1>3, <1>4, <1>5, <2>2
<1>6. CASE Route(c, k) = "queue" /\ x = ClaimedContext(Index(c, k))
  <2>1. CASE c.ns # None
    <3>1. Deletes(x, e) <=> e.stale = c.ns
      BY <1>6, <2>1, ClaimedFacts, WholeWalk
    <3>2. QED BY <1>3, <1>4, <1>6, <2>1, <3>1
  <2>2. CASE c.ns = None /\ c.all
    <3>1. Deletes(x, e)
      BY <1>6, <2>2, ClaimedFacts, WholeWalk
    <3>2. QED BY <1>3, <1>4, <2>2, <3>1
  <2>3. CASE c.ns = None /\ ~c.all
    <3>1. Route(c, k) = "queue"
      BY <1>6
    <3>2. /\ IsPartial(k) /\ Len(k) <= KeyMax
          /\ ClaimedContext(Index(c, k))
                = [key |-> Front(k), exact |-> FALSE, ns |-> None]
      BY Zenon, <2>3, <3>1, ClaimedFacts
    <3>3. x = [key |-> Front(k), exact |-> FALSE, ns |-> None]
      BY <1>6, <3>2
    <3>4. Route(c, k) # "exact"
      BY <3>1
    <3>5. QED BY <1>5, <2>3, <3>2, <3>3, <3>4
  <2>4. QED BY <2>1, <2>2, <2>3
<1>7. CASE /\ Route(c, k) \in {"all", "partial", "exact"}
           /\ Route(c, k) = "exact" => c.vary /\ k # <<>>
           /\ x = OwnContext(Route(c, k), k)
  <2>1. ~TooLong(c, k) /\ ~Queued(c, k)
    BY <1>7, RouteFacts
  <2>2. c.ns = None
    BY <2>1 DEF Queued
  <2>3. k \in Seq(KeyBytes) /\ Len(k) \in Nat /\ KeyMax \in Nat
    BY TextFacts
  <2>4. CASE Route(c, k) = "all"
    <3>1. c.all /\ x = [key |-> <<>>, exact |-> FALSE, ns |-> None]
      BY <1>7, <2>4, RouteFacts DEF OwnContext
    <3>2. Deletes(x, e)
      BY <3>1, WholeWalk
    <3>3. QED BY <1>3, <1>4, <2>2, <3>1, <3>2
  <2>5. CASE Route(c, k) = "partial"
    <3>1. ~c.all /\ IsPartial(k)
      BY <2>5, RouteFacts
    <3>2. Len(k) <= KeyMax
      BY <2>1, <2>2, <2>3, <3>1 DEF TooLong
    <3>3. x = [key |-> Front(k), exact |-> FALSE, ns |-> None]
      BY <1>7, <2>5 DEF OwnContext
    <3>4. QED BY <1>5, <2>2, <2>5, <3>1, <3>2, <3>3
  <2>6. CASE Route(c, k) = "exact"
    <3>1. ~c.all /\ ~IsPartial(k) /\ c.vary /\ k # <<>>
      BY <1>7, <2>6, RouteFacts
    <3>2. Len(k) < KeyMax
      BY <2>1, <2>2, <2>3, <3>1 DEF TooLong
    <3>3. x = [key |-> k, exact |-> TRUE, ns |-> None]
      BY <1>7, <2>6 DEF OwnContext
    <3>4. Deletes(x, e) <=> e.key = k \/ IsPrefix(k \o <<LF>>, e.key)
      BY <2>3, <3>1, <3>2, <3>3, ExactWalk
    <3>5. QED BY <1>3, <1>4, <2>2, <2>6, <3>1, <3>4
  <2>7. QED BY <1>7, <2>4, <2>5, <2>6
<1>8. QED BY <1>6, <1>7 DEF Walks

\* Requests whose tasks have the same index key are about the same files.
LEMMA IndexMeans ==
  ASSUME NEW c \in Locations, NEW k \in Keys,
         NEW d \in Locations, NEW l \in Keys,
         Route(c, k) = "queue", Route(d, l) = "queue", Index(c, k) = Index(d, l)
  PROVE  Meant(c, k) = Meant(d, l)
<1>1. Queued(c, k) /\ Queued(d, l)
  BY RouteFacts
<1>2. <<>> \in Seq(KeyBytes) /\ k \in Seq(KeyBytes) /\ l \in Seq(KeyBytes)
  BY TextFacts
<1>3. ASSUME NEW b \in Locations, NEW j \in Keys
      PROVE  /\ b.ns # None => /\ Head(Index(b, j)) = "G"
                               /\ Tail(Index(b, j)) = b.ns
             /\ b.ns = None => /\ Head(Index(b, j)) = "L"
                               /\ Tail(Index(b, j)) = IF b.all THEN <<>> ELSE j
  <2>1. CASE b.ns # None
    <3>1. b.ns \in Seq(KeyBytes)
      BY <2>1, TextFacts DEF Locations
    <3>2. QED BY <2>1, <3>1, TagFacts DEF Index
  <2>2. CASE b.ns = None
    <3>1. (IF b.all THEN <<>> ELSE j) \in Seq(KeyBytes)
      BY <1>2, TextFacts
    <3>2. QED BY <2>2, <3>1, TagFacts DEF Index
  <2>3. QED BY <2>1, <2>2
<1>4. /\ c.ns # None => Head(Index(c, k)) = "G" /\ Tail(Index(c, k)) = c.ns
      /\ c.ns = None => /\ Head(Index(c, k)) = "L"
                        /\ Tail(Index(c, k)) = IF c.all THEN <<>> ELSE k
  BY <1>3
<1>5. /\ d.ns # None => Head(Index(d, l)) = "G" /\ Tail(Index(d, l)) = d.ns
      /\ d.ns = None => /\ Head(Index(d, l)) = "L"
                        /\ Tail(Index(d, l)) = IF d.all THEN <<>> ELSE l
  BY <1>3
<1>6. c.ns = d.ns
  BY <1>4, <1>5
<1>7. CASE c.ns # None
  BY <1>6, <1>7 DEF Meant
<1>8. CASE c.ns = None
  <2>1. (IF c.all THEN <<>> ELSE k) = (IF d.all THEN <<>> ELSE l)
    BY <1>4, <1>5, <1>6, <1>8
  <2>2. (~c.all => IsPartial(k)) /\ (~d.all => IsPartial(l))
    BY <1>1, <1>6, <1>8 DEF Queued
  <2>3. (~c.all => k # <<>>) /\ (~d.all => l # <<>>)
    BY <2>2 DEF IsPartial
  <2>4. (c.all <=> d.all) /\ (~c.all => k = l)
    BY <2>1, <2>3
  <2>5. QED BY <1>6, <1>8, <2>4 DEF Meant
<1>9. QED BY <1>7, <1>8

-----------------------------------------------------------------------------
(* The request in its stages *)

\* A request that was coalesced: queued like this one, under the same index key.
JoinConsistent ==
    joined = None \/ \E c \in Locations, k \in Keys :
                        /\ joined = [conf |-> c, key |-> k]
                        /\ Route(c, k) = "queue" /\ Route(conf, key) = "queue"
                        /\ Index(c, k) = Index(conf, key)

\* A request is in the stage its route led to; its task has its index key, and
\* its walk has what such a request looks for.
SelectorInv ==
    /\ conf \in Locations /\ key \in Keys
    /\ stage \in {"new", "refused", "queue", "all", "partial", "exact", "waiting", "dropped",
                  "native", "walk", "done"}
    /\ stage \in {"refused", "queue", "all", "partial", "exact"} => stage = Route(conf, key)
    /\ stage = "waiting" \/ task # None
          => Route(conf, key) = "queue" /\ task = Index(conf, key)
    /\ stage \in {"walk", "done"} => Walks(conf, key, context)
    /\ deleted = IF stage = "done" THEN {e \in Entries : Deletes(context, e)} ELSE {}
    /\ JoinConsistent

\* A new request has no task and no context.
LEMMA SelectorInit == SelectorsInit => SelectorInv
<1> SUFFICES ASSUME SelectorsInit PROVE SelectorInv
  OBVIOUS
<1>1. /\ stage = "new" /\ conf \in Locations /\ key \in Keys
      /\ task = None /\ joined = None /\ context = None /\ deleted = {}
  BY DEF SelectorsInit
<1>2. JoinConsistent
  BY <1>1 DEF JoinConsistent
<1>3. QED BY <1>1, <1>2 DEF SelectorInv

\* Every step keeps the invariant: it is the route, the index key or the context
\* of the request that the step stores.
LEMMA SelectorStep ==
  ASSUME SelectorInv, [SelectorsNext]_selectorsVars
  PROVE  SelectorInv'
<1>1. /\ conf \in Locations /\ key \in Keys
      /\ stage \in {"new", "refused", "queue", "all", "partial", "exact", "waiting", "dropped",
                    "native", "walk", "done"}
      /\ stage \in {"refused", "queue", "all", "partial", "exact"} => stage = Route(conf, key)
      /\ stage = "waiting" \/ task # None
            => Route(conf, key) = "queue" /\ task = Index(conf, key)
      /\ stage \in {"walk", "done"} => Walks(conf, key, context)
      /\ deleted = IF stage = "done" THEN {e \in Entries : Deletes(context, e)} ELSE {}
      /\ JoinConsistent
  BY DEF SelectorInv
<1>2. ASSUME UNCHANGED <<conf, key>>
      PROVE  /\ Route(conf, key)' = Route(conf, key)
             /\ Index(conf, key)' = Index(conf, key)
             /\ UNCHANGED joined => JoinConsistent'
             /\ UNCHANGED context => Walks(conf, key, context)' = Walks(conf, key, context)
  BY <1>1, <1>2 DEF JoinConsistent
<1>3. CASE Dispatch
  <2>1. /\ stage = "new" /\ stage' = Route(conf, key)
        /\ UNCHANGED <<conf, key, task, joined, context, deleted>>
    BY <1>3 DEF Dispatch
  <2>2. Route(conf, key) \in {"refused", "queue", "all", "partial", "exact"}
    BY RouteFacts
  <2>3. deleted = {}
    BY <1>1, <2>1
  <2>4. QED BY <1>1, <1>2, <2>1, <2>2, <2>3 DEF SelectorInv
<1>4. CASE Enqueue
  <2>1. stage = "queue" /\ UNCHANGED <<conf, key, joined, context, deleted>>
    BY <1>4 DEF Enqueue
  <2>2. Route(conf, key) = "queue" /\ ~Declined(conf, key)
    BY <1>1, <2>1, QueuedFits
  <2>3. stage' = "waiting" /\ task' = Index(conf, key)
    BY <1>4, <2>2 DEF Enqueue
  <2>4. QED BY <1>1, <1>2, <2>1, <2>2, <2>3 DEF SelectorInv
<1>5. CASE Claim
  <2>1. /\ stage = "waiting" /\ context' = ClaimedContext(task)
        /\ stage' \in {"walk", "dropped"}
        /\ UNCHANGED <<conf, key, task, joined, deleted>>
    BY <1>5 DEF Claim
  <2>2. Walks(conf, key, context)'
    BY <1>1, <1>2, <2>1 DEF Walks
  <2>3. QED BY <1>1, <1>2, <2>1, <2>2 DEF SelectorInv
<1>6. CASE Begin
  <2>1. /\ stage \in {"all", "partial", "exact"} /\ context' = OwnContext(stage, key)
        /\ stage' = IF stage = "exact" /\ (~conf.vary \/ key = <<>>) THEN "native" ELSE "walk"
        /\ UNCHANGED <<conf, key, task, joined, deleted>>
    BY <1>6 DEF Begin
  <2>2. stage = Route(conf, key)
    BY <1>1, <2>1
  <2>3. stage' = "walk" => Walks(conf, key, context)'
    BY <1>2, <2>1, <2>2 DEF Walks
  <2>4. QED BY <1>1, <1>2, <2>1, <2>3 DEF SelectorInv
<1>7. CASE Walk
  <2>1. /\ stage = "walk" /\ stage' = "done"
        /\ deleted' = {e \in Entries : Deletes(context, e)}
        /\ UNCHANGED <<conf, key, task, joined, context>>
    BY <1>7 DEF Walk
  <2>2. deleted' = {e \in Entries : Deletes(context', e)}
    BY <2>1
  <2>3. QED BY <1>1, <1>2, <2>1, <2>2 DEF SelectorInv
<1>8. CASE \E c \in Locations, k \in Keys : Join(c, k)
  <2>1. PICK c \in Locations, k \in Keys : Join(c, k)
    BY <1>8
  <2>2. /\ stage = "waiting" /\ Route(c, k) = "queue" /\ Index(c, k) = task
        /\ joined' = [conf |-> c, key |-> k]
        /\ UNCHANGED <<stage, conf, key, task, context, deleted>>
    BY <2>1 DEF Join
  <2>3. Route(conf, key) = "queue" /\ task = Index(conf, key)
    BY <1>1, <2>2
  <2>4. JoinConsistent'
    BY <1>2, <2>2, <2>3 DEF JoinConsistent
  <2>5. QED BY <1>1, <1>2, <2>2, <2>4 DEF SelectorInv
<1>9. CASE UNCHANGED selectorsVars
  <2>1. UNCHANGED <<stage, conf, key, task, joined, context, deleted>>
    BY <1>9 DEF selectorsVars
  <2>2. QED BY <1>1, <1>2, <2>1 DEF SelectorInv
<1>10. QED BY <1>3, <1>4, <1>5, <1>6, <1>7, <1>8, <1>9 DEF SelectorsNext

\* The invariant holds throughout.
LEMMA SelectorInvariant == SelectorsSpec => []SelectorInv
<1>1. SelectorsInit => SelectorInv
  BY SelectorInit
<1>2. SelectorInv /\ [SelectorsNext]_selectorsVars => SelectorInv'
  BY SelectorStep
<1>3. QED BY <1>1, <1>2, PTL DEF SelectorsSpec

\* No key that dispatch accepts is refused later, by the task or by the walk,
\* and whatever way it takes the walk deletes the files it is about.
THEOREM SelectorsDeleteWhatIsMeant == SelectorsSpec => []DeletesWhatIsMeant
<1>1. SelectorInv => DeletesWhatIsMeant
  <2> SUFFICES ASSUME SelectorInv PROVE DeletesWhatIsMeant
    OBVIOUS
  <2>1. /\ conf \in Locations /\ key \in Keys /\ stage # "declined"
        /\ task # None => /\ Route(conf, key) = "queue"
                          /\ task = Index(conf, key)
        /\ stage = "done" => Walks(conf, key, context)
        /\ deleted = IF stage = "done" THEN {e \in Entries : Deletes(context, e)} ELSE {}
    BY DEF SelectorInv
  <2>2. task # None => Len(task) <= KeyMax + 1
    BY <2>1, QueuedFits
  <2>3. stage = "done" => deleted = Meant(conf, key) \cup Continued(conf, key)
                                                   \cup Ended(conf, key)
    BY <2>1, WalkMeans
  <2>4. task = None \/ Head(task) \in {"G", "L"}
    <3>1. ASSUME task # None, conf.ns # None PROVE Head(task) = "G"
      <4>1. conf.ns \in Seq(KeyBytes)
        BY <2>1, <3>1, TextFacts DEF Locations
      <4>2. QED BY <2>1, <3>1, <4>1, TagFacts DEF Index
    <3>2. ASSUME task # None, conf.ns = None PROVE Head(task) = "L"
      <4>1. (IF conf.all THEN <<>> ELSE key) \in Seq(KeyBytes)
        BY <2>1, TextFacts
      <4>2. QED BY <2>1, <3>2, <4>1, TagFacts DEF Index
    <3>3. QED BY <3>1, <3>2
  <2>5. deleted \subseteq Entries
    BY <2>1
  <2>6. QED BY <2>1, <2>2, <2>3, <2>4, <2>5 DEF DeletesWhatIsMeant, SelectorsTypeOK
<1>2. QED BY <1>1, SelectorInvariant, PTL

\* A request that joins the task of another one is about the same files.
THEOREM CoalescedSelectorsMeanTheSame == SelectorsSpec => []CoalescedMeanTheSame
<1>1. SelectorInv => CoalescedMeanTheSame
  <2> SUFFICES ASSUME SelectorInv, joined # None
               PROVE  Meant(joined.conf, joined.key) = Meant(conf, key)
    BY DEF CoalescedMeanTheSame
  <2>1. PICK c \in Locations, k \in Keys :
           /\ joined = [conf |-> c, key |-> k]
           /\ Route(c, k) = "queue" /\ Route(conf, key) = "queue"
           /\ Index(c, k) = Index(conf, key)
    BY DEF SelectorInv, JoinConsistent
  <2>2. conf \in Locations /\ key \in Keys
    BY DEF SelectorInv
  <2>3. Meant(c, k) = Meant(conf, key)
    BY <2>1, <2>2, IndexMeans
  <2>4. joined.conf = c /\ joined.key = k
    BY <2>1
  <2>5. QED BY <2>3, <2>4
<1>2. QED BY <1>1, SelectorInvariant, PTL
=============================================================================
