----------------------------- MODULE TextProofs -----------------------------
(***************************************************************************)
(* Proofs about Text, for every text: what its pieces are when it is taken *)
(* apart from the front (as nstr_split does), put together at the end (as  *)
(* nstr_cat does), or cut off because a buffer is full.  Pieces are        *)
(* counted by the separators up to them, so that no induction over texts is *)
(* needed.                                                                 *)
(***************************************************************************)
EXTENDS Text, Iteration, SequenceTheorems, FiniteSetTheorems, TLAPS

----------------------------------------------------------------------------
(* Counting the ends of pieces *)

\* Where the pieces of a text end, how many of them end up to e, and the end
\* of piece k: the parts of Pieces.
Ends(text, sep) ==
    {i \in DOMAIN text : text[i] = sep}
    \cup (IF text # <<>> /\ text[Len(text)] # sep
          THEN {Len(text) + 1} ELSE {})

Rank(E, e) == Cardinality({x \in E : x <= e})

EndOf(E, k) == CHOOSE e \in {0} \cup E : Rank(E, e) = k

\* A text is cut at positions: the parts up to each of them.
Parts(text, E) ==
    [k \in 1 .. Cardinality(E) |->
        SubSeq(text, EndOf(E, k - 1) + 1, EndOf(E, k) - 1)]

\* A finite set of positions
Positions(E) == E \subseteq Nat \ {0} /\ IsFiniteSet(E)

\* The ends of a text are positions, none further than one behind it.
LEMMA EndsType ==
    ASSUME NEW S, NEW text \in Seq(S), NEW sep
    PROVE  /\ Positions(Ends(text, sep))
           /\ Ends(text, sep) \subseteq 1 .. Len(text) + 1
<1>1. Ends(text, sep) \subseteq 1 .. Len(text) + 1 /\ Len(text) \in Nat
  BY DEF Ends
<1>2. IsFiniteSet(1 .. Len(text) + 1)
  BY <1>1, FS_Interval
<1>3. IsFiniteSet(Ends(text, sep))
  BY <1>1, <1>2, FS_Subset
<1>4. QED  BY <1>1, <1>3, SMT DEF Positions

\* Pieces are the parts up to its ends.
LEMMA PiecesParts ==
    ASSUME NEW S, NEW text \in Seq(S), NEW sep
    PROVE  Pieces(text, sep) = Parts(text, Ends(text, sep))
<1>1. Ends(text, sep) \in SUBSET Nat
  BY EndsType, SMT DEF Positions
<1>2. QED  BY <1>1 DEF Pieces, Parts, Ends, EndOf, Rank

\* Up to a later position there are more ends.
LEMMA RankGrows ==
    ASSUME NEW E, Positions(E), NEW d \in {0} \cup E, NEW e \in E, d < e
    PROVE  Rank(E, d) < Rank(E, e) /\ Rank(E, d) \in Nat /\ Rank(E, e) \in Nat
<1> DEFINE D == {x \in E : x <= d}
           F == {x \in E : x <= e}
<1>1. d \in Nat /\ e \in Nat /\ E \subseteq Nat
  BY SMT DEF Positions
<1>2. D \subseteq F /\ F \subseteq E /\ e \in F /\ e \notin D
  <2>1. (\A x \in E : x <= d => x <= e) /\ e <= e /\ ~(e <= d)
    BY <1>1, SMT
  <2>2. QED  BY <2>1
<1>3. IsFiniteSet(F) /\ IsFiniteSet(D)
  BY <1>2, FS_Subset DEF Positions
<1>4. Cardinality(D) <= Cardinality(F) /\ (Cardinality(F) = Cardinality(D) => F = D)
  BY <1>2, <1>3, FS_Subset
<1>5. Cardinality(D) \in Nat /\ Cardinality(F) \in Nat
  BY <1>3, FS_CardinalityType
<1>6. Cardinality(D) # Cardinality(F)
  BY <1>2, <1>4
<1> HIDE DEF D, F
<1>7. Cardinality(D) < Cardinality(F)
  BY <1>4, <1>5, <1>6, SMT
<1>8. QED  BY <1>5, <1>7 DEF Rank, D, F

\* The end of piece k is the one with k ends up to it.
LEMMA EndOfIs ==
    ASSUME NEW E, Positions(E), NEW k, NEW e \in {0} \cup E, Rank(E, e) = k
    PROVE  EndOf(E, k) = e
<1>1. ASSUME NEW d \in {0} \cup E, Rank(E, d) = k PROVE d = e
  <2>1. d \in Nat /\ e \in Nat /\ (d < e => e \in E) /\ (e < d => d \in E)
    BY SMT DEF Positions
  <2>2. CASE d < e
    BY <1>1, <2>1, <2>2, RankGrows, SMT
  <2>3. CASE e < d
    <3>1. Rank(E, e) < Rank(E, d) /\ Rank(E, e) \in Nat /\ Rank(E, d) \in Nat
      BY <2>1, <2>3, RankGrows
    <3>2. QED  BY <1>1, <3>1, SMT
  <2>4. QED  BY <2>1, <2>2, <2>3, SMT
<1>2. QED  BY <1>1 DEF EndOf

\* Nothing ends up to 0.
LEMMA RankOfZero ==
    ASSUME NEW E, Positions(E)
    PROVE  Rank(E, 0) = 0 /\ EndOf(E, 0) = 0
<1>1. {x \in E : x <= 0} = {}
  <2>1. \A x \in E : ~(x <= 0)
    BY SMT DEF Positions
  <2>2. QED  BY <2>1
<1>2. Rank(E, 0) = 0
  BY <1>1, FS_EmptySet DEF Rank
<1>3. QED  BY <1>2, EndOfIs

\* Every piece ends.
LEMMA EndOfRank ==
    ASSUME NEW E, Positions(E), NEW k \in 0 .. Cardinality(E)
    PROVE  EndOf(E, k) \in {0} \cup E /\ Rank(E, EndOf(E, k)) = k
<1> DEFINE m == Cardinality(E)
           K == {j \in 0 .. m : \E e \in {0} \cup E : Rank(E, e) = j}
<1>1. m \in Nat /\ IsFiniteSet(E) /\ E \subseteq Nat
  BY FS_CardinalityType, SMT DEF Positions
<1>2. 0 \in K
  BY <1>1, RankOfZero, SMT
<1>3. ASSUME NEW j \in 0 .. m - 1, j \in K PROVE j + 1 \in K
  <2>1. PICK e \in {0} \cup E : Rank(E, e) = j
    BY <1>3
  <2> DEFINE D == {x \in E : x <= e}
             F == {x \in E : x > e}
  <2>2. D # E
    BY <2>1, <1>1, SMT DEF Rank
  <2>3. e \in Nat /\ F # {} /\ F \subseteq Nat
    <3>1. e \in Nat /\ \A x \in E : x > e \/ x <= e
      BY <1>1, SMT
    <3>2. F # {}
      BY <2>2, <3>1
    <3>3. QED  BY <1>1, <3>1, <3>2
  <2> DEFINE f == Min(F)
  <2>4. f \in F /\ \A y \in F : f <= y
    BY <2>3, MinOfNats
  <2> HIDE DEF f
  <2>5. {x \in E : x <= f} = D \cup {f} /\ f \notin D /\ D \subseteq E
    <3>1. f \in E /\ f > e /\ f \in Nat
      BY <1>1, <2>4
    <3>2. \A x \in E : x > e => f <= x
      BY <2>4
    <3>3. /\ \A x \in E : x <= f <=> (x <= e \/ x = f)
          /\ f <= f /\ ~(f <= e)
      BY <1>1, <2>3, <3>1, <3>2, SMT
    <3>4. QED  BY <3>1, <3>3
  <2>6. IsFiniteSet(D)
    BY <1>1, <2>5, FS_Subset
  <2>7. Cardinality(D \cup {f}) = Cardinality(D) + 1
    BY <2>5, <2>6, FS_AddElement
  <2>8. Rank(E, f) = j + 1 /\ f \in {0} \cup E
    BY <2>1, <2>4, <2>5, <2>7 DEF Rank
  <2>9. j + 1 \in 0 .. m
    BY <1>1, SMT
  <2>10. QED  BY <2>8, <2>9
<1> HIDE DEF K
<1>4. k \in K
  <2> HIDE DEF m
  <2>1. 0 .. m \subseteq K
    BY <1>1, <1>2, <1>3, BoundedInduction
  <2>2. QED  BY <2>1 DEF m
<1>5. PICK e \in {0} \cup E : Rank(E, e) = k
  BY <1>4 DEF K
<1>6. QED  BY <1>5, EndOfIs

\* Parts are texts.
LEMMA PartsType ==
    ASSUME NEW S, NEW text \in Seq(S), NEW E, Positions(E),
           E \subseteq 1 .. Len(text) + 1
    PROVE  /\ Parts(text, E) \in Seq(Seq(S))
           /\ Len(Parts(text, E)) = Cardinality(E)
           /\ Cardinality(E) \in Nat
           /\ \A k \in 0 .. Cardinality(E) : EndOf(E, k) \in 0 .. Len(text) + 1
<1> DEFINE m == Cardinality(E)
           p == Parts(text, E)
<1>1. m \in Nat /\ Len(text) \in Nat
  BY LenProperties, FS_CardinalityType DEF Positions
<1> HIDE DEF m
<1>2. ASSUME NEW k \in 0 .. m PROVE EndOf(E, k) \in 0 .. Len(text) + 1
  <2>1. EndOf(E, k) \in {0} \cup E
    BY <1>1, EndOfRank DEF m
  <2> DEFINE e == EndOf(E, k)
  <2> HIDE DEF e
  <2>2. e \in {0} \cup E
    BY <2>1 DEF e
  <2>3. e \in 0 .. Len(text) + 1
    BY <1>1, <2>2, SMT
  <2>4. QED  BY <2>3 DEF e
<1>3. ASSUME NEW a \in 0 .. Len(text) + 1, NEW b \in 0 .. Len(text) + 1
      PROVE  SubSeq(text, a + 1, b - 1) \in Seq(S)
  <2>1. \A j \in a + 1 .. b - 1 : j \in 1 .. Len(text)
    BY SMT
  <2>2. \A j \in a + 1 .. b - 1 : text[j] \in S
    BY <2>1, ElementOfSeq
  <2>3. a + 1 \in Int /\ b - 1 \in Int
    BY SMT
  <2>4. QED  BY <2>2, <2>3, SubSeqProperties
<1>4. \A k \in 1 .. m : k \in 0 .. m /\ k - 1 \in 0 .. m
  BY <1>1, SMT
<1>5. p \in [1 .. m -> Seq(S)]
  BY <1>2, <1>3, <1>4 DEF Parts, m
<1> HIDE DEF p
<1>6. p \in Seq(Seq(S)) /\ Len(p) = m
  BY <1>1, <1>5, SMT
<1>7. QED  BY <1>1, <1>2, <1>6 DEF p, m

\* The pieces of a text are texts.
LEMMA PiecesType ==
    ASSUME NEW S, NEW text \in Seq(S), NEW sep
    PROVE  /\ Pieces(text, sep) \in Seq(Seq(S))
           /\ Len(Pieces(text, sep)) = Cardinality(Ends(text, sep))
BY PiecesParts, PartsType, EndsType

\* There is no piece of nothing.
LEMMA PiecesOfNothing ==
    ASSUME NEW S, NEW text \in Seq(S), NEW sep, text = <<>>
    PROVE  Pieces(text, sep) = <<>>
<1>1. Ends(text, sep) = {}
  BY SMT DEF Ends
<1>2. Len(Pieces(text, sep)) = 0 /\ Pieces(text, sep) \in Seq(Seq(S))
  BY <1>1, PiecesType, FS_EmptySet
<1>3. QED  BY <1>2, EmptySeq

----------------------------------------------------------------------------
(* The first piece, and the rest *)

\* An end at i, and others counted from there
FirstAnd(i, R) == {i} \cup {i + e : e \in R}

\* The ends behind the first are those of the rest.
LEMMA EndsSplit ==
    ASSUME NEW E, NEW R, NEW i \in Nat \ {0}, Positions(R),
           E = FirstAnd(i, R)
    PROVE  /\ Positions(E) /\ Cardinality(E) = Cardinality(R) + 1
           /\ EndOf(E, 0) = 0 /\ EndOf(E, 1) = i
           /\ \A k \in 0 .. Cardinality(R) : EndOf(E, k + 1) = i + EndOf(R, k)
<1> USE DEF Positions, FirstAnd
<1>1. ASSUME NEW T \in SUBSET R
      PROVE  /\ IsFiniteSet({i + e : e \in T} \cup {i})
             /\ Cardinality({i + e : e \in T} \cup {i}) = Cardinality(T) + 1
  <2> DEFINE U == {i + e : e \in T}
             f == [e \in T |-> i + e]
  <2>1. T \subseteq Nat \ {0} /\ IsFiniteSet(T)
    BY FS_Subset
  <2>2. f \in Bijection(T, U)
    BY <2>1, SMT DEF Bijection, Injection, Surjection, IsInjective
  <2> HIDE DEF f
  <2>3. IsFiniteSet(U) /\ Cardinality(U) = Cardinality(T)
    BY <2>1, <2>2, FS_Bijection DEF ExistsBijection
  <2>4. i \notin U
    BY <2>1, SMT
  <2> HIDE DEF U
  <2>5. IsFiniteSet(U \cup {i}) /\ Cardinality(U \cup {i}) = Cardinality(U) + 1
    BY <2>3, <2>4, FS_AddElement
  <2>6. QED  BY <2>3, <2>5 DEF U
<1>2. E = {i + e : e \in R} \cup {i}
  OBVIOUS
<1>3. IsFiniteSet(E) /\ Cardinality(E) = Cardinality(R) + 1
  BY <1>1, <1>2
<1>4. Positions(E)
  BY <1>3, SMT
<1>5. ASSUME NEW e \in {0} \cup R PROVE Rank(E, i + e) = Rank(R, e) + 1
  <2> DEFINE T == {x \in R : x <= e}
  <2>1. {x \in E : x <= i + e} = {i + x : x \in T} \cup {i}
    BY SMT
  <2>2. T \in SUBSET R
    OBVIOUS
  <2> HIDE DEF T
  <2>3. Cardinality({i + x : x \in T} \cup {i}) = Cardinality(T) + 1
    BY <1>1, <2>2
  <2>4. QED  BY <2>1, <2>3 DEF Rank, T
<1>6. ASSUME NEW k \in 0 .. Cardinality(R)
      PROVE  EndOf(E, k + 1) = i + EndOf(R, k)
  <2>1. EndOf(R, k) \in {0} \cup R /\ Rank(R, EndOf(R, k)) = k
    BY EndOfRank
  <2>2. Rank(E, i + EndOf(R, k)) = k + 1
    BY <1>5, <2>1
  <2>3. i + EndOf(R, k) \in {0} \cup E
    <3>1. CASE EndOf(R, k) = 0
      BY <3>1, SMT
    <3>2. CASE EndOf(R, k) \in R
      BY <3>2
    <3>3. QED  BY <2>1, <3>1, <3>2
  <2>4. QED  BY <1>4, <2>2, <2>3, EndOfIs
<1>7. Cardinality(R) \in Nat
  BY FS_CardinalityType
<1>8. EndOf(R, 0) = 0 /\ EndOf(E, 0) = 0
  BY <1>4, RankOfZero
<1>9. EndOf(E, 1) = i
  <2>1. 0 \in 0 .. Cardinality(R)
    BY <1>7, SMT
  <2>2. EndOf(E, 0 + 1) = i + EndOf(R, 0)
    BY <1>6, <2>1
  <2>3. QED  BY <1>8, <2>2, SMT
<1>10. QED  BY <1>3, <1>4, <1>6, <1>8, <1>9

\* The first separator of a text is at i, or there is none and the text ends
\* before i.
FirstEnd(text, sep, i) ==
    /\ i \in 1 .. Len(text) + 1
    /\ \A j \in 1 .. i - 1 : text[j] # sep
    /\ i <= Len(text) => text[i] = sep

\* What a split leaves
After(text, i) == SubSeq(text, i + 1, Len(text))

\* What is left has the characters behind the separator.
LEMMA AfterType ==
    ASSUME NEW S, NEW text \in Seq(S), NEW i \in 1 .. Len(text) + 1
    PROVE  /\ After(text, i) \in Seq(S) /\ Len(text) \in Nat
           /\ Len(After(text, i)) =
                IF i <= Len(text) THEN Len(text) - i ELSE 0
           /\ \A j \in 1 .. Len(text) - i : After(text, i)[j] = text[i + j]
<1>1. Len(text) \in Nat /\ \A j \in 1 .. Len(text) : text[j] \in S
  BY ElementOfSeq
<1> DEFINE m == i + 1
           n == Len(text)
<1>2. m \in Int /\ n \in Int /\ \A j \in m .. n : text[j] \in S
  BY <1>1, SMT
<1>3. /\ n - m + 1 = n - i /\ (m <= n <=> ~(i >= n))
      /\ \A j \in 1 .. n - i : m + j - 1 = i + j
  BY <1>1, SMT
<1> HIDE DEF m, n
<1>4. /\ SubSeq(text, m, n) \in Seq(S)
      /\ Len(SubSeq(text, m, n)) = IF m <= n THEN n - m + 1 ELSE 0
      /\ \A j \in 1 .. n - m + 1 : SubSeq(text, m, n)[j] = text[m + j - 1]
  BY <1>2, SubSeqProperties
<1>5. Len(SubSeq(text, m, n)) = IF i <= n THEN n - i ELSE 0
  BY <1>1, <1>3, <1>4, SMT DEF n
<1>6. \A j \in 1 .. n - i : SubSeq(text, m, n)[j] = text[i + j]
  BY <1>3, <1>4
<1>7. QED  BY <1>1, <1>4, <1>5, <1>6 DEF After, m, n

\* A part of what is left is a part of the whole.
LEMMA SubSeqOfAfter ==
    ASSUME NEW S, NEW text \in Seq(S), NEW i \in 1 .. Len(text) + 1,
           NEW a \in 0 .. Len(After(text, i)) + 1,
           NEW b \in 0 .. Len(After(text, i)) + 1
    PROVE  SubSeq(text, (i + a) + 1, (i + b) - 1) =
             SubSeq(After(text, i), a + 1, b - 1)
<1> DEFINE r == After(text, i)
           s == SubSeq(text, (i + a) + 1, (i + b) - 1)
           t == SubSeq(r, a + 1, b - 1)
<1>1. /\ r \in Seq(S) /\ Len(text) \in Nat
      /\ Len(r) = (IF i <= Len(text) THEN Len(text) - i ELSE 0)
      /\ \A j \in 1 .. Len(text) - i : r[j] = text[i + j]
  BY AfterType
<1> HIDE DEF r
<1>2. a \in 0 .. Len(r) + 1 /\ b \in 0 .. Len(r) + 1
  BY DEF r
<1>3. a \in Nat /\ b \in Nat /\ i \in Nat
  BY <1>1, <1>2, SMT
<1>4. \A j \in (i + a) + 1 .. (i + b) - 1 : j \in 1 .. Len(text)
  BY <1>1, <1>2, SMT
<1>5. \A j \in a + 1 .. b - 1 : j \in 1 .. Len(r)
  BY <1>1, <1>2, SMT
<1>6. /\ (i + a) + 1 \in Int /\ (i + b) - 1 \in Int
      /\ a + 1 \in Int /\ b - 1 \in Int
  BY <1>3, SMT
<1>7. /\ s \in Seq(S)
      /\ Len(s) = IF (i + a) + 1 <= (i + b) - 1
                  THEN ((i + b) - 1) - ((i + a) + 1) + 1 ELSE 0
      /\ \A j \in 1 .. ((i + b) - 1) - ((i + a) + 1) + 1 :
           s[j] = text[((i + a) + 1) + j - 1]
  <2>1. \A j \in (i + a) + 1 .. (i + b) - 1 : text[j] \in S
    BY <1>4, ElementOfSeq
  <2>2. QED  BY <1>6, <2>1, SubSeqProperties
<1>8. /\ t \in Seq(S)
      /\ Len(t) = IF a + 1 <= b - 1 THEN (b - 1) - (a + 1) + 1 ELSE 0
      /\ \A j \in 1 .. (b - 1) - (a + 1) + 1 : t[j] = r[(a + 1) + j - 1]
  <2>1. \A j \in a + 1 .. b - 1 : r[j] \in S
    BY <1>1, <1>5, ElementOfSeq
  <2>2. QED  BY <1>6, <2>1, SubSeqProperties
<1> HIDE DEF s, t
<1>9. Len(s) = Len(t)
  BY <1>3, <1>7, <1>8, SMT
<1>10. ASSUME NEW j \in 1 .. Len(t) PROVE s[j] = t[j]
  <2>1. /\ j \in 1 .. (b - 1) - (a + 1) + 1
        /\ j \in 1 .. ((i + b) - 1) - ((i + a) + 1) + 1
    BY <1>3, <1>8, SMT
  <2>2. /\ (a + 1) + j - 1 \in 1 .. Len(text) - i
        /\ ((i + a) + 1) + j - 1 = i + ((a + 1) + j - 1)
    BY <1>1, <1>2, <1>3, <1>8, <2>1, SMT
  <2>3. QED  BY <1>1, <1>7, <1>8, <2>1, <2>2
<1>11. s = t
  BY <1>7, <1>8, <1>9, <1>10, SeqEqual
<1>12. QED  BY <1>11 DEF s, t, r

\* Every text has a first end.
LEMMA FirstEndExists ==
    ASSUME NEW S, NEW text \in Seq(S), NEW sep
    PROVE  \E i : FirstEnd(text, sep, i)
<1> DEFINE T == {i \in 1 .. Len(text) : text[i] = sep} \cup {Len(text) + 1}
<1>1. Len(text) \in Nat
  OBVIOUS
<1>2. T \subseteq Nat /\ T # {} /\ T \subseteq 1 .. Len(text) + 1
  BY <1>1, SMT
<1>3. Min(T) \in T /\ \A y \in T : Min(T) <= y
  BY <1>2, MinOfNats
<1> DEFINE i == Min(T)
<1> HIDE DEF i
<1>4. i \in T /\ i \in 1 .. Len(text) + 1 /\ \A y \in T : i <= y
  BY <1>2, <1>3 DEF i
<1>5. ASSUME NEW j \in 1 .. i - 1 PROVE text[j] # sep
  <2>1. j \in 1 .. Len(text) /\ ~(i <= j)
    BY <1>1, <1>4, SMT
  <2>2. QED  BY <1>4, <2>1
<1>6. i <= Len(text) => text[i] = sep
  <2>1. i <= Len(text) => i # Len(text) + 1
    BY <1>1, <1>4, SMT
  <2>2. QED  BY <1>4, <2>1
<1>7. QED  BY <1>4, <1>5, <1>6 DEF FirstEnd

\* The ends of a text are the first, and those of the rest.
LEMMA EndsOfRest ==
    ASSUME NEW S, NEW text \in Seq(S), NEW sep, text # <<>>,
           NEW i, FirstEnd(text, sep, i)
    PROVE  Ends(text, sep) = FirstAnd(i, Ends(After(text, i), sep))
<1> USE DEF FirstAnd
<1> DEFINE n == Len(text)
           rest == After(text, i)
<1>1. /\ n \in Nat \ {0} /\ i \in 1 .. n + 1 /\ DOMAIN text = 1 .. n
      /\ \A j \in 1 .. i - 1 : text[j] # sep
      /\ i <= n => text[i] = sep
  BY EmptySeq, LenProperties, SMT DEF FirstEnd
<1>2. /\ rest \in Seq(S)
      /\ Len(rest) = IF i <= n THEN n - i ELSE 0
      /\ \A j \in 1 .. n - i : rest[j] = text[i + j]
  BY <1>1, AfterType
<1>3. DOMAIN rest = 1 .. Len(rest) /\ (rest = <<>> <=> Len(rest) = 0)
  BY <1>2, LenProperties, EmptySeq
<1> HIDE DEF n, rest
<1>4. CASE i = n + 1
  <2>1. Len(rest) = 0 /\ 1 .. 0 = {}
    BY <1>1, <1>2, <1>4, SMT
  <2>2. rest = <<>> /\ DOMAIN rest = {}
    BY <1>3, <2>1
  <2>3. Ends(rest, sep) = {}
    BY <2>2 DEF Ends
  <2>4. n \in 1 .. i - 1 /\ 1 .. i - 1 = 1 .. n
    BY <1>1, <1>4, SMT
  <2>5. {j \in DOMAIN text : text[j] = sep} = {} /\ text[n] # sep
    BY <1>1, <2>4
  <2>6. Ends(text, sep) = {i}
    BY <1>4, <2>5 DEF Ends, n
  <2>7. QED  BY <2>3, <2>6 DEF rest
<1>5. CASE i <= n
  <2>1. Len(rest) = n - i /\ DOMAIN rest = 1 .. n - i /\ text[i] = sep
    BY <1>1, <1>2, <1>3, <1>5
  <2>2. CASE i = n
    <3>1. rest = <<>> /\ 1 .. n - i = {}
      BY <1>1, <1>3, <2>1, <2>2, SMT
    <3>2. Ends(rest, sep) = {}
      BY <2>1, <3>1 DEF Ends
    <3>3. \A j \in 1 .. n : text[j] = sep <=> j = i
      BY <1>1, <2>1, <2>2, SMT
    <3>4. Ends(text, sep) = {i}
      <4>1. n \in 1 .. n
        BY <1>1, SMT
      <4>2. {j \in 1 .. n : text[j] = sep} = {i} /\ text[n] = sep
        BY <2>2, <3>3, <4>1
      <4>3. QED  BY <1>1, <4>2 DEF Ends, n
    <3>5. QED  BY <3>2, <3>4 DEF rest
  <2>3. CASE i < n
    <3>1. rest # <<>> /\ rest[Len(rest)] = text[n]
      <4>1. n - i \in 1 .. n - i /\ i + (n - i) = n /\ n - i # 0
        BY <1>1, <2>3, SMT
      <4>2. QED  BY <1>2, <1>3, <2>1, <4>1
    <3>2. ASSUME NEW j
          PROVE  j \in 1 .. n /\ text[j] = sep
                 <=> j = i \/ \E e \in 1 .. n - i : j = i + e /\ rest[e] = sep
      <4>1. j \in 1 .. n <=> j \in 1 .. i - 1 \/ j = i \/ \E e \in 1 .. n - i : j = i + e
        <5>1. ASSUME j \in 1 .. n, ~(j < i), j # i
              PROVE  j - i \in 1 .. n - i /\ j = i + (j - i)
          BY <1>1, <5>1, SMT
        <5>2. j \in 1 .. n /\ j < i => j \in 1 .. i - 1
          BY <1>1, SMT
        <5>3. j \in 1 .. i - 1 \/ j = i => j \in 1 .. n
          BY <1>1, <2>3, SMT
        <5>4. \A e \in 1 .. n - i : i + e \in 1 .. n
          BY <1>1, <2>3, SMT
        <5>5. QED  BY <5>1, <5>2, <5>3, <5>4
      <4>2. QED  BY <1>1, <1>2, <2>1, <4>1
    <3>3. n + 1 = i + (n - i + 1)
      BY <1>1, SMT
    <3>4. Ends(text, sep) =
            {j \in 1 .. n : text[j] = sep}
            \cup (IF text[n] # sep THEN {n + 1} ELSE {})
      BY <1>1 DEF Ends, n
    <3>5. Ends(rest, sep) =
            {e \in 1 .. n - i : rest[e] = sep}
            \cup (IF text[n] # sep THEN {n - i + 1} ELSE {})
      BY <2>1, <3>1 DEF Ends
    <3>6. ASSUME NEW j
          PROVE  j \in Ends(text, sep)
                 <=> j = i \/ \E e \in Ends(rest, sep) : j = i + e
      BY <3>2, <3>3, <3>4, <3>5
    <3>7. QED  BY <3>6 DEF rest
  <2>4. QED  BY <1>1, <1>5, <2>2, <2>3, SMT
<1>6. QED  BY <1>1, <1>4, <1>5, SMT

\* The pieces of a text are the first, and those of the rest.
LEMMA PiecesSplit ==
    ASSUME NEW S, NEW text \in Seq(S), NEW sep, text # <<>>,
           NEW i, FirstEnd(text, sep, i)
    PROVE  LET whole == Pieces(text, sep)
               rest == Pieces(After(text, i), sep)
           IN  /\ whole \in Seq(Seq(S)) /\ rest \in Seq(Seq(S))
               /\ Len(whole) = Len(rest) + 1
               /\ whole[1] = SubSeq(text, 1, i - 1)
               /\ \A k \in 1 .. Len(rest) : whole[k + 1] = rest[k]
<1> DEFINE r == After(text, i)
           E == Ends(text, sep)
           R == Ends(r, sep)
           m == Cardinality(R)
<1>1. i \in 1 .. Len(text) + 1 /\ Len(text) \in Nat
  BY DEF FirstEnd
<1>2. r \in Seq(S) /\ Len(r) = (IF i <= Len(text) THEN Len(text) - i ELSE 0)
  BY <1>1, AfterType
<1>3. E = FirstAnd(i, R)
  BY EndsOfRest
<1> HIDE DEF E
<1>4. /\ Pieces(text, sep) \in Seq(Seq(S))
      /\ Len(Pieces(text, sep)) = Cardinality(E)
      /\ Pieces(text, sep) = [k \in 1 .. Cardinality(E) |->
                SubSeq(text, EndOf(E, k - 1) + 1, EndOf(E, k) - 1)]
  BY PiecesParts, PiecesType DEF E, Parts
<1> HIDE DEF r
<1>5. /\ Pieces(r, sep) \in Seq(Seq(S)) /\ Len(Pieces(r, sep)) = m
      /\ Pieces(r, sep) = [k \in 1 .. m |->
                SubSeq(r, EndOf(R, k - 1) + 1, EndOf(R, k) - 1)]
      /\ Positions(R) /\ R \subseteq 1 .. Len(r) + 1
  BY <1>2, PiecesParts, PiecesType, EndsType DEF Parts
<1> HIDE DEF R
<1>6. /\ Cardinality(E) = m + 1 /\ EndOf(E, 0) = 0 /\ EndOf(E, 1) = i
      /\ \A k \in 0 .. m : EndOf(E, k + 1) = i + EndOf(R, k)
  <2>1. i \in Nat \ {0}
    BY <1>1, SMT
  <2>2. Positions(R)
    BY <1>5
  <2>3. /\ Cardinality(E) = Cardinality(R) + 1
        /\ EndOf(E, 0) = 0 /\ EndOf(E, 1) = i
        /\ \A k \in 0 .. Cardinality(R) : EndOf(E, k + 1) = i + EndOf(R, k)
    BY <1>3, <2>1, <2>2, EndsSplit
  <2>4. QED  BY <2>3
<1>7. m \in Nat
  BY <1>5, FS_CardinalityType DEF Positions
<1> HIDE DEF m
<1>8. Pieces(text, sep)[1] = SubSeq(text, 1, i - 1)
  <2>1. 1 \in 1 .. Cardinality(E) /\ 1 - 1 = 0 /\ 0 + 1 = 1
    BY <1>6, <1>7, SMT
  <2>2. EndOf(E, 1 - 1) + 1 = 1
    BY <1>6, <2>1
  <2>3. Pieces(text, sep)[1] = SubSeq(text, EndOf(E, 1 - 1) + 1, EndOf(E, 1) - 1)
    BY <1>4, <2>1
  <2>4. QED  BY <1>6, <2>2, <2>3
<1>9. ASSUME NEW k \in 1 .. m
      PROVE  Pieces(text, sep)[k + 1] = Pieces(r, sep)[k]
  <2> DEFINE a == EndOf(R, k - 1)
             b == EndOf(R, k)
  <2>1. /\ k + 1 \in 1 .. Cardinality(E) /\ k - 1 \in 0 .. m /\ k \in 0 .. m
        /\ (k + 1) - 1 = (k - 1) + 1
    BY <1>6, <1>7, SMT
  <2>2. a \in {0} \cup R /\ b \in {0} \cup R
    BY <1>5, <2>1, EndOfRank DEF m
  <2> HIDE DEF a, b
  <2>3. a \in 0 .. Len(r) + 1 /\ b \in 0 .. Len(r) + 1
    BY <1>2, <1>5, <2>2, SMT
  <2>4. Pieces(text, sep)[k + 1] = SubSeq(text, (i + a) + 1, (i + b) - 1)
    BY <1>4, <1>6, <2>1 DEF a, b
  <2>5. Pieces(r, sep)[k] = SubSeq(r, a + 1, b - 1)
    BY <1>5 DEF a, b
  <2>6. SubSeq(text, (i + a) + 1, (i + b) - 1) = SubSeq(r, a + 1, b - 1)
    BY <1>1, <1>2, <2>3, SubSeqOfAfter DEF r
  <2>7. QED  BY <2>4, <2>5, <2>6
<1>10. QED  BY <1>4, <1>5, <1>6, <1>8, <1>9 DEF r

\* Piece k of a list of pieces, or nothing
At(pieces, k) == IF k \in DOMAIN pieces THEN pieces[k] ELSE <<>>

\* Taking off a piece, for texts with and without one
LEMMA AtSplit ==
    ASSUME NEW S, NEW text \in Seq(S), NEW sep,
           NEW i, FirstEnd(text, sep, i)
    PROVE  /\ At(Pieces(text, sep), 1) = SubSeq(text, 1, i - 1)
           /\ \A k \in Nat \ {0} : At(Pieces(text, sep), k + 1) =
                                   At(Pieces(After(text, i), sep), k)
<1> DEFINE p == Pieces(text, sep)
           q == Pieces(After(text, i), sep)
<1>1. CASE text # <<>>
  <2>1. /\ p \in Seq(Seq(S)) /\ q \in Seq(Seq(S)) /\ Len(p) = Len(q) + 1
        /\ p[1] = SubSeq(text, 1, i - 1)
        /\ \A k \in 1 .. Len(q) : p[k + 1] = q[k]
    BY <1>1, PiecesSplit
  <2> HIDE DEF p, q
  <2>2. DOMAIN p = 1 .. Len(q) + 1 /\ DOMAIN q = 1 .. Len(q) /\ Len(q) \in Nat
    BY <2>1, LenProperties
  <2>3. /\ 1 \in DOMAIN p
        /\ \A k \in Nat \ {0} : k + 1 \in DOMAIN p <=> k \in DOMAIN q
    BY <2>2, SMT
  <2>4. At(p, 1) = SubSeq(text, 1, i - 1)
    BY <2>1, <2>3 DEF At
  <2>5. \A k \in Nat \ {0} : At(p, k + 1) = At(q, k)
    BY <2>1, <2>2, <2>3 DEF At
  <2>6. QED  BY <2>4, <2>5 DEF p, q
<1>2. CASE text = <<>>
  <2>1. i = 1 /\ Len(text) = 0
    BY <1>2, SMT DEF FirstEnd
  <2>2. After(text, i) = <<>> /\ SubSeq(text, 1, i - 1) = <<>>
    BY <2>1, SubSeqEmpty, SMT DEF After
  <2>3. p = <<>> /\ q = <<>>
    BY <1>2, <2>2, PiecesOfNothing
  <2> HIDE DEF p, q
  <2>4. At(<<>>, 1) = <<>> /\ \A k : At(<<>>, k) = <<>>
    BY DEF At
  <2>5. QED  BY <2>2, <2>3, <2>4 DEF p, q
<1>3. QED  BY <1>1, <1>2

\* A piece of a text is a text.
LEMMA AtType ==
    ASSUME NEW S, NEW text \in Seq(S), NEW sep, NEW k
    PROVE  At(Pieces(text, sep), k) \in Seq(S)
<1>1. Pieces(text, sep) \in Seq(Seq(S))
  BY PiecesType
<1>2. \A j \in DOMAIN Pieces(text, sep) : Pieces(text, sep)[j] \in Seq(S)
  BY <1>1, LenProperties, ElementOfSeq
<1>3. <<>> \in Seq(S)
  BY EmptySeq
<1>4. QED  BY <1>2, <1>3 DEF At

----------------------------------------------------------------------------
(* The last piece, and those before *)

\* A text without some character
Without(text, c) == \A j \in DOMAIN text : text[j] # c

\* A text that may be a field of a record
Plain(text) == Without(text, RS) /\ Without(text, US)

\* All ends are before e.
Before(E, e) == \A x \in E : x < e

\* One more end behind all others
LEMMA EndsSnoc ==
    ASSUME NEW E, Positions(E), NEW e \in Nat \ {0}, Before(E, e)
    PROVE  LET F == E \cup {e}
           IN  /\ Positions(F) /\ Cardinality(F) = Cardinality(E) + 1
               /\ \A k \in 0 .. Cardinality(E) : EndOf(F, k) = EndOf(E, k)
               /\ EndOf(F, Cardinality(E) + 1) = e
<1> DEFINE F == E \cup {e}
<1>1. E \subseteq Nat /\ IsFiniteSet(E) /\ e \notin E /\ \A x \in E : x < e
  BY SMT DEF Positions, Before
<1>2. IsFiniteSet(F) /\ Cardinality(F) = Cardinality(E) + 1
  BY <1>1, FS_AddElement
<1>3. Positions(F)
  BY <1>2 DEF Positions
<1>4. ASSUME NEW k \in 0 .. Cardinality(E)
      PROVE  EndOf(F, k) = EndOf(E, k)
  <2> DEFINE d == EndOf(E, k)
  <2>1. d \in {0} \cup E /\ Rank(E, d) = k
    BY EndOfRank
  <2> HIDE DEF d
  <2>2. ~(e <= d)
    BY <1>1, <2>1, SMT
  <2>3. {x \in F : x <= d} = {x \in E : x <= d}
    BY <2>2
  <2>4. Rank(F, d) = k /\ d \in {0} \cup F
    BY <2>1, <2>3 DEF Rank
  <2> HIDE DEF F
  <2>5. QED  BY <1>3, <2>4, EndOfIs DEF d
<1>5. EndOf(F, Cardinality(E) + 1) = e
  <2>1. \A x \in F : x <= e
    BY <1>1, SMT
  <2>2. {x \in F : x <= e} = F
    BY <2>1
  <2>3. Rank(F, e) = Cardinality(E) + 1 /\ e \in {0} \cup F
    BY <1>2, <2>2 DEF Rank
  <2> HIDE DEF F
  <2>4. QED  BY <1>3, <2>3, EndOfIs
<1>6. QED  BY <1>2, <1>3, <1>4, <1>5

\* The parts up to one more end
LEMMA PartsSnoc ==
    ASSUME NEW S, NEW text \in Seq(S), NEW E, Positions(E),
           NEW e \in 1 .. Len(text) + 1, Before(E, e)
    PROVE  /\ Parts(text, E) \in Seq(Seq(S))
           /\ Parts(text, E \cup {e}) =
                Append(Parts(text, E),
                       SubSeq(text, EndOf(E, Cardinality(E)) + 1, e - 1))
<1> DEFINE F == E \cup {e}
           m == Cardinality(E)
           p == Parts(text, E)
           q == Parts(text, F)
           s == SubSeq(text, EndOf(E, m) + 1, e - 1)
<1>1. /\ e \in Nat \ {0} /\ E \subseteq Nat \ {0} /\ Len(text) \in Nat
      /\ \A x \in E : x < e
  BY SMT DEF Positions, Before
<1>2. /\ Positions(F) /\ Cardinality(F) = m + 1
      /\ \A k \in 0 .. m : EndOf(F, k) = EndOf(E, k)
      /\ EndOf(F, m + 1) = e
  BY <1>1, EndsSnoc
<1>3. E \subseteq 1 .. Len(text) + 1 /\ F \subseteq 1 .. Len(text) + 1
  <2>1. \A x \in E : x \in 1 .. Len(text) + 1
    BY <1>1, SMT
  <2>2. QED  BY <2>1
<1> HIDE DEF F
<1>4. /\ p \in Seq(Seq(S)) /\ Len(p) = m /\ m \in Nat
      /\ q \in Seq(Seq(S)) /\ Len(q) = m + 1
  BY <1>2, <1>3, PartsType
<1>5. \A k \in 1 .. m : p[k] = SubSeq(text, EndOf(E, k - 1) + 1, EndOf(E, k) - 1)
  BY DEF Parts
<1>6. \A k \in 1 .. m + 1 : q[k] = SubSeq(text, EndOf(F, k - 1) + 1, EndOf(F, k) - 1)
  BY <1>2 DEF Parts
<1> HIDE DEF p, q, m
<1>7. q[m + 1] = s
  <2>1. (m + 1) - 1 = m /\ m + 1 \in 1 .. m + 1 /\ m \in 0 .. m
    BY <1>4, SMT
  <2>2. QED  BY <1>2, <1>6, <2>1
<1>8. \A k \in 1 .. m : q[k] = p[k]
  <2>1. \A k \in 1 .. m : k - 1 \in 0 .. m /\ k \in 0 .. m /\ k \in 1 .. m + 1
    BY <1>4, SMT
  <2>2. QED  BY <1>2, <1>5, <1>6, <2>1
<1> HIDE DEF s
<1>9. q = Append(p, s)
  <2> DEFINE a == Append(p, s)
  <2>1. s \in Seq(S)
    <3>1. m + 1 \in 1 .. Len(q)
      BY <1>4, SMT
    <3>2. q[m + 1] \in Seq(S)
      BY <1>4, <3>1, ElementOfSeq
    <3>3. QED  BY <1>7, <3>2
  <2>2. /\ a \in Seq(Seq(S)) /\ Len(a) = m + 1 /\ a[m + 1] = s
        /\ \A k \in 1 .. m : a[k] = p[k]
    BY <1>4, <2>1, AppendProperties
  <2> HIDE DEF a
  <2>3. \A k \in 1 .. m + 1 : k \in 1 .. m \/ k = m + 1
    BY <1>4, SMT
  <2>4. \A k \in 1 .. m + 1 : q[k] = a[k]
    BY <1>7, <1>8, <2>2, <2>3
  <2>5. q = a
    BY <1>4, <2>2, <2>4, SeqEqual
  <2>6. QED  BY <2>5 DEF a
<1>10. QED  BY <1>2, <1>4, <1>9 DEF F, m, p, q, s

\* A text begins with another.
Begins(text, u) ==
    Len(text) <= Len(u) /\ \A j \in 1 .. Len(text) : u[j] = text[j]

\* Parts of the beginning are parts of the whole.
LEMMA PartsOfBeginning ==
    ASSUME NEW S, NEW text \in Seq(S), NEW u \in Seq(S), Begins(text, u),
           NEW E, Positions(E), E \subseteq 1 .. Len(text) + 1
    PROVE  Parts(u, E) = Parts(text, E)
<1> DEFINE m == Cardinality(E)
<1>1. /\ m \in Nat
      /\ \A k \in 0 .. m : EndOf(E, k) \in 0 .. Len(text) + 1
  BY PartsType
<1>2. Len(text) \in Nat /\ Len(u) \in Nat /\ Len(text) <= Len(u)
  BY LenProperties DEF Begins
<1>3. ASSUME NEW a \in 0 .. Len(text) + 1, NEW b \in 0 .. Len(text) + 1
      PROVE  SubSeq(u, a + 1, b - 1) = SubSeq(text, a + 1, b - 1)
  <2> DEFINE v == SubSeq(u, a + 1, b - 1)
             w == SubSeq(text, a + 1, b - 1)
  <2>1. /\ \A j \in a + 1 .. b - 1 : j \in 1 .. Len(text) /\ j \in 1 .. Len(u)
        /\ a + 1 \in Int /\ b - 1 \in Int
    BY <1>2, SMT
  <2>2. \A j \in a + 1 .. b - 1 : /\ text[j] \in S /\ u[j] \in S
                                  /\ u[j] = text[j]
    BY <2>1, ElementOfSeq DEF Begins
  <2> DEFINE l == IF a + 1 <= b - 1 THEN (b - 1) - (a + 1) + 1 ELSE 0
  <2>3. /\ v \in Seq(S) /\ Len(v) = l
        /\ \A j \in 1 .. (b - 1) - (a + 1) + 1 : v[j] = u[(a + 1) + j - 1]
    BY <2>1, <2>2, SubSeqProperties
  <2>4. /\ w \in Seq(S) /\ Len(w) = l
        /\ \A j \in 1 .. (b - 1) - (a + 1) + 1 : w[j] = text[(a + 1) + j - 1]
    BY <2>1, <2>2, SubSeqProperties
  <2> HIDE DEF v, w
  <2>5. \A j \in 1 .. l : /\ j \in 1 .. (b - 1) - (a + 1) + 1
                          /\ (a + 1) + j - 1 \in a + 1 .. b - 1
    BY SMT
  <2> HIDE DEF l
  <2>6. \A j \in 1 .. l : v[j] = w[j]
    BY <2>2, <2>3, <2>4, <2>5
  <2>7. v = w
    BY <2>3, <2>4, <2>6, SeqEqual
  <2>8. QED  BY <2>7 DEF v, w
<1>4. \A k \in 1 .. m : k \in 0 .. m /\ k - 1 \in 0 .. m
  BY <1>1, SMT
<1>5. \A k \in 1 .. m : SubSeq(u, EndOf(E, k - 1) + 1, EndOf(E, k) - 1)
                          = SubSeq(text, EndOf(E, k - 1) + 1, EndOf(E, k) - 1)
  BY <1>1, <1>3, <1>4
<1>6. QED  BY <1>5 DEF Parts

\* The last separator of a text is at its end.
Whole(text, sep) == text = <<>> \/ text[Len(text)] = sep

\* The last piece of such a text ends where the text does.
LEMMA EndsOfWhole ==
    ASSUME NEW S, NEW text \in Seq(S), NEW sep, Whole(text, sep)
    PROVE  LET E == Ends(text, sep)
           IN  /\ E = {i \in 1 .. Len(text) : text[i] = sep}
               /\ Positions(E) /\ E \subseteq 1 .. Len(text)
               /\ EndOf(E, Cardinality(E)) = Len(text)
<1> DEFINE E == Ends(text, sep)
           n == Len(text)
<1>1. n \in Nat /\ DOMAIN text = 1 .. n /\ (text # <<>> => n \in Nat \ {0})
      /\ (text = <<>> => n = 0)
  BY LenProperties, EmptySeq
<1>2. E = {i \in 1 .. n : text[i] = sep}
  BY <1>1 DEF Ends, Whole
<1>3. Positions(E)
  BY EndsType
<1>4. n \in {0} \cup E
  BY <1>1, <1>2, SMT DEF Whole
<1>5. {x \in E : x <= n} = E
  <2>1. \A x \in E : x <= n
    BY <1>1, <1>2, SMT
  <2>2. QED  BY <2>1
<1>6. Rank(E, n) = Cardinality(E)
  BY <1>5 DEF Rank
<1> HIDE DEF E
<1>7. EndOf(E, Cardinality(E)) = n
  BY <1>3, <1>4, <1>6, EndOfIs
<1>8. QED  BY <1>2, <1>3, <1>7 DEF E, n

\* text is before followed by a piece and its separator, or by a last piece.
Extends(text, before, piece, sep) ==
    \/ text = before \o piece \o <<sep>>
    \/ text = before \o piece /\ piece # <<>>

\* What such a text consists of
LEMMA ExtendsType ==
    ASSUME NEW S, NEW before \in Seq(S), NEW piece \in Seq(S), NEW sep \in S,
           NEW text, Extends(text, before, piece, sep)
    PROVE  LET e == Len(before) + Len(piece) + 1
           IN  /\ text \in Seq(S) /\ text # <<>> /\ Begins(before, text)
               /\ \A j \in 1 .. Len(piece) : text[Len(before) + j] = piece[j]
               /\ \/ Len(text) = e /\ text[e] = sep
                  \/ Len(text) + 1 = e /\ Len(piece) > 0
               /\ Len(before) \in Nat /\ Len(piece) \in Nat
<1> DEFINE v == before \o piece
           n == Len(before)
           m == Len(piece)
<1>1. n \in Nat /\ m \in Nat /\ (piece # <<>> => m > 0)
  BY LenProperties, EmptySeq, SMT
<1>2. /\ v \in Seq(S) /\ Len(v) = n + m
      /\ \A j \in 1 .. n + m : v[j] = IF j <= n THEN before[j] ELSE piece[j - n]
  BY ConcatProperties
<1> HIDE DEF v
<1>3. /\ \A j \in 1 .. n : v[j] = before[j]
      /\ \A j \in 1 .. m : v[n + j] = piece[j]
  <2>1. \A j \in 1 .. n : j \in 1 .. n + m /\ j <= n
    BY <1>1, SMT
  <2>2. \A j \in 1 .. m : n + j \in 1 .. n + m /\ ~(n + j <= n) /\ (n + j) - n = j
    BY <1>1, SMT
  <2>3. \A j \in 1 .. m : v[n + j] = piece[(n + j) - n]
    BY <1>2, <2>2
  <2>4. QED  BY <1>2, <2>1, <2>2, <2>3
<1>4. CASE text = v /\ piece # <<>>
  <2>1. n <= n + m /\ (n + m) + 1 = n + m + 1 /\ n + m # 0 /\ m > 0
    BY <1>1, <1>4, SMT
  <2>2. text # <<>>
    BY <1>2, <1>4, <2>1, EmptySeq
  <2>3. QED  BY <1>1, <1>2, <1>3, <1>4, <2>1, <2>2 DEF Begins
<1>5. CASE text = v \o <<sep>>
  <2> DEFINE s == <<sep>>
  <2>1. s \in Seq(S) /\ Len(s) = 1 /\ s[1] = sep
    OBVIOUS
  <2>2. text = v \o s
    BY <1>5
  <2> HIDE DEF s
  <2>3. /\ text \in Seq(S) /\ Len(text) = (n + m) + 1
        /\ \A j \in 1 .. (n + m) + 1 :
             text[j] = IF j <= n + m THEN v[j] ELSE s[j - (n + m)]
    <3>1. /\ v \o s \in Seq(S) /\ Len(v \o s) = Len(v) + Len(s)
          /\ \A j \in 1 .. Len(v) + Len(s) :
               (v \o s)[j] = IF j <= Len(v) THEN v[j] ELSE s[j - Len(v)]
      <4>1. v \in Seq(S) /\ s \in Seq(S)
        BY <1>2, <2>1
      <4>2. QED  BY <4>1, ConcatProperties
    <3>2. QED  BY <1>2, <2>1, <2>2, <3>1
  <2>4. /\ n <= (n + m) + 1 /\ (n + m) + 1 = n + m + 1 /\ n + m + 1 # 0
        /\ n + m + 1 \in 1 .. (n + m) + 1 /\ ~(n + m + 1 <= n + m)
        /\ (n + m + 1) - (n + m) = 1
        /\ \A j \in 1 .. n : j \in 1 .. (n + m) + 1 /\ j <= n + m
        /\ \A j \in 1 .. m : n + j \in 1 .. (n + m) + 1 /\ n + j <= n + m
    BY <1>1, SMT
  <2>5. text[n + m + 1] = s[(n + m + 1) - (n + m)]
    BY <2>3, <2>4
  <2>6. text # <<>>
    BY <2>3, <2>4, EmptySeq
  <2>7. /\ \A j \in 1 .. n : text[j] = before[j]
        /\ \A j \in 1 .. m : text[n + j] = piece[j]
    BY <1>3, <2>3, <2>4
  <2>8. QED  BY <1>1, <2>1, <2>3, <2>4, <2>5, <2>6, <2>7 DEF Begins
<1>6. QED  BY <1>4, <1>5 DEF Extends, v

\* A text that is extended has one piece more.
LEMMA PieceSnoc ==
    ASSUME NEW S, NEW before \in Seq(S), NEW piece \in Seq(S), NEW sep \in S,
           Whole(before, sep), Without(piece, sep),
           NEW text, Extends(text, before, piece, sep)
    PROVE  /\ text \in Seq(S)
           /\ Pieces(before, sep) \in Seq(Seq(S))
           /\ Pieces(text, sep) = Append(Pieces(before, sep), piece)
<1> DEFINE n == Len(before)
           m == Len(piece)
           e == n + m + 1
           E == Ends(before, sep)
           F == Ends(text, sep)
<1>1. /\ text \in Seq(S) /\ text # <<>> /\ Begins(before, text)
      /\ \A j \in 1 .. m : text[n + j] = piece[j]
      /\ \/ Len(text) = e /\ text[e] = sep
         \/ Len(text) + 1 = e /\ m > 0
      /\ n \in Nat /\ m \in Nat
  BY ExtendsType
<1>2. /\ E = {i \in 1 .. n : before[i] = sep}
      /\ Positions(E) /\ E \subseteq 1 .. n /\ EndOf(E, Cardinality(E)) = n
  BY EndsOfWhole
<1>3. DOMAIN text = 1 .. Len(text) /\ DOMAIN piece = 1 .. m
  BY <1>1, LenProperties
<1>4. F = {i \in 1 .. Len(text) : text[i] = sep}
          \cup (IF text[Len(text)] # sep THEN {Len(text) + 1} ELSE {})
  BY <1>1, <1>3 DEF Ends
<1> HIDE DEF E, F, n, m
<1>5. \A j \in 1 .. n : text[j] = sep <=> j \in E
  BY <1>1, <1>2 DEF Begins, n
<1>6. \A j \in n + 1 .. n + m : text[j] # sep
  <2>1. \A j \in n + 1 .. n + m : j - n \in 1 .. m /\ n + (j - n) = j
    BY <1>1, SMT
  <2>2. \A i \in 1 .. m : piece[i] # sep
    BY <1>3 DEF Without
  <2>3. \A i \in 1 .. m : text[n + i] # sep
    BY <1>1, <2>2
  <2>4. QED  BY <2>1, <2>3
<1>7. F = E \cup {e}
  <2>1. CASE Len(text) = e /\ text[e] = sep
    <3>1. /\ \A j \in 1 .. e : j \in 1 .. n \/ j \in n + 1 .. n + m \/ j = e
          /\ \A j \in 1 .. n : j \in 1 .. e
          /\ e \in 1 .. e
      BY <1>1, SMT
    <3> HIDE DEF e
    <3>2. F = {i \in 1 .. e : text[i] = sep}
      BY <1>4, <2>1
    <3>3. QED  BY <1>2, <1>5, <1>6, <2>1, <3>1, <3>2
  <2>2. CASE Len(text) + 1 = e /\ m > 0
    <3>1. /\ Len(text) = n + m /\ Len(text) \in n + 1 .. n + m
          /\ \A j \in 1 .. Len(text) : j \in 1 .. n \/ j \in n + 1 .. n + m
          /\ \A j \in 1 .. n : j \in 1 .. Len(text)
      BY <1>1, <2>2, LenProperties, SMT
    <3>2. text[Len(text)] # sep
      BY <1>6, <3>1
    <3> HIDE DEF e
    <3>3. F = {i \in 1 .. Len(text) : text[i] = sep} \cup {e}
      BY <1>4, <2>2, <3>2
    <3>4. {i \in 1 .. Len(text) : text[i] = sep} = E
      BY <1>2, <1>5, <1>6, <3>1
    <3>5. QED  BY <3>3, <3>4
  <2>3. QED  BY <1>1, <2>1, <2>2
<1>8. /\ e \in 1 .. Len(text) + 1 /\ \A x \in E : x < e
      /\ 1 .. n \subseteq 1 .. n + 1 /\ e - 1 = n + m
  BY <1>1, <1>2, SMT
<1> HIDE DEF e
<1>9. /\ Parts(text, E) \in Seq(Seq(S))
      /\ Parts(text, E \cup {e}) =
           Append(Parts(text, E), SubSeq(text, EndOf(E, Cardinality(E)) + 1, e - 1))
  <2>1. Before(E, e)
    BY <1>8 DEF Before
  <2>2. text \in Seq(S) /\ Positions(E) /\ e \in 1 .. Len(text) + 1
    BY <1>1, <1>2, <1>8
  <2>3. QED  BY <2>1, <2>2, PartsSnoc
<1>10. Parts(text, E) = Parts(before, E)
  <2>1. E \subseteq 1 .. Len(before) + 1
    BY <1>2, <1>8 DEF n
  <2>2. QED  BY <1>1, <1>2, <2>1, PartsOfBeginning
<1>11. Parts(before, E) = Pieces(before, sep) /\ Parts(text, F) = Pieces(text, sep)
  BY <1>1, PiecesParts DEF E, F
<1>12. SubSeq(text, n + 1, n + m) = piece
  <2> DEFINE s == SubSeq(text, n + 1, n + m)
  <2>1. /\ \A j \in n + 1 .. n + m : j \in 1 .. Len(text)
        /\ n + 1 \in Int /\ n + m \in Int /\ (n + m) - (n + 1) + 1 = m
        /\ (n + 1 <= n + m \/ m = 0)
        /\ \A j \in 1 .. m : (n + 1) + j - 1 = n + j
    BY <1>1, <1>8, SMT DEF e
  <2>2. \A j \in n + 1 .. n + m : text[j] \in S
    BY <1>1, <2>1, ElementOfSeq
  <2>3. /\ s \in Seq(S)
        /\ Len(s) = IF n + 1 <= n + m THEN (n + m) - (n + 1) + 1 ELSE 0
        /\ \A j \in 1 .. (n + m) - (n + 1) + 1 : s[j] = text[(n + 1) + j - 1]
    BY <2>1, <2>2, SubSeqProperties
  <2> HIDE DEF s
  <2>4. Len(s) = m
    BY <1>1, <2>1, <2>3, SMT
  <2>5. \A j \in 1 .. m : s[j] = piece[j]
    BY <1>1, <2>1, <2>3
  <2>6. s = piece
    BY <2>3, <2>4, <2>5, SeqEqual DEF m
  <2>7. QED  BY <2>6 DEF s
<1>13. QED  BY <1>1, <1>2, <1>7, <1>8, <1>9, <1>10, <1>11, <1>12

\* A text that is extended by a piece with its separator is whole again.
LEMMA WholeSnoc ==
    ASSUME NEW S, NEW before \in Seq(S), NEW piece \in Seq(S), NEW sep \in S
    PROVE  LET text == before \o piece \o <<sep>>
           IN  /\ text \in Seq(S) /\ Whole(text, sep)
               /\ Len(text) = Len(before) + Len(piece) + 1
<1> DEFINE v == before \o piece
           s == <<sep>>
           n == Len(v)
<1>1. v \in Seq(S) /\ Len(v) = Len(before) + Len(piece)
  BY ConcatProperties
<1>2. s \in Seq(S) /\ Len(s) = 1 /\ s[1] = sep /\ n \in Nat
  BY <1>1, LenProperties
<1> HIDE DEF v, s, n
<1>3. /\ v \o s \in Seq(S) /\ Len(v \o s) = n + 1
      /\ \A j \in 1 .. n + 1 : (v \o s)[j] = IF j <= n THEN v[j] ELSE s[j - n]
  <2>1. /\ v \o s \in Seq(S) /\ Len(v \o s) = Len(v) + Len(s)
        /\ \A j \in 1 .. Len(v) + Len(s) :
             (v \o s)[j] = IF j <= Len(v) THEN v[j] ELSE s[j - Len(v)]
    <3>1. v \in Seq(S) /\ s \in Seq(S)
      BY <1>1, <1>2
    <3>2. QED  BY <3>1, ConcatProperties
  <2>2. Len(v) = n
    BY DEF n
  <2>3. QED  BY <1>2, <2>1, <2>2
<1>4. n + 1 \in 1 .. n + 1 /\ ~(n + 1 <= n) /\ (n + 1) - n = 1
  BY <1>2, SMT
<1>5. (v \o s)[n + 1] = sep
  <2>1. (v \o s)[n + 1] = s[(n + 1) - n]
    BY <1>3, <1>4
  <2>2. QED  BY <1>2, <1>4, <2>1
<1>6. QED  BY <1>1, <1>3, <1>5 DEF Whole, v, s, n

\* Sequence more has the pieces, and one behind them.
OneMore(more, pieces, piece) ==
    /\ Len(more) = Len(pieces) + 1 /\ more[Len(pieces) + 1] = piece
    /\ \A k \in 1 .. Len(pieces) : more[k] = pieces[k]

\* An element put behind a sequence
LEMMA ElementBehind ==
    ASSUME NEW S, NEW s \in Seq(S), NEW t \in Seq(S), NEW e \in S,
           OneMore(t, s, e)
    PROVE  s \o <<e>> = t
<1> DEFINE a == Append(s, e)
<1>1. /\ a \in Seq(S) /\ Len(a) = Len(s) + 1 /\ a[Len(s) + 1] = e
      /\ \A i \in 1 .. Len(s) : a[i] = s[i]
  BY AppendProperties
<1> HIDE DEF a
<1>2. \A i \in 1 .. Len(s) + 1 : i \in 1 .. Len(s) \/ i = Len(s) + 1
  BY LenProperties, SMT
<1>3. \A i \in 1 .. Len(s) + 1 : a[i] = t[i]
  BY <1>1, <1>2 DEF OneMore
<1>4. Len(a) = Len(t) /\ \A i \in 1 .. Len(a) : a[i] = t[i]
  BY <1>1, <1>3 DEF OneMore
<1>5. a = t
  BY <1>1, <1>4, SeqEqual
<1>6. QED  BY <1>5, AppendIsConcat DEF a

\* Four characters, written one after the other
LEMMA FourCharacters ==
    ASSUME NEW S, NEW a \in S, NEW b \in S, NEW c \in S, NEW d \in S
    PROVE  <<>> \o <<a>> \o <<b>> \o <<c>> \o <<d>> = <<a, b, c, d>>
<1> DEFINE s1 == <<a>>
           s2 == <<a, b>>
           s3 == <<a, b, c>>
           s4 == <<a, b, c, d>>
<1>1. /\ s1 \in Seq(S) /\ Len(s1) = 1 /\ s1[1] = a
      /\ s2 \in Seq(S) /\ Len(s2) = 2 /\ s2[1] = a /\ s2[2] = b
      /\ s3 \in Seq(S) /\ Len(s3) = 3 /\ s3[1] = a /\ s3[2] = b /\ s3[3] = c
      /\ s4 \in Seq(S) /\ Len(s4) = 4 /\ s4[1] = a /\ s4[2] = b /\ s4[3] = c
      /\ s4[4] = d
  OBVIOUS
<1>2. <<>> \o <<a>> = s1
  BY <1>1, ConcatEmptySeq
<1> HIDE DEF s1, s2, s3, s4
<1>3. OneMore(s2, s1, b) /\ OneMore(s3, s2, c) /\ OneMore(s4, s3, d)
  BY <1>1, SMT DEF OneMore
<1>4. s1 \o <<b>> = s2 /\ s2 \o <<c>> = s3 /\ s3 \o <<d>> = s4
  BY <1>1, <1>3, ElementBehind
<1>5. QED  BY <1>2, <1>4 DEF s4

----------------------------------------------------------------------------
(* Characters a text does not have *)

\* A piece without separators has no others.
LEMMA PieceWithout ==
    ASSUME NEW S, NEW text \in Seq(S), NEW sep, NEW i, FirstEnd(text, sep, i)
    PROVE  /\ SubSeq(text, 1, i - 1) \in Seq(S)
           /\ Len(SubSeq(text, 1, i - 1)) = i - 1
           /\ Without(SubSeq(text, 1, i - 1), sep)
           /\ \A c : Without(text, c) => /\ Without(SubSeq(text, 1, i - 1), c)
                                         /\ Without(After(text, i), c)
<1> DEFINE t == SubSeq(text, 1, i - 1)
           u == After(text, i)
<1>1. /\ i \in 1 .. Len(text) + 1 /\ \A j \in 1 .. i - 1 : text[j] # sep
      /\ Len(text) \in Nat
  BY LenProperties DEF FirstEnd
<1>2. /\ 1 \in Int /\ i - 1 \in Int /\ (1 <= i - 1 \/ i - 1 = 0)
      /\ (i - 1) - 1 + 1 = i - 1
      /\ \A j \in 1 .. i - 1 : j \in 1 .. Len(text) /\ 1 + j - 1 = j
  BY <1>1, SMT
<1>3. \A j \in 1 .. i - 1 : text[j] \in S
  BY <1>2, ElementOfSeq
<1>4. /\ t \in Seq(S) /\ Len(t) = (IF 1 <= i - 1 THEN (i - 1) - 1 + 1 ELSE 0)
      /\ \A j \in 1 .. (i - 1) - 1 + 1 : t[j] = text[1 + j - 1]
  BY <1>2, <1>3, SubSeqProperties
<1>5. /\ u \in Seq(S) /\ Len(u) = (IF i <= Len(text) THEN Len(text) - i ELSE 0)
      /\ \A j \in 1 .. Len(text) - i : u[j] = text[i + j]
  BY <1>1, AfterType
<1> HIDE DEF t, u
<1>6. Len(t) = i - 1 /\ DOMAIN t = 1 .. i - 1 /\ DOMAIN text = 1 .. Len(text)
  BY <1>2, <1>4, LenProperties
<1>7. \A j \in 1 .. i - 1 : t[j] = text[j]
  BY <1>2, <1>4
<1>8. DOMAIN u = 1 .. Len(u)
      /\ \A j \in DOMAIN u : j \in 1 .. Len(text) - i /\ i + j \in 1 .. Len(text)
  <2>1. DOMAIN u = 1 .. Len(u)
    BY <1>5, LenProperties
  <2>2. QED  BY <1>1, <1>5, <2>1, SMT
<1>9. ASSUME NEW c, Without(text, c) PROVE Without(t, c) /\ Without(u, c)
  BY <1>2, <1>5, <1>6, <1>7, <1>8, <1>9 DEF Without
<1>10. Without(t, sep)
  BY <1>1, <1>6, <1>7 DEF Without
<1>11. QED  BY <1>4, <1>6, <1>9, <1>10 DEF t, u

\* A field of a command is plain.
LEMMA FieldPlain ==
    ASSUME NEW S, NEW text \in Seq(S), Without(text, RS), NEW k \in 1 .. 3
    PROVE  /\ At(Pieces(text, US), k) \in Seq(S)
           /\ Plain(At(Pieces(text, US), k))
<1> DEFINE Ok(t) == t \in Seq(S) /\ Without(t, RS)
<1>1. ASSUME NEW t, Ok(t)
      PROVE  \E u : /\ Ok(u)
                    /\ Plain(At(Pieces(t, US), 1))
                    /\ \A j \in Nat \ {0} : At(Pieces(t, US), j + 1) =
                                            At(Pieces(u, US), j)
  <2>1. PICK i : FirstEnd(t, US, i)
    BY <1>1, FirstEndExists
  <2>2. /\ Without(SubSeq(t, 1, i - 1), US) /\ Without(SubSeq(t, 1, i - 1), RS)
        /\ Without(After(t, i), RS)
    BY <1>1, <2>1, PieceWithout
  <2>3. After(t, i) \in Seq(S)
    BY <1>1, <2>1, AfterType DEF FirstEnd
  <2>4. /\ At(Pieces(t, US), 1) = SubSeq(t, 1, i - 1)
        /\ \A j \in Nat \ {0} : At(Pieces(t, US), j + 1) =
                                At(Pieces(After(t, i), US), j)
    BY <1>1, <2>1, AtSplit
  <2>5. QED  BY <2>2, <2>3, <2>4 DEF Plain
<1>2. Ok(text)
  OBVIOUS
<1> HIDE DEF Ok
<1>3. PICK u : /\ Ok(u) /\ Plain(At(Pieces(text, US), 1))
               /\ \A j \in Nat \ {0} : At(Pieces(text, US), j + 1) =
                                       At(Pieces(u, US), j)
  BY <1>1, <1>2
<1>4. PICK v : /\ Ok(v) /\ Plain(At(Pieces(u, US), 1))
               /\ \A j \in Nat \ {0} : At(Pieces(u, US), j + 1) =
                                       At(Pieces(v, US), j)
  BY <1>1, <1>3
<1>5. Plain(At(Pieces(v, US), 1))
  BY <1>1, <1>4
<1>6. 1 + 1 = 2 /\ 2 + 1 = 3 /\ 1 \in Nat \ {0} /\ 2 \in Nat \ {0}
      /\ (k = 1 \/ k = 2 \/ k = 3)
  BY SMT
<1>7. /\ At(Pieces(text, US), 2) = At(Pieces(u, US), 1)
      /\ At(Pieces(text, US), 3) = At(Pieces(u, US), 2)
      /\ At(Pieces(u, US), 2) = At(Pieces(v, US), 1)
  BY <1>3, <1>4, <1>6
<1>8. Plain(At(Pieces(text, US), k))
  BY <1>3, <1>4, <1>5, <1>6, <1>7
<1>9. QED  BY <1>8, AtType

\* What is in neither of two texts is not in one behind the other.
LEMMA WithoutConcat ==
    ASSUME NEW S, NEW s \in Seq(S), NEW t \in Seq(S), NEW c,
           Without(s, c), Without(t, c)
    PROVE  Without(s \o t, c)
<1> DEFINE u == s \o t
<1>1. /\ u \in Seq(S) /\ Len(u) = Len(s) + Len(t)
      /\ \A i \in 1 .. Len(s) + Len(t) :
           u[i] = IF i <= Len(s) THEN s[i] ELSE t[i - Len(s)]
  BY ConcatProperties
<1> HIDE DEF u
<1>2. /\ DOMAIN s = 1 .. Len(s) /\ DOMAIN t = 1 .. Len(t)
      /\ DOMAIN u = 1 .. Len(s) + Len(t)
      /\ Len(s) \in Nat /\ Len(t) \in Nat
  BY <1>1, LenProperties
<1>3. ASSUME NEW i \in 1 .. Len(s) + Len(t) PROVE u[i] # c
  <2>1. CASE i <= Len(s)
    <3>1. i \in DOMAIN s
      BY <1>2, <2>1, SMT
    <3>2. QED  BY <1>1, <2>1, <3>1 DEF Without
  <2>2. CASE ~(i <= Len(s))
    <3>1. i - Len(s) \in DOMAIN t
      BY <1>2, <2>2, SMT
    <3>2. QED  BY <1>1, <2>2, <3>1 DEF Without
  <2>3. QED  BY <2>1, <2>2
<1>4. QED  BY <1>2, <1>3 DEF Without, u

\* The same for a piece and its separator
LEMMA WithoutSnoc ==
    ASSUME NEW S, NEW before \in Seq(S), NEW piece \in Seq(S), NEW sep \in S,
           NEW c, Without(before, c), Without(piece, c), sep # c
    PROVE  Without(before \o piece \o <<sep>>, c)
<1> DEFINE v == before \o piece
           s == <<sep>>
<1>1. v \in Seq(S) /\ Without(v, c)
  BY ConcatProperties, WithoutConcat
<1>2. s \in Seq(S) /\ Without(s, c)
  BY DEF Without
<1> HIDE DEF v, s
<1>3. Without(v \o s, c)
  BY <1>1, <1>2, WithoutConcat
<1>4. QED  BY <1>3 DEF v, s

\* A text that is extended by a piece and its separator
LEMMA NextPiece ==
    ASSUME NEW S, NEW before \in Seq(S), NEW piece \in Seq(S), NEW sep \in S,
           Whole(before, sep), Without(piece, sep)
    PROVE  LET text == before \o piece \o <<sep>>
           IN  /\ text \in Seq(S) /\ Whole(text, sep)
               /\ Len(text) = Len(before) + Len(piece) + 1
               /\ OneMore(Pieces(text, sep), Pieces(before, sep), piece)
<1> DEFINE text == before \o piece \o <<sep>>
           p == Pieces(before, sep)
<1>1. /\ text \in Seq(S) /\ Whole(text, sep)
      /\ Len(text) = Len(before) + Len(piece) + 1
  BY WholeSnoc
<1>2. Extends(text, before, piece, sep)
  BY DEF Extends
<1> HIDE DEF text
<1>3. p \in Seq(Seq(S)) /\ Pieces(text, sep) = Append(p, piece)
  BY <1>2, PieceSnoc
<1> HIDE DEF p
<1>4. OneMore(Append(p, piece), p, piece)
  BY <1>3, AppendProperties DEF OneMore
<1>5. QED  BY <1>1, <1>3, <1>4 DEF text, p

----------------------------------------------------------------------------
(* Texts that are cut *)

\* What is copied to a buffer is the beginning of the text, and all of it
\* when there is room.
LEMMA CatOfNothing ==
    ASSUME NEW S, NEW text \in Seq(S), NEW n \in Nat
    PROVE  LET t == NstrCat(n, <<>>, text)
           IN  /\ t \in Seq(S) /\ Len(t) <= n /\ Len(t) <= Len(text)
               /\ Len(t) = Least(Len(text), n)
               /\ \A j \in 1 .. Len(t) : t[j] = text[j]
               /\ Len(text) <= n => t = text
<1> DEFINE l == Least(Len(text), n)
           t == SubSeq(text, 1, l)
<1>1. NstrCat(n, <<>>, text) = t
  <2>1. <<>> \o text = text
    BY ConcatEmptySeq
  <2>2. QED  BY <2>1 DEF NstrCat
<1>2. /\ l \in Nat /\ Len(text) \in Nat /\ l <= n /\ l <= Len(text)
      /\ Len(text) <= n => l = Len(text)
  BY LenProperties, SMT DEF Least
<1> HIDE DEF l
<1>3. \A j \in 1 .. l : j \in 1 .. Len(text) /\ 1 + j - 1 = j
  BY <1>2, SMT
<1>4. \A j \in 1 .. l : text[j] \in S
  BY <1>3, ElementOfSeq
<1>5. 1 \in Int /\ l \in Int /\ l - 1 + 1 = l /\ (1 <= l \/ l = 0)
  BY <1>2, SMT
<1>6. /\ t \in Seq(S) /\ Len(t) = (IF 1 <= l THEN l - 1 + 1 ELSE 0)
      /\ \A j \in 1 .. l - 1 + 1 : t[j] = text[1 + j - 1]
  BY <1>4, <1>5, SubSeqProperties
<1>7. Len(text) <= n => t = text
  BY <1>2, SubSeqFull
<1> HIDE DEF t
<1>8. Len(t) = l
  BY <1>5, <1>6, SMT
<1>9. \A j \in 1 .. Len(t) : t[j] = text[j]
  BY <1>3, <1>5, <1>6, <1>8
<1>10. QED  BY <1>1, <1>2, <1>6, <1>7, <1>8, <1>9 DEF l

\* What is appended is a text, no longer than the buffer.
LEMMA CatType ==
    ASSUME NEW S, NEW text \in Seq(S), NEW more \in Seq(S), NEW n \in Nat
    PROVE  NstrCat(n, text, more) \in Seq(S)
<1> DEFINE v == text \o more
<1>1. v \in Seq(S)
  BY ConcatProperties
<1> HIDE DEF v
<1>2. NstrCat(n, <<>>, v) \in Seq(S)
  BY <1>1, CatOfNothing
<1>3. <<>> \o v = v
  BY <1>1, ConcatEmptySeq
<1>4. QED  BY <1>2, <1>3 DEF NstrCat, v

\* What is appended to a text that was cut is cut like the whole.
LEMMA CatOfCat ==
    ASSUME NEW S, NEW text \in Seq(S), NEW more \in Seq(S), NEW n \in Nat
    PROVE  /\ NstrCat(n, NstrCat(n, <<>>, text), more) =
                NstrCat(n, <<>>, text \o more)
           /\ NstrCat(n, <<>>, text) \in Seq(S)
<1> DEFINE c == NstrCat(n, <<>>, text)
           u == text \o more
           d == NstrCat(n, <<>>, u)
           v == c \o more
           f == NstrCat(n, c, more)
           g == NstrCat(n, <<>>, v)
<1>1. /\ u \in Seq(S) /\ Len(u) = Len(text) + Len(more)
      /\ \A i \in 1 .. Len(text) + Len(more) :
           u[i] = IF i <= Len(text) THEN text[i] ELSE more[i - Len(text)]
  BY ConcatProperties
<1>2. /\ c \in Seq(S) /\ Len(c) = Least(Len(text), n) /\ Len(c) <= n
      /\ \A j \in 1 .. Len(c) : c[j] = text[j]
      /\ Len(text) <= n => c = text
  BY CatOfNothing
<1> HIDE DEF c
<1>3. /\ v \in Seq(S) /\ Len(v) = Len(c) + Len(more)
      /\ \A i \in 1 .. Len(c) + Len(more) :
           v[i] = IF i <= Len(c) THEN c[i] ELSE more[i - Len(c)]
  BY <1>2, ConcatProperties
<1>4. f = g
  <2> DEFINE w == <<>> \o v
  <2>1. w = v
    BY <1>3, ConcatEmptySeq
  <2>2. QED  BY <2>1 DEF NstrCat
<1> HIDE DEF u, v
<1>5. /\ d \in Seq(S) /\ Len(d) = Least(Len(u), n)
      /\ \A j \in 1 .. Len(d) : d[j] = u[j]
  BY <1>1, CatOfNothing
<1>6. /\ g \in Seq(S) /\ Len(g) = Least(Len(v), n)
      /\ \A j \in 1 .. Len(g) : g[j] = v[j]
  BY <1>3, CatOfNothing
<1>7. Len(text) \in Nat /\ Len(more) \in Nat /\ Len(c) \in Nat
  BY <1>2, LenProperties
<1> HIDE DEF d, g
<1>8. ASSUME Len(text) <= n PROVE d = g
  <2>1. u = v
    BY <1>2, <1>8 DEF u, v
  <2>2. QED  BY <2>1 DEF d, g
<1>9. ASSUME ~(Len(text) <= n) PROVE d = g
  <2>1. Len(c) = n /\ Len(d) = n /\ Len(g) = n
    BY <1>1, <1>2, <1>3, <1>5, <1>6, <1>7, <1>9, SMT DEF Least
  <2>2. \A j \in 1 .. n : /\ j \in 1 .. Len(text) + Len(more) /\ j <= Len(text)
                          /\ j \in 1 .. Len(c) + Len(more) /\ j <= Len(c)
    BY <1>7, <1>9, <2>1, SMT
  <2>3. \A j \in 1 .. n : d[j] = text[j] /\ g[j] = text[j]
    BY <1>1, <1>2, <1>3, <1>5, <1>6, <2>1, <2>2
  <2>4. d = g
    BY <1>5, <1>6, <2>1, <2>3, SeqEqual
  <2>5. QED  BY <2>4
<1>10. f = d
  BY <1>4, <1>8, <1>9
<1>11. QED  BY <1>2, <1>10 DEF c, d, u, f

\* A text that is cut behind its first piece has the same first piece, and
\* the rest is cut.
LEMMA CutSplit ==
    ASSUME NEW S, NEW text \in Seq(S), NEW sep, NEW i, FirstEnd(text, sep, i),
           NEW n \in Nat, i - 1 <= n
    PROVE  LET t == NstrCat(n, <<>>, text)
           IN  /\ FirstEnd(t, sep, i)
               /\ SubSeq(t, 1, i - 1) = SubSeq(text, 1, i - 1)
               /\ i <= n => After(t, i) = NstrCat(n - i, <<>>, After(text, i))
<1> DEFINE t == NstrCat(n, <<>>, text)
           u == After(text, i)
           v == After(t, i)
<1>1. /\ i \in 1 .. Len(text) + 1 /\ Len(text) \in Nat
      /\ \A j \in 1 .. i - 1 : text[j] # sep
      /\ i <= Len(text) => text[i] = sep
  BY DEF FirstEnd
<1>2. /\ t \in Seq(S) /\ Len(t) = Least(Len(text), n)
      /\ \A j \in 1 .. Len(t) : t[j] = text[j]
  BY CatOfNothing
<1> HIDE DEF t
<1>3. /\ Len(t) = IF Len(text) < n THEN Len(text) ELSE n
      /\ i \in 1 .. Len(t) + 1 /\ Len(t) \in Nat
  BY <1>1, <1>2, SMT DEF Least
<1>4. \A j \in 1 .. i - 1 : j \in 1 .. Len(t) /\ j \in 1 .. Len(text)
  BY <1>1, <1>3, SMT
<1>5. i <= Len(t) => i \in 1 .. Len(t) /\ i <= Len(text)
  BY <1>1, <1>3, SMT
<1>6. FirstEnd(t, sep, i)
  BY <1>1, <1>2, <1>3, <1>4, <1>5 DEF FirstEnd
<1>7. SubSeq(t, 1, i - 1) = SubSeq(text, 1, i - 1)
  <2> DEFINE a == SubSeq(t, 1, i - 1)
             b == SubSeq(text, 1, i - 1)
  <2>1. 1 \in Int /\ i - 1 \in Int /\ \A j \in 1 .. (i - 1) - 1 + 1 :
          j \in 1 .. i - 1 /\ 1 + j - 1 = j
    BY <1>1, SMT
  <2>2. \A j \in 1 .. i - 1 : t[j] \in S /\ text[j] \in S
    BY <1>2, <1>4, ElementOfSeq
  <2>3. /\ a \in Seq(S) /\ b \in Seq(S) /\ Len(a) = Len(b)
        /\ \A j \in 1 .. (i - 1) - 1 + 1 :
             a[j] = t[1 + j - 1] /\ b[j] = text[1 + j - 1]
        /\ Len(a) = IF 1 <= i - 1 THEN (i - 1) - 1 + 1 ELSE 0
    BY <2>1, <2>2, SubSeqProperties
  <2> HIDE DEF a, b
  <2>4. \A j \in 1 .. Len(a) : j \in 1 .. (i - 1) - 1 + 1
    BY <1>1, <2>3, SMT
  <2>5. \A j \in 1 .. Len(a) : a[j] = b[j]
    BY <1>2, <1>4, <2>1, <2>3, <2>4
  <2>6. a = b
    BY <2>3, <2>5, SeqEqual
  <2>7. QED  BY <2>6 DEF a, b
<1>8. ASSUME i <= n PROVE v = NstrCat(n - i, <<>>, u)
  <2> DEFINE w == NstrCat(n - i, <<>>, u)
  <2>1. /\ u \in Seq(S)
        /\ Len(u) = IF i <= Len(text) THEN Len(text) - i ELSE 0
        /\ \A j \in 1 .. Len(text) - i : u[j] = text[i + j]
    BY <1>1, AfterType
  <2>2. /\ v \in Seq(S) /\ Len(v) = IF i <= Len(t) THEN Len(t) - i ELSE 0
        /\ \A j \in 1 .. Len(t) - i : v[j] = t[i + j]
    BY <1>2, <1>3, AfterType
  <2>3. n - i \in Nat
    BY <1>1, <1>8, SMT
  <2> HIDE DEF u, v
  <2>4. /\ w \in Seq(S) /\ Len(w) = Least(Len(u), n - i)
        /\ \A j \in 1 .. Len(w) : w[j] = u[j]
    BY <2>1, <2>3, CatOfNothing
  <2> HIDE DEF w
  <2>5. Len(v) = Len(w)
    BY <1>1, <1>3, <1>8, <2>1, <2>2, <2>4, SMT DEF Least
  <2>6. ASSUME NEW j \in 1 .. Len(v) PROVE v[j] = w[j]
    <3>1. /\ j \in 1 .. Len(t) - i /\ i + j \in 1 .. Len(t)
          /\ j \in 1 .. Len(text) - i /\ j \in 1 .. Len(w)
      BY <1>1, <1>3, <2>2, <2>5, SMT
    <3>2. QED  BY <1>2, <2>1, <2>2, <2>4, <3>1
  <2>7. v = w
    BY <2>2, <2>4, <2>5, <2>6, SeqEqual
  <2>8. QED  BY <2>7 DEF w
<1>9. QED  BY <1>6, <1>7, <1>8 DEF t

\* All but the last piece
LEMMA WithoutLast ==
    ASSUME NEW S, NEW s \in Seq(S), NEW e \in S
    PROVE  SubSeq(Append(s, e), 1, Len(Append(s, e)) - 1) = s
<1> DEFINE a == Append(s, e)
           b == SubSeq(a, 1, Len(a) - 1)
<1>1. /\ a \in Seq(S) /\ Len(a) = Len(s) + 1 /\ Len(s) \in Nat
      /\ \A i \in 1 .. Len(s) : a[i] = s[i]
  BY AppendProperties, LenProperties
<1> HIDE DEF a
<1>2. Len(a) - 1 = Len(s) /\ Len(s) \in 0 .. Len(a)
  BY <1>1, SMT
<1>3. /\ \A i \in 1 .. Len(s) : i \in 1 .. Len(a) /\ 1 + i - 1 = i
      /\ Len(s) - 1 + 1 = Len(s) /\ (1 <= Len(s) \/ Len(s) = 0)
      /\ 1 \in Int /\ Len(s) \in Int
  BY <1>1, SMT
<1>4. \A i \in 1 .. Len(s) : a[i] \in S
  BY <1>1, <1>3, ElementOfSeq
<1>5. b = SubSeq(a, 1, Len(s))
  BY <1>2
<1>6. /\ b \in Seq(S) /\ Len(b) = (IF 1 <= Len(s) THEN Len(s) - 1 + 1 ELSE 0)
      /\ \A i \in 1 .. Len(s) - 1 + 1 : b[i] = a[1 + i - 1]
  <2> HIDE DEF b
  <2>1. QED  BY <1>3, <1>4, <1>5, SubSeqProperties
<1> HIDE DEF b
<1>7. Len(b) = Len(s)
  BY <1>1, <1>3, <1>6, SMT
<1>8. \A i \in 1 .. Len(s) : b[i] = s[i]
  BY <1>1, <1>3, <1>6
<1>9. b = s
  BY <1>6, <1>7, <1>8, SeqEqual
<1>10. QED  BY <1>9 DEF a, b

\* The pieces that a separator ends, counted by the separators
LEMMA WholePiecesParts ==
    ASSUME NEW S, NEW text \in Seq(S), NEW sep
    PROVE  WholePieces(text, sep) =
             Parts(text, {i \in 1 .. Len(text) : text[i] = sep})
<1> DEFINE n == Len(text)
           D == {i \in 1 .. n : text[i] = sep}
<1>1. n \in Nat /\ DOMAIN text = 1 .. n
  BY LenProperties
<1>2. Pieces(text, sep) = Parts(text, Ends(text, sep))
  BY PiecesParts
<1>3. CASE Whole(text, sep)
  <2>1. Ends(text, sep) = D
    BY <1>3, EndsOfWhole
  <2>2. WholePieces(text, sep) = Pieces(text, sep)
    BY <1>3 DEF WholePieces, Whole
  <2>3. QED  BY <1>2, <2>1, <2>2
<1>4. CASE ~Whole(text, sep)
  <2>1. text # <<>> /\ text[n] # sep
    BY <1>4 DEF Whole
  <2>2. Ends(text, sep) = D \cup {n + 1}
    BY <1>1, <2>1 DEF Ends
  <2> DEFINE E == Ends(text, sep)
  <2>3. /\ Positions(E) /\ D \subseteq E
    BY <2>2, EndsType
  <2>4. Positions(D)
    BY <2>3, FS_Subset, SMT DEF Positions
  <2>5. Before(D, n + 1) /\ n + 1 \in 1 .. n + 1
    BY <1>1, SMT DEF Before
  <2> DEFINE last == SubSeq(text, EndOf(D, Cardinality(D)) + 1, (n + 1) - 1)
             p == Parts(text, D)
  <2> HIDE DEF D
  <2>6. p \in Seq(Seq(S)) /\ Parts(text, D \cup {n + 1}) = Append(p, last)
    BY <2>4, <2>5, PartsSnoc
  <2>7. last \in Seq(S)
    <3>1. D \subseteq 1 .. n + 1
      BY <1>1, SMT DEF D
    <3>2. /\ Cardinality(D) \in Nat
          /\ \A k \in 0 .. Cardinality(D) : EndOf(D, k) \in 0 .. n + 1
      BY <2>4, <3>1, PartsType
    <3> DEFINE a == EndOf(D, Cardinality(D))
    <3>3. Cardinality(D) \in 0 .. Cardinality(D)
      BY <3>2, SMT
    <3>4. a \in 0 .. n + 1
      BY <3>2, <3>3
    <3> HIDE DEF a
    <3>5. /\ a + 1 \in Int /\ (n + 1) - 1 \in Int
          /\ \A j \in a + 1 .. (n + 1) - 1 : j \in 1 .. n
      BY <1>1, <3>4, SMT
    <3>6. \A j \in a + 1 .. (n + 1) - 1 : text[j] \in S
      BY <3>5, ElementOfSeq
    <3>7. SubSeq(text, a + 1, (n + 1) - 1) \in Seq(S)
      BY <3>5, <3>6, SubSeqProperties
    <3>8. QED  BY <3>7 DEF a
  <2> HIDE DEF p, last
  <2>8. Pieces(text, sep) = Append(p, last)
    BY <1>2, <2>2, <2>6
  <2>9. WholePieces(text, sep) =
          SubSeq(Append(p, last), 1, Len(Append(p, last)) - 1)
    BY <2>1, <2>8 DEF WholePieces
  <2>10. WholePieces(text, sep) = p
    BY <2>6, <2>7, <2>9, WithoutLast
  <2>11. QED  BY <2>10 DEF p, D
<1>5. QED  BY <1>3, <1>4

\* What is cut off a text takes nothing from the pieces before it.
LEMMA PiecesOfCut ==
    ASSUME NEW S, NEW text \in Seq(S), NEW sep, Whole(text, sep), NEW n \in Nat
    PROVE  LET whole == WholePieces(NstrCat(n, <<>>, text), sep)
               all == Pieces(text, sep)
           IN  /\ whole \in Seq(Seq(S)) /\ all \in Seq(Seq(S))
               /\ Len(whole) <= Len(all)
               /\ \A k \in 1 .. Len(whole) : whole[k] = all[k]
               /\ Len(text) <= n => whole = all
<1> DEFINE cut == NstrCat(n, <<>>, text)
           E == Ends(text, sep)
           l == Len(cut)
           D == {i \in 1 .. l : cut[i] = sep}
           w == WholePieces(cut, sep)
           p == Pieces(text, sep)
<1>1. /\ cut \in Seq(S) /\ l <= n /\ l <= Len(text)
      /\ \A j \in 1 .. l : cut[j] = text[j]
      /\ Len(text) <= n => cut = text
  BY CatOfNothing
<1> HIDE DEF cut
<1>2. l \in Nat /\ Len(text) \in Nat
  BY <1>1, LenProperties
<1>3. /\ E = {i \in 1 .. Len(text) : text[i] = sep}
      /\ Positions(E) /\ E \subseteq 1 .. Len(text)
  BY EndsOfWhole
<1>4. D = {x \in E : x <= l}
  <2>1. \A x \in 1 .. l : x \in 1 .. Len(text) /\ x <= l
    BY <1>1, <1>2, SMT
  <2>2. \A x \in 1 .. Len(text) : x <= l => x \in 1 .. l
    BY <1>1, <1>2, SMT
  <2>3. QED  BY <1>1, <1>3, <2>1, <2>2
<1>5. w = Parts(cut, D)
  BY <1>1, WholePiecesParts
<1>6. p = Parts(text, E)
  BY PiecesParts
<1>7. D \subseteq E /\ Positions(D) /\ D \subseteq 1 .. l + 1 /\ E \subseteq 1 .. Len(text) + 1
  <2>1. D \subseteq E
    BY <1>4
  <2>2. Positions(D)
    BY <1>3, <2>1, FS_Subset, SMT DEF Positions
  <2>3. /\ \A x \in 1 .. l : x \in 1 .. l + 1
        /\ \A x \in 1 .. Len(text) : x \in 1 .. Len(text) + 1
    BY <1>2, SMT
  <2>4. QED  BY <1>3, <2>1, <2>2, <2>3
<1> HIDE DEF D, E, w, p
<1>8. /\ w \in Seq(Seq(S)) /\ Len(w) = Cardinality(D)
      /\ p \in Seq(Seq(S)) /\ Len(p) = Cardinality(E)
      /\ Cardinality(D) \in Nat /\ Cardinality(E) \in Nat
  BY <1>1, <1>3, <1>5, <1>6, <1>7, PartsType
<1>9. Cardinality(D) <= Cardinality(E)
  BY <1>3, <1>7, FS_Subset DEF Positions
<1>10. w = Parts(text, D)
  <2>1. Begins(cut, text)
    BY <1>1 DEF Begins
  <2>2. QED  BY <1>1, <1>5, <1>7, <2>1, PartsOfBeginning
<1>11. ASSUME NEW k \in 0 .. Cardinality(D) PROVE EndOf(D, k) = EndOf(E, k)
  <2> DEFINE e == EndOf(D, k)
  <2>1. e \in {0} \cup D /\ Rank(D, e) = k
    BY <1>7, EndOfRank
  <2> HIDE DEF e
  <2>2. e \in Nat /\ e <= l /\ E \subseteq Nat
    <3>1. \A x \in D : x \in Nat /\ x <= l
      BY <1>3, <1>4, SMT
    <3>2. E \subseteq Nat /\ 0 \in Nat /\ 0 <= l
      BY <1>2, <1>3, SMT
    <3>3. QED  BY <2>1, <3>1, <3>2
  <2>3. \A x \in E : x <= e => x <= l
    BY <1>2, <2>2, SMT
  <2>4. {x \in E : x <= e} = {x \in D : x <= e}
    BY <1>4, <2>3
  <2>5. Rank(E, e) = k /\ e \in {0} \cup E
    BY <1>7, <2>1, <2>4 DEF Rank
  <2>6. EndOf(E, k) = e
    BY <1>3, <2>5, EndOfIs
  <2>7. QED  BY <2>6 DEF e
<1>12. \A k \in 1 .. Len(w) : w[k] = p[k]
  <2>1. \A k \in 1 .. Cardinality(D) : /\ k \in 0 .. Cardinality(D)
                                       /\ k - 1 \in 0 .. Cardinality(D)
                                       /\ k \in 1 .. Cardinality(E)
    BY <1>8, <1>9, SMT
  <2>2. \A k \in 1 .. Cardinality(D) :
          w[k] = SubSeq(text, EndOf(D, k - 1) + 1, EndOf(D, k) - 1)
    BY <1>10 DEF Parts
  <2>3. \A k \in 1 .. Cardinality(E) :
          p[k] = SubSeq(text, EndOf(E, k - 1) + 1, EndOf(E, k) - 1)
    BY <1>6 DEF Parts
  <2>4. QED  BY <1>8, <1>11, <2>1, <2>2, <2>3
<1>13. Len(text) <= n => w = p
  <2>1. ASSUME cut = text PROVE D = E
    BY <1>3, <2>1 DEF D
  <2>2. QED  BY <1>1, <1>6, <1>10, <2>1
<1>14. QED  BY <1>8, <1>9, <1>12, <1>13 DEF w, p, cut
=============================================================================
