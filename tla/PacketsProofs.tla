--------------------------- MODULE PacketsProofs ---------------------------
(***************************************************************************)
(* Proofs about Packets, for every set of packets and every size of the    *)
(* buffers: type correctness, that the commands of a packet are carried    *)
(* out as CommandQueue has it, and that a status packet tells the truth.   *)
(***************************************************************************)
EXTENDS Packets, TextProofs

----------------------------------------------------------------------------
(* Strings in the buffer *)

\* A string that lies in the buffer, and its characters
Within(s) ==
    /\ s \in [at : Nat, room : Nat, len : Nat]
    /\ s.at + s.len <= RecvSize /\ s.len <= s.room

Memory(m) == m \in [Address -> Char]

\* The sizes are numbers.
LEMMA Sizes ==
    /\ RecvSize \in Nat \ {0} /\ LoadSize \in Nat \ {0} /\ LogSize \in Nat \ {0}
    /\ StatusSize \in Nat \ {0} /\ CamSize \in Nat \ {0}
    /\ NumberSize \in Nat \ {0}
    /\ 2 + NumberSize <= LoadSize /\ LogSize <= LoadSize /\ LoadSize <= RecvSize
BY SizeAssumption

\* The characters of a string are those at its place.
LEMMA CharsType ==
    ASSUME NEW m, Memory(m), NEW s, Within(s)
    PROVE  /\ Chars(m, s) \in Seq(Char) /\ Len(Chars(m, s)) = s.len
           /\ \A j \in 1 .. s.len : Chars(m, s)[j] = m[s.at + j - 1]
           /\ \A j \in 1 .. s.len : s.at + j - 1 \in Address
<1>1. s.at \in Nat /\ s.len \in Nat /\ s.at + s.len <= RecvSize
  BY DEF Within
<1>2. \A j \in 1 .. s.len : s.at + j - 1 \in Address
  BY <1>1, Sizes, SMT DEF Address
<1>3. \A j \in 1 .. s.len : m[s.at + j - 1] \in Char
  BY <1>2 DEF Memory
<1>4. Chars(m, s) \in [1 .. s.len -> Char]
  BY <1>3 DEF Chars
<1> DEFINE t == Chars(m, s)
<1>5. \A j \in 1 .. s.len : t[j] = m[s.at + j - 1]
  BY DEF Chars
<1> HIDE DEF t
<1>6. t \in Seq(Char) /\ Len(t) = s.len
  BY <1>1, <1>4, SMT DEF t
<1>7. QED  BY <1>2, <1>5, <1>6 DEF t

\* nstr_find finds the first.
LEMMA FindIsFirst ==
    ASSUME NEW m, Memory(m), NEW s, Within(s), NEW c
    PROVE  /\ NstrFind(m, s, c) \in 0 .. s.len
           /\ FirstEnd(Chars(m, s), c, NstrFind(m, s, c) + 1)
<1> DEFINE T == {i \in 0 .. s.len - 1 : m[s.at + i] = c} \cup {s.len}
           f == Min(T)
<1>1. s.at \in Nat /\ s.len \in Nat
  BY DEF Within
<1>2. T \subseteq 0 .. s.len /\ T \subseteq Nat /\ T # {}
  BY <1>1, SMT
<1>3. f \in T /\ \A y \in T : f <= y
  BY <1>2, MinOfNats
<1>4. NstrFind(m, s, c) = f
  BY DEF NstrFind
<1> HIDE DEF f
<1>5. f \in 0 .. s.len
  BY <1>2, <1>3
<1>6. /\ Len(Chars(m, s)) = s.len
      /\ \A j \in 1 .. s.len : Chars(m, s)[j] = m[s.at + j - 1]
  BY CharsType
<1>7. ASSUME NEW j \in 1 .. (f + 1) - 1 PROVE Chars(m, s)[j] # c
  <2>1. /\ j - 1 \in 0 .. s.len - 1 /\ ~(f <= j - 1) /\ j \in 1 .. s.len
        /\ s.at + j - 1 = s.at + (j - 1)
    BY <1>1, <1>5, SMT
  <2>2. m[s.at + (j - 1)] # c
    BY <1>3, <2>1
  <2>3. QED  BY <1>6, <2>1, <2>2
<1>8. ASSUME f + 1 <= s.len PROVE Chars(m, s)[f + 1] = c
  <2>1. f # s.len /\ f + 1 \in 1 .. s.len /\ s.at + (f + 1) - 1 = s.at + f
    BY <1>1, <1>5, <1>8, SMT
  <2>2. m[s.at + f] = c
    BY <1>3, <2>1
  <2>3. QED  BY <1>6, <2>1, <2>2
<1>9. f + 1 \in 1 .. s.len + 1
  BY <1>1, <1>5, SMT
<1>10. QED  BY <1>4, <1>5, <1>6, <1>7, <1>8, <1>9 DEF FirstEnd

\* What comes before the character is the first piece, and there is a place
\* for a terminator behind it.
LEMMA ChopIsFirst ==
    ASSUME NEW m, Memory(m), NEW s, Within(s), NEW c
    PROVE  LET f == NstrFind(m, s, c)
           IN  /\ Within(NstrChop(m, s, c))
               /\ NstrChop(m, s, c) = [at |-> s.at, room |-> f + 1, len |-> f]
               /\ Chars(m, NstrChop(m, s, c)) = SubSeq(Chars(m, s), 1, f)
               /\ Chars(m, NstrChop(m, s, c)) = At(Pieces(Chars(m, s), c), 1)
<1> DEFINE f == NstrFind(m, s, c)
           t == NstrChop(m, s, c)
<1>1. f \in 0 .. s.len /\ FirstEnd(Chars(m, s), c, f + 1)
  BY FindIsFirst
<1>2. s.at \in Nat /\ s.len \in Nat /\ s.at + s.len <= RecvSize
  BY DEF Within
<1> HIDE DEF f
<1>3. t = [at |-> s.at, room |-> f + 1, len |-> f]
  <2>1. Least(f, f + 1) = f /\ f <= f + 1
    BY <1>1, SMT DEF Least
  <2>2. QED  BY <2>1 DEF NstrChop, NstrInitN, f
<1>4. Within(t)
  BY <1>1, <1>2, <1>3, Sizes, SMT DEF Within
<1>5. /\ Chars(m, s) \in Seq(Char) /\ Len(Chars(m, s)) = s.len
      /\ \A j \in 1 .. s.len : Chars(m, s)[j] = m[s.at + j - 1]
  BY CharsType
<1>6. Chars(m, t) = SubSeq(Chars(m, s), 1, f)
  <2> DEFINE u == Chars(m, s)
             v == SubSeq(u, 1, f)
             w == Chars(m, t)
  <2>1. \A j \in 1 .. f : j \in 1 .. s.len /\ 1 + j - 1 = j
    BY <1>1, <1>2, SMT
  <2>2. f \in Int /\ 1 \in Int /\ (1 <= f \/ f = 0) /\ f - 1 + 1 = f
    BY <1>1, <1>2, SMT
  <2>3. \A j \in 1 .. f : u[j] \in Char
    BY <1>5, <2>1, ElementOfSeq
  <2>4. /\ v \in Seq(Char) /\ Len(v) = (IF 1 <= f THEN f - 1 + 1 ELSE 0)
        /\ \A j \in 1 .. f - 1 + 1 : v[j] = u[1 + j - 1]
    BY <2>2, <2>3, SubSeqProperties
  <2>5. /\ w \in Seq(Char) /\ Len(w) = f
        /\ \A j \in 1 .. f : w[j] = m[s.at + j - 1]
    BY <1>3, <1>4, CharsType
  <2> HIDE DEF u, v, w
  <2>6. Len(v) = Len(w)
    BY <1>1, <2>2, <2>4, <2>5, SMT
  <2>7. \A j \in 1 .. f : v[j] = w[j]
    BY <1>5, <2>1, <2>2, <2>4, <2>5 DEF u
  <2>8. v = w
    BY <2>4, <2>5, <2>6, <2>7, SeqEqual
  <2>9. QED  BY <2>8 DEF u, v, w
<1>7. SubSeq(Chars(m, s), 1, f) = At(Pieces(Chars(m, s), c), 1)
  <2>1. (f + 1) - 1 = f
    BY <1>1, <1>2, SMT
  <2>2. QED  BY <1>1, <1>5, <2>1, AtSplit
<1>8. QED  BY <1>3, <1>4, <1>6, <1>7 DEF f

\* The rest is what is behind it, in the room that is left.
LEMMA SplitIsRest ==
    ASSUME NEW m, Memory(m), NEW s, Within(s), NEW c
    PROVE  LET f == NstrFind(m, s, c)
               r == NstrSplit(m, s, c)
           IN  /\ Within(r) /\ Chars(m, r) = After(Chars(m, s), f + 1)
               /\ r.len > 0 => r.at = s.at + f + 1 /\ r.at + r.len = s.at + s.len
               /\ r.at + r.room = s.at + s.room
<1> DEFINE f == NstrFind(m, s, c)
           r == NstrSplit(m, s, c)
           u == Chars(m, s)
           v == Chars(m, r)
           w == After(u, f + 1)
<1>1. f \in 0 .. s.len
  BY FindIsFirst
<1>2. /\ s \in [at : Nat, room : Nat, len : Nat] /\ s.at + s.len <= RecvSize
      /\ s.at \in Nat /\ s.len \in Nat /\ s.room \in Nat /\ s.len <= s.room
  BY DEF Within
<1> HIDE DEF f
<1>3. r = IF f + 1 <= s.len
          THEN [at |-> s.at + (f + 1), room |-> s.room - (f + 1),
                len |-> s.len - (f + 1)]
          ELSE [s EXCEPT !.len = 0]
  BY DEF NstrSplit, f
<1>4. /\ u \in Seq(Char) /\ Len(u) = s.len
      /\ \A j \in 1 .. s.len : u[j] = m[s.at + j - 1]
  BY CharsType
<1> HIDE DEF r
<1>5. /\ Within(r) /\ r.at + r.room = s.at + s.room
      /\ r.len > 0 => r.at = s.at + f + 1 /\ r.at + r.len = s.at + s.len
      /\ r.len = IF f + 1 <= s.len THEN s.len - (f + 1) ELSE 0
  <2>1. CASE f + 1 <= s.len
    <3>1. r = [at |-> s.at + (f + 1), room |-> s.room - (f + 1),
               len |-> s.len - (f + 1)]
      BY <1>3, <2>1
    <3>2. /\ s.at + (f + 1) \in Nat /\ s.room - (f + 1) \in Nat
          /\ s.len - (f + 1) \in Nat
          /\ s.at + (f + 1) + (s.len - (f + 1)) = s.at + s.len
          /\ s.len - (f + 1) <= s.room - (f + 1)
          /\ s.at + (f + 1) = s.at + f + 1
          /\ s.at + (f + 1) + (s.room - (f + 1)) = s.at + s.room
      BY <1>1, <1>2, <2>1, SMT
    <3>3. QED  BY <1>2, <2>1, <3>1, <3>2 DEF Within
  <2>2. CASE ~(f + 1 <= s.len)
    <3>1. r = [at |-> s.at, room |-> s.room, len |-> 0]
      BY <1>2, <1>3, <2>2
    <3>2. s.at + 0 <= RecvSize /\ 0 <= s.room /\ ~(0 > 0) /\ 0 \in Nat
      BY <1>2, Sizes, SMT
    <3>3. QED  BY <1>2, <2>2, <3>1, <3>2 DEF Within
  <2>3. QED  BY <2>1, <2>2
<1>6. v = w
  <2>1. /\ v \in Seq(Char) /\ Len(v) = r.len
        /\ \A j \in 1 .. r.len : v[j] = m[r.at + j - 1]
    BY <1>5, CharsType
  <2>2. f + 1 \in 1 .. Len(u) + 1
    BY <1>1, <1>2, <1>4, SMT
  <2>3. /\ w \in Seq(Char)
        /\ Len(w) = IF f + 1 <= Len(u) THEN Len(u) - (f + 1) ELSE 0
        /\ \A j \in 1 .. Len(u) - (f + 1) : w[j] = u[f + 1 + j]
    BY <1>4, <2>2, AfterType
  <2> HIDE DEF u, v, w
  <2>4. Len(v) = Len(w)
    BY <1>4, <1>5, <2>1, <2>3
  <2>5. ASSUME NEW j \in 1 .. r.len PROVE v[j] = w[j]
    <3>1. /\ r.len > 0 /\ r.len = s.len - (f + 1)
          /\ j \in 1 .. Len(u) - (f + 1) /\ f + 1 + j \in 1 .. s.len
      BY <1>1, <1>2, <1>4, <1>5, SMT
    <3>2. r.at + j - 1 = s.at + (f + 1 + j) - 1
      BY <1>1, <1>2, <1>5, <3>1, SMT
    <3>3. QED  BY <1>4, <2>1, <2>3, <3>1, <3>2
  <2>6. QED  BY <2>1, <2>3, <2>4, <2>5, SeqEqual
<1>7. QED  BY <1>5, <1>6 DEF f, r

\* Field k is piece k: taking strings off a buffer is splitting the text.
LEMMA FieldIsPiece ==
    ASSUME NEW m, Memory(m), NEW s, Within(s), NEW k \in 1 .. 3
    PROVE  Field(m, s, k) = At(Pieces(Chars(m, s), US), k)
<1> DEFINE second == NstrSplit(m, s, US)
           third == NstrSplit(m, second, US)
           Rest(f) == f = [i \in 1 .. k |-> IF i = 1 THEN s
                                           ELSE NstrSplit(m, f[i - 1], US)]
           rest == CHOOSE f : Rest(f)
           g == [i \in 1 .. k |-> IF i = 1 THEN s
                                 ELSE IF i = 2 THEN second ELSE third]
<1>1. Rest(g)
  <2>1. ASSUME NEW i \in 1 .. k
        PROVE  \/ i = 1
               \/ i = 2 /\ i - 1 = 1 /\ i - 1 \in 1 .. k
               \/ i = 3 /\ i - 1 = 2 /\ i - 1 \in 1 .. k
    <3>1. k \in Nat /\ k <= 3 /\ i \in Nat /\ i >= 1 /\ i <= k
      BY SMT
    <3>2. i = 1 \/ i = 2 \/ i = 3
      BY <3>1, SMT
    <3>3. QED  BY <3>1, <3>2, SMT
  <2>2. ASSUME NEW i \in 1 .. k
        PROVE  g[i] = IF i = 1 THEN s ELSE NstrSplit(m, g[i - 1], US)
    <3>1. CASE i = 1
      BY <3>1
    <3>2. CASE i = 2 /\ i - 1 = 1 /\ i - 1 \in 1 .. k
      <4>1. g[i - 1] = s /\ g[i] = second
        BY <3>2, SMT
      <4>2. QED  BY <3>2, <4>1, SMT
    <3>3. CASE i = 3 /\ i - 1 = 2 /\ i - 1 \in 1 .. k
      <4>1. g[i - 1] = second /\ g[i] = third
        BY <3>3, SMT
      <4>2. QED  BY <3>3, <4>1, SMT
    <3>4. QED  BY <2>1, <3>1, <3>2, <3>3
  <2>3. QED  BY <2>2
<1>2. Rest(rest)
  BY <1>1
<1>3. Field(m, s, k) = Chars(m, NstrChop(m, rest[k], US))
  BY DEF Field
<1> HIDE DEF rest
<1>4. \A i \in 1 .. k : rest[i] = IF i = 1 THEN s
                                  ELSE NstrSplit(m, rest[i - 1], US)
  BY <1>2
<1>5. k = 1 \/ k = 2 \/ k = 3
  BY SMT
<1> DEFINE t == Chars(m, s)
           i == NstrFind(m, s, US) + 1
<1>6. /\ Within(second) /\ Chars(m, second) = After(t, i)
      /\ t \in Seq(Char) /\ FirstEnd(t, US, i)
  BY SplitIsRest, CharsType, FindIsFirst
<1>7. \A j \in Nat \ {0} :
        At(Pieces(t, US), j + 1) = At(Pieces(Chars(m, second), US), j)
  BY <1>6, AtSplit
<1> DEFINE t2 == Chars(m, second)
           i2 == NstrFind(m, second, US) + 1
<1>8. /\ Within(third) /\ Chars(m, third) = After(t2, i2)
      /\ t2 \in Seq(Char) /\ FirstEnd(t2, US, i2)
  <2> HIDE DEF second
  <2>1. QED  BY <1>6, SplitIsRest, CharsType, FindIsFirst
<1>9. \A j \in Nat \ {0} :
        At(Pieces(t2, US), j + 1) = At(Pieces(Chars(m, third), US), j)
  BY <1>8, AtSplit
<1>10. \A r : Within(r) => Chars(m, NstrChop(m, r, US)) =
                           At(Pieces(Chars(m, r), US), 1)
  BY ChopIsFirst
<1> HIDE DEF second, third, t, i
<1>11. CASE k = 1
  <2>1. rest[k] = s
    BY <1>4, <1>11
  <2>2. QED  BY <1>3, <1>10, <1>11, <2>1 DEF t
<1>12. CASE k = 2
  <2>1. rest[1] = s /\ rest[2] = second
    <3>1. 1 \in 1 .. k /\ 2 \in 1 .. k /\ 2 - 1 = 1 /\ 2 # 1
      BY <1>12, SMT
    <3>2. QED  BY <1>4, <3>1 DEF second
  <2>2. Field(m, s, k) = At(Pieces(t2, US), 1)
    BY <1>3, <1>6, <1>10, <1>12, <2>1
  <2>3. 1 + 1 = 2 /\ 1 \in Nat \ {0}
    BY SMT
  <2>4. QED  BY <1>7, <1>12, <2>2, <2>3 DEF t
<1>13. CASE k = 3
  <2>1. rest[3] = third
    <3>1. /\ 1 \in 1 .. k /\ 2 \in 1 .. k /\ 2 - 1 = 1 /\ 2 # 1
          /\ 3 \in 1 .. k /\ 3 - 1 = 2 /\ 3 # 1
      BY <1>13, SMT
    <3>2. rest[1] = s /\ rest[2] = second
      BY <1>4, <3>1 DEF second
    <3>3. QED  BY <1>4, <3>1, <3>2 DEF third
  <2>2. Field(m, s, k) = At(Pieces(Chars(m, third), US), 1)
    BY <1>3, <1>8, <1>10, <1>13, <2>1
  <2>3. 1 + 1 = 2 /\ 2 + 1 = 3 /\ 1 \in Nat \ {0} /\ 2 \in Nat \ {0}
    BY SMT
  <2>4. At(Pieces(t2, US), 2) = At(Pieces(Chars(m, third), US), 1)
    BY <1>9, <2>3
  <2>5. At(Pieces(t, US), 3) = At(Pieces(t2, US), 2)
    BY <1>7, <2>3
  <2>6. QED  BY <1>13, <2>2, <2>4, <2>5 DEF t
<1>14. QED  BY <1>5, <1>11, <1>12, <1>13

----------------------------------------------------------------------------
(* Texts and commands *)

\* What is parsed is an index, or too long to be one.
LEMMA NumberType ==
    ASSUME NEW n \in Nat, NEW chars
    PROVE  /\ NstrParseU32(n, chars) \in {-1} \cup Index
           /\ NstrParseU32(n, chars) >= 0 => /\ NstrParseU32(n, chars) \in Index
                                             /\ ~(Len(chars) >= n)
<1>1. Len(Digit) = 4 /\ Index = 0 .. 3
  BY DEF Index, Digit
<1>2. CASE Truncated(n, chars)
  <2>1. NstrParseU32(n, chars) = -1
    BY <1>2 DEF NstrParseU32
  <2>2. ~(-1 >= 0)
    BY SMT
  <2>3. QED  BY <2>1, <2>2
<1>3. CASE ~Truncated(n, chars)
  <2> DEFINE d == CHOOSE d \in 1 .. 4 : Digit[d] = chars[1]
  <2>1. CASE chars # <<>> /\ \E e \in 1 .. 4 : Digit[e] = chars[1]
    <3>1. d \in 1 .. 4 /\ NstrParseU32(n, chars) = d - 1
      BY <1>3, <2>1 DEF NstrParseU32
    <3> HIDE DEF d
    <3>2. QED  BY <1>1, <1>3, <3>1, SMT DEF Truncated
  <2>2. CASE ~(chars # <<>> /\ \E e \in 1 .. 4 : Digit[e] = chars[1])
    <3>1. NstrParseU32(n, chars) = 0
      BY <1>3, <2>2 DEF NstrParseU32
    <3>2. 0 \in Index
      BY <1>1, SMT
    <3>3. QED  BY <1>3, <3>1, <3>2 DEF Truncated
  <2>3. QED  BY <2>1, <2>2
<1>4. QED  BY <1>2, <1>3

\* What a command says, by its pieces and its length
Says(p, keep, long, full) ==
    IF At(p, 1) = <<"play">> /\ NstrParseU32(NumberSize, At(p, 2)) >= 0
    THEN [kind |-> "play", index |-> NstrParseU32(NumberSize, At(p, 2)),
          cam |-> NstrToCstr(CamSize, At(p, 3)), keep |-> keep, over |-> long]
    ELSE [kind |-> "other", index |-> 0, cam |-> <<>>, keep |-> keep,
          over |-> IF At(p, 1) = <<"display">> THEN long ELSE full]

\* Parsed reads nothing but the first three pieces and the length.
LEMMA ParsedSays ==
    ASSUME NEW text, NEW keep, NEW full
    PROVE  Parsed(text, keep, full) =
             Says(Pieces(text, US), keep, Len(text) >= LogSize, full)
BY DEF Parsed, Says, At

\* Of a command that is played or displayed it does not matter where it ends.
LEMMA PlayedAnywhere ==
    ASSUME NEW text, NEW keep, NEW full, NEW other,
           Parsed(text, keep, full).kind = "play"
    PROVE  Parsed(text, keep, full) = Parsed(text, keep, other)
<1> DEFINE p == Pieces(text, US)
           l == Len(text) >= LogSize
<1>1. /\ Parsed(text, keep, full) = Says(p, keep, l, full)
      /\ Parsed(text, keep, other) = Says(p, keep, l, other)
  BY ParsedSays
<1> HIDE DEF p, l
<1>2. At(p, 1) = <<"play">> /\ NstrParseU32(NumberSize, At(p, 2)) >= 0
  BY <1>1 DEF Says
<1>3. QED  BY <1>1, <1>2 DEF Says

\* The camera is a C string in its array.
LEMMA CamType ==
    ASSUME NEW chars \in Seq(Char)
    PROVE  /\ NstrToCstr(CamSize, chars) \in Seq(Char)
           /\ Len(NstrToCstr(CamSize, chars)) < CamSize
           /\ \A j \in DOMAIN NstrToCstr(CamSize, chars) :
                j \in DOMAIN chars /\ NstrToCstr(CamSize, chars)[j] = chars[j]
<1>1. CamSize - 1 \in Nat /\ CamSize \in Nat
  BY Sizes, SMT
<1> DEFINE t == NstrCat(CamSize - 1, <<>>, chars)
<1>2. /\ t \in Seq(Char) /\ Len(t) <= CamSize - 1 /\ Len(t) <= Len(chars)
      /\ \A j \in 1 .. Len(t) : t[j] = chars[j]
  BY <1>1, CatOfNothing
<1> HIDE DEF t
<1>3. /\ Len(t) < CamSize /\ DOMAIN t = 1 .. Len(t)
      /\ \A j \in 1 .. Len(t) : j \in DOMAIN chars
  BY <1>1, <1>2, LenProperties, SMT
<1>4. QED  BY <1>2, <1>3 DEF NstrToCstr, t

\* What is parsed is a command.
LEMMA ParsedType ==
    ASSUME NEW text \in Seq(Char), NEW keep \in BOOLEAN, NEW full \in BOOLEAN
    PROVE  /\ Parsed(text, keep, full) \in Q!Command
           /\ Parsed(text, keep, full).keep = keep
<1> DEFINE p == Pieces(text, US)
           n == NstrParseU32(NumberSize, At(p, 2))
           c == NstrToCstr(CamSize, At(p, 3))
           l == Len(text) >= LogSize
           o == IF At(p, 1) = <<"display">> THEN l ELSE full
<1>1. n >= 0 => n \in Index
  BY Sizes, NumberType
<1>2. c \in Seq(Char) /\ <<>> \in Seq(Char)
  BY AtType, CamType, EmptySeq
<1>3. 0 \in Index /\ l \in BOOLEAN
  BY SMT DEF Index, Digit
<1>4. o \in BOOLEAN
  BY <1>3
<1>5. Parsed(text, keep, full) =
        IF At(p, 1) = <<"play">> /\ n >= 0
        THEN [kind |-> "play", index |-> n, cam |-> c, keep |-> keep, over |-> l]
        ELSE [kind |-> "other", index |-> 0, cam |-> <<>>, keep |-> keep,
              over |-> o]
  BY ParsedSays DEF Says
<1> HIDE DEF n, c, l, o, p
<1>6. CASE At(p, 1) = <<"play">> /\ n >= 0
  BY <1>1, <1>2, <1>3, <1>5, <1>6 DEF Q!Command
<1>7. CASE ~(At(p, 1) = <<"play">> /\ n >= 0)
  BY <1>2, <1>3, <1>4, <1>5, <1>7 DEF Q!Command
<1>8. QED  BY <1>6, <1>7

\* Whether piece k of a text is the last, with no place behind it
FullAt(text, room, k) ==
    k = Len(Pieces(text, RS)) /\ Len(text) = room /\ text[Len(text)] # RS

\* The commands of a text are commands.
LEMMA CommandsType ==
    ASSUME NEW text \in Seq(Char), NEW keep \in BOOLEAN, NEW room
    PROVE  /\ Commands(text, keep, room) \in Seq(Q!Command)
           /\ Len(Commands(text, keep, room)) = Len(Pieces(text, RS))
           /\ \A k \in DOMAIN Commands(text, keep, room) :
                /\ Commands(text, keep, room)[k].keep = keep
                /\ Commands(text, keep, room)[k] =
                     Parsed(Pieces(text, RS)[k], keep, FullAt(text, room, k))
<1> DEFINE p == Pieces(text, RS)
           c == Commands(text, keep, room)
           m == Len(p)
           full(k) == FullAt(text, room, k)
<1>1. p \in Seq(Seq(Char)) /\ DOMAIN p = 1 .. m /\ m \in Nat
  BY PiecesType, LenProperties
<1>2. \A k : full(k) \in BOOLEAN
  BY DEF FullAt
<1>3. c = [k \in 1 .. m |-> Parsed(p[k], keep, full(k))]
  BY <1>1 DEF Commands, FullAt
<1> HIDE DEF p, c, m, full
<1>4. \A k \in 1 .. m : p[k] \in Seq(Char)
  BY <1>1, ElementOfSeq DEF m
<1>5. \A k \in 1 .. m : Parsed(p[k], keep, full(k)) \in Q!Command
                        /\ Parsed(p[k], keep, full(k)).keep = keep
  BY <1>2, <1>4, ParsedType
<1>6. c \in [1 .. m -> Q!Command]
  BY <1>3, <1>5
<1>7. c \in Seq(Q!Command) /\ Len(c) = m /\ DOMAIN c = 1 .. m
  BY <1>1, <1>6, SMT
<1>8. QED  BY <1>3, <1>5, <1>7 DEF c, p, m, full

\* The first command of a text begins it, and is full when it fills the room.
LEMMA FirstFull ==
    ASSUME NEW text \in Seq(Char), text # <<>>, NEW room \in Nat,
           Len(text) <= room, NEW i, FirstEnd(text, RS, i)
    PROVE  FullAt(text, room, 1) = (i - 1 = room)
<1> DEFINE r == After(text, i)
           p == Pieces(text, RS)
           q == Pieces(r, RS)
           n == Len(text)
<1>1. /\ i \in 1 .. n + 1 /\ n \in Nat /\ n # 0
      /\ \A j \in 1 .. i - 1 : text[j] # RS
      /\ i <= n => text[i] = RS
  BY LenProperties, EmptySeq DEF FirstEnd
<1>2. /\ r \in Seq(Char) /\ Len(r) = (IF i <= n THEN n - i ELSE 0)
  BY <1>1, AfterType
<1>3. /\ q \in Seq(Seq(Char)) /\ Len(p) = Len(q) + 1
  BY PiecesSplit
<1> HIDE DEF r, p, q, n
<1>4. Len(q) \in Nat
  BY <1>3, LenProperties
<1>5. ASSUME i - 1 = room PROVE FullAt(text, room, 1)
  <2>1. n = room /\ ~(i <= n) /\ n \in 1 .. i - 1
    BY <1>1, <1>5, SMT DEF n
  <2>2. Len(r) = 0
    BY <1>2, <2>1
  <2>3. q = <<>>
    BY <1>2, <2>2, EmptySeq, PiecesOfNothing DEF q
  <2>4. Len(p) = 1
    BY <1>3, <2>3, EmptySeq, SMT
  <2>5. QED  BY <1>1, <2>1, <2>4 DEF FullAt, p, n
<1>6. ASSUME FullAt(text, room, 1) PROVE i - 1 = room
  <2>1. 1 = Len(p) /\ n = room /\ text[n] # RS
    BY <1>6 DEF FullAt, p, n
  <2>2. i # n
    BY <1>1, <2>1, SMT
  <2>3. ASSUME i < n PROVE FALSE
    <3>1. Len(r) # 0
      BY <1>1, <1>2, <2>3, SMT
    <3>2. r # <<>>
      BY <3>1, EmptySeq
    <3>3. PICK j : FirstEnd(r, RS, j)
      BY <1>2, FirstEndExists
    <3> DEFINE q2 == Pieces(After(r, j), RS)
    <3>4. q2 \in Seq(Seq(Char)) /\ Len(q) = Len(q2) + 1
      <4>1. After(r, j) \in Seq(Char)
        BY <1>2, <3>3, AfterType DEF FirstEnd
      <4>2. Len(q) = Len(q2) + 1
        BY <1>2, <3>2, <3>3, PiecesSplit DEF q
      <4>3. QED  BY <4>1, <4>2, PiecesType
    <3> HIDE DEF q2
    <3>5. Len(q2) \in Nat
      BY <3>4, LenProperties
    <3>6. QED  BY <1>3, <1>4, <2>1, <3>4, <3>5, SMT
  <2>4. QED  BY <1>1, <2>1, <2>2, <2>3, SMT
<1>7. FullAt(text, room, 1) \in BOOLEAN /\ (i - 1 = room) \in BOOLEAN
  BY DEF FullAt
<1>8. QED  BY <1>5, <1>6, <1>7, Zenon

\* The other commands are those of the rest, in the room that is left.
LEMMA RestFull ==
    ASSUME NEW text \in Seq(Char), text # <<>>, NEW room \in Nat,
           NEW i, FirstEnd(text, RS, i), NEW left \in Nat,
           i <= Len(text) => left + i = room,
           NEW k \in 1 .. Len(Pieces(After(text, i), RS))
    PROVE  FullAt(text, room, k + 1) = FullAt(After(text, i), left, k)
<1> DEFINE r == After(text, i)
           p == Pieces(text, RS)
           q == Pieces(r, RS)
           n == Len(text)
<1>1. i \in 1 .. n + 1 /\ n \in Nat
  BY LenProperties DEF FirstEnd
<1>2. /\ r \in Seq(Char) /\ Len(r) = (IF i <= n THEN n - i ELSE 0)
      /\ \A j \in 1 .. n - i : r[j] = text[i + j]
  BY <1>1, AfterType
<1>3. /\ q \in Seq(Seq(Char)) /\ Len(p) = Len(q) + 1
  BY PiecesSplit
<1> HIDE DEF r, p, q, n
<1>4. Len(q) \in Nat /\ k \in 1 .. Len(q)
  BY <1>3, LenProperties DEF q, r
<1>5. Len(r) # 0
  <2>1. SUFFICES ASSUME Len(r) = 0 PROVE FALSE
    OBVIOUS
  <2>2. Len(q) = 0
    BY <1>2, <2>1, EmptySeq, PiecesOfNothing DEF q
  <2>3. QED  BY <1>4, <2>2, SMT
<1>6. i <= n /\ Len(r) = n - i /\ n - i \in 1 .. n - i /\ i + (n - i) = n
  BY <1>1, <1>2, <1>5, SMT
<1>7. r[Len(r)] = text[n]
  BY <1>2, <1>6
<1>8. (Len(r) = left) <=> (n = room)
  BY <1>1, <1>6, SMT DEF n
<1>9. (k + 1 = Len(p)) <=> (k = Len(q))
  BY <1>3, <1>4, SMT
<1>10. FullAt(text, room, k + 1) <=> FullAt(r, left, k)
  BY <1>7, <1>8, <1>9 DEF FullAt, p, q, n
<1>11. FullAt(text, room, k + 1) \in BOOLEAN /\ FullAt(r, left, k) \in BOOLEAN
  BY DEF FullAt
<1>12. FullAt(text, room, k + 1) = FullAt(r, left, k)
  <2> DEFINE a == FullAt(text, room, k + 1)
             b == FullAt(r, left, k)
  <2>1. a \in BOOLEAN /\ b \in BOOLEAN /\ (a <=> b)
    BY <1>10, <1>11
  <2> HIDE DEF a, b
  <2>2. a = b
    BY <2>1
  <2>3. QED  BY <2>2 DEF a, b
<1>13. QED  BY <1>12 DEF r

\* The first command, and those of the rest
LEMMA CommandsSplit ==
    ASSUME NEW text \in Seq(Char), NEW keep \in BOOLEAN, text # <<>>,
           NEW room \in Nat, Len(text) <= room,
           NEW i, FirstEnd(text, RS, i), NEW left \in Nat,
           i <= Len(text) => left + i = room
    PROVE  /\ Commands(text, keep, room) # <<>>
           /\ Head(Commands(text, keep, room)) =
                Parsed(SubSeq(text, 1, i - 1), keep, i - 1 = room)
           /\ Tail(Commands(text, keep, room)) =
                Commands(After(text, i), keep, left)
<1> DEFINE r == After(text, i)
           p == Pieces(text, RS)
           q == Pieces(r, RS)
           c == Commands(text, keep, room)
           d == Commands(r, keep, left)
           e == i - 1 = room
<1>1. r \in Seq(Char)
  BY AfterType DEF FirstEnd
<1>2. /\ p \in Seq(Seq(Char)) /\ q \in Seq(Seq(Char)) /\ Len(p) = Len(q) + 1
      /\ p[1] = SubSeq(text, 1, i - 1)
      /\ \A k \in 1 .. Len(q) : p[k + 1] = q[k]
  BY PiecesSplit
<1>3. FullAt(text, room, 1) = e
  BY FirstFull
<1>4. \A k \in 1 .. Len(q) : FullAt(text, room, k + 1) = FullAt(r, left, k)
  BY RestFull
<1> HIDE DEF r, e
<1>5. /\ c \in Seq(Q!Command) /\ Len(c) = Len(p)
      /\ \A k \in DOMAIN c : c[k] = Parsed(p[k], keep, FullAt(text, room, k))
  BY CommandsType
<1>6. /\ d \in Seq(Q!Command) /\ Len(d) = Len(q)
      /\ \A k \in DOMAIN d : d[k] = Parsed(q[k], keep, FullAt(r, left, k))
  BY <1>1, CommandsType
<1> HIDE DEF c, d, p, q
<1>7. /\ DOMAIN c = 1 .. Len(c) /\ DOMAIN d = 1 .. Len(d) /\ Len(d) \in Nat
      /\ Len(c) = Len(d) + 1
  BY <1>2, <1>5, <1>6, LenProperties
<1>8. c # <<>> /\ 1 \in DOMAIN c
  BY <1>5, <1>7, EmptySeq, SMT
<1>9. Head(c) = Parsed(SubSeq(text, 1, i - 1), keep, e)
  <2>1. Head(c) = c[1]
    BY <1>5, <1>8, SMT
  <2>2. QED  BY <1>2, <1>3, <1>5, <1>8, <2>1
<1>10. Tail(c) = d
  <2>1. /\ Tail(c) \in Seq(Q!Command) /\ Len(Tail(c)) = Len(c) - 1
        /\ \A k \in 1 .. Len(Tail(c)) : Tail(c)[k] = c[k + 1]
    BY <1>5, <1>8, HeadTailProperties
  <2>2. Len(Tail(c)) = Len(d)
    BY <1>7, <2>1, SMT
  <2>3. ASSUME NEW k \in 1 .. Len(d) PROVE Tail(c)[k] = d[k]
    <3>1. k + 1 \in DOMAIN c /\ k \in DOMAIN d /\ k \in 1 .. Len(q)
      BY <1>6, <1>7, SMT
    <3>2. QED  BY <1>2, <1>4, <1>5, <1>6, <2>1, <2>2, <3>1
  <2>4. QED  BY <1>6, <2>1, <2>2, <2>3, SeqEqual
<1>11. QED  BY <1>8, <1>9, <1>10 DEF c, d, r, e

\* There is no command in nothing.
LEMMA CommandsOfNothing ==
    ASSUME NEW text \in Seq(Char), NEW keep \in BOOLEAN, NEW room, text = <<>>
    PROVE  Commands(text, keep, room) = <<>>
<1>1. /\ Commands(text, keep, room) \in Seq(Q!Command)
      /\ Len(Commands(text, keep, room)) = Len(Pieces(text, RS))
  BY CommandsType
<1>2. Pieces(text, RS) = <<>>
  BY PiecesOfNothing
<1>3. Len(Commands(text, keep, room)) = 0
  BY <1>1, <1>2
<1>4. QED  BY <1>1, <1>3, EmptySeq

\* A stored command that is read back is for the same monitor, and is the
\* same command when it fits elog_cmd.
LEMMA StoredComesBack ==
    ASSUME NEW text \in Seq(Char), Parsed(text, TRUE, FALSE).kind = "play",
           NEW full
    PROVE  LET c == Parsed(text, TRUE, FALSE)
               d == Parsed(NstrCat(LoadSize, <<>>, text), FALSE, full)
           IN  /\ d.kind = "play" /\ d.index = c.index /\ d.over = c.over
               /\ ~d.over => d.cam = c.cam
<1> DEFINE t == NstrCat(LoadSize, <<>>, text)
           p == Pieces(text, US)
           q == Pieces(t, US)
           n == NstrParseU32(NumberSize, At(p, 2))
<1>1. /\ t \in Seq(Char) /\ (Len(text) <= LoadSize => t = text)
      /\ Len(t) = Least(Len(text), LoadSize)
      /\ LoadSize \in Nat /\ NumberSize \in Nat /\ Len(text) \in Nat
      /\ 2 + NumberSize <= LoadSize /\ LogSize \in Nat /\ LogSize <= LoadSize
  BY Sizes, CatOfNothing, LenProperties
<1>2. At(p, 1) = <<"play">> /\ n >= 0
  BY ParsedSays DEF Says
<1>3. PICK i : FirstEnd(text, US, i)
  BY FirstEndExists
<1>4. /\ At(p, 1) = SubSeq(text, 1, i - 1)
      /\ \A k \in Nat \ {0} : At(p, k + 1) = At(Pieces(After(text, i), US), k)
      /\ i \in 1 .. Len(text) + 1 /\ After(text, i) \in Seq(Char)
  <2>1. i \in 1 .. Len(text) + 1
    BY <1>3 DEF FirstEnd
  <2>2. After(text, i) \in Seq(Char)
    BY <2>1, AfterType
  <2>3. /\ At(p, 1) = SubSeq(text, 1, i - 1)
        /\ \A k \in Nat \ {0} : At(p, k + 1) = At(Pieces(After(text, i), US), k)
    <3> HIDE DEF t, q, n
    <3>1. QED  BY <1>3, AtSplit
  <2>4. QED  BY <2>1, <2>2, <2>3
<1>5. i = 2
  <2>1. \A j \in 1 .. i - 1 : j \in 1 .. Len(text)
    BY <1>1, <1>4, SMT
  <2>2. 1 \in Int /\ i - 1 \in Int
    BY <1>4, SMT
  <2>3. Len(SubSeq(text, 1, i - 1)) = IF 1 <= i - 1 THEN (i - 1) - 1 + 1 ELSE 0
    BY <2>1, <2>2, ElementOfSeq, SubSeqProperties
  <2>4. Len(<<"play">>) = 1
    OBVIOUS
  <2>5. Len(SubSeq(text, 1, i - 1)) = 1
    BY <1>2, <1>4, <2>4
  <2>6. QED  BY <1>1, <1>4, <2>3, <2>5, SMT
<1> DEFINE u == After(text, i)
<1>6. PICK j : FirstEnd(u, US, j)
  BY <1>4, FirstEndExists
<1>7. /\ At(p, 2) = SubSeq(u, 1, j - 1)
      /\ j \in 1 .. Len(u) + 1 /\ Len(u) \in Nat
  <2>1. At(Pieces(u, US), 1) = SubSeq(u, 1, j - 1)
    BY <1>4, <1>6, AtSplit
  <2>2. 1 + 1 = 2 /\ 1 \in Nat \ {0}
    BY SMT
  <2>3. At(p, 2) = At(Pieces(u, US), 1)
    BY <1>4, <2>2
  <2>4. QED  BY <1>4, <1>6, <2>1, <2>3, LenProperties DEF FirstEnd
<1>8. j - 1 < NumberSize
  <2> HIDE DEF u
  <2>1. \A k \in 1 .. j - 1 : k \in 1 .. Len(u)
    BY <1>7, SMT
  <2>2. 1 \in Int /\ j - 1 \in Int
    BY <1>7, SMT
  <2>3. u \in Seq(Char)
    BY <1>4 DEF u
  <2>4. Len(SubSeq(u, 1, j - 1)) = IF 1 <= j - 1 THEN (j - 1) - 1 + 1 ELSE 0
    BY <2>1, <2>2, <2>3, ElementOfSeq, SubSeqProperties
  <2>5. ~(Len(At(p, 2)) >= NumberSize)
    BY <1>1, <1>2, NumberType
  <2>6. QED  BY <1>1, <1>7, <2>4, <2>5, SMT
<1> DEFINE s == NstrCat(LoadSize - i, <<>>, u)
<1>9. /\ FirstEnd(t, US, i) /\ SubSeq(t, 1, i - 1) = SubSeq(text, 1, i - 1)
      /\ After(t, i) = s
  <2>1. i - 1 <= LoadSize /\ i <= LoadSize
    BY <1>1, <1>5, SMT
  <2>2. QED  BY <1>1, <1>3, <2>1, CutSplit
<1>10. FirstEnd(s, US, j) /\ SubSeq(s, 1, j - 1) = SubSeq(u, 1, j - 1)
       /\ s \in Seq(Char)
  <2>1. LoadSize - i \in Nat /\ j - 1 <= LoadSize - i
    BY <1>1, <1>5, <1>7, <1>8, SMT
  <2> HIDE DEF u
  <2>2. u \in Seq(Char)
    BY <1>4 DEF u
  <2>3. FirstEnd(s, US, j) /\ SubSeq(s, 1, j - 1) = SubSeq(u, 1, j - 1)
    BY <1>6, <2>1, <2>2, CutSplit
  <2>4. s \in Seq(Char)
    BY <2>1, <2>2, CatOfNothing
  <2>5. QED  BY <2>3, <2>4
<1>11. At(q, 1) = At(p, 1)
  <2> HIDE DEF t
  <2>1. At(q, 1) = SubSeq(t, 1, i - 1)
    BY <1>1, <1>9, AtSplit
  <2>2. QED  BY <1>4, <1>9, <2>1
<1>12. At(q, 2) = At(p, 2)
  <2> HIDE DEF t, s, p, u
  <2>1. \A k \in Nat \ {0} : At(q, k + 1) = At(Pieces(s, US), k)
    BY <1>1, <1>9, AtSplit
  <2>2. At(Pieces(s, US), 1) = SubSeq(s, 1, j - 1)
    BY <1>10, AtSplit
  <2>3. 1 + 1 = 2 /\ 1 \in Nat \ {0}
    BY SMT
  <2>4. At(q, 2) = At(Pieces(s, US), 1)
    BY <2>1, <2>3
  <2>5. QED  BY <1>7, <1>10, <2>2, <2>4
<1> DEFINE l == Len(text) >= LogSize
           m == Len(t) >= LogSize
           x == Parsed(text, TRUE, FALSE)
           y == Parsed(t, FALSE, full)
<1>13. x = Says(p, TRUE, l, FALSE) /\ y = Says(q, FALSE, m, full)
  BY ParsedSays
<1>14. /\ m = l /\ (~l => Len(text) <= LoadSize)
  <2>1. /\ m <=> l
        /\ ~l => Len(text) <= LoadSize
    BY <1>1, SMT DEF Least
  <2>2. m \in BOOLEAN /\ l \in BOOLEAN
    BY DEF m, l
  <2> HIDE DEF m, l
  <2>3. QED  BY <2>1, <2>2, Zenon
<1> HIDE DEF t, p, q, s, l, m, x, y
<1> DEFINE c == NstrToCstr(CamSize, At(p, 3))
           d == NstrToCstr(CamSize, At(q, 3))
<1>15. x.index = n /\ x.cam = c /\ x.over = l
  <2>1. x = [kind |-> "play", index |-> n, cam |-> c, keep |-> TRUE, over |-> l]
    BY <1>2, <1>13 DEF Says
  <2> HIDE DEF n, c
  <2>2. QED  BY <2>1
<1>16. y.kind = "play" /\ y.index = n /\ y.cam = d /\ y.over = m
  <2>1. At(q, 1) = <<"play">> /\ NstrParseU32(NumberSize, At(q, 2)) = n
        /\ NstrParseU32(NumberSize, At(q, 2)) >= 0
    BY <1>2, <1>11, <1>12
  <2>2. y = [kind |-> "play", index |-> n, cam |-> d, keep |-> FALSE, over |-> m]
    BY <1>13, <2>1 DEF Says
  <2> HIDE DEF n, d
  <2>3. QED  BY <2>2
<1>17. ~l => q = p
  BY <1>1, <1>14 DEF p, q
<1>18. QED
  BY <1>14, <1>15, <1>16, <1>17 DEF t, x, y

----------------------------------------------------------------------------
(* The inductive invariant *)

\* What is still in the buffer are the commands that are still to be handled.
TodoInBuffer == todo = Commands(Chars(mem, str), store, str.room)

\* A file holds a play command for its own monitor.
Stored(i) ==
    file[i] # <<>> => /\ Without(file[i], RS)
                      /\ Parsed(file[i], TRUE, FALSE).kind = "play"
                      /\ Parsed(file[i], TRUE, FALSE).index = i

IndInv ==
    /\ TypeOK /\ TodoInBuffer
    /\ \A i \in Index : Stored(i) /\ Plain(cam[i])

\* What read and recvfrom leave in the buffer is the text.
LEMMA FilledIs ==
    ASSUME Memory(mem), NEW text \in Seq(Char), NEW size \in Nat,
           Len(text) <= size, size <= RecvSize
    PROVE  LET s == NstrInitN(0, size, Len(text))
           IN  /\ Memory(Filled(text)) /\ Within(s) /\ s.at + s.room <= RecvSize
               /\ s.room = size /\ Chars(Filled(text), s) = text
<1> DEFINE s == NstrInitN(0, size, Len(text))
           m == Filled(text)
<1>1. Len(text) \in Nat /\ RecvSize \in Nat
  BY LenProperties, Sizes
<1>2. s = [at |-> 0, room |-> size, len |-> Len(text)]
  BY <1>1, SMT DEF NstrInitN, Least
<1>3. Within(s) /\ s.at + s.room <= RecvSize /\ s.room = size
  BY <1>1, <1>2, SMT DEF Within
<1>4. Memory(m)
  <2>1. \A a \in Address : a < Len(text) => a + 1 \in 1 .. Len(text)
    BY <1>1, SMT DEF Address
  <2>2. \A a \in Address : (IF a < Len(text) THEN text[a + 1] ELSE mem[a]) \in Char
    BY <2>1, ElementOfSeq DEF Memory
  <2>3. QED  BY <2>2 DEF Memory, Filled
<1>5. \A j \in 1 .. Len(text) :
        0 + j - 1 \in Address /\ 0 + j - 1 < Len(text) /\ (0 + j - 1) + 1 = j
  BY <1>1, SMT DEF Address
<1>6. \A j \in 1 .. Len(text) : m[0 + j - 1] = text[j]
  BY <1>5 DEF Filled
<1> HIDE DEF m
<1> DEFINE t == Chars(m, s)
<1>7. t \in Seq(Char) /\ Len(t) = s.len /\ \A j \in 1 .. s.len : t[j] = m[s.at + j - 1]
  BY <1>3, <1>4, CharsType
<1> HIDE DEF s, t
<1>8. Len(t) = Len(text) /\ \A j \in 1 .. Len(text) : t[j] = text[j]
  BY <1>2, <1>6, <1>7
<1>9. t = text
  BY <1>7, <1>8, SeqEqual
<1>10. QED  BY <1>3, <1>4, <1>9 DEF s, m, t

\* What is typed is in the buffer.
LEMMA BufferType ==
    ASSUME TypeOK
    PROVE  Memory(mem) /\ Within(str) /\ store \in BOOLEAN
           /\ Chars(mem, str) \in Seq(Char) /\ Len(Chars(mem, str)) = str.len
<1>1. /\ mem \in [Address -> Char] /\ str \in [at : Nat, room : Nat, len : Nat]
      /\ str.at + str.room <= RecvSize /\ str.len <= str.room
      /\ store \in BOOLEAN
  BY DEF TypeOK
<1>2. str.at \in Nat /\ str.room \in Nat /\ str.len \in Nat
  BY <1>1
<1>3. str.at + str.len <= RecvSize
  BY <1>1, <1>2, Sizes, SMT
<1>4. Memory(mem) /\ Within(str)
  BY <1>1, <1>3 DEF Memory, Within
<1>5. QED  BY <1>1, <1>4, CharsType

\* To terminate a command in the buffer changes the separator behind it, and
\* nothing of the rest.
LEMMA RestUndisturbed ==
    ASSUME NEW m, Memory(m), NEW s, Within(s)
    PROVE  LET cmd == NstrChop(m, s, RS)
               rest == NstrSplit(m, s, RS)
           IN  /\ Memory(NstrZ(m, cmd))
               /\ Chars(NstrZ(m, cmd), rest) = Chars(m, rest)
<1> DEFINE cmd == NstrChop(m, s, RS)
           rest == NstrSplit(m, s, RS)
           f == NstrFind(m, s, RS)
           z == NstrZ(m, cmd)
<1>1. f \in 0 .. s.len /\ s.at \in Nat /\ s.len \in Nat /\ s.at + s.len <= RecvSize
  BY FindIsFirst DEF Within
<1>2. cmd = [at |-> s.at, room |-> f + 1, len |-> f]
  BY ChopIsFirst
<1>3. Within(rest) /\ (rest.len > 0 => rest.at = s.at + f + 1)
  BY SplitIsRest
<1> HIDE DEF f, cmd, rest
<1>4. z = [m EXCEPT ![s.at + f] = NUL]
  <2>1. cmd.at = s.at /\ cmd.len = f /\ cmd.room = f + 1
    BY <1>2
  <2>2. Least(cmd.len, cmd.room - 1) = f
    BY <1>1, <2>1, SMT DEF Least
  <2>3. z = [m EXCEPT ![cmd.at + Least(cmd.len, cmd.room - 1)] = NUL]
    BY DEF NstrZ
  <2>4. QED  BY <2>1, <2>2, <2>3
<1>5. NUL \in Char
  BY DEF Char
<1>6. z \in [Address -> Char] /\ \A a \in Address : a # s.at + f => z[a] = m[a]
  BY <1>4, <1>5 DEF Memory
<1> HIDE DEF z
<1>7. Memory(z)
  BY <1>6 DEF Memory
<1>8. Chars(z, rest) = Chars(m, rest)
  <2> DEFINE t == Chars(z, rest)
             u == Chars(m, rest)
  <2>1. /\ t \in Seq(Char) /\ Len(t) = rest.len
        /\ \A j \in 1 .. rest.len : t[j] = z[rest.at + j - 1]
        /\ \A j \in 1 .. rest.len : rest.at + j - 1 \in Address
    BY <1>3, <1>7, CharsType
  <2>2. /\ u \in Seq(Char) /\ Len(u) = rest.len
        /\ \A j \in 1 .. rest.len : u[j] = m[rest.at + j - 1]
    BY <1>3, CharsType
  <2> HIDE DEF t, u
  <2>3. ASSUME NEW j \in 1 .. rest.len PROVE t[j] = u[j]
    <3>1. rest.len \in Nat
      BY <1>3 DEF Within
    <3>2. rest.len > 0
      BY <3>1, SMT
    <3>3. rest.at + j - 1 # s.at + f
      BY <1>1, <1>3, <3>1, <3>2, SMT
    <3>4. QED  BY <1>6, <2>1, <2>2, <3>3
  <2>4. t = u
    BY <2>1, <2>2, <2>3, SeqEqual
  <2>5. QED  BY <2>4 DEF t, u
<1>9. QED  BY <1>7, <1>8 DEF z, cmd, rest

\* What is handled is the first command of the text, and what is left in the
\* buffer are the others.
LEMMA ProcCmdStep ==
    ASSUME IndInv, ProcCmd
    PROVE  \E text \in Seq(Char) :
             LET c == Parsed(text, store, Len(text) = str.room)
             IN  /\ Without(text, RS) /\ Len(text) <= RecvSize
                 /\ todo # <<>> /\ Head(todo) = c /\ todo' = Tail(todo)
                 /\ todo' = Commands(Chars(mem, str)', store, (str.room)')
                 /\ c.over \in BOOLEAN /\ fault' = (fault \/ c.over)
                 /\ Memory(mem') /\ Within(str') /\ (str.at + str.room <= RecvSize)'
                 /\ c.kind = "play" =>
                      /\ text # <<>> /\ c.index \in Index /\ c.cam \in Seq(Char)
                      /\ Len(c.cam) < CamSize /\ Plain(c.cam)
                      /\ cam' = IF c.index < n_cells
                                THEN [cam EXCEPT ![c.index] = c.cam] ELSE cam
                      /\ file' = IF store THEN [file EXCEPT ![c.index] = text]
                                 ELSE file
                 /\ c.kind # "play" => UNCHANGED <<cam, file>>
                 /\ UNCHANGED <<store, next, n_cells>> /\ sent' = None
<1> DEFINE whole == Chars(mem, str)
           f == NstrFind(mem, str, RS)
           cmd == NstrChop(mem, str, RS)
           rest == NstrSplit(mem, str, RS)
           text == Chars(mem, cmd)
           p == Pieces(text, US)
           n == NstrParseU32(NumberSize, At(p, 2))
           full == f = str.room
           c == Parsed(text, store, full)
           name == Chars(mem, NstrChop(mem, cmd, US))
<1>1. /\ Memory(mem) /\ Within(str) /\ store \in BOOLEAN
      /\ whole \in Seq(Char) /\ Len(whole) = str.len /\ TypeOK /\ TodoInBuffer
  BY BufferType DEF IndInv
<1>2. /\ str.len > 0 /\ str' = rest /\ sent' = None
      /\ todo' = IF todo = <<>> THEN <<>> ELSE Tail(todo)
      /\ UNCHANGED <<store, next, n_cells>>
      /\ IF name = <<"play">> /\ Monitor(cmd) >= 0 THEN Play(cmd, Monitor(cmd))
         ELSE IF name = <<"display">> THEN Display(cmd)
         ELSE Invalid(cmd)
  BY DEF ProcCmd
<1>3. /\ Within(cmd) /\ cmd.len = f /\ text = SubSeq(whole, 1, f)
      /\ FirstEnd(whole, RS, f + 1) /\ f \in 0 .. str.len
      /\ Within(rest) /\ rest.at + rest.room = str.at + str.room
      /\ Chars(mem, rest) = After(whole, f + 1)
  BY <1>1, ChopIsFirst, SplitIsRest, FindIsFirst
<1>4. /\ text \in Seq(Char) /\ Without(text, RS) /\ Len(text) = f
  <2>1. (f + 1) - 1 = f
    BY <1>1, <1>3, SMT DEF Within
  <2>2. QED  BY <1>1, <1>3, <2>1, PieceWithout
<1>5. Len(text) <= RecvSize /\ whole # <<>>
  <2>1. str.len \in Nat /\ str.at \in Nat /\ str.at + str.len <= RecvSize
    BY <1>1 DEF Within
  <2>2. Len(whole) # 0
    BY <1>1, <1>2, <2>1, SMT
  <2>3. QED  BY <1>3, <1>4, <2>1, <2>2, Sizes, SMT
<1>6. /\ todo # <<>> /\ Head(todo) = c
      /\ Tail(todo) = Commands(Chars(mem, rest), store, rest.room)
  <2>1. (f + 1) - 1 = f
    BY <1>1, <1>3, SMT DEF Within
  <2>2. todo = Commands(whole, store, str.room)
    BY <1>1 DEF TodoInBuffer
  <2>3. /\ str.room \in Nat /\ Len(whole) <= str.room /\ rest.room \in Nat
    BY <1>1, <1>3 DEF Within
  <2>4. f + 1 <= Len(whole) => rest.room + (f + 1) = str.room
    <3>1. f + 1 <= str.len => rest = [at |-> str.at + (f + 1),
                          room |-> str.room - (f + 1), len |-> str.len - (f + 1)]
      BY DEF NstrSplit
    <3> HIDE DEF rest
    <3>2. f + 1 <= str.len => rest.room = str.room - (f + 1)
      BY <3>1
    <3> HIDE DEF f, whole
    <3>3. f \in Nat
      BY <1>1, <1>3, SMT DEF Within
    <3>4. QED  BY <1>1, <2>3, <3>2, <3>3, SMT
  <2> HIDE DEF whole, f, cmd, rest
  <2>5. /\ Commands(whole, store, str.room) # <<>>
        /\ Head(Commands(whole, store, str.room)) =
             Parsed(SubSeq(whole, 1, (f + 1) - 1), store, (f + 1) - 1 = str.room)
        /\ Tail(Commands(whole, store, str.room)) =
             Commands(After(whole, f + 1), store, rest.room)
    BY <1>1, <1>3, <1>5, <2>3, <2>4, CommandsSplit
  <2>6. QED  BY <1>3, <2>1, <2>2, <2>5
<1>7. /\ name = At(p, 1) /\ Monitor(cmd) = n
      /\ Field(mem, cmd, 3) = At(p, 3)
  <2> HIDE DEF cmd
  <2>1. name = At(p, 1)
    BY <1>1, <1>3, ChopIsFirst
  <2>2. Field(mem, cmd, 2) = At(p, 2) /\ Field(mem, cmd, 3) = At(p, 3)
    <3>1. 2 \in 1 .. 3 /\ 3 \in 1 .. 3
      BY SMT
    <3>2. QED  BY <1>1, <1>3, <3>1, FieldIsPiece
  <2>3. QED  BY <2>1, <2>2 DEF Monitor
<1>8. \/ mem' = mem
      \/ mem' = NstrZ(mem, cmd)
  <2>1. CASE name = <<"play">> /\ Monitor(cmd) >= 0
    BY <1>2, <2>1 DEF Play
  <2>2. CASE ~(name = <<"play">> /\ Monitor(cmd) >= 0)
    BY <1>2, <2>2 DEF Invalid, Display
  <2>3. QED  BY <2>1, <2>2
<1>9. Memory(mem') /\ Chars(mem', rest) = Chars(mem, rest)
  BY <1>1, <1>8, RestUndisturbed
<1>10. /\ Within(str') /\ str'.at + str'.room <= RecvSize
       /\ todo' = Tail(todo)
       /\ todo' = Commands(Chars(mem', str'), store, str'.room)
  BY <1>1, <1>2, <1>3, <1>6, <1>9 DEF TypeOK
<1> DEFINE l == Len(text) >= LogSize
<1>11. c = Says(p, store, l, full)
  BY ParsedSays
<1>12. Plain(At(p, 3)) /\ At(p, 3) \in Seq(Char)
  <2>1. 3 \in 1 .. 3
    BY SMT
  <2> HIDE DEF text
  <2>2. QED  BY <1>4, <2>1, FieldPlain
<1> DEFINE told == NstrToCstr(CamSize, At(p, 3))
<1>13. told \in Seq(Char) /\ Len(told) < CamSize /\ Plain(told)
  <2> DEFINE third == At(p, 3)
  <2> HIDE DEF p
  <2>1. third \in Seq(Char) /\ Plain(third)
    BY <1>12
  <2> HIDE DEF third
  <2>2. /\ NstrToCstr(CamSize, third) \in Seq(Char)
        /\ Len(NstrToCstr(CamSize, third)) < CamSize
        /\ \A j \in DOMAIN NstrToCstr(CamSize, third) :
             /\ j \in DOMAIN third
             /\ NstrToCstr(CamSize, third)[j] = third[j]
    BY <2>1, CamType
  <2>3. Plain(NstrToCstr(CamSize, third))
    BY <2>1, <2>2 DEF Plain, Without
  <2>4. QED  BY <2>2, <2>3 DEF third
<1>14. n >= 0 => n \in Index
  BY Sizes, NumberType
<1>15. text = <<>> => At(p, 1) # <<"play">>
  <2>1. text = <<>> => p = <<>>
    BY <1>4, PiecesOfNothing
  <2>2. At(<<>>, 1) = <<>> /\ <<>> # <<"play">>
    BY SMT DEF At
  <2> HIDE DEF text, p
  <2>3. QED  BY <2>1, <2>2
\* What is written outside an array
<1>16. /\ full = (Len(text) = str.room) /\ full \in BOOLEAN /\ l \in BOOLEAN
       /\ (cmd.len >= LogSize) = l /\ (cmd.len < str.room) = ~full
  <2>1. str.room \in Nat /\ f \in Nat /\ f <= str.room
    <3> HIDE DEF f
    <3>1. QED  BY <1>1, <1>3, SMT DEF Within
  <2>2. full = (Len(text) = str.room) /\ full \in BOOLEAN /\ l \in BOOLEAN
    BY <1>4
  <2>3. (cmd.len >= LogSize) = l
    BY <1>3, <1>4
  <2>4. (f < str.room) <=> ~(f = str.room)
    <3> HIDE DEF f
    <3>1. QED  BY <2>1, SMT
  <2>5. (f < str.room) \in BOOLEAN
    <3> HIDE DEF f
    <3>1. QED  BY <2>1, SMT
  <2> DEFINE lt == f < str.room
  <2>6. lt = ~full
    <3>1. lt \in BOOLEAN /\ full \in BOOLEAN /\ (lt <=> ~full)
      BY <2>2, <2>4, <2>5
    <3> HIDE DEF lt, full
    <3>2. CASE full = TRUE
      BY <3>1, <3>2
    <3>3. CASE full = FALSE
      BY <3>1, <3>3
    <3>4. QED  BY <3>1, <3>2, <3>3
  <2>7. QED  BY <1>3, <2>2, <2>3, <2>6
<1>17. fault \in BOOLEAN
  BY <1>1 DEF TypeOK
<1> HIDE DEF whole, f, cmd, rest, text, p, n, name, l, told, c, full
<1>18. /\ Len(text) <= RecvSize /\ Without(text, RS) /\ text \in Seq(Char)
       /\ todo # <<>> /\ Head(todo) = c /\ todo' = Tail(todo)
       /\ todo' = Commands(Chars(mem', str'), store, str'.room)
       /\ Memory(mem') /\ Within(str') /\ str'.at + str'.room <= RecvSize
       /\ UNCHANGED <<store, next, n_cells>> /\ sent' = None
       /\ c = Parsed(text, store, Len(text) = str.room)
  BY <1>2, <1>4, <1>5, <1>6, <1>9, <1>10, <1>16 DEF c
<1>19. CASE name = <<"play">> /\ Monitor(cmd) >= 0
  <2>1. c = [kind |-> "play", index |-> n, cam |-> told, keep |-> store,
             over |-> l]
    BY <1>7, <1>11, <1>19 DEF Says, n, told
  <2>2. c.kind = "play" /\ c.index = n /\ c.cam = told /\ c.over = l
    BY <2>1
  <2>3. n \in Index /\ text # <<>>
    BY <1>7, <1>14, <1>15, <1>19
  <2>4. Play(cmd, n)
    BY <1>2, <1>7, <1>19 DEF name, cmd
  <2>5. /\ cam' = IF n < n_cells THEN [cam EXCEPT ![n] = told] ELSE cam
        /\ file' = IF store THEN [file EXCEPT ![n] = text] ELSE file
    BY <1>7, <2>4 DEF Play, told, text
  <2>6. fault' = (fault \/ c.over)
    BY <1>16, <2>2, <2>4 DEF Play, ElogCmd
  <2>7. c.over \in BOOLEAN
    BY <1>16, <2>2
  <2>8. QED
    BY <1>13, <1>18, <2>2, <2>3, <2>5, <2>6, <2>7
<1>20. CASE ~(name = <<"play">> /\ Monitor(cmd) >= 0)
  <2> DEFINE o == IF At(p, 1) = <<"display">> THEN l ELSE full
  <2>1. c = [kind |-> "other", index |-> 0, cam |-> <<>>, keep |-> store,
             over |-> o]
    BY <1>7, <1>11, <1>20 DEF Says, n
  <2>2. o \in BOOLEAN
    BY <1>16
  <2> HIDE DEF o
  <2>3. c.kind # "play" /\ c.over = o
    BY <2>1
  <2>4. UNCHANGED <<cam, file>>
    BY <1>2, <1>20 DEF Invalid, Display, name, cmd
  <2>5. fault' = (fault \/ o)
    <3>1. CASE name = <<"display">>
      <4>1. Display(cmd) /\ o = l
        BY <1>2, <1>7, <1>20, <3>1 DEF o, name, cmd
      <4>2. QED  BY <1>16, <4>1 DEF Display, ElogCmd
    <3>2. CASE name # <<"display">>
      <4>1. Invalid(cmd) /\ o = full
        BY <1>2, <1>7, <1>20, <3>2 DEF o, name, cmd
      <4>2. CASE full = TRUE
        <5>1. fault' = TRUE
          BY <1>16, <4>1, <4>2 DEF Invalid
        <5>2. QED  BY <1>17, <4>1, <4>2, <5>1
      <4>3. CASE full = FALSE
        <5>1. fault' = fault
          BY <1>16, <4>1, <4>3 DEF Invalid
        <5>2. QED  BY <1>17, <4>1, <4>3, <5>1
      <4>4. QED  BY <1>16, <4>2, <4>3
    <3>3. QED  BY <3>1, <3>2
  <2>6. QED
    BY <1>18, <2>2, <2>3, <2>4, <2>5
<1>21. QED  BY <1>19, <1>20

\* Initially the buffer holds no command, and no cell was told any.
LEMMA InitInv == Init => IndInv
<1> SUFFICES ASSUME Init PROVE IndInv
  OBVIOUS
<1>1. /\ mem = [a \in Address |-> NUL] /\ str = Empty /\ store = FALSE
      /\ next = 0 /\ n_cells \in Grids
      /\ cam = [i \in Index |-> <<>>] /\ file = [i \in Index |-> <<>>]
      /\ todo = <<>> /\ fault = FALSE
  BY DEF Init
<1>2. mem \in [Address -> Char]
  BY <1>1 DEF Char
<1>3. str = [at |-> 0, room |-> RecvSize, len |-> 0]
  BY <1>1, Sizes, SMT DEF Empty, NstrInitN, Least
<1>4. n_cells \in Nat /\ next \in 0 .. n_cells
  BY <1>1, PacketAssumption, SMT DEF Digit
<1>5. /\ <<>> \in Seq(Char) /\ Len(<<>>) = 0
      /\ 0 < CamSize /\ 0 <= RecvSize
  BY EmptySeq, Sizes, SMT
<1>6. TypeOK
  <2>1. /\ str \in [at : Nat, room : Nat, len : Nat]
        /\ str.at + str.room <= RecvSize /\ str.len <= str.room
    BY <1>3, Sizes, SMT
  <2>2. /\ cam \in [Index -> Seq(Char)] /\ file \in [Index -> Seq(Char)]
        /\ \A i \in Index : Len(cam[i]) < CamSize /\ Len(file[i]) <= RecvSize
    BY <1>1, <1>5
  <2>3. QED  BY <1>1, <1>2, <1>4, <2>1, <2>2 DEF TypeOK
<1>7. TodoInBuffer
  <2>1. Chars(mem, str) \in Seq(Char) /\ Len(Chars(mem, str)) = 0
    BY <1>3, <1>6, BufferType
  <2>2. Chars(mem, str) = <<>>
    BY <2>1, EmptySeq
  <2>3. QED  BY <1>1, <2>1, <2>2, CommandsOfNothing DEF TodoInBuffer
<1>8. \A i \in Index : Stored(i) /\ Plain(cam[i])
  <2>1. DOMAIN <<>> = {}
    BY SMT
  <2>2. QED  BY <1>1, <2>1 DEF Stored, Plain, Without
<1>9. QED  BY <1>6, <1>7, <1>8 DEF IndInv

\* What reading into the buffer establishes, from a packet or from a file
LEMMA ReadStep ==
    ASSUME TypeOK, NEW text \in Seq(Char), NEW size \in Nat,
           Len(text) <= size, size <= RecvSize,
           mem' = Filled(text), str' = NstrInitN(0, size, Len(text)),
           store' \in BOOLEAN, todo' = Commands(text, store', size)
    PROVE  /\ mem' \in [Address -> Char]
           /\ str' \in [at : Nat, room : Nat, len : Nat]
           /\ str'.at + str'.room <= RecvSize /\ str'.len <= str'.room
           /\ TodoInBuffer'
<1>1. Memory(mem)
  BY BufferType
<1>2. /\ Memory(mem') /\ Within(str') /\ str'.at + str'.room <= RecvSize
      /\ str'.room = size /\ Chars(mem', str') = text
  BY <1>1, FilledIs
<1>3. QED  BY <1>2 DEF Memory, Within, TodoInBuffer

\* Every step keeps the invariant.
LEMMA StepInv == IndInv /\ [Next]_vars => IndInv'
<1> SUFFICES ASSUME IndInv, [Next]_vars PROVE IndInv'
  OBVIOUS
<1>1. /\ TypeOK /\ TodoInBuffer /\ \A i \in Index : Stored(i) /\ Plain(cam[i])
  BY DEF IndInv
<1>2. /\ mem \in [Address -> Char] /\ str \in [at : Nat, room : Nat, len : Nat]
      /\ store \in BOOLEAN /\ next \in 0 .. n_cells /\ n_cells \in Grids
      /\ cam \in [Index -> Seq(Char)] /\ file \in [Index -> Seq(Char)]
      /\ \A i \in Index : Len(cam[i]) < CamSize /\ Len(file[i]) <= RecvSize
      /\ str.at + str.room <= RecvSize /\ str.len <= str.room
      /\ fault \in BOOLEAN
  BY <1>1 DEF TypeOK
<1>3. n_cells \in 1 .. 4 /\ Index = 0 .. 3
  BY <1>2, PacketAssumption, SMT DEF Digit, Index
\* What is said of the cells and the files, when they are left alone
<1>4. ASSUME UNCHANGED <<cam, file>>
      PROVE  /\ cam' \in [Index -> Seq(Char)] /\ file' \in [Index -> Seq(Char)]
             /\ \A i \in Index : Len(cam'[i]) < CamSize /\ Len(file'[i]) <= RecvSize
             /\ \A i \in Index : Stored(i)' /\ Plain(cam'[i])
  BY <1>1, <1>2, <1>4 DEF Stored
<1>5. ASSUME NEW packet \in Packet, Recv(packet) PROVE IndInv'
  <2> DEFINE text == NstrCat(RecvSize, <<>>, packet)
  <2>1. text \in Seq(Char) /\ Len(text) <= RecvSize /\ RecvSize \in Nat
    BY PacketAssumption, Sizes, CatOfNothing
  <2>2. /\ mem' = Filled(text) /\ str' = NstrInitN(0, RecvSize, Len(text))
        /\ store' = TRUE /\ todo' = Commands(text, TRUE, RecvSize)
        /\ UNCHANGED <<next, n_cells, cam, file, fault>>
    BY <1>5 DEF Recv
  <2> HIDE DEF text
  <2>3. /\ mem' \in [Address -> Char]
        /\ str' \in [at : Nat, room : Nat, len : Nat]
        /\ str'.at + str'.room <= RecvSize /\ str'.len <= str'.room
        /\ TodoInBuffer'
    <3>1. RecvSize <= RecvSize
      BY <2>1, SMT
    <3>2. store' \in BOOLEAN /\ todo' = Commands(text, store', RecvSize)
      BY <2>2
    <3>3. QED  BY <1>1, <2>1, <2>2, <3>1, <3>2, ReadStep
  <2>4. QED  BY <1>2, <1>4, <2>2, <2>3 DEF IndInv, TypeOK
<1>6. ASSUME Load PROVE IndInv'
  <2> DEFINE text == NstrCat(LoadSize, <<>>, file[next])
  <2>1. next # n_cells /\ next \in Index /\ next + 1 \in 0 .. n_cells
    BY <1>2, <1>3, <1>6, SMT DEF Load, Loaded
  <2>2. text \in Seq(Char) /\ Len(text) <= LoadSize /\ LoadSize \in Nat
        /\ LoadSize <= RecvSize
    <3>1. file[next] \in Seq(Char)
      BY <1>2, <2>1
    <3>2. QED  BY <3>1, Sizes, CatOfNothing
  <2>3. /\ mem' = Filled(text) /\ str' = NstrInitN(0, LoadSize, Len(text))
        /\ store' = FALSE /\ todo' = Commands(text, FALSE, LoadSize)
        /\ next' = next + 1 /\ UNCHANGED <<n_cells, cam, file, fault>>
    BY <1>6 DEF Load
  <2> HIDE DEF text
  <2>4. /\ mem' \in [Address -> Char]
        /\ str' \in [at : Nat, room : Nat, len : Nat]
        /\ str'.at + str'.room <= RecvSize /\ str'.len <= str'.room
        /\ TodoInBuffer'
    <3>1. store' \in BOOLEAN /\ todo' = Commands(text, store', LoadSize)
      BY <2>3
    <3>2. QED  BY <1>1, <2>2, <2>3, <3>1, ReadStep
  <2>5. QED  BY <1>2, <1>4, <2>1, <2>3, <2>4 DEF IndInv, TypeOK
<1>7. ASSUME ProcCmd PROVE IndInv'
  <2>1. PICK text \in Seq(Char) :
          LET c == Parsed(text, store, Len(text) = str.room)
          IN  /\ Without(text, RS) /\ Len(text) <= RecvSize
              /\ todo' = Commands(Chars(mem, str)', store, (str.room)')
              /\ c.over \in BOOLEAN /\ fault' = (fault \/ c.over)
              /\ Memory(mem') /\ Within(str') /\ (str.at + str.room <= RecvSize)'
              /\ c.kind = "play" =>
                   /\ text # <<>> /\ c.index \in Index /\ c.cam \in Seq(Char)
                   /\ Len(c.cam) < CamSize /\ Plain(c.cam)
                   /\ cam' = IF c.index < n_cells
                             THEN [cam EXCEPT ![c.index] = c.cam] ELSE cam
                   /\ file' = IF store THEN [file EXCEPT ![c.index] = text]
                              ELSE file
              /\ c.kind # "play" => UNCHANGED <<cam, file>>
              /\ UNCHANGED <<store, next, n_cells>>
    BY <1>7, ProcCmdStep
  <2> DEFINE full == Len(text) = str.room
             c == Parsed(text, store, full)
             i == c.index
             told == c.cam
  <2>2. /\ fault' \in BOOLEAN /\ mem' \in [Address -> Char]
        /\ str' \in [at : Nat, room : Nat, len : Nat]
        /\ str'.at + str'.room <= RecvSize /\ str'.len <= str'.room
        /\ TodoInBuffer'
    BY <1>2, <2>1 DEF Memory, Within, TodoInBuffer
  <2>3. CASE c.kind = "play"
    <3>1. /\ text # <<>> /\ i \in Index /\ told \in Seq(Char)
          /\ Len(told) < CamSize /\ Plain(told)
          /\ cam' = IF i < n_cells THEN [cam EXCEPT ![i] = told] ELSE cam
          /\ file' = IF store THEN [file EXCEPT ![i] = text] ELSE file
      BY <2>1, <2>3
    <3>2. store = TRUE => Parsed(text, TRUE, FALSE).kind = "play"
                          /\ Parsed(text, TRUE, FALSE).index = i
      <4> HIDE DEF full
      <4>1. Parsed(text, store, full) = Parsed(text, store, FALSE)
        BY <2>3, PlayedAnywhere
      <4>2. QED  BY <2>3, <4>1
    <3> HIDE DEF c, i, told, full
    <3>3. /\ cam' \in [Index -> Seq(Char)]
          /\ \A j \in Index : cam'[j] = cam[j] \/ cam'[j] = told
      BY <1>2, <3>1
    <3>4. /\ file' \in [Index -> Seq(Char)]
          /\ \A j \in Index : \/ file'[j] = file[j]
                              \/ store = TRUE /\ j = i /\ file'[j] = text
      BY <1>2, <3>1
    <3>5. \A j \in Index : /\ Len(cam'[j]) < CamSize /\ Len(file'[j]) <= RecvSize
                           /\ Plain(cam'[j])
      BY <1>1, <1>2, <2>1, <3>1, <3>3, <3>4
    <3>6. ASSUME NEW j \in Index PROVE Stored(j)'
      <4>1. CASE file'[j] = file[j]
        BY <1>1, <4>1 DEF Stored
      <4>2. CASE store = TRUE /\ j = i /\ file'[j] = text
        BY <2>1, <3>2, <4>2 DEF Stored
      <4>3. QED  BY <3>4, <4>1, <4>2
    <3>7. QED  BY <1>2, <2>1, <2>2, <3>3, <3>4, <3>5, <3>6 DEF IndInv, TypeOK
  <2>4. CASE c.kind # "play"
    <3>1. UNCHANGED <<cam, file>>
      BY <2>1, <2>4
    <3>2. QED  BY <1>2, <1>4, <2>1, <2>2, <3>1 DEF IndInv, TypeOK
  <2>5. QED  BY <2>3, <2>4
<1>8. ASSUME Crash PROVE IndInv'
  <2>1. /\ mem' = [a \in Address |-> NUL] /\ str' = Empty /\ store' = FALSE
        /\ next' = 0 /\ cam' = [i \in Index |-> <<>>] /\ todo' = <<>>
        /\ fault' = FALSE /\ UNCHANGED <<n_cells, file>>
    BY <1>8 DEF Crash
  <2>2. mem' \in [Address -> Char]
    BY <2>1 DEF Char
  <2>3. str' = [at |-> 0, room |-> RecvSize, len |-> 0]
    BY <2>1, Sizes, SMT DEF Empty, NstrInitN, Least
  <2>4. /\ str' \in [at : Nat, room : Nat, len : Nat]
        /\ str'.at + str'.room <= RecvSize /\ str'.len <= str'.room
        /\ str'.at + str'.len <= RecvSize /\ str'.len = 0
    BY <2>3, Sizes, SMT
  <2>5. /\ cam' \in [Index -> Seq(Char)]
        /\ \A i \in Index : Len(cam'[i]) < CamSize /\ Plain(cam'[i])
    <3>1. <<>> \in Seq(Char) /\ Len(<<>>) = 0 /\ 0 < CamSize /\ DOMAIN <<>> = {}
      BY EmptySeq, Sizes, SMT
    <3>2. QED  BY <2>1, <3>1 DEF Plain, Without
  <2>6. TodoInBuffer'
    <3>1. Memory(mem') /\ Within(str')
      BY <2>2, <2>4 DEF Memory, Within
    <3>2. Chars(mem', str') \in Seq(Char) /\ Len(Chars(mem', str')) = 0
      BY <2>4, <3>1, CharsType
    <3>3. Chars(mem', str') = <<>>
      BY <3>2, EmptySeq
    <3>4. Commands(Chars(mem', str'), FALSE, str'.room) = <<>>
      BY <3>2, <3>3, CommandsOfNothing
    <3>5. QED  BY <2>1, <3>4 DEF TodoInBuffer
  <2>7. \A i \in Index : Stored(i)'
    BY <1>1, <2>1 DEF Stored
  <2>8. 0 \in 0 .. n_cells
    BY <1>3, SMT
  <2>9. QED
    BY <1>2, <2>1, <2>2, <2>4, <2>5, <2>6, <2>7, <2>8 DEF IndInv, TypeOK
<1>9. ASSUME UNCHANGED <<readVars, n_cells, cam, file, fault>> PROVE IndInv'
  <2>1. UNCHANGED <<mem, str, store, next, todo, n_cells, cam, file, fault>>
    BY <1>9 DEF readVars
  <2>2. TodoInBuffer'
    BY <1>1, <2>1 DEF TodoInBuffer
  <2>3. QED  BY <1>2, <1>4, <2>1, <2>2 DEF IndInv, TypeOK
<1>10. QED
  BY <1>5, <1>6, <1>7, <1>8, <1>9 DEF Next, SendStatus, vars

\* Whatever is sent, and whatever monstream reads back, what is still to be
\* split lies in the buffer and is the commands still to be handled, a
\* file holds a play command for its own monitor, and no camera holds a
\* separator (player_proc_cmds, nstr_split, player_play).
THEOREM Invariance == Spec => []IndInv
BY InitInv, StepInv, PTL DEF Spec

\* Every variable keeps its type: the commands that are still to be split lie
\* in the buffer, and no camera or file is longer than its array (nstr_split,
\* nstr_to_cstr).  What is written outside an array is not said here: fault
\* tells it, and CommandsAreDone when.
THEOREM TypeCorrect == Spec => []TypeOK
<1>1. IndInv => TypeOK
  BY DEF IndInv
<1>2. QED  BY <1>1, Invariance, PTL

----------------------------------------------------------------------------
(* Packets implements CommandQueue *)

\* A text without the separator is one command.
LEMMA OneCommand ==
    ASSUME NEW text \in Seq(Char), text # <<>>, Without(text, RS),
           NEW keep \in BOOLEAN, NEW room \in Nat, Len(text) <= room
    PROVE  /\ Commands(text, keep, room) \in Seq(Q!Command)
           /\ Len(Commands(text, keep, room)) = 1
           /\ Commands(text, keep, room)[1] =
                Parsed(text, keep, Len(text) = room)
<1> DEFINE i == Len(text) + 1
           c == Commands(text, keep, room)
           rest == Commands(After(text, i), keep, room)
<1>1. Len(text) \in Nat /\ DOMAIN text = 1 .. Len(text)
  BY LenProperties
<1>2. FirstEnd(text, RS, i)
  <2>1. i \in 1 .. Len(text) + 1 /\ ~(i <= Len(text)) /\ 1 .. i - 1 = DOMAIN text
    BY <1>1, SMT
  <2>2. QED  BY <2>1 DEF FirstEnd, Without
<1>3. SubSeq(text, 1, i - 1) = text /\ i - 1 = Len(text) /\ ~(i <= Len(text))
  <2>1. i - 1 = Len(text) /\ ~(i <= Len(text))
    BY <1>1, SMT
  <2>2. QED  BY <2>1, SubSeqFull
<1>4. After(text, i) = <<>> /\ After(text, i) \in Seq(Char)
  <2>1. Len(text) < i + 1 /\ i + 1 \in Int /\ Len(text) \in Int
    BY <1>1, SMT
  <2>2. QED  BY <2>1, SubSeqEmpty, EmptySeq DEF After
<1>5. c # <<>> /\ Head(c) = Parsed(text, keep, Len(text) = room) /\ Tail(c) = rest
  <2> HIDE DEF i
  <2>1. /\ Head(c) = Parsed(SubSeq(text, 1, i - 1), keep, i - 1 = room)
        /\ c # <<>> /\ Tail(c) = rest
    BY <1>2, <1>3, CommandsSplit
  <2>2. QED  BY <1>3, <2>1
<1>6. c \in Seq(Q!Command) /\ Tail(c) = <<>>
  BY <1>4, <1>5, CommandsType, CommandsOfNothing
<1> HIDE DEF c
<1>7. Len(c) = 1 /\ Head(c) = c[1]
  <2>1. Len(Tail(c)) = Len(c) - 1 /\ Len(c) \in Nat
    BY <1>5, <1>6, HeadTailProperties, LenProperties
  <2>2. Len(Tail(c)) = 0
    BY <1>6, EmptySeq
  <2>3. Head(c) = c[1]
    BY <1>5, <1>6, SMT
  <2>4. QED  BY <2>1, <2>2, <2>3, SMT
<1>8. QED  BY <1>5, <1>6, <1>7 DEF c

\* Before anything is read, nothing is left to do.
LEMMA NothingLeft ==
    ASSUME IndInv, str.len = 0
    PROVE  todo = <<>>
<1>1. /\ Chars(mem, str) \in Seq(Char) /\ Len(Chars(mem, str)) = 0
      /\ store \in BOOLEAN /\ todo = Commands(Chars(mem, str), store, str.room)
  BY BufferType DEF IndInv, TodoInBuffer
<1>2. Chars(mem, str) = <<>>
  BY <1>1, EmptySeq
<1>3. QED  BY <1>1, <1>2, CommandsOfNothing

\* What is stored, as CommandQueue has it
Files ==
    [i \in Index |-> IF file[i] = <<>> THEN None
                     ELSE Parsed(file[i], TRUE, FALSE)]

\* What CommandQueue speaks of has the types it has there.
QueueOK ==
    /\ todo \in Seq(Q!Command) /\ cam \in [Index -> Seq(Char)]
    /\ Files \in [Index -> Q!Command \cup {None}]

\* The invariant has these types, now and next.
LEMMA QueueType == IndInv => QueueOK
<1> SUFFICES ASSUME IndInv PROVE QueueOK
  OBVIOUS
<1>1. /\ Chars(mem, str) \in Seq(Char) /\ store \in BOOLEAN
      /\ todo = Commands(Chars(mem, str), store, str.room)
  BY BufferType DEF IndInv, TodoInBuffer
<1>2. cam \in [Index -> Seq(Char)] /\ file \in [Index -> Seq(Char)]
  BY DEF IndInv, TypeOK
<1>3. todo \in Seq(Q!Command)
  BY <1>1, CommandsType
<1>4. \A i \in Index : Parsed(file[i], TRUE, FALSE) \in Q!Command
  BY <1>2, ParsedType
<1>5. Files \in [Index -> Q!Command \cup {None}]
  BY <1>4 DEF Files
<1>6. QED  BY <1>2, <1>3, <1>5 DEF QueueOK

\* The same of the next state
LEMMA QueueTypeNext == IndInv' => QueueOK'
BY QueueType, PTL

\* After a write outside an array, and with one, nothing is promised.
LEMMA FaultIsLost ==
    ASSUME IndInv, IndInv', fault' = TRUE, n_cells' = n_cells,
           fault \/ (todo # <<>> /\ Head(todo).over)
    PROVE  Q!Lost
<1>1. /\ todo' \in Seq(Q!Command) /\ cam' \in [Index -> Seq(Char)]
      /\ Files' \in [Index -> Q!Command \cup {None}]
  BY QueueTypeNext DEF QueueOK
<1>2. QED  BY <1>1 DEF Q!Lost, Files

\* Nothing is stored, and nothing is to be done.
LEMMA InitImplements == Init => Q!Init
<1> SUFFICES ASSUME Init PROVE Q!Init
  OBVIOUS
<1>1. /\ todo = <<>> /\ cam = [i \in Index |-> <<>>] /\ n_cells \in Grids
      /\ file = [i \in Index |-> <<>>] /\ fault = FALSE
  BY DEF Init
<1>2. n_cells \in Nat \ {0}
  BY <1>1, PacketAssumption, SMT DEF Digit
<1>3. Files = [i \in Index |-> None]
  BY <1>1 DEF Files
<1>4. QED  BY <1>1, <1>2, <1>3 DEF Q!Init, Files

\* A packet that arrives is delivered.
LEMMA RecvDelivers ==
    ASSUME IndInv, ~fault, NEW packet \in Packet, Recv(packet)
    PROVE  Q!Deliver
<1> DEFINE text == NstrCat(RecvSize, <<>>, packet)
           c == Commands(text, TRUE, RecvSize)
<1>1. /\ str.len = 0 /\ todo' = c
      /\ UNCHANGED <<n_cells, cam, file, fault>>
  BY DEF Recv
<1>2. todo = <<>>
  BY <1>1, NothingLeft
<1>3. text \in Seq(Char)
  BY PacketAssumption, Sizes, CatOfNothing
<1>4. c \in Seq(Q!Command) /\ \A k \in DOMAIN c : c[k].keep = TRUE
  <2> HIDE DEF text
  <2>1. QED  BY <1>3, CommandsType
<1> HIDE DEF c
<1>5. /\ todo' \in Seq(Q!Command) /\ \A k \in DOMAIN todo' : todo'[k].keep
  BY <1>1, <1>4
<1>6. Files' = Files
  BY <1>1 DEF Files
<1>7. QED  BY <1>1, <1>2, <1>5, <1>6 DEF Q!Deliver, Files

\* A file that is read back is a command recalled, and one that is not there
\* changes nothing.
LEMMA LoadRecalls ==
    ASSUME IndInv, ~fault, Load
    PROVE  (\E i \in Index : Q!Recall(i)) \/ UNCHANGED Q!vars
<1> DEFINE text == file[next]
           cut == NstrCat(LoadSize, <<>>, text)
           c == Commands(cut, FALSE, LoadSize)
<1>1. /\ next # n_cells /\ str.len = 0 /\ todo' = c
      /\ UNCHANGED <<n_cells, cam, file, fault>>
  BY DEF Load, Loaded
<1>2. todo = <<>>
  BY <1>1, NothingLeft
<1>3. /\ next \in 0 .. n_cells /\ n_cells \in Grids
      /\ file \in [Index -> Seq(Char)] /\ \A i \in Index : Stored(i)
  BY DEF IndInv, TypeOK
<1>4. next \in Index
  <2>1. n_cells \in 1 .. 4 /\ Index = 0 .. 3
    BY <1>3, PacketAssumption, SMT DEF Digit, Index
  <2>2. QED  BY <1>1, <1>3, <2>1, SMT
<1>5. text \in Seq(Char)
  BY <1>3, <1>4
<1>6. Files' = Files /\ Files = [i \in Index |-> IF file[i] = <<>> THEN None
                                               ELSE Parsed(file[i], TRUE, FALSE)]
  BY <1>1 DEF Files
<1>7. /\ cut \in Seq(Char) /\ Len(cut) = Least(Len(text), LoadSize)
      /\ \A j \in 1 .. Len(cut) : cut[j] = text[j]
      /\ Len(cut) <= Len(text) /\ Len(text) \in Nat /\ Len(cut) \in Nat
      /\ LoadSize \in Nat \ {0} /\ Len(cut) <= LoadSize
  <2> HIDE DEF text
  <2>1. /\ cut \in Seq(Char) /\ Len(cut) = Least(Len(text), LoadSize)
        /\ \A j \in 1 .. Len(cut) : cut[j] = text[j]
        /\ Len(cut) <= Len(text) /\ Len(cut) <= LoadSize
    BY <1>5, Sizes, CatOfNothing
  <2>2. QED  BY <1>5, <2>1, Sizes, LenProperties
<1>8. CASE text = <<>>
  <2>1. cut = <<>>
    <3> HIDE DEF cut, text
    <3>1. Len(text) = 0
      BY <1>8, EmptySeq
    <3>2. Len(cut) = 0
      BY <1>7, <3>1, SMT
    <3>3. QED  BY <1>7, <3>2, EmptySeq
  <2>2. c = <<>>
    <3> HIDE DEF cut
    <3>1. QED  BY <1>7, <2>1, CommandsOfNothing
  <2>3. UNCHANGED <<n_cells, todo, cam, Files, fault>>
    BY <1>1, <1>2, <1>6, <2>2
  <2>4. QED  BY <2>3 DEF Q!vars, Files
<1>9. CASE text # <<>>
  <2>1. /\ Without(text, RS) /\ Parsed(text, TRUE, FALSE).kind = "play"
        /\ Parsed(text, TRUE, FALSE).index = next
    BY <1>3, <1>4, <1>9 DEF Stored
  <2> DEFINE full == Len(cut) = LoadSize
             p == Parsed(text, TRUE, FALSE)
             q == Parsed(cut, FALSE, full)
  <2> HIDE DEF text, full
  <2>2. /\ q.kind = "play" /\ q.index = next
        /\ q.over = p.over /\ (~q.over => q.cam = p.cam)
    BY <1>5, <2>1, StoredComesBack
  <2>3. p \in Q!Command /\ p # None
    <3>1. p \in Q!Command
      BY <1>5, ParsedType
    <3>2. QED  BY <3>1, NoneAssumption
  <2> HIDE DEF cut
  <2>4. cut # <<>> /\ Without(cut, RS)
    <3>1. Len(text) # 0
      BY <1>5, <1>9, EmptySeq
    <3>2. Len(cut) # 0
      BY <1>7, <3>1, SMT DEF Least
    <3>3. DOMAIN cut = 1 .. Len(cut) /\ DOMAIN text = 1 .. Len(text)
      BY <1>5, <1>7, LenProperties
    <3>4. \A j \in 1 .. Len(cut) : j \in 1 .. Len(text)
      BY <1>7, SMT
    <3>5. QED  BY <1>7, <2>1, <3>2, <3>3, <3>4, EmptySeq DEF Without
  <2>5. q.keep = FALSE
    <3>1. full \in BOOLEAN
      BY DEF full
    <3>2. QED  BY <1>7, <3>1, ParsedType
  <2>6. c \in Seq(Q!Command) /\ Len(c) = 1 /\ c[1] = q
    BY <1>7, <2>4, OneCommand DEF full
  <2> HIDE DEF c, p, q
  <2>7. Files[next] = p
    BY <1>4, <1>6, <1>9 DEF p, text
  <2>8. /\ todo = <<>> /\ Files[next] # None
        /\ todo' \in Seq(Q!Command) /\ Len(todo') = 1
        /\ todo'[1].kind = "play" /\ todo'[1].index = next /\ ~todo'[1].keep
        /\ todo'[1].over = Files[next].over
        /\ ~todo'[1].over => todo'[1].cam = Files[next].cam
        /\ UNCHANGED <<n_cells, cam, Files, fault>>
    BY <1>1, <1>2, <1>6, <2>2, <2>3, <2>5, <2>6, <2>7
  <2>9. Q!Recall(next)
    BY <2>8 DEF Q!Recall, Files
  <2>10. QED  BY <1>4, <2>9
<1>10. QED  BY <1>8, <1>9

\* A command that is handled does what it says, and is stored when it came
\* in a packet, unless something is written outside an array.
LEMMA ProcCmdHandles ==
    ASSUME IndInv, ~fault, ProcCmd
    PROVE  Q!Handle \/ Q!Lost
<1>1. PICK text \in Seq(Char) :
        LET c == Parsed(text, store, Len(text) = str.room)
        IN  /\ todo # <<>> /\ Head(todo) = c /\ todo' = Tail(todo)
            /\ c.over \in BOOLEAN /\ fault' = (fault \/ c.over)
            /\ c.kind = "play" =>
                 /\ text # <<>> /\ c.index \in Index
                 /\ cam' = IF c.index < n_cells
                           THEN [cam EXCEPT ![c.index] = c.cam] ELSE cam
                 /\ file' = IF store THEN [file EXCEPT ![c.index] = text]
                            ELSE file
            /\ c.kind # "play" => UNCHANGED <<cam, file>>
            /\ UNCHANGED <<store, next, n_cells>>
  BY ProcCmdStep
<1> DEFINE full == Len(text) = str.room
           c == Parsed(text, store, full)
<1>2. store \in BOOLEAN /\ file \in [Index -> Seq(Char)]
  BY DEF IndInv, TypeOK
<1>3. /\ c.keep = store
      /\ store = TRUE /\ c.kind = "play" => Parsed(text, TRUE, FALSE) = c
  <2>1. full \in BOOLEAN
    OBVIOUS
  <2> HIDE DEF full
  <2>2. c.keep = store
    BY <1>2, <2>1, ParsedType
  <2>3. ASSUME store = TRUE, c.kind = "play"
        PROVE  Parsed(text, TRUE, FALSE) = c
    <3>1. c = Parsed(text, TRUE, full)
      BY <2>3
    <3>2. Parsed(text, TRUE, full).kind = "play"
      BY <2>3, <3>1
    <3> HIDE DEF c
    <3>3. QED  BY <3>1, <3>2, PlayedAnywhere
  <2>4. QED  BY <2>2, <2>3
<1>4. CASE c.over
  <2>1. fault' = TRUE /\ n_cells' = n_cells /\ todo # <<>> /\ Head(todo).over
    BY <1>1, <1>4 DEF c
  <2>2. IndInv'
    <3>1. [Next]_vars
      BY DEF Next
    <3>2. QED  BY <3>1, StepInv
  <2>3. QED  BY <2>1, <2>2, FaultIsLost
<1>5. SUFFICES ASSUME ~c.over PROVE Q!Handle
  BY <1>4
<1>6. todo # <<>> /\ ~Head(todo).over /\ fault' = fault /\ ~fault
  <2>1. /\ Head(todo) = c /\ todo # <<>> /\ c.over \in BOOLEAN
        /\ fault' = (fault \/ c.over)
    BY <1>1 DEF c
  <2>2. fault = FALSE
    BY DEF IndInv, TypeOK
  <2> HIDE DEF c
  <2>3. c.over = FALSE
    BY <1>5, <2>1
  <2>4. fault' = FALSE
    BY <2>1, <2>2, <2>3
  <2>5. QED  BY <2>1, <2>2, <2>3, <2>4
<1> HIDE DEF c, full
<1>7. CASE c.kind = "play"
  <2>1. /\ text # <<>> /\ c.index \in Index
        /\ cam' = IF c.index < n_cells THEN [cam EXCEPT ![c.index] = c.cam]
                  ELSE cam
        /\ file' = IF store THEN [file EXCEPT ![c.index] = text] ELSE file
    BY <1>1, <1>7 DEF c, full
  <2>2. Files' = IF c.keep THEN [Files EXCEPT ![c.index] = c] ELSE Files
    <3>1. CASE store = TRUE
      <4>1. Files' = [i \in Index |-> IF file'[i] = <<>> THEN None
                                      ELSE Parsed(file'[i], TRUE, FALSE)]
        BY DEF Files
      <4>2. file' = [file EXCEPT ![c.index] = text]
        BY <2>1, <3>1
      <4>3. \A i \in Index : file'[i] = IF i = c.index THEN text ELSE file[i]
        BY <1>2, <4>2
      <4>4. \A i \in Index : Files'[i] = IF i = c.index THEN c ELSE Files[i]
        <5>1. SUFFICES ASSUME NEW i \in Index
                       PROVE  Files'[i] = IF i = c.index THEN c ELSE Files[i]
          OBVIOUS
        <5>2. Files'[i] = IF file'[i] = <<>> THEN None
                          ELSE Parsed(file'[i], TRUE, FALSE)
          BY <4>1
        <5>3. Files[i] = IF file[i] = <<>> THEN None
                         ELSE Parsed(file[i], TRUE, FALSE)
          BY DEF Files
        <5>4. Parsed(text, TRUE, FALSE) = c /\ text # <<>>
          BY <1>3, <1>7, <2>1, <3>1
        <5>5. CASE i = c.index
          <6>1. file'[i] = text
            BY <4>3, <5>5
          <6>2. QED  BY <5>2, <5>4, <5>5, <6>1
        <5>6. CASE i # c.index
          <6>1. file'[i] = file[i]
            BY <4>3, <5>6
          <6>2. QED  BY <5>2, <5>3, <5>6, <6>1
        <5>7. QED  BY <5>5, <5>6
      <4>5. Files' = [Files EXCEPT ![c.index] = c]
        BY <4>1, <4>4 DEF Files
      <4>6. QED  BY <1>3, <3>1, <4>5
    <3>2. CASE store = FALSE
      <4>1. file' = file
        BY <2>1, <3>2
      <4>2. Files' = Files
        BY <4>1 DEF Files
      <4>3. QED  BY <1>3, <3>2, <4>2
    <3>3. QED  BY <1>2, <3>1, <3>2
  <2>3. QED  BY <1>1, <1>7, <1>6, <2>1, <2>2 DEF Q!Handle, Files, c, full
<1>8. CASE c.kind # "play"
  <2>1. UNCHANGED <<cam, file>>
    BY <1>1, <1>8 DEF c, full
  <2>2. Files' = Files
    BY <2>1 DEF Files
  <2>3. QED  BY <1>1, <1>8, <1>6, <2>1, <2>2 DEF Q!Handle, Files, c, full
<1>9. QED  BY <1>7, <1>8

\* Every step is one of the queue, or none.
LEMMA StepImplements == IndInv /\ [Next]_vars => [Q!Next]_(Q!vars)
<1> SUFFICES ASSUME IndInv, [Next]_vars PROVE [Q!Next]_(Q!vars)
  OBVIOUS
<1>1. IndInv' /\ fault \in BOOLEAN
  BY StepInv DEF IndInv, TypeOK
<1>2. ASSUME NEW packet \in Packet, Recv(packet) PROVE Q!Next
  <2>1. CASE fault = FALSE
    BY <1>2, <2>1, RecvDelivers DEF Q!Next
  <2>2. CASE fault = TRUE
    <3>1. fault' = TRUE /\ n_cells' = n_cells
      BY <1>2, <2>2 DEF Recv
    <3>2. QED  BY <1>1, <2>2, <3>1, FaultIsLost DEF Q!Next
  <2>3. QED  BY <1>1, <2>1, <2>2
<1>3. ASSUME Load PROVE Q!Next \/ UNCHANGED Q!vars
  <2>1. CASE fault = FALSE
    BY <1>3, <2>1, LoadRecalls DEF Q!Next
  <2>2. CASE fault = TRUE
    <3>1. fault' = TRUE /\ n_cells' = n_cells
      BY <1>3, <2>2 DEF Load
    <3>2. QED  BY <1>1, <2>2, <3>1, FaultIsLost DEF Q!Next
  <2>3. QED  BY <1>1, <2>1, <2>2
<1>4. ASSUME ProcCmd PROVE Q!Next
  <2>1. CASE fault = FALSE
    BY <1>4, <2>1, ProcCmdHandles DEF Q!Next
  <2>2. CASE fault = TRUE
    <3>1. fault' = TRUE /\ n_cells' = n_cells
      BY <1>4, <2>2, ProcCmdStep
    <3>2. QED  BY <1>1, <2>2, <3>1, FaultIsLost DEF Q!Next
  <2>3. QED  BY <1>1, <2>1, <2>2
<1>5. ASSUME Crash PROVE Q!Next
  <2>1. /\ todo' = <<>> /\ cam' = [i \in Index |-> <<>>] /\ fault' = FALSE
        /\ UNCHANGED <<n_cells, file>>
    BY <1>5 DEF Crash
  <2>2. Files' = Files
    BY <2>1 DEF Files
  <2>3. Q!Restart
    BY <2>1, <2>2 DEF Q!Restart, Files
  <2>4. QED  BY <2>3 DEF Q!Next
<1>6. ASSUME UNCHANGED <<readVars, n_cells, cam, file, fault>>
      PROVE  UNCHANGED Q!vars
  <2>1. UNCHANGED <<todo, n_cells, cam, file, fault>>
    BY <1>6 DEF readVars
  <2>2. Files' = Files
    BY <2>1 DEF Files
  <2>3. QED  BY <2>1, <2>2 DEF Q!vars, Files
<1>7. QED
  BY <1>2, <1>3, <1>4, <1>5, <1>6 DEF Next, SendStatus, vars

\* For every set of packets and every size of the buffers, the commands are
\* carried out in order and each as it was sent, and come back from the files
\* for the monitor they were stored for; this ends with a command that writes
\* outside an array, and those are the logged ones of LogSize characters or
\* more and the rejected ones that end where the buffer does
\* (player_proc_cmds, player_load_cmds, elog_cmd, nstr_z).
THEOREM CommandsAreDone == Spec => CommandsDone
<1>1. IndInv /\ [Next]_vars => [Q!Next]_(Q!vars)
  BY StepImplements
<1>2. QED
  BY <1>1, InitImplements, Invariance, PTL DEF Spec, CommandsDone, Q!Spec

----------------------------------------------------------------------------
(* The status packet *)

\* What messages are written with
Words ==
    {"switch", "sequence", "preset", "ptz", "query", "previous", "next",
     "lens", "menu", "m", "c", "camera", "number", "recall", "pan", "tilt",
     "zoom"} \cup Lens \cup Menu

Written ==
    Char \cup {RS, US, "status", "failed", "full"} \cup Range(Digit) \cup Words

\* What StatusTells says of the message of monitor k
Tells(body, k, failed) ==
    LET fields == Pieces(body, US)
    IN  /\ fields[1] = <<"status">> /\ fields[2] = <<Digit[k]>>
        /\ fields[3] = cam[k - 1]
        /\ fields[4] = IF failed[k - 1] THEN <<"failed">> ELSE <<>>

\* A word that is no separator, as a text
LEMMA Word ==
    ASSUME NEW w \in Written
    PROVE  /\ <<w>> \in Seq(Written) /\ Len(<<w>>) = 1
           /\ w # RS => Without(<<w>>, RS)
           /\ w # US => Without(<<w>>, US)
BY DEF Without

\* The message of a cell tells of it, and is no longer than LongestStatus.
LEMMA StatusBody ==
    ASSUME IndInv, NEW i \in 0 .. n_cells - 1,
           NEW failed \in [0 .. n_cells - 1 -> BOOLEAN]
    PROVE  \E body \in Seq(Written) :
             /\ MoncellStatus(i, failed[i]) = body \o <<RS>>
             /\ Without(body, RS) /\ Tells(body, i + 1, failed)
             /\ Len(body) + 1 <= LongestStatus
<1> DEFINE b1 == <<"status">>
           b2 == <<Digit[i + 1]>>
           b3 == cam[i]
           b4 == IF failed[i] THEN <<"failed">> ELSE <<>>
           b5 == IF n_cells = 1 THEN <<"full">> ELSE <<>>
           t1 == <<>> \o b1 \o <<US>>
           t2 == t1 \o b2 \o <<US>>
           t3 == t2 \o b3 \o <<US>>
           t4 == t3 \o b4 \o <<US>>
           body == t4 \o b5
<1>1. /\ n_cells \in Nat /\ i \in Index /\ i + 1 \in 1 .. 4
      /\ (i + 1) - 1 = i
  <2>1. n_cells \in 1 .. 4
    BY PacketAssumption DEF IndInv, TypeOK, Digit
  <2>2. QED  BY <2>1, SMT DEF Index, Digit
<1>2. /\ cam[i] \in Seq(Char) /\ Len(cam[i]) < CamSize /\ Plain(cam[i])
  BY <1>1 DEF IndInv, TypeOK
<1>3. /\ {"status", "failed", "full", RS, US, Digit[i + 1]} \subseteq Written
      /\ Char \subseteq Written
  <2>1. Digit[i + 1] \in Range(Digit)
    BY <1>1 DEF Digit, Range
  <2>2. QED  BY <2>1 DEF Written
<1>4. Digit[i + 1] # RS /\ Digit[i + 1] # US
  BY <1>1, SMT DEF Digit, RS, US
<1>5. /\ b1 \in Seq(Written) /\ Len(b1) = 1 /\ Plain(b1)
      /\ b2 \in Seq(Written) /\ Len(b2) = 1 /\ Plain(b2)
  <2>1. "status" # RS /\ "status" # US
    BY DEF RS, US
  <2>2. QED  BY <1>3, <1>4, <2>1, Word DEF Plain
<1>6. b3 \in Seq(Written) /\ Len(b3) < CamSize /\ Plain(b3)
  BY <1>2, <1>3, SeqMonotonic
<1>7. <<>> \in Seq(Written) /\ Len(<<>>) = 0 /\ Plain(<<>>)
  BY EmptySeq DEF Plain, Without
<1>8. b4 \in Seq(Written) /\ Len(b4) <= 1 /\ Plain(b4)
  <2>1. "failed" # RS /\ "failed" # US
    BY DEF RS, US
  <2>2. /\ <<"failed">> \in Seq(Written) /\ Len(<<"failed">>) <= 1
        /\ Plain(<<"failed">>)
    BY <1>3, <2>1, Word DEF Plain
  <2>3. Len(<<>>) <= 1
    BY <1>7
  <2>4. QED  BY <1>7, <2>2, <2>3
<1>9. /\ b5 \in Seq(Written) /\ Plain(b5)
      /\ Len(b5) = IF n_cells = 1 THEN 1 ELSE 0
  <2>1. "full" # RS /\ "full" # US
    BY DEF RS, US
  <2>2. /\ <<"full">> \in Seq(Written) /\ Len(<<"full">>) = 1
        /\ Plain(<<"full">>)
    BY <1>3, <2>1, Word DEF Plain
  <2>3. QED  BY <1>7, <2>2
<1>10. MoncellStatus(i, failed[i]) = body \o <<RS>>
  <2>1. t2 = <<"status", US, Digit[i + 1], US>>
    BY <1>3, FourCharacters
  <2>2. QED  BY <2>1 DEF MoncellStatus
<1>11. US \in Written /\ RS \in Written /\ Whole(<<>>, US)
       /\ Pieces(<<>>, US) = <<>> /\ US # RS
  BY <1>3, <1>7, PiecesOfNothing DEF Whole, US, RS
<1> HIDE DEF b1, b2, b3, b4, b5, body
<1>12. /\ t1 \in Seq(Written) /\ Whole(t1, US) /\ Len(t1) = 2
       /\ OneMore(Pieces(t1, US), <<>>, b1)
  <2>1. /\ t1 \in Seq(Written) /\ Whole(t1, US)
        /\ Len(t1) = Len(<<>>) + Len(b1) + 1
        /\ OneMore(Pieces(t1, US), Pieces(<<>>, US), b1)
    BY <1>5, <1>7, <1>11, NextPiece DEF Plain
  <2> HIDE DEF t1
  <2>2. QED  BY <1>5, <1>7, <1>11, <2>1, SMT
<1> HIDE DEF t1
<1>13. /\ t2 \in Seq(Written) /\ Whole(t2, US) /\ Len(t2) = 4
       /\ OneMore(Pieces(t2, US), Pieces(t1, US), b2)
  <2>1. /\ t2 \in Seq(Written) /\ Whole(t2, US)
        /\ Len(t2) = Len(t1) + Len(b2) + 1
        /\ OneMore(Pieces(t2, US), Pieces(t1, US), b2)
    BY <1>5, <1>11, <1>12, NextPiece DEF Plain
  <2> HIDE DEF t2
  <2>2. QED  BY <1>5, <1>12, <2>1, SMT
<1> HIDE DEF t2
<1>14. /\ t3 \in Seq(Written) /\ Whole(t3, US) /\ Len(t3) = 4 + Len(b3) + 1
       /\ OneMore(Pieces(t3, US), Pieces(t2, US), b3)
  <2>1. /\ t3 \in Seq(Written) /\ Whole(t3, US)
        /\ Len(t3) = Len(t2) + Len(b3) + 1
        /\ OneMore(Pieces(t3, US), Pieces(t2, US), b3)
    BY <1>6, <1>11, <1>13, NextPiece DEF Plain
  <2> HIDE DEF t3
  <2>2. QED  BY <1>13, <2>1
<1> HIDE DEF t3
<1>15. /\ t4 \in Seq(Written) /\ Whole(t4, US)
       /\ Len(t4) = Len(t3) + Len(b4) + 1
       /\ OneMore(Pieces(t4, US), Pieces(t3, US), b4)
  BY <1>8, <1>11, <1>14, NextPiece DEF Plain
<1> HIDE DEF t4
<1>16. LET p == Pieces(t4, US)
       IN  /\ Len(p) = 4 /\ p[1] = b1 /\ p[2] = b2 /\ p[3] = b3 /\ p[4] = b4
  <2> DEFINE p1 == Pieces(t1, US)
             p2 == Pieces(t2, US)
             p3 == Pieces(t3, US)
             p4 == Pieces(t4, US)
  <2>1. /\ OneMore(p1, <<>>, b1) /\ OneMore(p2, p1, b2)
        /\ OneMore(p3, p2, b3) /\ OneMore(p4, p3, b4)
    BY <1>12, <1>13, <1>14, <1>15
  <2> HIDE DEF p1, p2, p3, p4
  <2>2. Len(p1) = 1 /\ p1[1] = b1
    BY <1>7, <2>1, SMT DEF OneMore
  <2>3. Len(p2) = 2 /\ p2[1] = b1 /\ p2[2] = b2
    BY <2>1, <2>2, SMT DEF OneMore
  <2>4. Len(p3) = 3 /\ p3[1] = b1 /\ p3[2] = b2 /\ p3[3] = b3
    BY <2>1, <2>3, SMT DEF OneMore
  <2>5. Len(p4) = 4 /\ p4[1] = b1 /\ p4[2] = b2 /\ p4[3] = b3 /\ p4[4] = b4
    BY <2>1, <2>4, SMT DEF OneMore
  <2>6. QED  BY <2>5 DEF p4
<1>17. LET p == Pieces(body, US)
       IN  p[1] = b1 /\ p[2] = b2 /\ p[3] = b3 /\ p[4] = b4
  <2>1. CASE b5 = <<>>
    <3>1. body = t4
      BY <1>15, <2>1, ConcatEmptySeq DEF body
    <3>2. QED  BY <1>16, <3>1
  <2>2. CASE b5 # <<>>
    <3>1. Extends(body, t4, b5, US)
      BY <2>2 DEF Extends, body
    <3>2. /\ Pieces(t4, US) \in Seq(Seq(Written))
          /\ Pieces(body, US) = Append(Pieces(t4, US), b5)
      BY <1>9, <1>11, <1>15, <3>1, PieceSnoc DEF Plain
    <3> DEFINE p == Pieces(t4, US)
    <3>3. \A k \in 1 .. Len(p) : Append(p, b5)[k] = p[k]
      BY <1>9, <3>2, AppendProperties
    <3>4. Len(p) = 4 /\ p[1] = b1 /\ p[2] = b2 /\ p[3] = b3 /\ p[4] = b4
      BY <1>16
    <3> HIDE DEF p
    <3>5. 1 \in 1 .. 4 /\ 2 \in 1 .. 4 /\ 3 \in 1 .. 4 /\ 4 \in 1 .. 4
      BY SMT
    <3>6. QED  BY <3>2, <3>3, <3>4, <3>5 DEF p
  <2>3. QED  BY <2>1, <2>2
<1>18. /\ body \in Seq(Written)
       /\ Len(body) = 4 + Len(b3) + 1 + Len(b4) + 1 + Len(b5)
  <2>1. body \in Seq(Written) /\ Len(body) = Len(t4) + Len(b5)
    BY <1>9, <1>15, ConcatProperties DEF body
  <2>2. QED  BY <1>14, <1>15, <2>1
<1>19. Len(body) + 1 <= LongestStatus
  <2>1. /\ Len(b3) \in Nat /\ Len(b4) \in Nat /\ Len(b5) \in Nat
        /\ CamSize \in Nat
    BY <1>6, <1>8, <1>9, LenProperties, Sizes
  <2>2. QED  BY <1>6, <1>8, <1>9, <1>18, <2>1, SMT DEF LongestStatus
<1>20. Tells(body, i + 1, failed)
  BY <1>1, <1>17 DEF Tells, b1, b2, b3, b4
<1>21. Without(body, RS)
  <2>1. Without(t1, RS)
    BY <1>5, <1>7, <1>11, WithoutSnoc DEF Plain, t1
  <2>2. Without(t2, RS)
    BY <1>5, <1>11, <1>12, <2>1, WithoutSnoc DEF Plain, t2
  <2>3. Without(t3, RS)
    BY <1>6, <1>11, <1>13, <2>2, WithoutSnoc DEF Plain, t3
  <2>4. Without(t4, RS)
    BY <1>8, <1>11, <1>14, <2>3, WithoutSnoc DEF Plain, t4
  <2>5. QED  BY <1>9, <1>15, <2>4, WithoutConcat DEF Plain, body
<1>22. QED  BY <1>10, <1>18, <1>19, <1>20, <1>21

\* A text holds the messages of the first m cells.
Reported(text, m, failed) ==
    LET p == Pieces(text, RS)
    IN  /\ text \in Seq(Written) /\ Whole(text, RS)
        /\ Len(text) <= m * LongestStatus
        /\ Len(p) = m /\ \A k \in 1 .. m : Tells(p[k], k, failed)

\* One message more
LEMMA ReportOne ==
    ASSUME IndInv, NEW m \in 0 .. n_cells - 1,
           NEW failed \in [0 .. n_cells - 1 -> BOOLEAN],
           NEW text, Reported(text, m, failed)
    PROVE  /\ MoncellStatus(m, failed[m]) \in Seq(Written)
           /\ Reported(text \o MoncellStatus(m, failed[m]), m + 1, failed)
<1> DEFINE l == LongestStatus
<1>1. PICK body \in Seq(Written) :
        /\ MoncellStatus(m, failed[m]) = body \o <<RS>>
        /\ Without(body, RS) /\ Tells(body, m + 1, failed)
        /\ Len(body) + 1 <= l
  BY StatusBody
<1>2. /\ text \in Seq(Written) /\ Whole(text, RS) /\ Len(text) <= m * l
      /\ Len(Pieces(text, RS)) = m
      /\ \A k \in 1 .. m : Tells(Pieces(text, RS)[k], k, failed)
  BY DEF Reported
<1>3. RS \in Written /\ <<RS>> \in Seq(Written)
  BY Word DEF Written
<1> DEFINE u == text \o body \o <<RS>>
<1>4. /\ u \in Seq(Written) /\ Whole(u, RS)
      /\ Len(u) = Len(text) + Len(body) + 1
      /\ OneMore(Pieces(u, RS), Pieces(text, RS), body)
  BY <1>1, <1>2, <1>3, NextPiece
<1>5. u = text \o (body \o <<RS>>)
  BY <1>2, <1>3, ConcatAssociative
<1>6. body \o <<RS>> \in Seq(Written)
  BY <1>3, ConcatProperties
<1> HIDE DEF u, l
<1>7. m \in Nat /\ n_cells \in Nat /\ Len(text) \in Nat /\ Len(body) \in Nat
      /\ l \in Nat
  <2>1. n_cells \in 1 .. 4
    BY PacketAssumption DEF IndInv, TypeOK, Digit
  <2>2. CamSize \in Nat \ {0}
    BY Sizes
  <2>3. l \in Nat
    BY <2>2, SMT DEF l, LongestStatus
  <2>4. QED  BY <1>2, <2>1, <2>3, LenProperties, SMT
<1>8. Len(u) <= (m + 1) * l
  <2>1. (m + 1) * l = m * l + l /\ m * l \in Nat
    BY <1>7, SMT
  <2> DEFINE q == m * l
  <2> HIDE DEF q
  <2>2. Len(u) <= q + l
    BY <1>1, <1>2, <1>4, <1>7, <2>1, SMT DEF q
  <2>3. QED  BY <2>1, <2>2 DEF q
<1> DEFINE p == Pieces(text, RS)
           w == Pieces(u, RS)
<1>9. Len(w) = m + 1 /\ \A k \in 1 .. m + 1 : Tells(w[k], k, failed)
  <2>1. Len(p) = m /\ Len(w) = Len(p) + 1 /\ w[Len(p) + 1] = body
    BY <1>2, <1>4 DEF OneMore
  <2>2. \A k \in 1 .. m : w[k] = p[k]
    BY <1>4, <2>1 DEF OneMore
  <2>3. \A k \in 1 .. m : Tells(p[k], k, failed)
    BY <1>2
  <2> HIDE DEF p, w
  <2>4. \A k \in 1 .. m + 1 : k \in 1 .. m \/ k = m + 1
    BY <1>7, SMT
  <2>5. QED  BY <1>1, <2>1, <2>2, <2>3, <2>4
<1>10. QED  BY <1>1, <1>4, <1>5, <1>6, <1>8, <1>9 DEF Reported, l

\* What mongrid_status writes is the messages of all cells, cut.
LEMMA CellsReported ==
    ASSUME IndInv, NEW failed \in [0 .. n_cells - 1 -> BOOLEAN]
    PROVE  \E text : /\ Reported(text, n_cells, failed)
                     /\ AppendCells(failed) = NstrCat(StatusSize, <<>>, text)
<1> DEFINE n == n_cells
           A == Seq(Written)
           Message(k) == MoncellStatus(k - 1, failed[k - 1])
           Add(t, k) == NstrCat(StatusSize, t, Message(k))
           step == [p \in A \X (1 .. n) |-> Add(p[1], p[2])]
           s == [i \in 1 .. n |-> i - 1]
           Eq(f) == f = [t \in SUBSET (1 .. n) |->
                           IF t = {} THEN <<>>
                           ELSE NstrCat(StatusSize, f[t \ {Max(t)}],
                                  MoncellStatus(s[Max(t)], failed[s[Max(t)]]))]
           F == CHOOSE f : Eq(f)
<1>1. n \in Nat /\ <<>> \in A /\ StatusSize \in Nat
  <2>1. n_cells \in 1 .. 4
    BY PacketAssumption DEF IndInv, TypeOK, Digit
  <2>2. QED  BY <2>1, EmptySeq, Sizes, SMT
<1>2. \A k \in 1 .. n : Message(k) \in A
  <2>1. \A k \in 1 .. n : k - 1 \in 0 .. n_cells - 1
    BY <1>1, SMT
  <2>2. ASSUME NEW m \in 0 .. n_cells - 1
        PROVE  MoncellStatus(m, failed[m]) \in Seq(Written)
    <3>1. PICK body \in Seq(Written) :
            MoncellStatus(m, failed[m]) = body \o <<RS>>
      BY StatusBody
    <3>2. <<RS>> \in Seq(Written)
      BY Word DEF Written
    <3>3. QED  BY <3>1, <3>2, ConcatProperties
  <2>3. QED  BY <2>1, <2>2
<1>3. ASSUME NEW t \in A, NEW k \in 1 .. n PROVE Add(t, k) \in A
  <2> DEFINE x == Message(k)
  <2>1. x \in A
    BY <1>2
  <2> HIDE DEF x
  <2>2. NstrCat(StatusSize, t, x) \in A
    BY <1>1, <2>1, CatType
  <2>3. QED  BY <2>2 DEF x
<1>4. step \in [A \X (1 .. n) -> A]
  <2> HIDE DEF Add
  <2>1. QED  BY <1>3
<1>5. PICK it \in [SUBSET (1 .. n) -> A] : Iterates(it, n, <<>>, step)
  <2> HIDE DEF step, n, A
  <2>1. QED  BY <1>1, <1>4, FoldExists
<1>6. ASSUME NEW t \in SUBSET (1 .. n), t # {}
      PROVE  Max(t) \in 1 .. n /\ s[Max(t)] = Max(t) - 1
  <2>1. t \subseteq 0 .. n
    BY <1>1, SMT
  <2>2. Max(t) \in 1 .. n
    BY <1>1, <1>6, <2>1, MaxOfNats
  <2>3. QED  BY <2>2
<1>7. ASSUME NEW f, NEW t \in SUBSET (1 .. n), t # {}, f[t \ {Max(t)}] \in A
      PROVE  step[<<f[t \ {Max(t)}], Max(t)>>]
               = NstrCat(StatusSize, f[t \ {Max(t)}],
                         MoncellStatus(s[Max(t)], failed[s[Max(t)]]))
  <2>1. /\ Max(t) \in 1 .. n
        /\ MoncellStatus(s[Max(t)], failed[s[Max(t)]]) = Message(Max(t))
    BY <1>6, <1>7
  <2>2. step[<<f[t \ {Max(t)}], Max(t)>>] = Add(f[t \ {Max(t)}], Max(t))
    <3> HIDE DEF Add, n, A
    <3>1. QED  BY <1>7, <2>1
  <2>3. QED  BY <2>1, <2>2
<1>8. Eq(it)
  <2>1. ASSUME NEW t \in SUBSET (1 .. n), t # {}
        PROVE  it[t \ {Max(t)}] \in A
    OBVIOUS
  <2> HIDE DEF step, s
  <2>2. QED  BY <1>5, <1>7, <2>1 DEF Iterates
<1>9. Eq(F)
  <2> HIDE DEF Eq
  <2>1. QED  BY <1>8
<1>10. AppendCells(failed) = F[1 .. n]
  BY <1>1 DEF AppendCells, FoldLeft, MapThenFoldSet
<1>11. F[{}] = <<>>
  BY <1>9
<1>12. IteratesIn(F, A, n, <<>>, step)
  <2> HIDE DEF F, step, s
  <2>1. QED  BY <1>1, <1>4, <1>7, <1>9, <1>11 DEF IteratesIn
<1>13. PICK g \in [0 .. n -> A] : Steps(g, n, <<>>, step) /\ g[n] = F[1 .. n]
  <2> HIDE DEF F, step, n, A
  <2>1. QED  BY <1>12, FoldPrefixes
<1>14. g[0] = <<>> /\ \A k \in 1 .. n : g[k] = Add(g[k - 1], k)
  <2>1. ASSUME NEW k \in 1 .. n PROVE g[k - 1] \in A
    <3>1. k - 1 \in 0 .. n
      BY <1>1, SMT
    <3>2. QED  BY <3>1
  <2> HIDE DEF Add
  <2>2. \A k \in 1 .. n : step[<<g[k - 1], k>>] = Add(g[k - 1], k)
    BY <2>1
  <2> HIDE DEF step
  <2>3. QED  BY <1>13, <2>2 DEF Steps
<1> HIDE DEF F, step, s, Eq
<1> DEFINE K == {k \in 0 .. n : \E t : /\ Reported(t, k, failed)
                                       /\ g[k] = NstrCat(StatusSize, <<>>, t)}
<1>15. 0 \in K
  <2>1. /\ Len(Pieces(<<>>, RS)) = 0 /\ Len(<<>>) = 0
        /\ <<>> \in Seq(Written) /\ Whole(<<>>, RS)
    BY <1>1, PiecesOfNothing, EmptySeq DEF Whole
  <2>2. 0 <= 0 * LongestStatus /\ 1 .. 0 = {} /\ 0 \in 0 .. n
    <3>1. LongestStatus \in Int
      BY <1>1, Sizes, SMT DEF LongestStatus
    <3>2. QED  BY <1>1, <3>1, SMT
  <2>3. Reported(<<>>, 0, failed)
    BY <2>1, <2>2 DEF Reported
  <2>4. NstrCat(StatusSize, <<>>, <<>>) = <<>>
    <3>1. Len(<<>>) <= StatusSize
      BY <1>1, <2>1, SMT
    <3>2. QED  BY <1>1, <2>1, <3>1, CatOfNothing
  <2>5. QED  BY <1>14, <2>2, <2>3, <2>4
<1>16. ASSUME NEW k \in 0 .. n - 1, k \in K PROVE k + 1 \in K
  <2>1. k + 1 \in 1 .. n /\ (k + 1) - 1 = k /\ k + 1 \in 0 .. n
    BY <1>1, SMT
  <2>2. PICK t : Reported(t, k, failed) /\ g[k] = NstrCat(StatusSize, <<>>, t)
    BY <1>16
  <2> DEFINE x == MoncellStatus(k, failed[k])
  <2>3. x \in Seq(Written) /\ Reported(t \o x, k + 1, failed)
    BY <1>16, <2>2, ReportOne
  <2>4. g[k + 1] = NstrCat(StatusSize, g[k], x)
    BY <1>14, <2>1
  <2> HIDE DEF x
  <2>5. t \in Seq(Written)
    BY <2>2 DEF Reported
  <2>6. g[k + 1] = NstrCat(StatusSize, <<>>, t \o x)
    BY <1>1, <2>2, <2>3, <2>4, <2>5, CatOfCat
  <2>7. QED  BY <2>1, <2>3, <2>6
<1>17. n \in K
  <2> HIDE DEF K, n
  <2>1. 0 .. n \subseteq K
    BY <1>1, <1>15, <1>16, BoundedInduction
  <2>2. QED  BY <1>1, <2>1, SMT
<1>18. QED  BY <1>10, <1>13, <1>17

\* A message has up to six fields, all of them words.
LEMMA MessageType ==
    ASSUME NEW r \in Requests
    PROVE  ModebarMessage(r) \in Seq(Words) /\ Len(ModebarMessage(r)) \in 1 .. 6
<1> USE DEF Words
<1>1. r \in {"none", "switch", "sequence", "preset", "ptz", "previous", "next"}
            \cup Lens \cup Menu
  BY RequestAssumption
<1>2. /\ ModebarSwitch \in Seq(Words) /\ Len(ModebarSwitch) = 3
      /\ ModebarSequence \in Seq(Words) /\ Len(ModebarSequence) = 3
      /\ ModebarPreset \in Seq(Words) /\ Len(ModebarPreset) = 5
      /\ ModebarPtz \in Seq(Words) /\ Len(ModebarPtz) = 6
      /\ ModebarQuery \in Seq(Words) /\ Len(ModebarQuery) = 2
  BY DEF ModebarSwitch, ModebarSequence, ModebarPreset, ModebarPtz, ModebarQuery
<1>3. ASSUME NEW w \in Words
      PROVE  /\ <<w, "m">> \in Seq(Words) /\ Len(<<w, "m">>) = 2
             /\ <<"lens", "m", "c", w>> \in Seq(Words)
             /\ Len(<<"lens", "m", "c", w>>) = 4
             /\ <<"menu", "m", "c", w>> \in Seq(Words)
             /\ Len(<<"menu", "m", "c", w>>) = 4
  <2>1. {"m", "c", "lens", "menu"} \subseteq Words
    OBVIOUS
  <2> HIDE DEF Words
  <2>2. QED  BY <2>1
<1>4. ASSUME r \in {"previous", "next"} \cup Lens \cup Menu
      PROVE  /\ ModebarMessage(r) = ModebarButton(r)
             /\ ModebarButton(r) \in Seq(Words) /\ Len(ModebarButton(r)) \in {2, 4}
  <2>1. r \in Words
    BY <1>4
  <2>2. r \notin {"switch", "sequence", "preset", "ptz", "none"}
    BY <1>4 DEF Lens, Menu
  <2>3. ModebarMessage(r) = ModebarButton(r)
    BY <2>2 DEF ModebarMessage
  <2>4. \/ r \in {"previous", "next"} /\ ModebarButton(r) = <<r, "m">>
        \/ ModebarButton(r) = <<"lens", "m", "c", r>>
        \/ ModebarButton(r) = <<"menu", "m", "c", r>>
    <3>1. CASE r \in {"previous", "next"}
      BY <3>1 DEF ModebarButton, Lens, Menu
    <3>2. CASE r \in Lens
      BY <3>2 DEF ModebarButton, Lens, Menu
    <3>3. CASE r \in Menu
      BY <3>3 DEF ModebarButton, Lens, Menu
    <3>4. QED  BY <1>4, <3>1, <3>2, <3>3
  <2> HIDE DEF Words
  <2>5. QED  BY <1>3, <2>1, <2>3, <2>4
<1>5. CASE r \in {"none", "switch", "sequence", "preset", "ptz"}
  <2>1. ModebarMessage(r) \in {ModebarSwitch, ModebarSequence, ModebarPreset,
                               ModebarPtz, ModebarQuery}
    BY <1>5 DEF ModebarMessage
  <2> HIDE DEF Words
  <2>2. QED  BY <1>2, <2>1
<1>6. CASE r \in {"previous", "next"} \cup Lens \cup Menu
  <2> HIDE DEF Words
  <2>1. QED  BY <1>4, <1>6
<1>7. QED  BY <1>1, <1>5, <1>6

\* The separator behind field k
Separator(fields, k) == IF k < Len(fields) THEN <<US>> ELSE <<RS>>

\* What a message looks like on the way
LEMMA MessageSteps ==
    ASSUME NEW fields \in Seq(Words), NEW text \in Seq(Written)
    PROVE  \E g \in [0 .. Len(fields) -> Seq(Written)] :
             /\ g[0] = text
             /\ \A k \in 1 .. Len(fields) :
                  g[k] = NstrCat(StatusSize,
                                 NstrCat(StatusSize, g[k - 1], <<fields[k]>>),
                                 Separator(fields, k))
             /\ AppendMessage(text, fields) = g[Len(fields)]
<1> DEFINE n == Len(fields)
           A == Seq(Written)
           Add(t, k) == NstrCat(StatusSize, NstrCat(StatusSize, t, <<fields[k]>>),
                                Separator(fields, k))
           step == [p \in A \X (1 .. n) |-> Add(p[1], p[2])]
           s == [k \in 1 .. n |-> k]
           Eq(f) == f = [t \in SUBSET (1 .. n) |->
                           IF t = {} THEN text
                           ELSE NstrCat(StatusSize,
                                  NstrCat(StatusSize, f[t \ {Max(t)}],
                                          <<fields[s[Max(t)]]>>),
                                  IF s[Max(t)] < Len(fields) THEN <<US>>
                                  ELSE <<RS>>)]
           F == CHOOSE f : Eq(f)
<1>1. n \in Nat /\ DOMAIN fields = 1 .. n /\ text \in A /\ StatusSize \in Nat
  BY LenProperties, Sizes
<1>2. Words \subseteq Written /\ RS \in Written /\ US \in Written
  BY DEF Written
<1>3. ASSUME NEW t \in A, NEW k \in 1 .. n PROVE Add(t, k) \in A
  <2>1. fields[k] \in Written
    BY <1>2, ElementOfSeq
  <2>2. <<fields[k]>> \in A /\ Separator(fields, k) \in A
    BY <1>2, <2>1, Word DEF Separator
  <2> HIDE DEF A, n
  <2>3. NstrCat(StatusSize, t, <<fields[k]>>) \in A
    BY <1>1, <2>2, CatType DEF A
  <2>4. QED  BY <1>1, <2>2, <2>3, CatType DEF A
<1>4. step \in [A \X (1 .. n) -> A]
  <2> HIDE DEF Add
  <2>1. QED  BY <1>3
<1>5. PICK it \in [SUBSET (1 .. n) -> A] : Iterates(it, n, text, step)
  <2> HIDE DEF step, n, A
  <2>1. QED  BY <1>1, <1>4, FoldExists
<1>6. ASSUME NEW t \in SUBSET (1 .. n), t # {}
      PROVE  Max(t) \in 1 .. n /\ s[Max(t)] = Max(t)
  <2>1. t \subseteq 0 .. n
    BY <1>1, SMT
  <2>2. Max(t) \in 1 .. n
    BY <1>1, <1>6, <2>1, MaxOfNats
  <2>3. QED  BY <2>2
<1>7. ASSUME NEW f, NEW t \in SUBSET (1 .. n), t # {}, f[t \ {Max(t)}] \in A
      PROVE  step[<<f[t \ {Max(t)}], Max(t)>>]
               = NstrCat(StatusSize,
                   NstrCat(StatusSize, f[t \ {Max(t)}], <<fields[s[Max(t)]]>>),
                   IF s[Max(t)] < Len(fields) THEN <<US>> ELSE <<RS>>)
  <2>1. Max(t) \in 1 .. n /\ s[Max(t)] = Max(t)
    BY <1>6, <1>7
  <2>2. step[<<f[t \ {Max(t)}], Max(t)>>] = Add(f[t \ {Max(t)}], Max(t))
    <3> HIDE DEF Add, n, A
    <3>1. QED  BY <1>7, <2>1
  <2> HIDE DEF s, step
  <2>3. QED  BY <2>1, <2>2 DEF Separator
<1>8. Eq(it)
  <2>1. ASSUME NEW t \in SUBSET (1 .. n), t # {}
        PROVE  it[t \ {Max(t)}] \in A
    OBVIOUS
  <2> HIDE DEF step, s
  <2>2. QED  BY <1>5, <1>7, <2>1 DEF Iterates
<1>9. Eq(F)
  <2> HIDE DEF Eq
  <2>1. QED  BY <1>8
<1>10. AppendMessage(text, fields) = F[1 .. n]
  BY <1>1 DEF AppendMessage, FoldLeft, MapThenFoldSet
<1>11. F[{}] = text
  BY <1>9
<1>12. IteratesIn(F, A, n, text, step)
  <2> HIDE DEF F, step, s
  <2>1. QED  BY <1>1, <1>4, <1>7, <1>9, <1>11 DEF IteratesIn
<1>13. PICK g \in [0 .. n -> A] : Steps(g, n, text, step) /\ g[n] = F[1 .. n]
  <2> HIDE DEF F, step, n, A
  <2>1. QED  BY <1>12, FoldPrefixes
<1>14. g[0] = text /\ \A k \in 1 .. n : g[k] = Add(g[k - 1], k)
  <2>1. ASSUME NEW k \in 1 .. n PROVE g[k - 1] \in A
    <3>1. k - 1 \in 0 .. n
      BY <1>1, SMT
    <3>2. QED  BY <3>1
  <2> HIDE DEF Add
  <2>2. \A k \in 1 .. n : step[<<g[k - 1], k>>] = Add(g[k - 1], k)
    BY <2>1
  <2> HIDE DEF step
  <2>3. QED  BY <1>13, <2>2 DEF Steps
<1>15. QED
  <2> HIDE DEF F, Eq, step, s
  <2>1. QED  BY <1>10, <1>13, <1>14

\* Text b has the first k fields of a message, each with a separator.
Fields(b, k, fields) ==
    LET p == Pieces(b, US)
    IN  /\ b \in Seq(Written) /\ Whole(b, US) /\ Without(b, RS)
        /\ Len(b) = 2 * k
        /\ Len(p) = k /\ \A j \in 1 .. k : p[j] = <<fields[j]>>

\* One field more
LEMMA FieldsOne ==
    ASSUME NEW fields \in Seq(Words), NEW k \in 0 .. Len(fields) - 1,
           NEW b, Fields(b, k, fields)
    PROVE  /\ Fields(b \o <<fields[k + 1]>> \o <<US>>, k + 1, fields)
           /\ <<fields[k + 1]>> \in Seq(Written)
           /\ Plain(<<fields[k + 1]>>) /\ Len(<<fields[k + 1]>>) = 1
<1> DEFINE x == <<fields[k + 1]>>
           u == b \o x \o <<US>>
           p == Pieces(b, US)
           q == Pieces(u, US)
<1>1. k \in Nat /\ k + 1 \in 1 .. Len(fields)
  BY LenProperties, SMT
<1>2. fields[k + 1] \in Words
  BY <1>1, ElementOfSeq
<1>3. \A w \in Words : w \in Written /\ w # RS /\ w # US
  BY DEF Words, Written, RS, US, Lens, Menu
<1>4. x \in Seq(Written) /\ Len(x) = 1 /\ Plain(x)
  BY <1>2, <1>3, Word DEF Plain
<1>5. US \in Written /\ US # RS
  BY DEF Written, US, RS
<1> HIDE DEF x
<1>6. /\ b \in Seq(Written) /\ Whole(b, US) /\ Without(b, RS) /\ Len(b) = 2 * k
      /\ Len(p) = k /\ \A j \in 1 .. k : p[j] = <<fields[j]>>
  BY DEF Fields
<1>7. /\ u \in Seq(Written) /\ Whole(u, US) /\ Len(u) = Len(b) + Len(x) + 1
      /\ OneMore(q, p, x)
  BY <1>4, <1>5, <1>6, NextPiece DEF Plain
<1>8. Without(u, RS)
  BY <1>4, <1>5, <1>6, WithoutSnoc DEF Plain
<1> HIDE DEF u, p, q
<1>9. Len(u) = 2 * (k + 1)
  BY <1>1, <1>4, <1>6, <1>7, SMT
<1>10. Len(q) = k + 1 /\ \A j \in 1 .. k + 1 : q[j] = <<fields[j]>>
  <2>1. Len(q) = k + 1 /\ q[k + 1] = <<fields[k + 1]>> /\ \A j \in 1 .. k : q[j] = p[j]
    BY <1>6, <1>7 DEF OneMore, x
  <2>2. \A j \in 1 .. k + 1 : j \in 1 .. k \/ j = k + 1
    BY <1>1, SMT
  <2>3. QED  BY <1>6, <2>1, <2>2
<1>11. Fields(u, k + 1, fields)
  BY <1>7, <1>8, <1>9, <1>10 DEF Fields, q
<1>12. QED  BY <1>4, <1>11 DEF u, x

\* What a message of the bar puts behind the cells' messages: its fields,
\* and the separator of records.
LEMMA MessageAppended ==
    ASSUME NEW fields \in Seq(Words), Len(fields) \in 1 .. 6,
           NEW text \in Seq(Written)
    PROVE  \E body \in Seq(Written) :
             /\ AppendMessage(NstrCat(StatusSize, <<>>, text), fields)
                  = NstrCat(StatusSize, <<>>, text \o body \o <<RS>>)
             /\ Without(body, RS) /\ Len(body) + 1 <= LongestMessage
             /\ Pieces(body, US) = [k \in DOMAIN fields |-> <<fields[k]>>]
<1> DEFINE n == Len(fields)
           cut == NstrCat(StatusSize, <<>>, text)
           Cut(b) == NstrCat(StatusSize, <<>>, text \o b)
<1>1. n \in 1 .. 6 /\ n \in Nat /\ DOMAIN fields = 1 .. n /\ StatusSize \in Nat
  BY LenProperties, Sizes
<1>2. cut \in Seq(Written)
  BY <1>1, CatOfNothing
<1> HIDE DEF cut
<1>3. PICK g \in [0 .. n -> Seq(Written)] :
        /\ g[0] = cut
        /\ \A k \in 1 .. n :
             g[k] = NstrCat(StatusSize,
                            NstrCat(StatusSize, g[k - 1], <<fields[k]>>),
                            Separator(fields, k))
        /\ AppendMessage(cut, fields) = g[n]
  BY <1>2, MessageSteps
<1>4. ASSUME NEW b \in Seq(Written), NEW x \in Seq(Written)
      PROVE  /\ NstrCat(StatusSize, Cut(b), x) = Cut(b \o x)
             /\ b \o x \in Seq(Written)
  <2> DEFINE v == text \o b
  <2>1. v \in Seq(Written) /\ b \o x \in Seq(Written)
    BY ConcatProperties
  <2>2. v \o x = text \o (b \o x)
    BY ConcatAssociative
  <2> HIDE DEF v
  <2>3. NstrCat(StatusSize, NstrCat(StatusSize, <<>>, v), x)
          = NstrCat(StatusSize, <<>>, v \o x)
    BY <1>1, <2>1, CatOfCat
  <2>4. QED  BY <2>1, <2>2, <2>3 DEF v
<1> DEFINE K == {k \in 0 .. n - 1 : \E b : Fields(b, k, fields) /\ g[k] = Cut(b)}
<1>5. <<US>> \in Seq(Written) /\ <<RS>> \in Seq(Written)
  BY Word DEF Written
<1>6. 0 \in K
  <2>1. /\ Len(Pieces(<<>>, US)) = 0 /\ Len(<<>>) = 0 /\ <<>> \in Seq(Written)
        /\ Whole(<<>>, US) /\ Without(<<>>, RS)
    BY EmptySeq, PiecesOfNothing DEF Whole, Without
  <2>2. 1 .. 0 = {} /\ 0 = 2 * 0 /\ 0 \in 0 .. n - 1
    BY <1>1, SMT
  <2>3. Fields(<<>>, 0, fields)
    BY <2>1, <2>2 DEF Fields
  <2>4. text \o <<>> = text
    BY ConcatEmptySeq
  <2>5. g[0] = Cut(<<>>)
    BY <1>3, <2>4 DEF cut
  <2> HIDE DEF Cut
  <2>6. QED  BY <2>2, <2>3, <2>5
<1> HIDE DEF Cut
<1>7. ASSUME NEW k \in 0 .. n - 1, NEW b, Fields(b, k, fields), g[k] = Cut(b)
      PROVE  LET c == b \o <<fields[k + 1]>>
             IN  /\ c \in Seq(Written)
                 /\ g[k + 1] = Cut(c \o Separator(fields, k + 1))
  <2> DEFINE x == <<fields[k + 1]>>
             c == b \o x
             s == Separator(fields, k + 1)
  <2>1. k + 1 \in 1 .. n /\ (k + 1) - 1 = k
    BY <1>1, SMT
  <2>2. x \in Seq(Written) /\ b \in Seq(Written)
    BY <1>7, FieldsOne DEF Fields
  <2>3. s \in Seq(Written)
    BY <1>5 DEF Separator
  <2>4. g[k + 1] = NstrCat(StatusSize, NstrCat(StatusSize, g[k], x), s)
    BY <1>3, <2>1
  <2> HIDE DEF x, s
  <2>5. NstrCat(StatusSize, Cut(b), x) = Cut(c) /\ c \in Seq(Written)
    BY <1>4, <2>2
  <2> HIDE DEF c
  <2>6. NstrCat(StatusSize, Cut(c), s) = Cut(c \o s)
    BY <1>4, <2>3, <2>5
  <2>7. QED  BY <1>7, <2>4, <2>5, <2>6 DEF c, x, s
<1>8. ASSUME NEW k \in 0 .. (n - 1) - 1, k \in K PROVE k + 1 \in K
  <2>1. k + 1 \in 0 .. n - 1 /\ k \in 0 .. n - 1 /\ k + 1 < n
    BY <1>1, SMT
  <2>2. PICK b : Fields(b, k, fields) /\ g[k] = Cut(b)
    BY <1>8
  <2>3. Fields(b \o <<fields[k + 1]>> \o <<US>>, k + 1, fields)
    BY <2>1, <2>2, FieldsOne
  <2>4. g[k + 1] = Cut(b \o <<fields[k + 1]>> \o <<US>>)
    <3>1. Separator(fields, k + 1) = <<US>>
      BY <2>1 DEF Separator
    <3>2. QED  BY <1>7, <2>1, <2>2, <3>1
  <2>5. QED  BY <2>1, <2>3, <2>4
<1>9. n - 1 \in K
  <2> DEFINE m == n - 1
  <2>1. m \in Nat
    BY <1>1, SMT
  <2> HIDE DEF m, K
  <2>2. 0 .. m \subseteq K
    BY <1>6, <1>8, <2>1, BoundedInduction DEF m
  <2>3. QED  BY <2>1, <2>2, SMT DEF m
<1>10. PICK b : Fields(b, n - 1, fields) /\ g[n - 1] = Cut(b)
  BY <1>9
<1> DEFINE x == <<fields[n]>>
           body == b \o x
           p == Pieces(b, US)
<1>11. n - 1 \in 0 .. n - 1 /\ (n - 1) + 1 = n /\ n - 1 \in Nat
  BY <1>1, SMT
<1>12. x \in Seq(Written) /\ Plain(x) /\ Len(x) = 1
  <2> DEFINE k == n - 1
  <2>1. k \in 0 .. Len(fields) - 1 /\ Fields(b, k, fields) /\ k + 1 = n
    BY <1>10, <1>11
  <2> HIDE DEF k, n
  <2>2. /\ <<fields[k + 1]>> \in Seq(Written) /\ Plain(<<fields[k + 1]>>)
        /\ Len(<<fields[k + 1]>>) = 1
    BY <2>1, FieldsOne
  <2>3. QED  BY <2>1, <2>2
<1>13. g[n] = Cut(body \o <<RS>>) /\ body \in Seq(Written)
  <2>1. Separator(fields, n) = <<RS>>
    BY <1>1, SMT DEF Separator
  <2>2. LET c == b \o <<fields[(n - 1) + 1]>>
        IN  /\ c \in Seq(Written)
            /\ g[(n - 1) + 1] = Cut(c \o Separator(fields, (n - 1) + 1))
    <3> DEFINE k == n - 1
    <3>1. k \in 0 .. n - 1 /\ Fields(b, k, fields) /\ g[k] = Cut(b)
      BY <1>10, <1>11
    <3> HIDE DEF k
    <3>2. LET c == b \o <<fields[k + 1]>>
          IN  /\ c \in Seq(Written)
              /\ g[k + 1] = Cut(c \o Separator(fields, k + 1))
      BY <1>7, <3>1
    <3>3. QED  BY <3>2 DEF k
  <2>3. QED  BY <1>11, <2>1, <2>2
<1>14. /\ b \in Seq(Written) /\ Whole(b, US) /\ Without(b, RS)
       /\ Len(b) = 2 * (n - 1) /\ Len(p) = n - 1
       /\ \A j \in 1 .. n - 1 : p[j] = <<fields[j]>>
  BY <1>10 DEF Fields
<1>15. AppendMessage(cut, fields) =
         NstrCat(StatusSize, <<>>, text \o body \o <<RS>>)
  <2>1. text \o (body \o <<RS>>) = text \o body \o <<RS>>
    BY <1>5, <1>13, ConcatAssociative
  <2>2. QED  BY <1>3, <1>13, <2>1 DEF Cut
<1>16. Without(body, RS)
  BY <1>12, <1>14, WithoutConcat DEF Plain
<1>17. Len(body) + 1 <= LongestMessage
  <2>1. Len(body) = Len(b) + Len(x)
    BY <1>12, <1>14, ConcatProperties
  <2> HIDE DEF n, x, body, p
  <2>2. Len(body) = 2 * (n - 1) + 1 /\ n \in 1 .. 6
    BY <1>1, <1>12, <1>14, <2>1
  <2>3. QED  BY <2>2, SMT DEF LongestMessage
<1>18. Pieces(body, US) = [k \in DOMAIN fields |-> <<fields[k]>>]
  <2>1. x # <<>>
    BY <1>12, EmptySeq
  <2>2. Extends(body, b, x, US)
    BY <2>1 DEF Extends
  <2>3. US \in Written
    BY DEF Written
  <2> HIDE DEF body, x, n
  <2>4. p \in Seq(Seq(Written)) /\ Pieces(body, US) = Append(p, x)
    <3>1. Without(x, US)
      BY <1>12 DEF Plain
    <3>2. QED  BY <1>12, <1>14, <2>2, <2>3, <3>1, PieceSnoc
  <2> HIDE DEF p
  <2> DEFINE a == Append(p, x)
             m == [k \in 1 .. n |-> <<fields[k]>>]
  <2>5. /\ a \in Seq(Seq(Written)) /\ Len(a) = Len(p) + 1 /\ a[Len(p) + 1] = x
        /\ \A j \in 1 .. Len(p) : a[j] = p[j]
    BY <1>12, <2>4, AppendProperties
  <2> HIDE DEF a
  <2>6. DOMAIN a = 1 .. n /\ a[n] = <<fields[n]>>
        /\ \A j \in 1 .. n - 1 : a[j] = <<fields[j]>>
    BY <1>11, <1>14, <2>5, LenProperties DEF x
  <2>7. \A j \in 1 .. n : j \in 1 .. n - 1 \/ j = n
    BY <1>11, SMT
  <2>8. \A j \in 1 .. n : a[j] = <<fields[j]>>
    BY <2>6, <2>7
  <2>9. a = [j \in DOMAIN a |-> a[j]]
    BY <2>5
  <2>10. a = m
    BY <2>6, <2>8, <2>9
  <2>11. QED  BY <1>1, <2>4, <2>10 DEF a
<1>19. QED  BY <1>13, <1>15, <1>16, <1>17, <1>18 DEF cut

\* What has been sent is right, if all are the messages that were to be
\* sent, and whole the pieces that got through.
SentRight(whole, all, failed, r) ==
    /\ Len(whole) \in Nat /\ Len(all) \in Nat
    /\ Len(whole) <= Len(all) /\ \A k \in 1 .. Len(whole) : whole[k] = all[k]
    /\ n_cells <= Len(all) /\ \A k \in 1 .. n_cells : Tells(all[k], k, failed)
    /\ n_cells * LongestStatus + LongestMessage <= StatusSize => whole = all
    /\ IF r = None THEN Len(all) = n_cells
       ELSE /\ Len(all) = n_cells + 1
            /\ Pieces(all[n_cells + 1], US) =
                 [k \in DOMAIN ModebarMessage(r) |-> <<ModebarMessage(r)[k]>>]

\* What is sent is right.
LEMMA SendsRight ==
    ASSUME IndInv, NEW failed \in [0 .. n_cells - 1 -> BOOLEAN],
           NEW r \in Requests \cup {None}
    PROVE  LET cells == AppendCells(failed)
               text == IF r = None THEN cells
                       ELSE AppendMessage(cells, ModebarMessage(r))
           IN  \E all : SentRight(WholePieces(text, RS), all, failed, r)
<1> DEFINE l == LongestStatus
           n == n_cells
           b == n * l
           cells == AppendCells(failed)
<1>1. n \in Nat /\ l \in Nat /\ b \in Nat /\ StatusSize \in Nat
  <2>1. n_cells \in 1 .. 4
    BY PacketAssumption DEF IndInv, TypeOK, Digit
  <2>2. CamSize \in Nat \ {0} /\ StatusSize \in Nat
    BY Sizes
  <2>3. l \in Nat
    BY <2>2, SMT DEF LongestStatus
  <2> HIDE DEF l
  <2>4. QED  BY <2>1, <2>2, <2>3, SMT
<1>2. PICK t : /\ Reported(t, n_cells, failed)
               /\ cells = NstrCat(StatusSize, <<>>, t)
  BY CellsReported
<1> DEFINE p == Pieces(t, RS)
<1>3. /\ t \in Seq(Written) /\ Whole(t, RS) /\ Len(t) <= b
      /\ Len(p) = n /\ \A k \in 1 .. n : Tells(p[k], k, failed)
  BY <1>2 DEF Reported
<1>4. Len(t) \in Nat
  BY <1>3, LenProperties
<1> HIDE DEF cells, b
<1>5. CASE r = None
  <2> DEFINE w == WholePieces(NstrCat(StatusSize, <<>>, t), RS)
  <2>1. /\ w \in Seq(Seq(Written)) /\ p \in Seq(Seq(Written))
        /\ Len(w) <= Len(p) /\ \A k \in 1 .. Len(w) : w[k] = p[k]
        /\ Len(t) <= StatusSize => w = p
    BY <1>1, <1>3, PiecesOfCut
  <2> HIDE DEF w, p
  <2>2. Len(w) \in Nat /\ Len(p) \in Nat
    BY <2>1, LenProperties
  <2>3. b + LongestMessage <= StatusSize => Len(t) <= StatusSize
    BY <1>1, <1>3, <1>4, SMT DEF LongestMessage
  <2>4. n <= n
    BY <1>1, SMT
  <2>5. SentRight(w, p, failed, r)
    BY <1>3, <1>5, <2>1, <2>2, <2>3, <2>4 DEF SentRight, b
  <2>6. QED  BY <1>2, <1>5, <2>5 DEF w, cells
<1>6. CASE r # None
  <2> DEFINE m == ModebarMessage(r)
  <2>1. m \in Seq(Words) /\ Len(m) \in 1 .. 6
    BY <1>6, MessageType
  <2> HIDE DEF m
  <2>2. PICK body \in Seq(Written) :
          /\ AppendMessage(NstrCat(StatusSize, <<>>, t), m)
               = NstrCat(StatusSize, <<>>, t \o body \o <<RS>>)
          /\ Without(body, RS) /\ Len(body) + 1 <= LongestMessage
          /\ Pieces(body, US) = [k \in DOMAIN m |-> <<m[k]>>]
    BY <1>3, <2>1, MessageAppended
  <2> DEFINE u == t \o body \o <<RS>>
             all == Pieces(u, RS)
             w == WholePieces(NstrCat(StatusSize, <<>>, u), RS)
  <2>3. RS \in Written
    BY DEF Written
  <2>4. /\ u \in Seq(Written) /\ Whole(u, RS)
        /\ Len(u) = Len(t) + Len(body) + 1 /\ OneMore(all, p, body)
    BY <1>3, <2>2, <2>3, NextPiece
  <2> HIDE DEF u
  <2>5. /\ w \in Seq(Seq(Written)) /\ all \in Seq(Seq(Written))
        /\ Len(w) <= Len(all) /\ \A k \in 1 .. Len(w) : w[k] = all[k]
        /\ Len(u) <= StatusSize => w = all
    BY <1>1, <2>4, PiecesOfCut
  <2> HIDE DEF w, all, p
  <2>6. Len(w) \in Nat /\ Len(all) \in Nat /\ Len(body) \in Nat
    BY <2>5, LenProperties
  <2>7. b + LongestMessage <= StatusSize => Len(u) <= StatusSize
    BY <1>1, <1>3, <1>4, <2>2, <2>4, <2>6, SMT DEF LongestMessage
  <2>8. /\ Len(all) = n + 1 /\ all[n + 1] = body
        /\ \A k \in 1 .. n : all[k] = p[k]
    BY <1>3, <2>4 DEF OneMore
  <2>9. n <= Len(all)
    BY <1>1, <2>8, SMT
  <2>10. \A k \in 1 .. n : Tells(all[k], k, failed)
    BY <1>3, <2>8
  <2>11. Pieces(all[n + 1], US) = [k \in DOMAIN m |-> <<m[k]>>]
    BY <2>2, <2>8
  <2>12. SentRight(w, all, failed, r)
    BY <1>6, <2>5, <2>6, <2>7, <2>8, <2>9, <2>10, <2>11 DEF SentRight, b, m
  <2>13. QED  BY <1>2, <1>6, <2>2, <2>12 DEF w, u, cells, m
<1>7. QED  BY <1>5, <1>6

\* A status that is sent tells of the cells, and has the request.
LEMMA SendStep ==
    ASSUME IndInv, NEW failed \in [0 .. n_cells - 1 -> BOOLEAN],
           NEW r \in Requests \cup {None}, SendStatus(failed, r)
    PROVE  StatusTells' /\ RequestSent'
<1> DEFINE cells == AppendCells(failed)
           text == IF r = None THEN cells
                   ELSE AppendMessage(cells, ModebarMessage(r))
           w == WholePieces(text, RS)
<1>1. /\ sent' = [text |-> text, failed |-> failed, request |-> r]
      /\ n_cells' = n_cells /\ cam' = cam
  BY DEF SendStatus
<1>2. PICK all : SentRight(w, all, failed, r)
  BY SendsRight
<1> HIDE DEF cells, text
<1>3. sent'.text = text /\ sent'.failed = failed /\ sent'.request = r
  BY <1>1
<1>4. StatusTells'
  <2>1. ASSUME NEW k \in 1 .. Least(Len(w), n_cells)
        PROVE  Tells(w[k], k, failed)
    <3>1. n_cells \in Nat
      <4>1. n_cells \in 1 .. 4
        BY PacketAssumption DEF IndInv, TypeOK, Digit
      <4>2. QED  BY <4>1, SMT
    <3>2. Len(w) \in Nat
      BY <1>2 DEF SentRight
    <3> HIDE DEF w
    <3>3. k \in 1 .. Len(w) /\ k \in 1 .. n_cells
      BY <3>1, <3>2, SMT DEF Least
    <3>4. QED  BY <1>2, <3>3 DEF SentRight
  <2>2. QED  BY <1>1, <1>3, <2>1 DEF StatusTells, Tells
<1>5. RequestSent'
  <2> HIDE DEF w
  <2>1. ASSUME n_cells * LongestStatus + LongestMessage <= StatusSize
        PROVE  IF r = None THEN Len(w) = n_cells
               ELSE /\ Len(w) = n_cells + 1
                    /\ Pieces(Last(w), US) =
                         [k \in DOMAIN ModebarMessage(r) |->
                            <<ModebarMessage(r)[k]>>]
    <3>1. w = all
      BY <1>2, <2>1 DEF SentRight
    <3>2. QED  BY <1>2, <3>1 DEF SentRight, Last
  <2>2. QED
    BY <1>1, <1>3, <2>1 DEF RequestSent, LongestStatus, LongestMessage, w
<1>6. QED  BY <1>4, <1>5

\* For every number of cells and size of the buffer, each message of a status
\* packet tells the truth of its own monitor, whatever was cut off behind it
\* (mongrid_status).
THEOREM StatusIsTrue == Spec => []StatusTells
<1>1. Init => StatusTells
  BY DEF Init, StatusTells
<1>2. IndInv /\ StatusTells /\ [Next]_vars => StatusTells'
  <2> SUFFICES ASSUME IndInv, StatusTells, [Next]_vars PROVE StatusTells'
    OBVIOUS
  <2>1. ASSUME sent' = None PROVE StatusTells'
    BY <2>1 DEF StatusTells
  <2>2. CASE UNCHANGED vars
    BY <2>2 DEF StatusTells, vars
  <2>3. QED
    BY <2>1, <2>2, SendStep DEF Next, Recv, Load, ProcCmd, Crash
<1>3. QED  BY <1>1, <1>2, Invariance, PTL DEF Spec

\* For every number of cells and size of the buffer: if the messages fit, all
\* are sent, with the request of the control bar (player_send_status).
THEOREM RequestIsSent == Spec => []RequestSent
<1>1. Init => RequestSent
  BY DEF Init, RequestSent
<1>2. IndInv /\ RequestSent /\ [Next]_vars => RequestSent'
  <2> SUFFICES ASSUME IndInv, RequestSent, [Next]_vars PROVE RequestSent'
    OBVIOUS
  <2>1. ASSUME sent' = None PROVE RequestSent'
    BY <2>1 DEF RequestSent
  <2>2. CASE UNCHANGED vars
    BY <2>2 DEF RequestSent, vars, LongestStatus
  <2>3. QED
    BY <2>1, <2>2, SendStep DEF Next, Recv, Load, ProcCmd, Crash
<1>3. QED  BY <1>1, <1>2, Invariance, PTL DEF Spec
=============================================================================
