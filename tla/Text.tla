-------------------------------- MODULE Text --------------------------------
(***************************************************************************)
(* The length-counted strings of nstr.c.  A string is a place in a buffer: *)
(* where it begins, how much room there is from there on, and how much of  *)
(* it is used.  Strings cut from one another share their buffer, so it is  *)
(* an argument: mem, a function from addresses to characters.  A buffer    *)
(* that only one string uses is written down as the characters in it.      *)
(***************************************************************************)
EXTENDS Integers, Sequences, FiniteSetsExt

RS == "RS"      \* RECORD_SEP
US == "US"      \* UNIT_SEP
NUL == "NUL"

Least(a, b) == IF a < b THEN a ELSE b

NstrInitN(at, room, len) == [at |-> at, room |-> room, len |-> Least(len, room)]

Chars(mem, s) == [i \in 1 .. s.len |-> mem[s.at + i - 1]]

\* The offset of c, or the length if there is none.
NstrFind(mem, s, c) ==
    Min({i \in 0 .. s.len - 1 : mem[s.at + i] = c} \cup {s.len})

\* One that is the prefix and nothing more does not start with it.
NstrStartsWith(chars, prefix) ==
    /\ Len(prefix) < Len(chars)
    /\ SubSeq(chars, 1, Len(prefix)) = prefix

NstrContains(chars, part) ==
    \E k \in DOMAIN chars : NstrStartsWith(SubSeq(chars, k, Len(chars)), part)

\* What comes before c, with room for the character c itself; nstr_split
\* returns the same and leaves the rest.
NstrChop(mem, s, c) ==
    LET i == NstrFind(mem, s, c) IN NstrInitN(s.at, i + 1, i)

\* Mutant: the character is not taken off the length.
NstrSplitKeepingLen(mem, s, c) ==
    LET j == NstrFind(mem, s, c) + 1
    IN  IF j <= s.len
        THEN [at |-> s.at + j, room |-> s.room - j, len |-> s.len - j + 1]
        ELSE [s EXCEPT !.len = 0]

NstrSplit(mem, s, c) ==
    LET j == NstrFind(mem, s, c) + 1
    IN  IF j <= s.len
        THEN [at |-> s.at + j, room |-> s.room - j, len |-> s.len - j]
        ELSE [s EXCEPT !.len = 0]

\* Field k of a string, as taken off by k calls of nstr_split
Field(mem, s, k) ==
    LET rest[i \in 1 .. k] == IF i = 1 THEN s ELSE NstrSplit(mem, rest[i - 1], US)
    IN  Chars(mem, NstrChop(mem, rest[k], US))

\* Mutant: the terminator goes one place too far.
NstrZLate(mem, s) == [mem EXCEPT ![s.at + Least(s.len, s.room - 1) + 1] = NUL]

\* The string is terminated where it is: what this writes to the buffer.
NstrZ(mem, s) == [mem EXCEPT ![s.at + Least(s.len, s.room - 1)] = NUL]

\* nstr_cat, nstr_cat_z and nstr_cat_c, for a buffer of so many characters
NstrCat(size, chars, more) ==
    SubSeq(chars \o more, 1, Least(Len(chars \o more), size))

\* Mutant: no room is left for the terminator.
NstrToCstrFull(size, chars) == NstrCat(size, <<>>, chars)

\* The C string that is copied to an array, with its terminator, and whether
\* the string was cut: one that just fits is, too (nstr_cat).
NstrToCstr(size, chars) == NstrCat(size - 1, <<>>, chars)
Truncated(size, chars) == Len(chars) >= size

Digit == <<"0", "1", "2", "3">>

\* nstr_parse_u32, for numbers of one digit: what is no number is 0, and
\* what is too long for the array of so many characters is -1.
NstrParseU32(size, chars) ==
    IF Truncated(size, chars) THEN -1
    ELSE IF chars # <<>> /\ \E d \in 1 .. 4 : Digit[d] = chars[1]
         THEN (CHOOSE d \in 1 .. 4 : Digit[d] = chars[1]) - 1
    ELSE 0

----------------------------------------------------------------------------
(* What splitting is for, without buffers: the pieces between separators.  *)
(* Nothing after the last separator is no piece.                           *)

\* cut is a function so that TLC computes its argument, the ends, once.
Pieces(text, sep) ==
    LET cut[ends \in SUBSET Nat] ==
            LET End(k) == CHOOSE e \in {0} \cup ends :
                              Cardinality({x \in ends : x <= e}) = k
            IN  [k \in 1 .. Cardinality(ends) |->
                    SubSeq(text, End(k - 1) + 1, End(k) - 1)]
    IN  cut[{i \in DOMAIN text : text[i] = sep}
            \cup (IF text # <<>> /\ text[Len(text)] # sep
                  THEN {Len(text) + 1} ELSE {})]

\* The pieces that a separator ends
WholePieces(text, sep) ==
    IF text = <<>> \/ text[Len(text)] = sep THEN Pieces(text, sep)
    ELSE SubSeq(Pieces(text, sep), 1, Len(Pieces(text, sep)) - 1)
=============================================================================
