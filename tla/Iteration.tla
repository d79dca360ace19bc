----------------------------- MODULE Iteration -----------------------------
(***************************************************************************)
(* Induction and the folds of SequencesExt, in a form the provers can use: *)
(* about sets and functions, never about operators.                        *)
(***************************************************************************)
EXTENDS Integers, SequencesExt, WellFoundedInduction, TLAPS

\* A set that holds 0, and with each number the next, holds all numbers.
LEMMA SetInduction ==
    ASSUME NEW S, 0 \in S, \A n \in Nat : n \in S => n + 1 \in S
    PROVE  Nat \subseteq S
<1> DEFINE R == OpToRel(<, Nat)
           T == Nat \ S
<1> SUFFICES ASSUME T # {} PROVE FALSE
  OBVIOUS
<1>1. IsWellFoundedOn(R, Nat)
  BY NatLessThanWellFounded
<1>2. T \subseteq Nat
  OBVIOUS
<1> HIDE DEF R
<1>3. PICK x \in T : \A y \in T : ~(<<y, x>> \in R)
  BY <1>1, <1>2, WFMin
<1>4. x # 0 /\ x \in Nat /\ x - 1 \in Nat
  BY <1>2, <1>3, SMT
<1>5. <<x - 1, x>> \in R
  BY <1>4, SMT DEF OpToRel, R
<1>6. x - 1 \in S
  BY <1>3, <1>4, <1>5
<1>7. (x - 1) + 1 = x
  BY <1>4, SMT
<1>8. QED  BY <1>3, <1>4, <1>6, <1>7

\* The same up to a bound.
LEMMA BoundedInduction ==
    ASSUME NEW m \in Nat, NEW S, 0 \in S,
           \A n \in 0 .. m - 1 : n \in S => n + 1 \in S
    PROVE  0 .. m \subseteq S
<1> DEFINE T == {n \in Nat : n <= m => n \in S}
<1>1. 0 \in T
  OBVIOUS
<1>2. \A n \in Nat : n \in T => n + 1 \in T
  BY SMT
<1>3. Nat \subseteq T
  BY <1>1, <1>2, SetInduction
<1>4. QED  BY <1>3, SMT

\* The least of a non-empty set of numbers is in it.
LEMMA MinOfNats ==
    ASSUME NEW S, S \subseteq Nat, S # {}
    PROVE  Min(S) \in S /\ \A y \in S : Min(S) <= y
<1> DEFINE R == OpToRel(<, Nat)
<1>1. IsWellFoundedOn(R, Nat)
  BY NatLessThanWellFounded
<1> HIDE DEF R
<1>2. PICK x \in S : \A y \in S : ~(<<y, x>> \in R)
  BY <1>1, WFMin
<1>3. ASSUME NEW y \in S PROVE x <= y
  <2>1. y \in Nat /\ x \in Nat /\ ~(<<y, x>> \in R)
    BY <1>2
  <2>2. ~(y < x)
    BY <2>1, SMT DEF OpToRel, R
  <2>3. QED  BY <2>1, <2>2, SMT
<1>4. QED  BY <1>2, <1>3 DEF Min

\* The greatest of a non-empty set of numbers up to n is in it.
LEMMA MaxOfNats ==
    ASSUME NEW n \in Nat, NEW S, S \subseteq 0 .. n, S # {}
    PROVE  Max(S) \in S /\ \A y \in S : Max(S) >= y
<1> DEFINE T == {n - x : x \in S}
<1>1. T \subseteq Nat /\ T # {}
  <2>1. \A x \in S : n - x \in Nat
    BY SMT
  <2>2. QED  BY <2>1
<1>2. Min(T) \in T /\ \A y \in T : Min(T) <= y
  BY <1>1, MinOfNats
<1>3. PICK x \in S : Min(T) = n - x
  BY <1>2
<1>4. ASSUME NEW y \in S PROVE x >= y
  <2>1. n - y \in T
    OBVIOUS
  <2>2. n - x <= n - y
    BY <1>2, <1>3, <2>1
  <2>3. x \in Int /\ y \in Int
    OBVIOUS
  <2>4. QED  BY <2>2, <2>3, SMT
<1>5. QED  BY <1>3, <1>4 DEF Max

\* The greatest number of a set that holds n and nothing beyond is n.
LEMMA MaxIs ==
    ASSUME NEW n \in Nat, NEW S, S \subseteq 0 .. n, n \in S
    PROVE  Max(S) = n
<1>1. \A y \in S : n >= y
  BY SMT
<1>2. \A x \in S : (\A y \in S : x >= y) => x = n
  BY SMT
<1>3. QED  BY <1>1, <1>2 DEF Max

\* Function it does what the folds iterate: on a set of positions up to n it
\* takes off the greatest, and makes a step with it.
Iterates(it, n, base, step) ==
    \A s \in SUBSET (1 .. n) :
      it[s] = IF s = {} THEN base
              ELSE step[<<it[s \ {Max(s)}], Max(s)>>]

\* What a fold iterates exists: whatever its step does.
LEMMA FoldExists ==
    ASSUME NEW n \in Nat, NEW A, NEW base \in A,
           NEW step \in [A \X (1 .. n) -> A]
    PROVE  \E it \in [SUBSET (1 .. n) -> A] : Iterates(it, n, base, step)
<1> USE DEF Iterates
<1> DEFINE Good(k, it) == Iterates(it, k, base, step)
           Sol(k) == \E it \in [SUBSET (1 .. k) -> A] : Good(k, it)
           K == {k \in Nat : k <= n => Sol(k)}
<1>1. Sol(0)
  <2> DEFINE it == [s \in SUBSET (1 .. 0) |-> base]
  <2>1. it \in [SUBSET (1 .. 0) -> A]
    OBVIOUS
  <2>2. SUBSET (1 .. 0) = {{}}
    <3>1. 1 .. 0 = {}
      BY SMT
    <3>2. QED BY <3>1
  <2>3. Good(0, it)
    BY <2>2
  <2>4. QED  BY <2>1, <2>3
<1>2. ASSUME NEW k \in Nat, Sol(k), k + 1 <= n
      PROVE  Sol(k + 1)
  <2>1. PICK f \in [SUBSET (1 .. k) -> A] : Good(k, f)
    BY <1>2
  <2> DEFINE it == [s \in SUBSET (1 .. k + 1) |->
                      IF k + 1 \in s THEN step[<<f[s \ {k + 1}], k + 1>>]
                      ELSE f[s]]
  <2>2. ASSUME NEW s \in SUBSET (1 .. k + 1)
        PROVE  /\ s \ {k + 1} \in SUBSET (1 .. k)
               /\ k + 1 \notin s => s \in SUBSET (1 .. k)
    BY SMT
  <2>3. it \in [SUBSET (1 .. k + 1) -> A]
    <3>1. k + 1 \in 1 .. n
      BY <1>2, SMT
    <3>2. ASSUME NEW s \in SUBSET (1 .. k + 1)
          PROVE  (IF k + 1 \in s THEN step[<<f[s \ {k + 1}], k + 1>>]
                  ELSE f[s]) \in A
      <4>1. f[s \ {k + 1}] \in A /\ (k + 1 \notin s => f[s] \in A)
        BY <2>2
      <4>2. step[<<f[s \ {k + 1}], k + 1>>] \in A
        BY <3>1, <4>1
      <4>3. QED  BY <4>1, <4>2
    <3>3. QED  BY <3>2
  <2>4. ASSUME NEW s \in SUBSET (1 .. k + 1)
        PROVE  it[s] = IF s = {} THEN base
                       ELSE step[<<it[s \ {Max(s)}], Max(s)>>]
    <3>1. CASE k + 1 \in s
      <4>1. Max(s) = k + 1
        <5>1. s \subseteq 0 .. k + 1
          BY SMT
        <5>2. k + 1 \in Nat
          BY SMT
        <5>3. QED  BY <3>1, <5>1, <5>2, MaxIs
      <4>2. s \ {k + 1} \in SUBSET (1 .. k + 1) /\ k + 1 \notin s \ {k + 1}
        BY <2>2
      <4>3. it[s \ {k + 1}] = f[s \ {k + 1}]
        BY <4>2
      <4>4. it[s] = step[<<f[s \ {k + 1}], k + 1>>]
        BY <3>1
      <4>5. QED  BY <3>1, <4>1, <4>3, <4>4
    <3>2. CASE k + 1 \notin s
      <4>1. s \in SUBSET (1 .. k) /\ it[s] = f[s]
        BY <2>2, <3>2
      <4>2. s \ {Max(s)} \in SUBSET (1 .. k + 1)
            /\ k + 1 \notin s \ {Max(s)}
        BY <3>2
      <4>3. it[s \ {Max(s)}] = f[s \ {Max(s)}]
        BY <4>2
      <4>4. QED  BY <2>1, <4>1, <4>3
    <3>3. QED  BY <3>1, <3>2
  <2>5. QED  BY <2>3, <2>4
<1> HIDE DEF Sol
<1>3. 0 \in K /\ \A k \in Nat : k \in K => k + 1 \in K
  BY <1>1, <1>2, SMT
<1>4. Nat \subseteq K
  BY <1>3, SetInduction
<1>5. Sol(n)
  BY <1>4, SMT
<1>6. QED  BY <1>5 DEF Sol

\* F does what the folds iterate, as long as it stays in A.
IteratesIn(F, A, n, base, step) ==
    /\ n \in Nat /\ base \in A /\ step \in [A \X (1 .. n) -> A]
    /\ F[{}] = base
    /\ \A s \in SUBSET (1 .. n) :
         s # {} /\ F[s \ {Max(s)}] \in A
         => F[s] = step[<<F[s \ {Max(s)}], Max(s)>>]

\* g has the results on the way, from base on.
Steps(g, n, base, step) ==
    /\ g[0] = base
    /\ \A k \in 1 .. n : g[k] = step[<<g[k - 1], k>>]

\* What an iteration makes of 1 .. k, it makes of 1 .. k - 1 in one step more.
LEMMA FoldPrefixes ==
    ASSUME NEW F, NEW A, NEW n, NEW base, NEW step,
           IteratesIn(F, A, n, base, step)
    PROVE  \E g \in [0 .. n -> A] :
             Steps(g, n, base, step) /\ g[n] = F[1 .. n]
<1> USE DEF IteratesIn, Steps
<1> DEFINE g == [k \in 0 .. n |-> F[1 .. k]]
           S == {k \in 0 .. n : F[1 .. k] \in A}
<1>1. 0 \in 0 .. n /\ n \in 0 .. n /\ F[1 .. 0] = base
  <2>1. 1 .. 0 = {}
    BY SMT
  <2>2. QED  BY <2>1, SMT
<1>2. ASSUME NEW k \in 1 .. n, F[1 .. k - 1] \in A
      PROVE  /\ F[1 .. k] = step[<<F[1 .. k - 1], k>>]
             /\ F[1 .. k] \in A
  <2>1. 1 .. k \in SUBSET (1 .. n) /\ k \in 1 .. k /\ 1 .. k \subseteq 0 .. k
    BY SMT
  <2>2. Max(1 .. k) = k
    BY <2>1, MaxIs
  <2>3. (1 .. k) \ {k} = 1 .. k - 1
    BY SMT
  <2>4. QED  BY <1>2, <2>1, <2>2, <2>3
<1>3. \A k \in 0 .. n - 1 : k \in S => k + 1 \in S
  <2> SUFFICES ASSUME NEW k \in 0 .. n - 1, k \in S PROVE k + 1 \in S
    OBVIOUS
  <2>1. k + 1 \in 1 .. n /\ (k + 1) - 1 = k /\ k + 1 \in 0 .. n
    BY SMT
  <2>2. F[1 .. k + 1] \in A
    BY <1>2, <2>1
  <2>3. QED  BY <2>1, <2>2
<1>4. 0 \in S
  BY <1>1
<1>5. 0 .. n \subseteq S
  <2> HIDE DEF S
  <2>1. QED  BY <1>3, <1>4, BoundedInduction
<1>6. g \in [0 .. n -> A] /\ g[0] = base /\ g[n] = F[1 .. n]
  BY <1>1, <1>5
<1>7. ASSUME NEW k \in 1 .. n PROVE g[k] = step[<<g[k - 1], k>>]
  <2>1. k \in 0 .. n /\ k - 1 \in 0 .. n
    BY SMT
  <2>2. QED  BY <1>2, <1>5, <2>1
<1>8. QED  BY <1>6, <1>7
=============================================================================
