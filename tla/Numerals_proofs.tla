---------------------------- MODULE Numerals_proofs ----------------------------
(***************************************************************************)
(* Proofs about Numerals, for numbers and texts of every length: long      *)
(* division keeps the number, the loops that make its digits come to an    *)
(* end in time, and reading a text of digits gives the number back.        *)
(*                                                                         *)
(* The recursive functions of Numerals run over an interval 0 .. N, and an *)
(* induction over such an interval rests on a fact about finite sets: a    *)
(* set that the successor maps into itself would, without N, be as large   *)
(* as its own part without 0.                                              *)
(***************************************************************************)
EXTENDS Numerals, FiniteSetTheorems, SequenceTheorems, TLAPS

-----------------------------------------------------------------------------
(* Induction over an interval.                                             *)

LEMMA ReachesTheEnd ==
    ASSUME NEW N \in Nat, NEW T \in SUBSET (0 .. N), 0 \in T,
           \A n \in T : n < N => n + 1 \in T
    PROVE  N \in T
  <1> SUFFICES ASSUME N \notin T PROVE FALSE
    OBVIOUS
  <1> DEFINE f == [n \in T |-> n + 1]
  <1>1. IsFiniteSet(T)
    <2>1. IsFiniteSet(0 .. N)
      BY FS_Interval
    <2> QED BY <2>1, FS_Subset
  <1>2. /\ IsFiniteSet(T \ {0}) /\ Cardinality(T \ {0}) = Cardinality(T) - 1
        /\ Cardinality(T) \in Nat
    BY <1>1, FS_RemoveElement, FS_CardinalityType
  <1>3. f \in [T -> T \ {0}]
    OBVIOUS
  <1>4. \E x, y \in T : x # y /\ f[x] = f[y]
    <2> HIDE DEF f
    <2>1. Cardinality(T \ {0}) < Cardinality(T)
      BY <1>2
    <2> QED BY <1>1, <1>2, <1>3, <2>1, FS_PigeonHole
  <1> QED BY <1>4

\* Induction: a set that has 0 and, with a number, the next one has them all.
LEMMA Induction ==
    ASSUME NEW N \in Nat, NEW T, 0 \in T,
           \A n \in 0 .. N - 1 : n \in T => n + 1 \in T
    PROVE  \A n \in 0 .. N : n \in T
  <1> SUFFICES ASSUME NEW m \in 0 .. N PROVE m \in T
    OBVIOUS
  <1> DEFINE U == T \cap (0 .. m)
  <1>1. U \in SUBSET (0 .. m) /\ 0 \in U /\ \A n \in U : n < m => n + 1 \in U
    OBVIOUS
  <1> HIDE DEF U
  <1>2. m \in U
    BY <1>1, ReachesTheEnd
  <1> QED BY <1>2 DEF U

LEMMA LeastElement ==
    ASSUME NEW N \in Nat, NEW T, NEW t \in T, t \in 0 .. N
    PROVE  \E n \in 0 .. N : n \in T /\ \A m \in 0 .. n - 1 : m \notin T
  <1> SUFFICES ASSUME ~\E n \in 0 .. N : n \in T /\ \A m \in 0 .. n - 1 : m \notin T
               PROVE  FALSE
    OBVIOUS
  <1> DEFINE U == {n \in 0 .. N : \A m \in 0 .. n : m \notin T}
  <1>1. 0 \in U
    OBVIOUS
  <1>2. ASSUME NEW n \in 0 .. N - 1, n \in U
        PROVE  n + 1 \in U
    <2>1. \A m \in 0 .. n : m \notin T
      BY <1>2
    <2>2. n + 1 \notin T
      BY <2>1
    <2> QED BY <2>1, <2>2
  <1>3. \A n \in 0 .. N : n \in U
    <2> HIDE DEF U
    <2> QED BY <1>1, <1>2, Induction
  <1> QED BY <1>3

\* A function by recursion: there is one that starts at c and follows the
\* steps.
Follows(g, c, N, step) == g[0] = c /\ \A i \in 1 .. N : g[i] = step[i][g[i - 1]]

LEMMA Recursion ==
    ASSUME NEW S, NEW c \in S, NEW N \in Nat, NEW step \in [1 .. N -> [S -> S]]
    PROVE  \E g \in [0 .. N -> S] : Follows(g, c, N, step)
  <1> DEFINE T == {m \in 0 .. N : \E g \in [0 .. m -> S] : Follows(g, c, m, step)}
  <1>1. 0 \in T
    <2>1. PICK g : g = [i \in 0 .. 0 |-> c]
      OBVIOUS
    <2>2. g \in [0 .. 0 -> S] /\ Follows(g, c, 0, step)
      BY <2>1 DEF Follows
    <2> QED BY <2>2
  <1>2. ASSUME NEW m \in 0 .. N - 1, m \in T
        PROVE  m + 1 \in T
    <2>1. PICK g \in [0 .. m -> S] : Follows(g, c, m, step)
      BY <1>2
    <2> DEFINE h == [i \in 0 .. m + 1 |-> IF i = m + 1 THEN step[m + 1][g[m]] ELSE g[i]]
    <2>2. step[m + 1] \in [S -> S] /\ g[m] \in S
      OBVIOUS
    <2>3. h \in [0 .. m + 1 -> S]
      BY <2>2
    <2>4. Follows(h, c, m + 1, step)
      BY <2>1 DEF Follows
    <2> HIDE DEF h
    <2> QED BY <2>3, <2>4
  <1> HIDE DEF T
  <1>3. \A m \in 0 .. N : m \in T
    BY <1>1, <1>2, Induction
  <1>4. N \in T
    BY <1>3
  <1> QED BY <1>4 DEF T

-----------------------------------------------------------------------------
(* The value of a sequence of digits.                                      *)

Val(v, s, base) == Prefixes(v, s, base)[Len(s)]

\* The number that x becomes with the digit d after it: an operator, so that
\* the provers meet the product only where it matters.
Shifted(base, x, d) == base * x + d

LEMMA ShiftedType ==
    ASSUME NEW base \in Nat, NEW x \in Nat, NEW d \in Nat
    PROVE  Shifted(base, x, d) \in Nat
  <1>1. base * x \in Nat
    OBVIOUS
  <1> QED BY <1>1 DEF Shifted

\* What the recursive definition of Prefixes says.
PrefixesOf(P, v, s, base) ==
    /\ P \in [0 .. Len(s) -> Nat]
    /\ P[0] = v
    /\ \A i \in 1 .. Len(s) : P[i] = Shifted(base, P[i - 1], s[i])

LEMMA PrefixValues ==
    ASSUME NEW v \in Nat, NEW s \in Seq(Nat), NEW base \in Nat
    PROVE  PrefixesOf(Prefixes(v, s, base), v, s, base)
  <1> DEFINE N == Len(s)
             Next(x, i) == Shifted(base, x, s[i])
             step == [i \in 1 .. N |-> [x \in Nat |-> Next(x, i)]]
             P == Prefixes(v, s, base)
  <1>1. \A i \in 1 .. N, x \in Nat : Next(x, i) \in Nat
    <2> SUFFICES ASSUME NEW i \in 1 .. N, NEW x \in Nat PROVE Next(x, i) \in Nat
      OBVIOUS
    <2>1. s[i] \in Nat
      OBVIOUS
    <2> QED BY <2>1, ShiftedType
  <1>2. N \in Nat
    OBVIOUS
  <1>3. PICK g \in [0 .. N -> Nat] : Follows(g, v, N, step)
    <2>1. step \in [1 .. N -> [Nat -> Nat]]
      BY <1>1
    <2> HIDE DEF step, N
    <2> QED BY <1>2, <2>1, Recursion
  <1>4. g = [i \in 0 .. N |-> IF i = 0 THEN v ELSE Next(g[i - 1], i)]
    <2> HIDE DEF Next, N
    <2> SUFFICES ASSUME NEW i \in 1 .. N PROVE g[i] = Next(g[i - 1], i)
      BY <1>2, <1>3 DEF Follows
    <2>1. i - 1 \in 0 .. N
      BY <1>2
    <2> QED BY <1>3, <2>1 DEF Follows
  <1>5. P = [i \in 0 .. N |-> IF i = 0 THEN v ELSE Next(P[i - 1], i)]
    BY <1>4 DEF Prefixes, Shifted
  <1> HIDE DEF P, N, Next
  <1>6. P[0] = v /\ \A i \in 1 .. N : P[i] = Next(P[i - 1], i)
    BY <1>2, <1>5
  <1>7. \A m \in 0 .. N : m \in {i \in 0 .. N : P[i] \in Nat}
    <2>1. ASSUME NEW m \in 0 .. N - 1, P[m] \in Nat
          PROVE  P[m + 1] \in Nat
      <3>1. m + 1 \in 1 .. N /\ P[m + 1] = Next(P[m], m + 1)
        BY <1>2, <1>6
      <3> QED BY <1>1, <2>1, <3>1
    <2> DEFINE T == {i \in 0 .. N : P[i] \in Nat}
    <2>2. 0 \in T /\ \A m \in 0 .. N - 1 : m \in T => m + 1 \in T
      BY <1>2, <1>6, <2>1
    <2> HIDE DEF T
    <2>3. \A m \in 0 .. N : m \in T
      BY <1>2, <2>2, Induction
    <2> QED BY <2>3 DEF T
  <1>8. P \in [0 .. N -> Nat]
    BY <1>5, <1>7
  <1> QED BY <1>6, <1>8 DEF P, N, Next, PrefixesOf

Agree(s, t, k) == k <= Len(s) /\ k <= Len(t) /\ \A i \in 1 .. k : s[i] = t[i]

\* The value of a prefix depends on its digits only.
LEMMA PrefixesAgree ==
    ASSUME NEW v \in Nat, NEW base \in Nat, NEW s \in Seq(Nat), NEW t \in Seq(Nat),
           NEW k \in Nat, Agree(s, t, k)
    PROVE  Prefixes(v, s, base)[k] = Prefixes(v, t, base)[k]
  <1> DEFINE P == Prefixes(v, s, base)
             Q == Prefixes(v, t, base)
             T == {m \in 0 .. k : P[m] = Q[m]}
  <1>1. PrefixesOf(P, v, s, base) /\ PrefixesOf(Q, v, t, base)
    BY PrefixValues
  <1> HIDE DEF P, Q
  <1>2. 0 \in T
    BY <1>1 DEF PrefixesOf
  <1>3. ASSUME NEW m \in 0 .. k - 1, m \in T
        PROVE  m + 1 \in T
    <2>1. m + 1 \in 1 .. Len(s) /\ m + 1 \in 1 .. Len(t) /\ m + 1 \in 1 .. k /\ (m + 1) - 1 = m
      BY DEF Agree
    <2>2. P[m + 1] = Shifted(base, P[m], s[m + 1]) /\ Q[m + 1] = Shifted(base, Q[m], t[m + 1])
      BY <1>1, <2>1 DEF PrefixesOf
    <2>3. P[m] = Q[m] /\ s[m + 1] = t[m + 1]
      BY <1>3, <2>1 DEF Agree
    <2> QED BY <2>1, <2>2, <2>3
  <1> HIDE DEF T
  <1>4. \A m \in 0 .. k : m \in T
    BY <1>2, <1>3, Induction
  <1>5. k \in T
    BY <1>4
  <1> QED BY <1>5 DEF T, P, Q

LEMMA ValType ==
    ASSUME NEW v \in Nat, NEW s \in Seq(Nat), NEW base \in Nat
    PROVE  Val(v, s, base) \in Nat
  <1>1. PrefixesOf(Prefixes(v, s, base), v, s, base)
    BY PrefixValues
  <1>2. Len(s) \in 0 .. Len(s)
    OBVIOUS
  <1> QED BY <1>1, <1>2 DEF Val, PrefixesOf

LEMMA ValEmpty ==
    ASSUME NEW v \in Nat, NEW base \in Nat
    PROVE  Val(v, <<>>, base) = v
  <1>1. <<>> \in Seq(Nat) /\ Len(<<>>) = 0
    OBVIOUS
  <1> QED BY <1>1, PrefixValues DEF Val, PrefixesOf

LEMMA ValOfLonger ==
    ASSUME NEW v \in Nat, NEW s \in Seq(Nat), NEW x \in Nat, NEW base \in Nat,
           NEW t \in Seq(Nat), Len(t) = Len(s) + 1, t[Len(s) + 1] = x,
           \A i \in 1 .. Len(s) : s[i] = t[i]
    PROVE  Val(v, t, base) = Shifted(base, Val(v, s, base), x)
  <1>1. Len(s) \in Nat /\ Agree(s, t, Len(s))
    BY DEF Agree
  <1>2. Prefixes(v, s, base)[Len(s)] = Prefixes(v, t, base)[Len(s)]
    BY <1>1, PrefixesAgree
  <1>3. Len(s) + 1 \in 1 .. Len(t) /\ (Len(s) + 1) - 1 = Len(s)
    BY <1>1
  <1>4. PrefixesOf(Prefixes(v, t, base), v, t, base)
    BY PrefixValues
  <1>5. Prefixes(v, t, base)[Len(t)] = Shifted(base, Prefixes(v, t, base)[Len(s)], x)
    BY <1>3, <1>4 DEF PrefixesOf
  <1> QED BY <1>2, <1>5 DEF Val

LEMMA ValAppend ==
    ASSUME NEW v \in Nat, NEW s \in Seq(Nat), NEW x \in Nat, NEW base \in Nat
    PROVE  Val(v, Append(s, x), base) = Shifted(base, Val(v, s, base), x)
  <1>1. PICK t : t = Append(s, x)
    OBVIOUS
  <1>2. t \in Seq(Nat)
    BY <1>1
  <1>3. Len(t) = Len(s) + 1 /\ t[Len(s) + 1] = x /\ \A i \in 1 .. Len(s) : s[i] = t[i]
    BY <1>1
  <1>4. Val(v, t, base) = Shifted(base, Val(v, s, base), x)
    BY <1>2, <1>3, ValOfLonger
  <1> QED BY <1>1, <1>4

HasTail(t, s) == Len(t) = Len(s) + 1 /\ \A i \in 1 .. Len(s) : t[i + 1] = s[i]

LEMMA PrefixesShifted ==
    ASSUME NEW v \in Nat, NEW s \in Seq(Nat), NEW base \in Nat,
           NEW t \in Seq(Nat), HasTail(t, s), NEW w \in Nat, w = Shifted(base, v, t[1])
    PROVE  \A m \in 0 .. Len(s) : Prefixes(v, t, base)[m + 1] = Prefixes(w, s, base)[m]
  <1> DEFINE k == Len(s)
             P == Prefixes(v, t, base)
             Q == Prefixes(w, s, base)
             T == {m \in 0 .. k : P[m + 1] = Q[m]}
  <1>1. PrefixesOf(P, v, t, base)
    BY PrefixValues
  <1>2. PrefixesOf(Q, w, s, base)
    BY PrefixValues
  <1>3. k \in Nat /\ Len(t) = k + 1
    BY DEF HasTail
  <1> HIDE DEF P, Q
  <1>4. 0 \in T
    <2>1. 1 \in 1 .. Len(t) /\ 1 - 1 = 0
      BY <1>3
    <2>2. P[1] = Shifted(base, v, t[1])
      BY <1>1, <2>1 DEF PrefixesOf
    <2> QED BY <1>2, <1>3, <2>2 DEF PrefixesOf
  <1>5. ASSUME NEW m \in 0 .. k - 1, m \in T
        PROVE  m + 1 \in T
    <2>1. m + 1 \in 1 .. k /\ (m + 1) - 1 = m /\ (m + 1) + 1 \in 1 .. Len(t) /\ ((m + 1) + 1) - 1 = m + 1
      BY <1>3
    <2>2. Q[m + 1] = Shifted(base, Q[m], s[m + 1]) /\ P[(m + 1) + 1] = Shifted(base, P[m + 1], t[(m + 1) + 1])
      BY <1>1, <1>2, <2>1 DEF PrefixesOf
    <2>3. P[m + 1] = Q[m] /\ t[(m + 1) + 1] = s[m + 1]
      BY <1>5, <2>1 DEF HasTail
    <2> QED BY <2>1, <2>2, <2>3
  <1> HIDE DEF T, k
  <1>6. \A m \in 0 .. k : m \in T
    BY <1>3, <1>4, <1>5, Induction
  <1> QED BY <1>6 DEF T, P, Q, k

LEMMA ValOfTail ==
    ASSUME NEW v \in Nat, NEW s \in Seq(Nat), NEW t \in Seq(Nat), NEW base \in Nat, HasTail(t, s)
    PROVE  Val(v, t, base) = Val(Shifted(base, v, t[1]), s, base)
  <1>1. PICK w : w = Shifted(base, v, t[1])
    OBVIOUS
  <1>2. t[1] \in Nat
    BY DEF HasTail
  <1>3. w \in Nat
    BY <1>1, <1>2, ShiftedType
  <1>4. \A m \in 0 .. Len(s) : Prefixes(v, t, base)[m + 1] = Prefixes(w, s, base)[m]
    BY <1>1, <1>3, PrefixesShifted
  <1> QED BY <1>1, <1>4 DEF Val, HasTail

LEMMA ValPrepend ==
    ASSUME NEW v \in Nat, NEW s \in Seq(Nat), NEW x \in Nat, NEW base \in Nat
    PROVE  Val(v, <<x>> \o s, base) = Val(Shifted(base, v, x), s, base)
  <1>1. PICK t : t = <<x>> \o s
    OBVIOUS
  <1>2. t \in Seq(Nat)
    BY <1>1
  <1>3. HasTail(t, s) /\ t[1] = x
    BY <1>1 DEF HasTail
  <1>4. Val(v, t, base) = Val(Shifted(base, v, t[1]), s, base)
    BY <1>2, <1>3, ValOfTail
  <1> QED BY <1>1, <1>3, <1>4

-----------------------------------------------------------------------------
(* Long division.                                                          *)

\* A property of a function's first value that each value hands to the next.
LEMMA Throughout ==
    ASSUME NEW P, NEW N \in Nat, NEW S, P[0] \in S,
           \A i \in 1 .. N : P[i - 1] \in S => P[i] \in S
    PROVE  \A i \in 0 .. N : P[i] \in S
  <1> DEFINE T == {i \in 0 .. N : P[i] \in S}
  <1>1. 0 \in T
    OBVIOUS
  <1>2. ASSUME NEW m \in 0 .. N - 1, m \in T
        PROVE  m + 1 \in T
    <2>1. m + 1 \in 1 .. N /\ (m + 1) - 1 = m
      OBVIOUS
    <2>2. P[m] \in S
      BY <1>2
    <2> QED BY <2>1, <2>2
  <1> HIDE DEF T
  <1>3. \A m \in 0 .. N : m \in T
    BY <1>1, <1>2, Induction
  <1> QED BY <1>3 DEF T

LEMMA ElementOf ==
    ASSUME NEW S, NEW s \in Seq(S), NEW i \in 1 .. Len(s)
    PROVE  s[i] \in S
  OBVIOUS

\* The numbers of the printers: bytes or 16-bit limbs, in decimal.
Bases == {256, 65536}
Radixes == {10}

LEMMA DivisionByRadix ==
    ASSUME NEW radix \in Radixes, NEW y \in Nat
    PROVE  /\ y \div radix \in Nat
           /\ y % radix \in 0 .. radix - 1
           /\ y = radix * (y \div radix) + (y % radix)
  <1>1. radix = 10
    BY DEF Radixes
  <1> QED BY <1>1

LEMMA LimbDivision ==
    ASSUME NEW base \in Bases, NEW radix \in Radixes,
           NEW r \in 0 .. radix - 1, NEW x \in 0 .. base - 1
    PROVE  /\ (r * base + x) \div radix \in 0 .. base - 1
           /\ (r * base + x) % radix \in 0 .. radix - 1
           /\ r * base + x = radix * ((r * base + x) \div radix) + ((r * base + x) % radix)
  <1>1. PICK y : y = r * base + x
    OBVIOUS
  <1>2. y \in Nat /\ y < radix * base
    <2>1. CASE base = 256 /\ radix = 10
      BY <1>1, <2>1
    <2>2. CASE base = 65536 /\ radix = 10
      BY <1>1, <2>2
    <2> QED BY <2>1, <2>2 DEF Bases, Radixes
  <1>3. PICK q, m : q = y \div radix /\ m = y % radix
    OBVIOUS
  <1>4. q \in Nat /\ m \in 0 .. radix - 1 /\ y = radix * q + m
    BY <1>2, <1>3, DivisionByRadix
  <1>5. q < base
    <2>1. radix = 10
      BY DEF Radixes
    <2> QED BY <1>2, <1>4, <2>1 DEF Bases
  <1>6. q \in 0 .. base - 1
    BY <1>4, <1>5 DEF Bases
  <1> QED BY <1>1, <1>3, <1>4, <1>6

LEMMA CarriedOver ==
    ASSUME NEW base \in Bases, NEW radix \in Radixes, NEW v \in Nat, NEW r \in Nat,
           NEW x \in Nat, NEW q \in Nat, NEW m \in Nat, r * base + x = radix * q + m
    PROVE  Shifted(base, radix * v + r, x) = radix * Shifted(base, v, q) + m
  <1>1. CASE base = 256 /\ radix = 10
    BY <1>1 DEF Shifted
  <1>2. CASE base = 65536 /\ radix = 10
    BY <1>2 DEF Shifted
  <1> QED BY <1>1, <1>2 DEF Bases, Radixes

DivisionStep(above, x, base, radix) ==
    [quotient |-> Append(above.quotient, (above.remainder * base + x) \div radix),
     remainder |-> (above.remainder * base + x) % radix]

\* What the recursive definition of Division says.
DivisionOf(D, n, base, radix) ==
    /\ D[0] = [quotient |-> <<>>, remainder |-> 0]
    /\ \A i \in 1 .. Len(n) : D[i] = DivisionStep(D[i - 1], n[i], base, radix)

Divisions(base, radix) == [quotient: Seq(0 .. base - 1), remainder: 0 .. radix - 1]

LEMMA DivisionStepType ==
    ASSUME NEW base \in Bases, NEW radix \in Radixes,
           NEW above \in Divisions(base, radix), NEW x \in 0 .. base - 1
    PROVE  DivisionStep(above, x, base, radix) \in Divisions(base, radix)
  <1>1. /\ (above.remainder * base + x) \div radix \in 0 .. base - 1
        /\ (above.remainder * base + x) % radix \in 0 .. radix - 1
    <2>1. above.remainder \in 0 .. radix - 1
      BY DEF Divisions
    <2> QED BY <2>1, LimbDivision
  <1>2. above.quotient \in Seq(0 .. base - 1)
    BY DEF Divisions
  <1>3. Append(above.quotient, (above.remainder * base + x) \div radix) \in Seq(0 .. base - 1)
    BY <1>1, <1>2
  <1> QED BY <1>1, <1>3 DEF DivisionStep, Divisions

LEMMA DivisionValues ==
    ASSUME NEW base \in Bases, NEW radix \in Radixes, NEW n \in Seq(0 .. base - 1)
    PROVE  DivisionOf(Division(n, base, radix), n, base, radix)
  <1> DEFINE N == Len(n)
             S == Divisions(base, radix)
             c == [quotient |-> <<>>, remainder |-> 0]
             step == [i \in 1 .. N |-> [x \in S |-> DivisionStep(x, n[i], base, radix)]]
             D == Division(n, base, radix)
             Body(f) ==
                 [i \in 0 .. N |->
                     IF i = 0 THEN c
                     ELSE LET above == f[i - 1]
                              limb == above.remainder * base + n[i]
                          IN  [quotient |-> Append(above.quotient, limb \div radix),
                               remainder |-> limb % radix]]
  <1>1. \A i \in 1 .. N, x \in S : DivisionStep(x, n[i], base, radix) \in S
    <2> SUFFICES ASSUME NEW i \in 1 .. N, NEW x \in S
                 PROVE  DivisionStep(x, n[i], base, radix) \in S
      OBVIOUS
    <2>1. n[i] \in 0 .. base - 1
      BY ElementOf
    <2> QED BY <2>1, DivisionStepType
  <1>2. N \in Nat /\ c \in S
    <2>1. 0 \in 0 .. radix - 1
      BY DEF Radixes
    <2>2. <<>> \in Seq(0 .. base - 1)
      OBVIOUS
    <2> QED BY <2>1, <2>2 DEF Divisions
  <1>3. PICK g \in [0 .. N -> S] : Follows(g, c, N, step)
    <2>1. step \in [1 .. N -> [S -> S]]
      BY <1>1
    <2> HIDE DEF step, N, S, c
    <2> QED BY <1>2, <2>1, Recursion
  <1>4. g = [i \in 0 .. N |-> IF i = 0 THEN c ELSE DivisionStep(g[i - 1], n[i], base, radix)]
    <2> HIDE DEF N, S, c
    <2> SUFFICES ASSUME NEW i \in 1 .. N PROVE g[i] = DivisionStep(g[i - 1], n[i], base, radix)
      BY <1>2, <1>3 DEF Follows
    <2>1. i - 1 \in 0 .. N
      BY <1>2
    <2> QED BY <1>3, <2>1 DEF Follows
  <1>5. g = Body(g)
    BY <1>4, Zenon DEF DivisionStep
  <1>6. D = Body(D)
    BY <1>5, Zenon DEF Division
  <1>7. D = [i \in 0 .. N |-> IF i = 0 THEN c ELSE DivisionStep(D[i - 1], n[i], base, radix)]
    <2> HIDE DEF D
    <2> QED BY <1>6, Zenon DEF DivisionStep
  <1> HIDE DEF D, N, c
  <1>8. D[0] = c /\ \A i \in 1 .. N : D[i] = DivisionStep(D[i - 1], n[i], base, radix)
    BY <1>2, <1>7
  <1> QED BY <1>8 DEF D, N, c, DivisionOf

LEMMA BytesAreNumbers ==
    ASSUME NEW b \in Nat, NEW s \in Seq(0 .. b - 1)
    PROVE  s \in Seq(Nat)
  OBVIOUS

\* The quotient so far, times the radix, and the remainder make the prefix.
LEMMA DivisionKeepsPrefix ==
    ASSUME NEW base \in Bases, NEW radix \in Radixes, NEW n \in Seq(0 .. base - 1)
    PROVE  LET D == Division(n, base, radix)
           IN  \A i \in 0 .. Len(n) :
                  /\ D[i] \in Divisions(base, radix)
                  /\ Len(D[i].quotient) = i
                  /\ Prefixes(0, n, base)[i] = radix * Val(0, D[i].quotient, base) + D[i].remainder
  <1> DEFINE N == Len(n)
             D == Division(n, base, radix)
             P == Prefixes(0, n, base)
             Kept(i) == /\ D[i] \in Divisions(base, radix)
                        /\ Len(D[i].quotient) = i
                        /\ P[i] = radix * Val(0, D[i].quotient, base) + D[i].remainder
             T == {i \in 0 .. N : Kept(i)}
  <1>1. base \in Nat /\ radix \in Nat \ {0} /\ 0 \in Nat
    BY DEF Bases, Radixes
  <1>2. n \in Seq(Nat)
    BY <1>1, BytesAreNumbers
  <1>3. PrefixesOf(P, 0, n, base)
    BY <1>1, <1>2, PrefixValues
  <1>4. DivisionOf(D, n, base, radix)
    BY DivisionValues
  <1>5. N \in Nat
    OBVIOUS
  <1> HIDE DEF D, P
  <1>6. Kept(0)
    <2>1. D[0] = [quotient |-> <<>>, remainder |-> 0] /\ P[0] = 0
      BY <1>3, <1>4 DEF DivisionOf, PrefixesOf
    <2>2. D[0].quotient = <<>> /\ D[0].remainder = 0
      BY <2>1
    <2>3. Val(0, <<>>, base) = 0
      BY <1>1, ValEmpty
    <2>4. D[0] \in Divisions(base, radix)
      <3>1. 0 \in 0 .. radix - 1 /\ <<>> \in Seq(0 .. base - 1)
        BY <1>1
      <3> QED BY <2>1, <3>1 DEF Divisions
    <2>5. radix * 0 + 0 = 0
      BY <1>1
    <2> QED BY <2>1, <2>2, <2>3, <2>4, <2>5
  <1>7. ASSUME NEW m \in 0 .. N - 1, Kept(m)
        PROVE  Kept(m + 1)
    <2> DEFINE q == D[m].quotient
               r == D[m].remainder
               x == n[m + 1]
    <2>1. m + 1 \in 1 .. N /\ (m + 1) - 1 = m
      BY <1>5
    <2>2. x \in 0 .. base - 1
      BY <2>1, ElementOf
    <2>3. q \in Seq(0 .. base - 1) /\ r \in 0 .. radix - 1 /\ Len(q) = m
      BY <1>7 DEF Divisions
    <2>4. D[m + 1] = DivisionStep(D[m], x, base, radix)
      BY <1>4, <2>1 DEF DivisionOf
    <2>5. P[m + 1] = Shifted(base, P[m], x)
      BY <1>3, <2>1 DEF PrefixesOf
    <2>6. P[m] = radix * Val(0, q, base) + r
      BY <1>7
    <2>7. D[m + 1] \in Divisions(base, radix)
      BY <1>7, <2>2, <2>4, DivisionStepType
    <2> HIDE DEF q, r, x
    <2>8. PICK d, e : d = (r * base + x) \div radix /\ e = (r * base + x) % radix
      OBVIOUS
    <2>9. d \in 0 .. base - 1 /\ e \in 0 .. radix - 1 /\ r * base + x = radix * d + e
      BY <2>2, <2>3, <2>8, LimbDivision
    <2>10. D[m + 1].quotient = Append(q, d) /\ D[m + 1].remainder = e
      BY <2>4, <2>8 DEF DivisionStep, q, r
    <2>11. Val(0, Append(q, d), base) = Shifted(base, Val(0, q, base), d)
      <3>1. q \in Seq(Nat) /\ d \in Nat
        BY <1>1, <2>3, <2>9, BytesAreNumbers
      <3> QED BY <1>1, <3>1, ValAppend
    <2>12. Shifted(base, radix * Val(0, q, base) + r, x) = radix * Shifted(base, Val(0, q, base), d) + e
      <3>1. Val(0, q, base) \in Nat
        BY <1>1, <2>3, BytesAreNumbers, ValType
      <3>2. r \in Nat /\ x \in Nat /\ d \in Nat /\ e \in Nat
        BY <1>1, <2>2, <2>3, <2>9
      <3> QED BY <2>9, <3>1, <3>2, CarriedOver
    <2>13. Len(Append(q, d)) = m + 1
      BY <2>3
    <2> QED BY <2>5, <2>6, <2>7, <2>10, <2>11, <2>12, <2>13
  <1> HIDE DEF Kept
  <1>8. 0 \in T /\ \A m \in 0 .. N - 1 : m \in T => m + 1 \in T
    BY <1>5, <1>6, <1>7
  <1> HIDE DEF T
  <1>9. \A m \in 0 .. N : m \in T
    BY <1>5, <1>8, Induction
  <1> QED BY <1>9 DEF T, Kept, D, P

DivModOf(d, n, base, radix) ==
    /\ d.quotient \in Seq(0 .. base - 1)
    /\ Len(d.quotient) = Len(n)
    /\ d.remainder \in 0 .. radix - 1
    /\ Value(n, base) = radix * Value(d.quotient, base) + d.remainder

\* The division of util.h:91-96: what divmod computes is the quotient and the
\* remainder.
LEMMA DivModIsDivision ==
    ASSUME NEW base \in Bases, NEW radix \in Radixes, NEW n \in Seq(0 .. base - 1)
    PROVE  DivModOf(DivMod(n, base, radix), n, base, radix)
  <1>1. Len(n) \in 0 .. Len(n)
    OBVIOUS
  <1>2. LET d == DivMod(n, base, radix)
        IN  /\ d \in Divisions(base, radix)
            /\ Len(d.quotient) = Len(n)
            /\ Prefixes(0, n, base)[Len(n)] = radix * Val(0, d.quotient, base) + d.remainder
    BY <1>1, DivisionKeepsPrefix DEF DivMod
  <1> QED BY <1>2 DEF DivModOf, Divisions, Value, Val

-----------------------------------------------------------------------------
(* Order and size of values.                                               *)

\* Bytes, limbs, digits and groups of three digits.
AllBases == {10, 256, 1000, 65536}

LEMMA MultiplesApart ==
    ASSUME NEW b \in Nat, NEW x \in Nat, NEW y \in Nat, x < y
    PROVE  b * x \in Nat /\ b * y \in Nat /\ b * x + b <= b * y
  <1>1. PICK z \in Nat : y = x + 1 + z
    <2>1. y - (x + 1) \in Nat /\ y = x + 1 + (y - (x + 1))
      OBVIOUS
    <2> QED BY <2>1
  <1>2. b * x \in Nat /\ b * z \in Nat
    OBVIOUS
  <1>3. b * y = b * x + b + b * z
    BY <1>1
  <1> QED BY <1>2, <1>3

LEMMA ShiftedLess ==
    ASSUME NEW base \in Nat, NEW x \in Nat, NEW y \in Nat, x < y,
           NEW d \in 0 .. base - 1, NEW e \in Nat
    PROVE  Shifted(base, x, d) < Shifted(base, y, e)
  <1>1. PICK p, q : p = base * x /\ q = base * y
    OBVIOUS
  <1>2. p \in Nat /\ q \in Nat /\ p + base <= q
    BY <1>1, MultiplesApart
  <1>3. p + d < q + e
    BY <1>2
  <1> QED BY <1>1, <1>3 DEF Shifted

LEMMA ShiftedOrder ==
    ASSUME NEW base \in AllBases, NEW x \in Nat, NEW y \in Nat,
           NEW d \in 0 .. base - 1, NEW e \in 0 .. base - 1
    PROVE  Shifted(base, x, d) < Shifted(base, y, e) <=> x < y \/ (x = y /\ d < e)
  <1>1. base \in Nat
    BY DEF AllBases
  <1>2. d \in Nat /\ e \in Nat
    BY <1>1
  <1>3. PICK p, q : p = Shifted(base, x, d) /\ q = Shifted(base, y, e)
    OBVIOUS
  <1>4. p \in Nat /\ q \in Nat
    BY <1>1, <1>2, <1>3, ShiftedType
  <1>5. x < y => p < q
    BY <1>1, <1>2, <1>3, ShiftedLess
  <1>6. y < x => q < p
    BY <1>1, <1>2, <1>3, ShiftedLess
  <1>7. x = y => (p < q <=> d < e)
    <2>1. base * x \in Nat
      BY <1>1
    <2> QED BY <1>2, <1>3, <2>1 DEF Shifted
  <1>8. p < q <=> x < y \/ (x = y /\ d < e)
    BY <1>4, <1>5, <1>6, <1>7
  <1> QED BY <1>3, <1>8

LEMMA BaseType ==
    ASSUME NEW base \in AllBases
    PROVE  base \in Nat /\ base > 1
  BY DEF AllBases

LEMMA ShiftedSame ==
    ASSUME NEW base \in AllBases, NEW x \in Nat, NEW y \in Nat,
           NEW d \in 0 .. base - 1, NEW e \in 0 .. base - 1,
           Shifted(base, x, d) = Shifted(base, y, e)
    PROVE  x = y /\ d = e
  <1>0. base \in Nat /\ d \in Nat /\ e \in Nat
    BY BaseType
  <1>1. Shifted(base, x, d) \in Nat /\ d \in Nat /\ e \in Nat
    BY <1>0, ShiftedType
  <1>2. ~(Shifted(base, x, d) < Shifted(base, y, e)) /\ ~(Shifted(base, y, e) < Shifted(base, x, d))
    BY <1>1
  <1>3. ~(x < y \/ (x = y /\ d < e))
    BY <1>2, ShiftedOrder
  <1>4. ~(y < x \/ (y = x /\ e < d))
    BY <1>2, ShiftedOrder
  <1> QED BY <1>1, <1>3, <1>4

\* A number is zero when all its digits are.
LEMMA ZeroValue ==
    ASSUME NEW base \in AllBases, NEW n \in Seq(0 .. base - 1)
    PROVE  AllZeroes(n) <=> Value(n, base) = 0
  <1> DEFINE P == Prefixes(0, n, base)
             T == {i \in 0 .. Len(n) : P[i] = 0 <=> \A j \in 1 .. i : n[j] = 0}
  <1>1. base \in Nat /\ Len(n) \in Nat /\ n \in Seq(Nat) /\ 0 \in Nat
    BY BaseType, BytesAreNumbers
  <1>2. PrefixesOf(P, 0, n, base)
    BY <1>1, PrefixValues
  <1> HIDE DEF P
  <1>3. 0 \in T
    BY <1>2 DEF PrefixesOf
  <1>4. ASSUME NEW m \in 0 .. Len(n) - 1, m \in T
        PROVE  m + 1 \in T
    <2>1. m + 1 \in 1 .. Len(n) /\ (m + 1) - 1 = m /\ n[m + 1] \in 0 .. base - 1
      BY <1>1, ElementOf
    <2>2. P[m + 1] = Shifted(base, P[m], n[m + 1]) /\ P[m] \in Nat
      BY <1>1, <1>2, <2>1 DEF PrefixesOf
    <2>3. P[m + 1] = 0 <=> P[m] = 0 /\ n[m + 1] = 0
      <3>1. 0 \in 0 .. base - 1
        BY BaseType
      <3>2. Shifted(base, 0, 0) = 0
        BY <1>1 DEF Shifted
      <3>3. Shifted(base, P[m], n[m + 1]) = Shifted(base, 0, 0) => P[m] = 0 /\ n[m + 1] = 0
        BY <2>1, <2>2, <3>1, ShiftedSame
      <3> QED BY <2>2, <3>2, <3>3
    <2>4. (\A j \in 1 .. m + 1 : n[j] = 0) <=> (\A j \in 1 .. m : n[j] = 0) /\ n[m + 1] = 0
      BY <2>1
    <2>5. P[m] = 0 <=> \A j \in 1 .. m : n[j] = 0
      BY <1>4
    <2> QED BY <2>1, <2>3, <2>4, <2>5
  <1> HIDE DEF T
  <1>5. \A m \in 0 .. Len(n) : m \in T
    BY <1>1, <1>3, <1>4, Induction
  <1>6. Len(n) \in T
    BY <1>1, <1>5
  <1> QED BY <1>1, <1>6 DEF T, P, Value, AllZeroes

Power(base, k) == Val(1, Repeat(0, k), base)

LEMMA RepeatType ==
    ASSUME NEW S, NEW x \in S, NEW k \in Nat
    PROVE  Repeat(x, k) \in Seq(S) /\ Len(Repeat(x, k)) = k
  BY DEF Repeat

LEMMA RepeatAppend ==
    ASSUME NEW S, NEW x \in S, NEW k \in Nat
    PROVE  Repeat(x, k + 1) = Append(Repeat(x, k), x)
  BY DEF Repeat

LEMMA RepeatPrepend ==
    ASSUME NEW x \in Nat, NEW k \in Nat, NEW s \in Seq(Nat)
    PROVE  Repeat(x, k + 1) \o s = <<x>> \o (Repeat(x, k) \o s)
  BY DEF Repeat

LEMMA PowerStep ==
    ASSUME NEW base \in Nat
    PROVE  /\ Power(base, 0) = 1
           /\ \A k \in Nat : Power(base, k) \in Nat /\ Power(base, k + 1) = Shifted(base, Power(base, k), 0)
  <1>1. Power(base, 0) = 1
    <2>1. Repeat(0, 0) = <<>>
      BY DEF Repeat
    <2> QED BY <2>1, ValEmpty DEF Power
  <1>2. ASSUME NEW k \in Nat
        PROVE  Power(base, k) \in Nat /\ Power(base, k + 1) = Shifted(base, Power(base, k), 0)
    <2>1. Repeat(0, k) \in Seq(Nat) /\ 0 \in Nat /\ 1 \in Nat
      BY RepeatType
    <2>2. Repeat(0, k + 1) = Append(Repeat(0, k), 0)
      BY <2>1, RepeatAppend
    <2>3. PICK t \in Seq(Nat) : t = Repeat(0, k)
      BY <2>1
    <2>4. Val(1, t, base) \in Nat
      BY <2>1, ValType
    <2>5. Val(1, Append(t, 0), base) = Shifted(base, Val(1, t, base), 0)
      BY <2>1, ValAppend
    <2> QED BY <2>2, <2>3, <2>4, <2>5 DEF Power
  <1> QED BY <1>1, <1>2

\* A number of k digits is below the power k of the base.
LEMMA BelowPower ==
    ASSUME NEW base \in AllBases, NEW n \in Seq(0 .. base - 1)
    PROVE  \A i \in 0 .. Len(n) : Prefixes(0, n, base)[i] < Power(base, i)
  <1> DEFINE P == Prefixes(0, n, base)
             T == {i \in 0 .. Len(n) : P[i] < Power(base, i)}
  <1>1. base \in Nat /\ Len(n) \in Nat /\ n \in Seq(Nat) /\ 0 \in Nat
    BY BaseType, BytesAreNumbers
  <1>2. PrefixesOf(P, 0, n, base)
    BY <1>1, PrefixValues
  <1> HIDE DEF P
  <1>3. 0 \in T
    BY <1>1, <1>2, PowerStep DEF PrefixesOf
  <1>4. ASSUME NEW m \in 0 .. Len(n) - 1, m \in T
        PROVE  m + 1 \in T
    <2>1. m + 1 \in 1 .. Len(n) /\ (m + 1) - 1 = m /\ n[m + 1] \in 0 .. base - 1 /\ m \in Nat
      BY <1>1, ElementOf
    <2>6. 0 \in 0 .. base - 1
      BY BaseType
    <2>2. P[m + 1] = Shifted(base, P[m], n[m + 1]) /\ P[m] \in Nat
      BY <1>1, <1>2, <2>1 DEF PrefixesOf
    <2>3. Power(base, m) \in Nat /\ Power(base, m + 1) = Shifted(base, Power(base, m), 0)
      BY <1>1, <2>1, PowerStep
    <2>4. P[m] < Power(base, m)
      BY <1>4
    <2>5. Shifted(base, P[m], n[m + 1]) < Shifted(base, Power(base, m), 0)
      BY <2>1, <2>2, <2>3, <2>4, <2>6, ShiftedOrder
    <2> QED BY <2>1, <2>2, <2>3, <2>5
  <1> HIDE DEF T
  <1>5. \A m \in 0 .. Len(n) : m \in T
    BY <1>1, <1>3, <1>4, Induction
  <1> QED BY <1>5 DEF T, P

\* Zeros in front are worth nothing.
LEMMA ZerosInFront ==
    ASSUME NEW base \in Nat, NEW s \in Seq(Nat), NEW k \in Nat
    PROVE  Repeat(0, k) \o s \in Seq(Nat) /\ Value(Repeat(0, k) \o s, base) = Value(s, base)
  <1> DEFINE T == {i \in 0 .. k : Repeat(0, i) \o s \in Seq(Nat) /\ Val(0, Repeat(0, i) \o s, base) = Val(0, s, base)}
  <1>1. 0 \in T
    <2>1. Repeat(0, 0) \o s = s /\ 0 \in 0 .. k
      BY DEF Repeat
    <2>2. Repeat(0, 0) \o s \in Seq(Nat) /\ Val(0, Repeat(0, 0) \o s, base) = Val(0, s, base)
      BY <2>1
    <2> QED BY <2>1, <2>2
  <1>2. ASSUME NEW m \in 0 .. k - 1, m \in T
        PROVE  m + 1 \in T
    <2>1. 0 \in Nat /\ m \in Nat /\ m + 1 \in 0 .. k
      OBVIOUS
    <2>2. Repeat(0, m + 1) \o s = <<0>> \o (Repeat(0, m) \o s)
      BY <2>1, RepeatPrepend
    <2>3. PICK t : t = Repeat(0, m) \o s
      OBVIOUS
    <2>4. t \in Seq(Nat) /\ Val(0, t, base) = Val(0, s, base)
      BY <1>2, <2>3
    <2>5. <<0>> \o t \in Seq(Nat)
      BY <2>4
    <2>6. Val(0, <<0>> \o t, base) = Val(Shifted(base, 0, 0), t, base)
      BY <2>1, <2>4, ValPrepend
    <2>7. Shifted(base, 0, 0) = 0
      BY DEF Shifted
    <2> QED BY <2>1, <2>2, <2>3, <2>4, <2>5, <2>6, <2>7
  <1> HIDE DEF T
  <1>3. \A m \in 0 .. k : m \in T
    BY <1>1, <1>2, Induction
  <1>4. k \in T
    BY <1>3
  <1> QED BY <1>4 DEF T, Value, Val

-----------------------------------------------------------------------------
(* The loop that divides until nothing is left.                            *)

Splits(base, radix) == [left: Seq(0 .. base - 1), digits: Seq(0 .. radix - 1)]

DivideStep(s, base, radix) ==
    IF AllZeroes(s.left) THEN s
    ELSE LET d == DivMod(s.left, base, radix)
         IN  [left |-> d.quotient, digits |-> <<d.remainder>> \o s.digits]

\* What is left and the digits so far make the number; once nothing is left
\* there is no zero in front.
Kept(s, n, base, radix) ==
    /\ s \in Splits(base, radix)
    /\ Len(s.left) = Len(n)
    /\ Val(Value(s.left, base), s.digits, radix) = Value(n, base)
    /\ AllZeroes(s.left) /\ s.digits # <<>> => s.digits[1] # 0

LEMMA BaseAndRadix ==
    ASSUME NEW base \in Bases, NEW radix \in Radixes
    PROVE  base \in AllBases /\ radix \in AllBases /\ base \in Nat /\ radix \in Nat
  BY DEF Bases, Radixes, AllBases

LEMMA ValueType ==
    ASSUME NEW s \in Seq(Nat), NEW base \in Nat
    PROVE  Value(s, base) \in Nat /\ Value(s, base) = Val(0, s, base)
  <1>1. 0 \in Nat
    OBVIOUS
  <1>2. Val(0, s, base) \in Nat
    BY <1>1, ValType
  <1> QED BY <1>2 DEF Val, Value

LEMMA DivideSplits ==
    ASSUME NEW base \in Bases, NEW radix \in Radixes, NEW s \in Splits(base, radix)
    PROVE  /\ DivideStep(s, base, radix) \in Splits(base, radix)
           /\ Divide(base, radix)[s] = DivideStep(s, base, radix)
  <1>1. base \in Nat /\ radix \in Nat
    BY BaseAndRadix
  <1>2. s.left \in Seq(0 .. base - 1) /\ s.digits \in Seq(0 .. radix - 1)
    BY DEF Splits
  <1>3. DivideStep(s, base, radix) \in Splits(base, radix)
    <2> DEFINE d == DivMod(s.left, base, radix)
    <2>1. DivModOf(d, s.left, base, radix)
      BY <1>2, DivModIsDivision
    <2> HIDE DEF d
    <2>2. d.quotient \in Seq(0 .. base - 1) /\ d.remainder \in 0 .. radix - 1
      BY <2>1 DEF DivModOf
    <2>3. <<d.remainder>> \o s.digits \in Seq(0 .. radix - 1)
      BY <1>2, <2>2
    <2>4. [left |-> d.quotient, digits |-> <<d.remainder>> \o s.digits] \in Splits(base, radix)
      BY <2>2, <2>3 DEF Splits
    <2> QED BY <2>4 DEF d, DivideStep
  <1>4. s \in [left: Seq(Nat), digits: Seq(Nat)]
    <2>1. s.left \in Seq(Nat)
      BY <1>1, <1>2, BytesAreNumbers
    <2>2. s.digits \in Seq(Nat)
      BY <1>1, <1>2, BytesAreNumbers
    <2> QED BY <2>1, <2>2 DEF Splits
  <1>5. Divide(base, radix)[s] = DivideStep(s, base, radix)
    BY <1>4, Zenon DEF Divide, DivideStep
  <1> QED BY <1>3, <1>5

LEMMA DivideKeeps ==
    ASSUME NEW base \in Bases, NEW radix \in Radixes, NEW n \in Seq(0 .. base - 1),
           NEW s, Kept(s, n, base, radix)
    PROVE  Kept(DivideStep(s, base, radix), n, base, radix)
  <1>1. CASE AllZeroes(s.left)
    BY <1>1 DEF DivideStep
  <1>2. CASE ~AllZeroes(s.left)
    <2> DEFINE d == DivMod(s.left, base, radix)
               t == DivideStep(s, base, radix)
    <2>1. base \in AllBases /\ radix \in AllBases /\ base \in Nat /\ radix \in Nat
      BY BaseAndRadix
    <2>2. s \in Splits(base, radix) /\ s.left \in Seq(0 .. base - 1) /\ s.digits \in Seq(0 .. radix - 1)
      BY DEF Kept, Splits
    <2>3. DivModOf(d, s.left, base, radix)
      BY <2>2, DivModIsDivision
    <2>4. t.left = d.quotient /\ t.digits = <<d.remainder>> \o s.digits
      BY <1>2 DEF DivideStep
    <2>5. t \in Splits(base, radix)
      BY <2>2, DivideSplits
    <2> HIDE DEF d, t
    <2>6. PICK q, r : q = d.quotient /\ r = d.remainder
      OBVIOUS
    <2>7. /\ q \in Seq(0 .. base - 1) /\ Len(q) = Len(s.left) /\ r \in 0 .. radix - 1
          /\ Value(s.left, base) = radix * Value(q, base) + r
      BY <2>3, <2>6 DEF DivModOf
    <2>8. Value(q, base) \in Nat /\ r \in Nat /\ s.digits \in Seq(Nat)
      <3>1. q \in Seq(Nat)
        BY <2>1, <2>7, BytesAreNumbers
      <3>2. s.digits \in Seq(Nat)
        BY <2>1, <2>2, BytesAreNumbers
      <3>3. Value(q, base) \in Nat
        BY <2>1, <3>1, ValueType
      <3> QED BY <2>1, <2>7, <3>2, <3>3
    <2>9. Val(Value(q, base), <<r>> \o s.digits, radix) = Value(n, base)
      <3>1. PICK v : v = Value(q, base)
        OBVIOUS
      <3>2. Val(v, <<r>> \o s.digits, radix) = Val(Shifted(radix, v, r), s.digits, radix)
        BY <2>1, <2>8, <3>1, ValPrepend
      <3>3. Shifted(radix, v, r) = Value(s.left, base)
        BY <2>7, <3>1 DEF Shifted
      <3> QED BY <3>1, <3>2, <3>3 DEF Kept
    <2>10. ASSUME AllZeroes(q) PROVE r # 0
      <3>1. Value(q, base) = 0
        BY <2>1, <2>7, <2>10, ZeroValue
      <3>2. Value(s.left, base) # 0
        BY <1>2, <2>1, <2>2, ZeroValue
      <3> QED BY <2>1, <2>7, <3>1, <3>2
    <2>11. (<<r>> \o s.digits)[1] = r
      BY <2>8
    <2> QED BY <2>4, <2>5, <2>6, <2>7, <2>9, <2>10, <2>11 DEF Kept, t
  <1> QED BY <1>1, <1>2

\* What the recursive definition of Passes says.
PassesOf(B, n, base, radix) ==
    /\ B[0] = [left |-> n, digits |-> <<>>]
    /\ \A k \in 1 .. 5 * Len(n) : B[k] = DivideStep(B[k - 1], base, radix)
    /\ \A k \in 0 .. 5 * Len(n) : Kept(B[k], n, base, radix)

LEMMA PassValues ==
    ASSUME NEW base \in Bases, NEW radix \in Radixes, NEW n \in Seq(0 .. base - 1)
    PROVE  PassesOf(Passes(n, base, radix), n, base, radix)
  <1> DEFINE N == 5 * Len(n)
             S == Splits(base, radix)
             c == [left |-> n, digits |-> <<>>]
             step == [k \in 1 .. N |-> [s \in S |-> DivideStep(s, base, radix)]]
             B == Passes(n, base, radix)
  <1>1. N \in Nat /\ c \in S /\ step \in [1 .. N -> [S -> S]]
    <2>1. c \in S
      BY DEF Splits
    <2>2. N \in Nat
      OBVIOUS
    <2>3. \A s \in S : DivideStep(s, base, radix) \in S
      BY DivideSplits
    <2> QED BY <2>1, <2>2, <2>3
  <1>2. PICK g \in [0 .. N -> S] : Follows(g, c, N, step)
    <2> HIDE DEF step, N, S, c
    <2> QED BY <1>1, Recursion
  <1>3. ASSUME NEW k \in 1 .. N
        PROVE  g[k] = DivideStep(g[k - 1], base, radix) /\ g[k - 1] \in S
    <2> HIDE DEF N, S, c
    <2>1. k - 1 \in 0 .. N
      BY <1>1
    <2>2. g[k - 1] \in S
      BY <2>1
    <2> QED BY <1>2, <2>2 DEF Follows
  <1>4. g = [k \in 0 .. N |-> IF k = 0 THEN c ELSE Divide(base, radix)[g[k - 1]]]
    <2> HIDE DEF N, S, c
    <2>1. \A k \in 1 .. N : g[k] = Divide(base, radix)[g[k - 1]]
      <3> HIDE DEF S
      <3> SUFFICES ASSUME NEW k \in 1 .. N PROVE g[k] = Divide(base, radix)[g[k - 1]]
        OBVIOUS
      <3>1. g[k - 1] \in Splits(base, radix) /\ g[k] = DivideStep(g[k - 1], base, radix)
        BY <1>3 DEF S
      <3> QED BY <3>1, DivideSplits
    <2> QED BY <1>1, <1>2, <2>1 DEF Follows
  <1>5. B = [k \in 0 .. N |-> IF k = 0 THEN c ELSE Divide(base, radix)[B[k - 1]]]
    BY <1>4, Zenon DEF Passes
  <1> HIDE DEF B, N, c
  <1>6. B[0] = c /\ \A k \in 1 .. N : B[k] = Divide(base, radix)[B[k - 1]]
    BY <1>1, <1>5
  <1> DEFINE K == {s \in S : Kept(s, n, base, radix)}
  <1>7. B[0] \in K
    <2>1. base \in Nat /\ radix \in Nat
      BY BaseAndRadix
    <2>2. c.left = n /\ c.digits = <<>>
      BY DEF c
    <2>3. n \in Seq(Nat)
      BY <2>1, BytesAreNumbers
    <2>4. Value(n, base) \in Nat
      BY <2>1, <2>3, ValueType
    <2>5. Val(Value(n, base), <<>>, radix) = Value(n, base)
      BY <2>1, <2>4, ValEmpty
    <2> QED BY <1>1, <1>6, <2>2, <2>5 DEF Kept
  <1>8. ASSUME NEW k \in 1 .. N, B[k - 1] \in K
        PROVE  B[k] \in K /\ B[k] = DivideStep(B[k - 1], base, radix)
    <2>1. B[k - 1] \in Splits(base, radix) /\ Kept(B[k - 1], n, base, radix)
      BY <1>8
    <2>2. B[k] = DivideStep(B[k - 1], base, radix) /\ B[k] \in Splits(base, radix)
      BY <1>6, <2>1, DivideSplits
    <2>3. Kept(DivideStep(B[k - 1], base, radix), n, base, radix)
      BY <2>1, DivideKeeps
    <2> QED BY <2>2, <2>3
  <1> HIDE DEF K
  <1>9. \A k \in 0 .. N : B[k] \in K
    BY <1>1, <1>7, <1>8, Throughout
  <1>10. \A k \in 1 .. N : k - 1 \in 0 .. N
    BY <1>1
  <1> QED BY <1>6, <1>8, <1>9, <1>10 DEF B, N, c, K, PassesOf

\* What is left after each pass.
Rest(n, base, radix) == [k \in 0 .. 5 * Len(n) |-> Value(Passes(n, base, radix)[k].left, base)]

\* Each value at most the one before divided by the radix.
Shrinks(V, N, radix) == V \in [0 .. N -> Nat] /\ \A k \in 0 .. N - 1 : radix * V[k + 1] <= V[k]

LEMMA RestShrinks ==
    ASSUME NEW base \in Bases, NEW radix \in Radixes, NEW n \in Seq(0 .. base - 1)
    PROVE  Shrinks(Rest(n, base, radix), 5 * Len(n), radix)
  <1> DEFINE N == 5 * Len(n)
             B == Passes(n, base, radix)
             V == Rest(n, base, radix)
  <1>1. base \in AllBases /\ base \in Nat /\ radix \in Nat /\ N \in Nat
    BY BaseAndRadix
  <1>2. PassesOf(B, n, base, radix)
    BY PassValues
  <1>3. \A k \in 0 .. N : V[k] = Value(B[k].left, base)
    BY DEF Rest
  <1>4. V = [k \in 0 .. N |-> V[k]]
    BY DEF Rest
  <1> HIDE DEF B, V, N
  <1>5. \A k \in 0 .. N : B[k].left \in Seq(0 .. base - 1)
    BY <1>2 DEF PassesOf, Kept, Splits, N
  <1>6. \A k \in 0 .. N : V[k] \in Nat
    <2> SUFFICES ASSUME NEW k \in 0 .. N PROVE V[k] \in Nat
      OBVIOUS
    <2>1. B[k].left \in Seq(Nat)
      BY <1>1, <1>5, BytesAreNumbers
    <2> QED BY <1>1, <1>3, <2>1, ValueType
  <1>7. ASSUME NEW k \in 0 .. N - 1
        PROVE  radix * V[k + 1] <= V[k]
    <2>1. k \in 0 .. N /\ k + 1 \in 1 .. N /\ k + 1 \in 0 .. N /\ (k + 1) - 1 = k
      BY <1>1
    <2>2. B[k + 1] = DivideStep(B[k], base, radix)
      BY <1>2, <2>1 DEF PassesOf, N
    <2>3. PICK s : s = B[k]
      OBVIOUS
    <2>4. s.left \in Seq(0 .. base - 1) /\ V[k] = Value(s.left, base) /\ V[k + 1] = Value(B[k + 1].left, base)
      BY <1>3, <1>5, <2>1, <2>3
    <2>5. CASE AllZeroes(s.left)
      <3>1. Value(s.left, base) = 0
        BY <1>1, <2>4, <2>5, ZeroValue
      <3>2. B[k + 1] = s
        BY <2>2, <2>3, <2>5 DEF DivideStep
      <3> QED BY <1>1, <2>4, <3>1, <3>2
    <2>6. CASE ~AllZeroes(s.left)
      <3> DEFINE d == DivMod(s.left, base, radix)
      <3>1. B[k + 1].left = d.quotient
        BY <2>2, <2>3, <2>6 DEF DivideStep
      <3>2. DivModOf(d, s.left, base, radix)
        BY <2>4, DivModIsDivision
      <3> HIDE DEF d
      <3>3. PICK v, r : v = Value(d.quotient, base) /\ r = d.remainder
        OBVIOUS
      <3>4. V[k + 1] = v /\ V[k] = radix * v + r /\ r \in 0 .. radix - 1 /\ v \in Nat
        BY <1>6, <2>1, <2>4, <3>1, <3>2, <3>3 DEF DivModOf
      <3>5. radix * v \in Nat
        BY <1>1, <3>4
      <3> QED BY <1>1, <3>4, <3>5
    <2> QED BY <2>5, <2>6
  <1> QED BY <1>1, <1>4, <1>6, <1>7 DEF Shrinks, N, V

\* Passes that are enough for a limb: 10^5 > 2^16 and 10^3 > 2^8.
Clears(base, radix, t) ==
    <<base, radix, t>> \in {<<65536, 10, 5>>, <<256, 10, 5>>, <<256, 10, 3>>}

LEMMA LimbCleared ==
    ASSUME NEW base, NEW radix, NEW t, Clears(base, radix, t),
           NEW N \in Nat, NEW V, Shrinks(V, N, radix),
           NEW k \in Nat, k + t \in 0 .. N, NEW m \in Nat, V[k] < Power(base, m + 1)
    PROVE  V[k + t] < Power(base, m)
  <1>1. PICK p : p = Power(base, m)
    OBVIOUS
  <1>2. base \in Nat /\ radix = 10 /\ t \in {3, 5}
    BY DEF Clears
  <1>3. p \in Nat /\ V[k] < base * p
    <2>1. /\ Power(base, m) \in Nat
          /\ Power(base, m + 1) = Shifted(base, Power(base, m), 0)
      BY <1>2, PowerStep
    <2>2. base * p \in Nat
      BY <1>1, <1>2, <2>1
    <2>3. Shifted(base, p, 0) = base * p
      BY <1>2, <2>2 DEF Shifted
    <2> QED BY <1>1, <2>1, <2>3
  <1>4. /\ k \in 0 .. N /\ k + 1 \in 0 .. N /\ k + 2 \in 0 .. N /\ k + 3 \in 0 .. N
        /\ t = 5 => k + 4 \in 0 .. N /\ k + 5 \in 0 .. N
    BY <1>2
  <1>5. V \in [0 .. N -> Nat] /\ \A i \in 0 .. N - 1 : radix * V[i + 1] <= V[i]
    BY DEF Shrinks
  <1>6. /\ V[k] \in Nat /\ V[k + 1] \in Nat /\ V[k + 2] \in Nat /\ V[k + 3] \in Nat
        /\ t = 5 => V[k + 4] \in Nat /\ V[k + 5] \in Nat
    BY <1>4, <1>5
  <1>7. /\ radix * V[k + 1] <= V[k] /\ radix * V[k + 2] <= V[k + 1] /\ radix * V[k + 3] <= V[k + 2]
        /\ t = 5 => radix * V[k + 4] <= V[k + 3] /\ radix * V[k + 5] <= V[k + 4]
    <2>1. /\ (k + 1) + 1 = k + 2 /\ (k + 2) + 1 = k + 3 /\ (k + 3) + 1 = k + 4 /\ (k + 4) + 1 = k + 5
          /\ k \in 0 .. N - 1 /\ k + 1 \in 0 .. N - 1 /\ k + 2 \in 0 .. N - 1
          /\ t = 5 => k + 3 \in 0 .. N - 1 /\ k + 4 \in 0 .. N - 1
      BY <1>4
    <2>2. /\ radix * V[k + 1] <= V[k] /\ radix * V[(k + 1) + 1] <= V[k + 1] /\ radix * V[(k + 2) + 1] <= V[k + 2]
          /\ t = 5 => radix * V[(k + 3) + 1] <= V[k + 3] /\ radix * V[(k + 4) + 1] <= V[k + 4]
      BY <1>5, <2>1
    <2> QED BY <2>1, <2>2
  <1>8. PICK a, b, c, d, e, f : /\ a = V[k] /\ b = V[k + 1] /\ c = V[k + 2] /\ d = V[k + 3]
                                /\ e = V[k + 4] /\ f = V[k + 5]
    OBVIOUS
  <1>9. /\ a \in Nat /\ b \in Nat /\ c \in Nat /\ d \in Nat /\ (t = 5 => e \in Nat /\ f \in Nat)
        /\ radix * b <= a /\ radix * c <= b /\ radix * d <= c
        /\ t = 5 => radix * e <= d /\ radix * f <= e
        /\ a < base * p
    BY <1>3, <1>6, <1>7, <1>8
  <1>10. CASE <<base, radix, t>> = <<65536, 10, 5>>
    <2>1. f < p
      BY <1>3, <1>9, <1>10
    <2> QED BY <1>1, <1>8, <1>10, <2>1
  <1>11. CASE <<base, radix, t>> = <<256, 10, 5>>
    <2>1. f < p
      BY <1>3, <1>9, <1>11
    <2> QED BY <1>1, <1>8, <1>11, <2>1
  <1>12. CASE <<base, radix, t>> = <<256, 10, 3>>
    <2>1. d < p
      BY <1>3, <1>9, <1>12
    <2> QED BY <1>1, <1>8, <1>12, <2>1
  <1> QED BY <1>10, <1>11, <1>12 DEF Clears

LEMMA LimbsCleared ==
    ASSUME NEW base, NEW radix, NEW t, Clears(base, radix, t),
           NEW N \in Nat, NEW V, Shrinks(V, N, radix),
           NEW c \in Nat, t * c <= N, V[0] < Power(base, c)
    PROVE  V[t * c] < Power(base, 0)
  <1> DEFINE T == {j \in 0 .. c : V[t * j] < Power(base, c - j)}
  <1>1. base \in Nat /\ radix = 10 /\ t \in {3, 5}
    BY DEF Clears
  <1>2. 0 \in T
    <2>1. t * 0 = 0 /\ c - 0 = c /\ 0 \in 0 .. c
      BY <1>1
    <2> QED BY <2>1
  <1>3. ASSUME NEW j \in 0 .. c - 1, j \in T
        PROVE  j + 1 \in T
    <2>1. V[t * j] < Power(base, c - j)
      BY <1>3
    <2>2. PICK k, m : k = t * j /\ m = c - (j + 1)
      OBVIOUS
    <2>3. /\ k \in Nat /\ m \in Nat /\ k + t \in 0 .. N /\ k + t = t * (j + 1)
          /\ c - j = m + 1
      BY <1>1, <2>2
    <2>4. V[k] < Power(base, m + 1)
      BY <2>1, <2>2, <2>3
    <2>5. V[k + t] < Power(base, m)
      BY <2>3, <2>4, LimbCleared
    <2>6. j + 1 \in 0 .. c
      OBVIOUS
    <2> QED BY <2>2, <2>3, <2>5, <2>6
  <1> HIDE DEF T
  <1>4. \A j \in 0 .. c : j \in T
    BY <1>2, <1>3, Induction
  <1>5. c \in T
    BY <1>4
  <1>6. c - c = 0
    OBVIOUS
  <1> QED BY <1>5, <1>6 DEF T

\* Once nothing is left, the digits stay.
LEMMA PassesStop ==
    ASSUME NEW base \in Bases, NEW radix \in Radixes, NEW n \in Seq(0 .. base - 1),
           NEW k \in 0 .. 5 * Len(n), Rest(n, base, radix)[k] = 0
    PROVE  /\ Digits(n, base, radix) = Passes(n, base, radix)[k].digits
           /\ AllZeroes(Passes(n, base, radix)[k].left)
  <1> DEFINE N == 5 * Len(n)
             B == Passes(n, base, radix)
             T == {i \in 0 .. N - k : B[k + i] = B[k]}
  <1>1. base \in AllBases /\ N \in Nat /\ N - k \in Nat /\ k \in Nat
    BY BaseAndRadix
  <1>2. PassesOf(B, n, base, radix)
    BY PassValues
  <1>3. Rest(n, base, radix)[k] = Value(B[k].left, base)
    BY DEF Rest
  <1> HIDE DEF B, N
  <1>4. B[k].left \in Seq(0 .. base - 1)
    BY <1>2 DEF PassesOf, Kept, Splits, N
  <1>5. AllZeroes(B[k].left)
    BY <1>1, <1>3, <1>4, ZeroValue
  <1>6. 0 \in T
    <2>1. k + 0 = k /\ 0 \in 0 .. N - k
      BY <1>1
    <2> QED BY <2>1
  <1>7. ASSUME NEW i \in 0 .. (N - k) - 1, i \in T
        PROVE  i + 1 \in T
    <2>1. k + (i + 1) \in 1 .. N /\ (k + (i + 1)) - 1 = k + i /\ i + 1 \in 0 .. N - k
      BY <1>1
    <2>2. B[k + (i + 1)] = DivideStep(B[k + i], base, radix)
      BY <1>2, <2>1 DEF PassesOf, N
    <2>3. B[k + i] = B[k]
      BY <1>7
    <2> QED BY <1>5, <2>1, <2>2, <2>3 DEF DivideStep
  <1> HIDE DEF T
  <1>8. \A i \in 0 .. N - k : i \in T
    BY <1>1, <1>6, <1>7, Induction
  <1>9. N - k \in T /\ k + (N - k) = N
    BY <1>1, <1>8
  <1>10. B[N] = B[k]
    BY <1>9 DEF T
  <1> QED BY <1>5, <1>10 DEF Digits, B, N

\* At most one digit a pass.
LEMMA DigitsOfPasses ==
    ASSUME NEW base \in Bases, NEW radix \in Radixes, NEW n \in Seq(0 .. base - 1)
    PROVE  \A k \in 0 .. 5 * Len(n) : Len(Passes(n, base, radix)[k].digits) <= k
  <1> DEFINE N == 5 * Len(n)
             B == Passes(n, base, radix)
             T == {k \in 0 .. N : Len(B[k].digits) <= k}
  <1>1. N \in Nat
    OBVIOUS
  <1>2. PassesOf(B, n, base, radix)
    BY PassValues
  <1> HIDE DEF B, N
  <1>3. 0 \in T
    <2>1. B[0].digits = <<>>
      BY <1>2 DEF PassesOf
    <2> QED BY <1>1, <2>1
  <1>4. ASSUME NEW k \in 0 .. N - 1, k \in T
        PROVE  k + 1 \in T
    <2>1. k + 1 \in 1 .. N /\ (k + 1) - 1 = k /\ k \in 0 .. N /\ k + 1 \in 0 .. N
      BY <1>1
    <2>2. B[k + 1] = DivideStep(B[k], base, radix)
      BY <1>2, <2>1 DEF PassesOf, N
    <2>3. B[k].digits \in Seq(0 .. radix - 1)
      BY <1>2, <2>1 DEF PassesOf, N, Kept, Splits
    <2>4. Len(B[k].digits) <= k /\ Len(B[k].digits) \in Nat
      BY <1>4, <2>3
    <2>5. CASE AllZeroes(B[k].left)
      BY <2>1, <2>2, <2>4, <2>5 DEF DivideStep
    <2>6. CASE ~AllZeroes(B[k].left)
      <3> DEFINE r == DivMod(B[k].left, base, radix).remainder
      <3>1. B[k + 1].digits = <<r>> \o B[k].digits
        BY <2>2, <2>6 DEF DivideStep
      <3> HIDE DEF r
      <3>2. Len(<<r>> \o B[k].digits) = Len(B[k].digits) + 1
        BY <2>3
      <3> QED BY <2>1, <2>4, <3>1, <3>2
    <2> QED BY <2>5, <2>6
  <1> HIDE DEF T
  <1>5. \A k \in 0 .. N : k \in T
    BY <1>1, <1>3, <1>4, Induction
  <1> QED BY <1>5 DEF T, B, N

LEMMA RestAtFirst ==
    ASSUME NEW base \in Bases, NEW radix \in Radixes, NEW n \in Seq(0 .. base - 1)
    PROVE  Rest(n, base, radix)[0] = Value(n, base) /\ Value(n, base) < Power(base, Len(n))
  <1>1. PassesOf(Passes(n, base, radix), n, base, radix)
    BY PassValues
  <1>2. Passes(n, base, radix)[0].left = n
    BY <1>1 DEF PassesOf
  <1>3. 0 \in 0 .. 5 * Len(n) /\ Len(n) \in 0 .. Len(n)
    OBVIOUS
  <1>4. Value(n, base) < Power(base, Len(n))
    BY <1>3, BaseAndRadix, BelowPower DEF Value
  <1> QED BY <1>2, <1>3, <1>4 DEF Rest

\* The digits of a number have its value and no zero in front: the loops of
\* util.h:85-101 and 104-112 come to an end within the passes.
LEMMA DigitsKeepValue ==
    ASSUME NEW base \in Bases, NEW radix \in Radixes, NEW n \in Seq(0 .. base - 1)
    PROVE  LET digits == Digits(n, base, radix)
           IN  /\ digits \in Seq(0 .. radix - 1)
               /\ Value(digits, radix) = Value(n, base)
               /\ digits # <<>> => digits[1] # 0
  <1> DEFINE N == 5 * Len(n)
             B == Passes(n, base, radix)
             V == Rest(n, base, radix)
  <1>1. base \in AllBases /\ base \in Nat /\ radix \in Nat /\ N \in Nat /\ Len(n) \in Nat
    BY BaseAndRadix
  <1>2. V[N] = 0
    <2>1. Clears(base, radix, 5)
      BY DEF Clears, Bases, Radixes
    <2>2. Shrinks(V, N, radix)
      BY RestShrinks
    <2>3. V[0] < Power(base, Len(n))
      BY RestAtFirst
    <2>4. 5 * Len(n) <= N
      BY <1>1
    <2> HIDE DEF V
    <2>5. V[5 * Len(n)] < Power(base, 0)
      <3> HIDE DEF N
      <3> QED BY <1>1, <2>1, <2>2, <2>3, <2>4, LimbsCleared
    <2>6. Power(base, 0) = 1
      BY <1>1, PowerStep
    <2>7. V[N] \in Nat
      BY <1>1, <2>2 DEF Shrinks
    <2> QED BY <2>5, <2>6, <2>7
  <1>3. Digits(n, base, radix) = B[N].digits /\ AllZeroes(B[N].left)
    BY <1>1, <1>2, PassesStop
  <1>4. Kept(B[N], n, base, radix)
    <2>1. PassesOf(B, n, base, radix)
      BY PassValues
    <2>2. N \in 0 .. N
      BY <1>1
    <2> QED BY <2>1, <2>2 DEF PassesOf
  <1> HIDE DEF B, N
  <1>5. B[N].left \in Seq(0 .. base - 1) /\ B[N].digits \in Seq(0 .. radix - 1)
    BY <1>4 DEF Kept, Splits
  <1>6. Value(B[N].left, base) = 0
    BY <1>1, <1>3, <1>5, ZeroValue
  <1>7. B[N].digits \in Seq(Nat)
    BY <1>1, <1>5, BytesAreNumbers
  <1>8. Value(B[N].digits, radix) = Val(0, B[N].digits, radix)
    BY <1>1, <1>7, ValueType
  <1> QED BY <1>3, <1>4, <1>5, <1>6, <1>8 DEF Kept

\* How many digits a number of so many limbs has at most.
LEMMA DigitsBound ==
    ASSUME NEW base \in Bases, NEW radix \in Radixes, NEW n \in Seq(0 .. base - 1),
           NEW k \in 0 .. 5 * Len(n), Rest(n, base, radix)[k] = 0
    PROVE  Len(Digits(n, base, radix)) <= k
  <1>1. Digits(n, base, radix) = Passes(n, base, radix)[k].digits
    BY PassesStop
  <1>2. \A i \in 0 .. 5 * Len(n) : Len(Passes(n, base, radix)[i].digits) <= i
    BY DigitsOfPasses
  <1> QED BY <1>1, <1>2

-----------------------------------------------------------------------------
(* Numbers without zeros in front.                                         *)

Canonical(s, base) == s \in Seq(0 .. base - 1) /\ (s # <<>> => s[1] # 0)

LEMMA LeadingZeros ==
    ASSUME NEW n \in Seq(Nat)
    PROVE  /\ Leading(n) \in 0 .. Len(n)
           /\ \A j \in 1 .. Leading(n) : n[j] = 0
           /\ Leading(n) < Len(n) => n[Leading(n) + 1] # 0
  <1> DEFINE T == {i \in 0 .. Len(n) : i < Len(n) => n[i + 1] # 0}
  <1>1. Len(n) \in Nat /\ Len(n) \in T /\ Len(n) \in 0 .. Len(n)
    OBVIOUS
  <1>2. PICK i \in 0 .. Len(n) : i \in T /\ \A m \in 0 .. i - 1 : m \notin T
    <2> HIDE DEF T
    <2> QED BY <1>1, LeastElement
  <1>3. \A j \in 1 .. i : n[j] = 0
    <2> SUFFICES ASSUME NEW j \in 1 .. i PROVE n[j] = 0
      OBVIOUS
    <2>1. j - 1 \in 0 .. i - 1 /\ j - 1 \in 0 .. Len(n) /\ (j - 1) + 1 = j
      OBVIOUS
    <2>2. j - 1 \notin T
      BY <1>2, <2>1
    <2> QED BY <2>1, <2>2
  <1>4. \E k \in 0 .. Len(n) : (\A j \in 1 .. k : n[j] = 0) /\ (k < Len(n) => n[k + 1] # 0)
    BY <1>2, <1>3
  <1> QED BY <1>4, Zenon DEF Leading

\* The parts of a concatenation, each from its own first place.
Joined(t, r, s) ==
    /\ Len(t) = Len(r) + Len(s)
    /\ \A i \in 1 .. Len(r) : t[i] = r[i]
    /\ \A i \in 1 .. Len(s) : t[Len(r) + i] = s[i]

LEMMA ConcatJoins ==
    ASSUME NEW S, NEW r \in Seq(S), NEW s \in Seq(S)
    PROVE  r \o s \in Seq(S) /\ Joined(r \o s, r, s)
  BY DEF Joined

LEMMA JoinedIsConcat ==
    ASSUME NEW S, NEW t \in Seq(S), NEW r \in Seq(S), NEW s \in Seq(S), Joined(t, r, s)
    PROVE  t = r \o s
  <1>1. PICK u : u = r \o s
    OBVIOUS
  <1>2. u \in Seq(S) /\ Joined(u, r, s)
    BY <1>1, ConcatJoins
  <1>3. Len(r) \in Nat /\ Len(s) \in Nat /\ Len(t) = Len(r) + Len(s) /\ Len(u) = Len(t)
    BY <1>2 DEF Joined
  <1>4. ASSUME NEW i \in 1 .. Len(t) PROVE t[i] = u[i]
    <2>1. CASE i \in 1 .. Len(r)
      BY <1>2, <2>1 DEF Joined
    <2>2. CASE i \notin 1 .. Len(r)
      <3>1. PICK k \in 1 .. Len(s) : i = Len(r) + k
        <4>1. i - Len(r) \in 1 .. Len(s) /\ i = Len(r) + (i - Len(r))
          BY <1>3, <2>2
        <4> QED BY <4>1
      <3> QED BY <1>2, <3>1 DEF Joined
    <2> QED BY <2>1, <2>2
  <1> QED BY <1>1, <1>2, <1>3, <1>4, SeqEqual

LEMMA ZerosAndRest ==
    ASSUME NEW z \in Nat, NEW s \in Seq(Nat), NEW n \in Seq(Nat),
           Joined(n, Repeat(0, z), s)
    PROVE  n = Repeat(0, z) \o s
  <1>1. Repeat(0, z) \in Seq(Nat)
    BY RepeatType
  <1> QED BY <1>1, JoinedIsConcat

LEMMA SignificantBytes ==
    ASSUME NEW b \in Nat, NEW n \in Seq(0 .. b - 1)
    PROVE  /\ n = Repeat(0, Leading(n)) \o Significant(n)
           /\ Canonical(Significant(n), b)
           /\ Len(Significant(n)) = Len(n) - Leading(n)
           /\ Leading(n) \in 0 .. Len(n)
           /\ Value(Significant(n), b) = Value(n, b)
  <1>1. n \in Seq(Nat)
    BY BytesAreNumbers
  <1>2. PICK z \in 0 .. Len(n) : z = Leading(n)
    BY <1>1, LeadingZeros
  <1>3. (\A j \in 1 .. z : n[j] = 0) /\ (z < Len(n) => n[z + 1] # 0)
    BY <1>1, <1>2, LeadingZeros
  <1>4. PICK s : s = SubSeq(n, z + 1, Len(n))
    OBVIOUS
  <1>5. s \in Seq(0 .. b - 1) /\ Len(s) = Len(n) - z /\ \A i \in 1 .. Len(n) - z : s[i] = n[z + i]
    BY <1>4
  <1>6. s # <<>> => s[1] # 0
    <2> SUFFICES ASSUME s # <<>> PROVE s[1] # 0
      OBVIOUS
    <2>1. Len(s) > 0
      BY <1>5
    <2>2. z < Len(n) /\ 1 \in 1 .. Len(n) - z
      BY <1>5, <2>1
    <2> QED BY <1>3, <1>5, <2>2
  <1>7. n = Repeat(0, z) \o s
    <2>1. s \in Seq(Nat) /\ z \in Nat
      BY <1>5, BytesAreNumbers
    <2>2. Len(n) = z + Len(s) /\ \A i \in 1 .. Len(s) : n[z + i] = s[i]
      BY <1>5
    <2>3. Len(Repeat(0, z)) = z /\ \A i \in 1 .. z : Repeat(0, z)[i] = 0
      BY <2>1 DEF Repeat
    <2>4. Joined(n, Repeat(0, z), s)
      BY <1>3, <2>2, <2>3 DEF Joined
    <2> QED BY <1>1, <2>1, <2>4, ZerosAndRest
  <1>8. s \in Seq(Nat) /\ z \in Nat
    BY <1>5, BytesAreNumbers
  <1>9. Value(n, b) = Value(s, b)
    BY <1>7, <1>8, ZerosInFront
  <1> QED BY <1>2, <1>4, <1>5, <1>6, <1>7, <1>9 DEF Canonical, Significant

LEMMA AtLeastPower ==
    ASSUME NEW base \in AllBases, NEW s, Canonical(s, base), s # <<>>
    PROVE  \A i \in 1 .. Len(s) : Power(base, i - 1) <= Prefixes(0, s, base)[i]
  <1> DEFINE P == Prefixes(0, s, base)
             T == {m \in 0 .. Len(s) - 1 : Power(base, m) <= P[m + 1]}
  <1>1. base \in Nat /\ s \in Seq(0 .. base - 1) /\ s \in Seq(Nat) /\ 0 \in Nat /\ Len(s) - 1 \in Nat
    <2>1. base \in Nat /\ s \in Seq(0 .. base - 1)
      BY BaseType DEF Canonical
    <2>2. Len(s) # 0
      BY <2>1
    <2> QED BY <2>1, <2>2, BytesAreNumbers
  <1>2. PrefixesOf(P, 0, s, base)
    BY <1>1, PrefixValues
  <1> HIDE DEF P
  <1>3. 0 \in T
    <2>1. 1 \in 1 .. Len(s) /\ 1 - 1 = 0 /\ 0 + 1 = 1 /\ 0 \in 0 .. Len(s) - 1
      BY <1>1
    <2>2. P[1] = Shifted(base, 0, s[1])
      BY <1>2, <2>1 DEF PrefixesOf
    <2>3. s[1] \in Nat /\ s[1] # 0
      BY <1>1, <2>1 DEF Canonical
    <2>4. P[1] = s[1]
      BY <1>1, <2>2, <2>3 DEF Shifted
    <2>5. Power(base, 0) = 1
      BY <1>1, PowerStep
    <2> QED BY <2>1, <2>3, <2>4, <2>5
  <1>4. ASSUME NEW m \in 0 .. (Len(s) - 1) - 1, m \in T
        PROVE  m + 1 \in T
    <2>1. /\ (m + 1) + 1 \in 1 .. Len(s) /\ ((m + 1) + 1) - 1 = m + 1 /\ m + 1 \in 0 .. Len(s)
          /\ m + 1 \in 0 .. Len(s) - 1 /\ m \in Nat
      BY <1>1
    <2>2. PICK d, x, y, p : /\ d = s[(m + 1) + 1] /\ x = P[m + 1] /\ y = P[(m + 1) + 1] /\ p = Power(base, m)
      OBVIOUS
    <2>3. d \in 0 .. base - 1
      BY <1>1, <2>1, <2>2, ElementOf
    <2>4. y = Shifted(base, x, d) /\ x \in Nat
      BY <1>2, <2>1, <2>2 DEF PrefixesOf
    <2>5. p \in Nat /\ Power(base, m + 1) = Shifted(base, p, 0)
      BY <1>1, <2>1, <2>2, PowerStep
    <2>6. p <= x
      BY <1>4, <2>2
    <2>7. 0 \in 0 .. base - 1 /\ d \in Nat
      BY <2>3, BaseType
    <2>8. Shifted(base, p, 0) \in Nat /\ Shifted(base, x, d) \in Nat
      BY <1>1, <2>4, <2>5, <2>7, ShiftedType
    <2>9. ~(Shifted(base, x, d) < Shifted(base, p, 0))
      <3>1. ~(x < p \/ (x = p /\ d < 0))
        BY <2>4, <2>5, <2>6, <2>7
      <3> QED BY <2>3, <2>4, <2>5, <2>7, <3>1, ShiftedOrder
    <2>10. Power(base, m + 1) <= P[(m + 1) + 1]
      BY <2>2, <2>4, <2>5, <2>8, <2>9
    <2> QED BY <2>1, <2>10
  <1> HIDE DEF T
  <1>5. \A m \in 0 .. Len(s) - 1 : m \in T
    BY <1>1, <1>3, <1>4, Induction
  <1> SUFFICES ASSUME NEW i \in 1 .. Len(s) PROVE Power(base, i - 1) <= P[i]
    BY DEF P
  <1>6. i - 1 \in 0 .. Len(s) - 1 /\ (i - 1) + 1 = i
    BY <1>1
  <1> QED BY <1>5, <1>6 DEF T

LEMMA PowerGrows ==
    ASSUME NEW base \in AllBases, NEW i \in Nat, NEW j \in Nat, i <= j
    PROVE  Power(base, i) <= Power(base, j)
  <1> DEFINE T == {m \in 0 .. j - i : Power(base, i) <= Power(base, i + m)}
  <1>1. base \in Nat /\ base > 1 /\ j - i \in Nat
    BY BaseType
  <1>2. \A k \in Nat : Power(base, k) \in Nat /\ Power(base, k) <= Power(base, k + 1)
    <2> SUFFICES ASSUME NEW k \in Nat
                 PROVE  Power(base, k) \in Nat /\ Power(base, k) <= Power(base, k + 1)
      OBVIOUS
    <2>1. Power(base, k) \in Nat /\ Power(base, k + 1) = Shifted(base, Power(base, k), 0)
      BY <1>1, PowerStep
    <2>2. PICK p \in Nat : p = Power(base, k)
      BY <2>1
    <2>3. p <= base * p
      BY DEF AllBases
    <2>4. Shifted(base, p, 0) = base * p
      <3>1. base * p \in Nat
        BY <1>1
      <3> QED BY <3>1 DEF Shifted
    <2> QED BY <2>1, <2>2, <2>3, <2>4
  <1>3. 0 \in T
    <2>1. i + 0 = i /\ 0 \in 0 .. j - i /\ Power(base, i) \in Nat
      BY <1>1, <1>2
    <2> QED BY <2>1
  <1>4. ASSUME NEW m \in 0 .. (j - i) - 1, m \in T
        PROVE  m + 1 \in T
    <2>1. i + m \in Nat /\ i + (m + 1) = (i + m) + 1 /\ m + 1 \in 0 .. j - i /\ (i + m) + 1 \in Nat
      BY <1>1
    <2>2. PICK a, b, c : a = Power(base, i) /\ b = Power(base, i + m) /\ c = Power(base, (i + m) + 1)
      OBVIOUS
    <2>3. a \in Nat /\ b \in Nat /\ c \in Nat /\ b <= c
      BY <1>2, <2>1, <2>2
    <2>4. a <= b
      BY <1>4, <2>2
    <2>5. a <= c
      BY <2>3, <2>4
    <2> QED BY <2>1, <2>2, <2>5
  <1> HIDE DEF T
  <1>5. \A m \in 0 .. j - i : m \in T
    BY <1>1, <1>3, <1>4, Induction
  <1>6. j - i \in T /\ i + (j - i) = j
    BY <1>1, <1>5
  <1> QED BY <1>6 DEF T

\* A shorter number is a smaller one.
LEMMA ShorterIsLess ==
    ASSUME NEW base \in AllBases, NEW a, NEW b, Canonical(a, base), Canonical(b, base),
           Len(a) < Len(b)
    PROVE  Value(a, base) < Value(b, base)
  <1>1. base \in Nat /\ a \in Seq(0 .. base - 1) /\ b \in Seq(0 .. base - 1)
    BY BaseType DEF Canonical
  <1>2. /\ b # <<>> /\ Len(a) \in Nat /\ Len(b) - 1 \in Nat /\ Len(a) <= Len(b) - 1
        /\ Len(a) \in 0 .. Len(a) /\ Len(b) \in 1 .. Len(b)
    BY <1>1
  <1>3. Value(a, base) < Power(base, Len(a))
    BY <1>1, <1>2, BelowPower DEF Value
  <1>4. Power(base, Len(b) - 1) <= Value(b, base)
    BY <1>1, <1>2, AtLeastPower DEF Value
  <1>5. Power(base, Len(a)) <= Power(base, Len(b) - 1)
    BY <1>2, PowerGrows
  <1>6. Power(base, Len(a)) \in Nat /\ Power(base, Len(b) - 1) \in Nat
    BY <1>1, <1>2, PowerStep
  <1>7. Value(a, base) \in Nat /\ Value(b, base) \in Nat
    <2>1. a \in Seq(Nat) /\ b \in Seq(Nat)
      BY <1>1, BytesAreNumbers
    <2> QED BY <1>1, <2>1, ValueType
  <1> QED BY <1>3, <1>4, <1>5, <1>6, <1>7

\* Of two numbers of a length, the first digit in which they differ decides.
LEMMA FirstDifference ==
    ASSUME NEW base \in AllBases, NEW a \in Seq(0 .. base - 1), NEW b \in Seq(0 .. base - 1),
           Len(a) = Len(b), NEW i \in 1 .. Len(a), a[i] < b[i], \A j \in 1 .. i - 1 : a[j] = b[j]
    PROVE  Value(a, base) < Value(b, base)
  <1> DEFINE P == Prefixes(0, a, base)
             Q == Prefixes(0, b, base)
             N == Len(a) - i
             T == {m \in 0 .. N : P[i + m] < Q[i + m]}
  <1>1. /\ base \in Nat /\ a \in Seq(Nat) /\ b \in Seq(Nat) /\ 0 \in Nat /\ N \in Nat
        /\ i - 1 \in Nat /\ i \in Nat
    BY BaseType, BytesAreNumbers
  <1>2. PrefixesOf(P, 0, a, base)
    BY <1>1, PrefixValues
  <1>3. PrefixesOf(Q, 0, b, base)
    BY <1>1, PrefixValues
  <1>4. P[i - 1] = Q[i - 1]
    <2>1. Agree(a, b, i - 1)
      BY <1>1 DEF Agree
    <2> QED BY <1>1, <2>1, PrefixesAgree
  <1> HIDE DEF P, Q
  <1>5. \A k \in 1 .. Len(a) : /\ P[k] = Shifted(base, P[k - 1], a[k])
                               /\ Q[k] = Shifted(base, Q[k - 1], b[k])
                               /\ P[k - 1] \in Nat /\ Q[k - 1] \in Nat
                               /\ a[k] \in 0 .. base - 1 /\ b[k] \in 0 .. base - 1
    <2> SUFFICES ASSUME NEW k \in 1 .. Len(a)
                 PROVE  /\ P[k] = Shifted(base, P[k - 1], a[k])
                        /\ Q[k] = Shifted(base, Q[k - 1], b[k])
                        /\ P[k - 1] \in Nat /\ Q[k - 1] \in Nat
                        /\ a[k] \in 0 .. base - 1 /\ b[k] \in 0 .. base - 1
      OBVIOUS
    <2>1. k \in 1 .. Len(b) /\ k - 1 \in 0 .. Len(a) /\ k - 1 \in 0 .. Len(b)
      OBVIOUS
    <2>2. a[k] \in 0 .. base - 1
      BY ElementOf
    <2>3. b[k] \in 0 .. base - 1
      BY <2>1, ElementOf
    <2> QED BY <1>2, <1>3, <2>1, <2>2, <2>3 DEF PrefixesOf
  <1>6. 0 \in T
    <2>1. Shifted(base, P[i - 1], a[i]) < Shifted(base, Q[i - 1], b[i])
      <3>1. /\ P[i - 1] \in Nat /\ Q[i - 1] \in Nat /\ a[i] \in 0 .. base - 1 /\ b[i] \in 0 .. base - 1
        BY <1>5
      <3> QED BY <1>4, <3>1, ShiftedOrder
    <2>2. i + 0 = i /\ 0 \in 0 .. N
      BY <1>1
    <2>3. P[i] < Q[i]
      BY <1>5, <2>1
    <2> QED BY <2>2, <2>3
  <1>7. ASSUME NEW m \in 0 .. N - 1, m \in T
        PROVE  m + 1 \in T
    <2>1. PICK k : k = i + (m + 1)
      OBVIOUS
    <2>2. k \in 1 .. Len(a) /\ k - 1 = i + m /\ m + 1 \in 0 .. N
      BY <1>1, <2>1
    <2>3. P[k - 1] < Q[k - 1]
      BY <1>7, <2>2
    <2>4. P[k] = Shifted(base, P[k - 1], a[k]) /\ Q[k] = Shifted(base, Q[k - 1], b[k])
      BY <1>5, <2>2
    <2>5. P[k - 1] \in Nat /\ Q[k - 1] \in Nat /\ a[k] \in 0 .. base - 1 /\ b[k] \in 0 .. base - 1
      BY <1>5, <2>2
    <2>6. Shifted(base, P[k - 1], a[k]) < Shifted(base, Q[k - 1], b[k])
      BY <2>3, <2>5, ShiftedOrder
    <2>7. P[k] < Q[k]
      BY <2>4, <2>6
    <2> QED BY <2>1, <2>2, <2>7
  <1> HIDE DEF T
  <1>8. \A m \in 0 .. N : m \in T
    BY <1>1, <1>6, <1>7, Induction
  <1>9. N \in T /\ i + N = Len(a)
    BY <1>1, <1>8
  <1> QED BY <1>9 DEF T, P, Q, Value

\* Below is the order of the values, and the value tells the number.
LEMMA BelowOrDifferent ==
    ASSUME NEW base \in AllBases, NEW a, NEW b, Canonical(a, base), Canonical(b, base)
    PROVE  /\ Below(a, b) => Value(a, base) < Value(b, base)
           /\ Below(a, b) \/ Below(b, a) \/ a = b
  <1>1. base \in Nat /\ a \in Seq(0 .. base - 1) /\ b \in Seq(0 .. base - 1)
    BY BaseType DEF Canonical
  <1>2. DOMAIN a = 1 .. Len(a) /\ DOMAIN b = 1 .. Len(b) /\ Len(a) \in Nat /\ Len(b) \in Nat
    BY <1>1
  <1>3. Below(a, b) => Value(a, base) < Value(b, base)
    <2> SUFFICES ASSUME Below(a, b) PROVE Value(a, base) < Value(b, base)
      OBVIOUS
    <2>1. CASE Len(a) < Len(b)
      BY <2>1, ShorterIsLess
    <2>2. CASE Len(a) = Len(b)
      <3>1. PICK i \in 1 .. Len(a) : a[i] < b[i] /\ \A j \in 1 .. i - 1 : a[j] = b[j]
        BY <1>2, <2>2 DEF Below
      <3> QED BY <1>1, <2>2, <3>1, FirstDifference
    <2> QED BY <2>1, <2>2 DEF Below
  <1>4. ASSUME Len(a) = Len(b), a # b
        PROVE  Below(a, b) \/ Below(b, a)
    <2> DEFINE T == {i \in 1 .. Len(a) : a[i] # b[i]}
    <2>1. PICK t \in T : TRUE
      <3>1. \E i \in 1 .. Len(a) : a[i] # b[i]
        BY <1>1, <1>4, SeqEqual
      <3> QED BY <3>1
    <2>2. t \in 0 .. Len(a)
      BY <2>1
    <2>3. PICK i \in 0 .. Len(a) : i \in T /\ \A m \in 0 .. i - 1 : m \notin T
      <3> HIDE DEF T
      <3> QED BY <1>2, <2>2, LeastElement
    <2>4. i \in 1 .. Len(a) /\ a[i] # b[i]
      BY <2>3
    <2>5. \A j \in 1 .. i - 1 : a[j] = b[j]
      BY <2>3, <2>4
    <2>6. a[i] \in 0 .. base - 1
      BY <1>1, <2>4, ElementOf
    <2>7. b[i] \in 0 .. base - 1
      BY <1>1, <1>4, <2>4, ElementOf
    <2>8. a[i] < b[i] \/ b[i] < a[i]
      BY <1>1, <2>4, <2>6, <2>7
    <2> QED BY <1>2, <1>4, <2>4, <2>5, <2>8 DEF Below
  <1>5. Len(a) < Len(b) \/ Len(b) < Len(a) \/ Len(a) = Len(b)
    <2>1. PICK k \in Nat, l \in Nat : k = Len(a) /\ l = Len(b)
      BY <1>2
    <2> QED BY <2>1
  <1> QED BY <1>3, <1>4, <1>5 DEF Below

LEMMA BelowIsLess ==
    ASSUME NEW base \in AllBases, NEW a, NEW b, Canonical(a, base), Canonical(b, base)
    PROVE  /\ Below(a, b) <=> Value(a, base) < Value(b, base)
           /\ Value(a, base) = Value(b, base) => a = b
  <1>1. base \in Nat /\ a \in Seq(0 .. base - 1) /\ b \in Seq(0 .. base - 1)
    BY BaseType DEF Canonical
  <1>2. Value(a, base) \in Nat /\ Value(b, base) \in Nat
    <2>1. a \in Seq(Nat) /\ b \in Seq(Nat)
      BY <1>1, BytesAreNumbers
    <2> QED BY <1>1, <2>1, ValueType
  <1>3. Below(a, b) => Value(a, base) < Value(b, base)
    BY BelowOrDifferent
  <1>4. Below(b, a) => Value(b, base) < Value(a, base)
    BY BelowOrDifferent
  <1>5. Below(a, b) \/ Below(b, a) \/ a = b
    BY BelowOrDifferent
  <1> QED BY <1>2, <1>3, <1>4, <1>5

-----------------------------------------------------------------------------
(* Reading a number: so many times what is before it plus the next digits. *)

\* Groups of three digits.
Factors == {1000}

LEMMA ByteProduct ==
    ASSUME NEW factor \in Factors, NEW c \in 0 .. factor - 1, NEW x \in Byte
    PROVE  /\ (c + factor * x) % 256 \in Byte
           /\ (c + factor * x) \div 256 \in 0 .. factor - 1
           /\ c + factor * x = 256 * ((c + factor * x) \div 256) + ((c + factor * x) % 256)
  <1>1. PICK y : y = c + factor * x
    OBVIOUS
  <1>2. y \in Nat /\ y < 256 * factor
    <2>1. factor \in Nat
      BY DEF Factors
    <2>2. c \in Nat /\ c < factor /\ x \in Nat /\ x < 256
      BY <2>1 DEF Byte
    <2>3. factor * x + factor <= factor * 256 /\ factor * x \in Nat /\ factor * 256 \in Nat
      BY <2>1, <2>2, MultiplesApart
    <2> QED BY <1>1, <2>1, <2>2, <2>3
  <1>3. PICK q, m : q = y \div 256 /\ m = y % 256
    OBVIOUS
  <1>4. q \in Nat /\ m \in 0 .. 255 /\ y = 256 * q + m
    BY <1>2, <1>3
  <1>5. q < factor
    BY <1>2, <1>4 DEF Factors
  <1>6. q \in 0 .. factor - 1
    BY <1>4, <1>5 DEF Factors
  <1> QED BY <1>1, <1>3, <1>4, <1>6 DEF Byte

LEMMA ProductCarried ==
    ASSUME NEW factor \in Factors, NEW a \in Nat, NEW c \in Nat, NEW x \in Nat, NEW q \in Nat,
           NEW m \in Nat, c + factor * x = 256 * q + m
    PROVE  Shifted(256, factor * a + q, m) = factor * Shifted(256, a, x) + c
  <1>1. factor = 1000
    BY DEF Factors
  <1> QED BY <1>1 DEF Shifted

ProductStep(below, x, factor) ==
    [bytes |-> <<(below.carry + factor * x) % 256>> \o below.bytes,
     carry |-> (below.carry + factor * x) \div 256]

Product(factor) == [bytes: Seq(Byte), carry: 0 .. factor - 1]

\* What the recursive definition of Products says.
ProductsOf(R, n, factor, addend) ==
    /\ R[0] = [bytes |-> <<>>, carry |-> addend]
    /\ \A k \in 1 .. Len(n) : R[k] = ProductStep(R[k - 1], n[Len(n) + 1 - k], factor)
    /\ \A k \in 0 .. Len(n) : R[k] \in Product(factor)

LEMMA ProductStepType ==
    ASSUME NEW factor \in Factors, NEW below \in Product(factor), NEW x \in Byte
    PROVE  ProductStep(below, x, factor) \in Product(factor)
  <1>1. below.carry \in 0 .. factor - 1 /\ below.bytes \in Seq(Byte)
    BY DEF Product
  <1>2. PICK q, m : q = (below.carry + factor * x) \div 256 /\ m = (below.carry + factor * x) % 256
    OBVIOUS
  <1>3. q \in 0 .. factor - 1 /\ m \in Byte
    BY <1>1, <1>2, ByteProduct
  <1>4. <<m>> \o below.bytes \in Seq(Byte)
    BY <1>1, <1>3
  <1> QED BY <1>2, <1>3, <1>4 DEF ProductStep, Product

LEMMA ProductValues ==
    ASSUME NEW factor \in Factors, NEW n \in Seq(Byte), NEW addend \in 0 .. factor - 1
    PROVE  ProductsOf(Products(n, factor, addend), n, factor, addend)
  <1> DEFINE N == Len(n)
             S == Product(factor)
             c == [bytes |-> <<>>, carry |-> addend]
             Digit(k) == n[N + 1 - k]
             step == [k \in 1 .. N |-> [x \in S |-> ProductStep(x, Digit(k), factor)]]
             R == Products(n, factor, addend)
             Body(f) ==
                 [k \in 0 .. N |->
                     IF k = 0 THEN c
                     ELSE LET below == f[k - 1]
                              limb == below.carry + factor * Digit(k)
                          IN  [bytes |-> <<limb % 256>> \o below.bytes, carry |-> limb \div 256]]
  <1>1. N \in Nat /\ c \in S
    BY DEF Product
  <1>2. \A k \in 1 .. N : Digit(k) \in Byte
    <2> SUFFICES ASSUME NEW k \in 1 .. N PROVE Digit(k) \in Byte
      OBVIOUS
    <2>1. N + 1 - k \in 1 .. N
      BY <1>1
    <2> QED BY <2>1, ElementOf
  <1>3. step \in [1 .. N -> [S -> S]]
    <2> HIDE DEF S, N, Digit
    <2>1. \A k \in 1 .. N, x \in S : ProductStep(x, Digit(k), factor) \in S
      BY <1>2, ProductStepType DEF S
    <2> QED BY <2>1
  <1>4. PICK g \in [0 .. N -> S] : Follows(g, c, N, step)
    <2> HIDE DEF step, N, S, c
    <2> QED BY <1>1, <1>3, Recursion
  <1>5. g = [k \in 0 .. N |-> IF k = 0 THEN c ELSE ProductStep(g[k - 1], Digit(k), factor)]
    <2> HIDE DEF N, S, c, Digit
    <2> SUFFICES ASSUME NEW k \in 1 .. N PROVE g[k] = ProductStep(g[k - 1], Digit(k), factor)
      BY <1>1, <1>4 DEF Follows
    <2>1. k - 1 \in 0 .. N
      BY <1>1
    <2> QED BY <1>4, <2>1 DEF Follows
  <1>6. g = Body(g)
    BY <1>5, Zenon DEF ProductStep
  <1>7. R = Body(R)
    <2>1. R = CHOOSE f : f = Body(f)
      BY DEF Products
    <2> HIDE DEF R, Body
    <2> QED BY <1>6, <2>1
  <1>8. R = [k \in 0 .. N |-> IF k = 0 THEN c ELSE ProductStep(R[k - 1], Digit(k), factor)]
    <2> HIDE DEF R
    <2> QED BY <1>7, Zenon DEF ProductStep
  <1> HIDE DEF R, N, c, Digit, S
  <1>9. R[0] = c /\ \A k \in 1 .. N : R[k] = ProductStep(R[k - 1], Digit(k), factor)
    BY <1>1, <1>8
  <1>10. \A k \in 1 .. N : R[k - 1] \in S => R[k] \in S
    BY <1>2, <1>9, ProductStepType DEF S
  <1>11. \A k \in 0 .. N : R[k] \in S
    BY <1>1, <1>9, <1>10, Throughout
  <1> QED BY <1>9, <1>11 DEF R, N, c, S, Digit, ProductsOf

Suffix(n, k) == SubSeq(n, Len(n) - k + 1, Len(n))

LEMMA SuffixGrows ==
    ASSUME NEW n \in Seq(Nat), NEW k \in 0 .. Len(n) - 1
    PROVE  /\ Suffix(n, k) \in Seq(Nat)
           /\ Suffix(n, k + 1) = <<n[Len(n) - k]>> \o Suffix(n, k)
  BY DEF Suffix

LEMMA ByteBase ==
    /\ Byte = 0 .. 256 - 1 /\ Seq(Byte) = Seq(0 .. 256 - 1)
    /\ 256 \in AllBases /\ 256 \in Bases /\ 256 \in Nat
  BY DEF Byte, AllBases, Bases

LEMMA BytesType ==
    ASSUME NEW s \in Seq(Byte)
    PROVE  s \in Seq(Nat) /\ s \in Seq(0 .. 256 - 1)
  <1>1. s \in Seq(0 .. 256 - 1)
    BY ByteBase
  <1>2. PICK b \in Nat : b = 256
    OBVIOUS
  <1>3. s \in Seq(0 .. b - 1)
    BY <1>1, <1>2
  <1>4. s \in Seq(Nat)
    BY <1>3, BytesAreNumbers
  <1> QED BY <1>1, <1>4

\* The bytes of a product have its value, whatever number stands in front.
LEMMA ProductKeepsValue ==
    ASSUME NEW factor \in Factors, NEW n \in Seq(Byte), NEW addend \in 0 .. factor - 1
    PROVE  LET product == Products(n, factor, addend)
           IN  \A k \in 0 .. Len(n) : \A a \in Nat :
                  Val(factor * a + product[k].carry, product[k].bytes, 256) =
                      factor * Val(a, Suffix(n, k), 256) + addend
  <1> DEFINE N == Len(n)
             R == Products(n, factor, addend)
             Holds(k) == \A a \in Nat : Val(factor * a + R[k].carry, R[k].bytes, 256) =
                                            factor * Val(a, Suffix(n, k), 256) + addend
             T == {k \in 0 .. N : Holds(k)}
  <1>1. ProductsOf(R, n, factor, addend)
    BY ProductValues
  <1>2. N \in Nat /\ n \in Seq(Nat) /\ factor \in Nat /\ addend \in Nat /\ 256 \in Nat
    <2>1. n \in Seq(Nat)
      BY ByteBase, BytesAreNumbers
    <2>2. factor \in Nat
      BY DEF Factors
    <2> QED BY <2>1, <2>2
  <1> HIDE DEF R, N
  <1>3. Holds(0)
    <2>1. R[0].bytes = <<>> /\ R[0].carry = addend
      BY <1>1 DEF ProductsOf
    <2>2. Suffix(n, 0) = <<>>
      BY <1>2 DEF Suffix
    <2> SUFFICES ASSUME NEW a \in Nat
                 PROVE  Val(factor * a + addend, <<>>, 256) = factor * Val(a, <<>>, 256) + addend
      BY <2>1, <2>2
    <2>3. factor * a + addend \in Nat
      <3>1. factor * a \in Nat
        BY <1>2
      <3> QED BY <1>2, <3>1
    <2>4. PICK b \in Nat : b = factor * a + addend
      BY <2>3
    <2>5. Val(b, <<>>, 256) = b
      BY <1>2, ValEmpty
    <2>6. Val(a, <<>>, 256) = a
      BY <1>2, ValEmpty
    <2> QED BY <2>4, <2>5, <2>6
  <1>4. ASSUME NEW k \in 0 .. N - 1, Holds(k)
        PROVE  Holds(k + 1)
    <2>1. k + 1 \in 1 .. N /\ k \in 0 .. N /\ (k + 1) - 1 = k /\ N + 1 - (k + 1) = N - k /\ N - k \in 1 .. N
      BY <1>2
    <2>2. PICK x, c, bytes, s : x = n[N - k] /\ c = R[k].carry /\ bytes = R[k].bytes /\ s = Suffix(n, k)
      OBVIOUS
    <2>3. x \in Byte
      BY <2>1, <2>2, ElementOf DEF N
    <2>4. R[k] \in Product(factor) /\ R[k + 1] = ProductStep(R[k], x, factor)
      <3>1. R[k + 1] = ProductStep(R[(k + 1) - 1], n[N + 1 - (k + 1)], factor)
        BY <1>1, <2>1 DEF ProductsOf, N
      <3>2. R[k] \in Product(factor)
        BY <1>1, <2>1 DEF ProductsOf, N
      <3> QED BY <2>1, <2>2, <3>1, <3>2
    <2>5. c \in 0 .. factor - 1 /\ bytes \in Seq(Byte)
      BY <2>2, <2>4 DEF Product
    <2>6. PICK q, m : q = (c + factor * x) \div 256 /\ m = (c + factor * x) % 256
      OBVIOUS
    <2>7. q \in 0 .. factor - 1 /\ m \in Byte /\ c + factor * x = 256 * q + m
      BY <2>3, <2>5, <2>6, ByteProduct
    <2>8. R[k + 1].bytes = <<m>> \o bytes /\ R[k + 1].carry = q
      BY <2>2, <2>4, <2>6 DEF ProductStep
    <2>9. /\ q \in Nat /\ m \in Nat /\ c \in Nat /\ x \in Nat
      BY <1>2, <2>3, <2>5, <2>7 DEF Byte
    <2>10. bytes \in Seq(Nat)
      BY <2>5, ByteBase, BytesAreNumbers
    <2>11. s \in Seq(Nat) /\ Suffix(n, k + 1) = <<x>> \o s
      BY <1>2, <2>2, SuffixGrows DEF N
    <2> SUFFICES ASSUME NEW a \in Nat
                 PROVE  Val(factor * a + q, <<m>> \o bytes, 256) = factor * Val(a, <<x>> \o s, 256) + addend
      BY <2>8, <2>11
    <2>12. PICK b, d : b = factor * a + q /\ d = Shifted(256, a, x)
      OBVIOUS
    <2>13. b \in Nat /\ d \in Nat
      <3>1. factor * a \in Nat
        BY <1>2
      <3>2. d \in Nat
        BY <1>2, <2>9, <2>12, ShiftedType
      <3> QED BY <2>9, <2>12, <3>1, <3>2
    <2>14. Val(b, <<m>> \o bytes, 256) = Val(Shifted(256, b, m), bytes, 256)
      BY <1>2, <2>9, <2>10, <2>13, ValPrepend
    <2>15. Val(a, <<x>> \o s, 256) = Val(d, s, 256)
      BY <1>2, <2>9, <2>11, <2>12, ValPrepend
    <2>16. Shifted(256, b, m) = factor * d + c
      BY <2>7, <2>9, <2>12, ProductCarried
    <2>17. Val(factor * d + c, bytes, 256) = factor * Val(d, s, 256) + addend
      BY <1>4, <2>2, <2>13
    <2> QED BY <2>12, <2>14, <2>15, <2>16, <2>17
  <1> HIDE DEF Holds
  <1>5. 0 \in T /\ \A k \in 0 .. N - 1 : k \in T => k + 1 \in T
    BY <1>2, <1>3, <1>4
  <1> HIDE DEF T
  <1>6. \A k \in 0 .. N : k \in T
    BY <1>2, <1>5, Induction
  <1> QED BY <1>6 DEF T, Holds, R, N

LEMMA ThreeBytes ==
    ASSUME NEW c \in Nat, c < 16777216
    PROVE  /\ c \div 65536 \in Byte /\ (c \div 256) % 256 \in Byte /\ c % 256 \in Byte
           /\ c = 256 * (256 * (c \div 65536) + ((c \div 256) % 256)) + (c % 256)
  <1>1. PICK q, m : q = c \div 256 /\ m = c % 256
    OBVIOUS
  <1>2. q \in Nat /\ m \in 0 .. 255 /\ c = 256 * q + m
    BY <1>1
  <1>3. PICK h, l : h = q \div 256 /\ l = q % 256
    OBVIOUS
  <1>4. h \in Nat /\ l \in 0 .. 255 /\ q = 256 * h + l
    BY <1>2, <1>3
  <1>5. PICK t : t = c \div 65536
    OBVIOUS
  <1>6. t \in Nat /\ 65536 * t <= c /\ c < 65536 * t + 65536
    BY <1>5
  <1>7. h = t /\ h < 256
    BY <1>2, <1>4, <1>6
  <1>8. h \in 0 .. 255
    BY <1>4, <1>7
  <1> QED BY <1>1, <1>2, <1>3, <1>4, <1>5, <1>7, <1>8 DEF Byte

LEMMA ValOfThreeBytes ==
    ASSUME NEW bytes \in Seq(Byte), NEW h \in Byte, NEW l \in Byte, NEW m \in Byte
    PROVE  /\ <<h, l, m>> \o bytes \in Seq(Byte)
           /\ Value(<<h, l, m>> \o bytes, 256) = Val(256 * (256 * h + l) + m, bytes, 256)
  <1>1. PICK u : u = <<h, l, m>> \o bytes
    OBVIOUS
  <1>2. u \in Seq(Byte)
    BY <1>1
  <1>3. /\ Len(u) = 3 + Len(bytes) /\ u[1] = h /\ u[2] = l /\ u[3] = m
        /\ \A i \in 1 .. Len(bytes) : u[3 + i] = bytes[i]
    BY <1>1
  <1>4. PICK t, s : t = SubSeq(u, 2, Len(u)) /\ s = SubSeq(u, 3, Len(u))
    OBVIOUS
  <1>5. t \in Seq(Byte) /\ Len(t) = Len(u) - 1 /\ \A i \in 1 .. Len(u) - 1 : t[i] = u[i + 1]
    BY <1>2, <1>3, <1>4
  <1>6. s \in Seq(Byte) /\ Len(s) = Len(u) - 2 /\ \A i \in 1 .. Len(u) - 2 : s[i] = u[i + 2]
    BY <1>2, <1>3, <1>4
  <1>7. /\ bytes \in Seq(Nat) /\ s \in Seq(Nat) /\ t \in Seq(Nat) /\ u \in Seq(Nat)
        /\ Len(bytes) \in Nat /\ Len(u) \in Nat
    BY <1>2, <1>5, <1>6, BytesType
  <1>8. HasTail(u, t) /\ u[1] = h
    BY <1>3, <1>5, <1>7 DEF HasTail
  <1>9. HasTail(t, s) /\ t[1] = l
    <2>1. Len(t) = Len(s) + 1 /\ t[1] = l
      BY <1>3, <1>5, <1>6, <1>7
    <2>2. ASSUME NEW i \in 1 .. Len(s) PROVE t[i + 1] = s[i]
      <3>1. i + 1 \in 1 .. Len(u) - 1 /\ (i + 1) + 1 = i + 2 /\ i \in 1 .. Len(u) - 2
        BY <1>6, <1>7
      <3> QED BY <1>5, <1>6, <3>1
    <2> QED BY <2>1, <2>2 DEF HasTail
  <1>10. HasTail(s, bytes) /\ s[1] = m
    <2>1. Len(s) = Len(bytes) + 1 /\ s[1] = m
      BY <1>3, <1>6, <1>7
    <2>2. ASSUME NEW i \in 1 .. Len(bytes) PROVE s[i + 1] = bytes[i]
      <3>1. i + 1 \in 1 .. Len(u) - 2 /\ (i + 1) + 2 = 3 + i
        BY <1>3, <1>7
      <3> QED BY <1>3, <1>6, <3>1
    <2> QED BY <2>1, <2>2 DEF HasTail
  <1>11. h \in Nat /\ l \in Nat /\ m \in Nat /\ 256 \in Nat /\ 0 \in Nat /\ 256 * h + l \in Nat
    BY DEF Byte
  <1>12. /\ Shifted(256, 0, h) = h
         /\ Shifted(256, h, l) = 256 * h + l
         /\ Shifted(256, 256 * h + l, m) = 256 * (256 * h + l) + m
    BY <1>11 DEF Shifted
  <1>13. Val(0, u, 256) = Val(h, t, 256)
    BY <1>7, <1>8, <1>11, <1>12, ValOfTail
  <1>14. Val(h, t, 256) = Val(256 * h + l, s, 256)
    BY <1>7, <1>9, <1>11, <1>12, ValOfTail
  <1>15. Val(256 * h + l, s, 256) = Val(256 * (256 * h + l) + m, bytes, 256)
    BY <1>7, <1>10, <1>11, <1>12, ValOfTail
  <1>16. Value(u, 256) = Val(0, u, 256)
    BY <1>7, <1>11, ValueType
  <1> QED BY <1>1, <1>2, <1>13, <1>14, <1>15, <1>16

LEMMA TimesPlusIsProduct ==
    ASSUME NEW factor \in Factors, NEW n \in Seq(Byte), NEW addend \in 0 .. factor - 1
    PROVE  /\ Canonical(TimesPlus(factor, addend)[n], 256)
           /\ Value(TimesPlus(factor, addend)[n], 256) = Shifted(factor, Value(n, 256), addend)
  <1>1. PICK product : product = Products(n, factor, addend)[Len(n)]
    OBVIOUS
  <1>2. PICK c, bytes : c = product.carry /\ bytes = product.bytes
    OBVIOUS
  <1>3. factor \in Nat /\ factor <= 16777216 /\ 256 \in Nat /\ 0 \in Nat
    BY DEF Factors
  <1>4. n \in Seq(Nat) /\ Len(n) \in 0 .. Len(n)
    <2>1. n \in Seq(Nat)
      BY BytesType
    <2> QED BY <2>1
  <1>5. product \in Product(factor)
    <2>1. ProductsOf(Products(n, factor, addend), n, factor, addend)
      BY ProductValues
    <2> QED BY <1>1, <1>4, <2>1 DEF ProductsOf
  <1>6. c \in 0 .. factor - 1 /\ bytes \in Seq(Byte)
    BY <1>2, <1>5 DEF Product
  <1>7. c \in Nat /\ c < 16777216
    BY <1>3, <1>6
  <1>8. \A a \in Nat : Val(factor * a + c, bytes, 256) = factor * Val(a, Suffix(n, Len(n)), 256) + addend
    BY <1>1, <1>2, <1>4, ProductKeepsValue
  <1>9. Suffix(n, Len(n)) = n
    <2>1. Len(n) - Len(n) + 1 = 1 /\ SubSeq(n, 1, Len(n)) = n
      BY <1>4
    <2> QED BY <2>1 DEF Suffix
  <1>10. Val(c, bytes, 256) = factor * Value(n, 256) + addend
    <2>1. factor * 0 + c = c
      BY <1>3, <1>7
    <2>2. Value(n, 256) = Val(0, n, 256)
      BY <1>3, <1>4, ValueType
    <2> QED BY <1>3, <1>8, <1>9, <2>1, <2>2
  <1>11. PICK h, l, m : h = c \div 65536 /\ l = (c \div 256) % 256 /\ m = c % 256
    OBVIOUS
  <1>12. h \in Byte /\ l \in Byte /\ m \in Byte /\ c = 256 * (256 * h + l) + m
    BY <1>7, <1>11, ThreeBytes
  <1>13. PICK t : t = <<h, l, m>> \o bytes
    OBVIOUS
  <1>14. t \in Seq(Byte) /\ Value(t, 256) = Val(c, bytes, 256)
    BY <1>6, <1>12, <1>13, ValOfThreeBytes
  <1>15. TimesPlus(factor, addend)[n] = Significant(t)
    <2> DEFINE Sum(p) ==
                   LET carry == p.carry
                   IN  Significant(<<carry \div 65536, (carry \div 256) % 256, carry % 256>> \o p.bytes)
    <2>1. TimesPlus(factor, addend) = [s \in Seq(Byte) |-> Sum(Products(s, factor, addend)[Len(s)])]
      BY DEF TimesPlus
    <2>2. Sum(product) = Significant(t)
      BY <1>2, <1>11, <1>13
    <2> HIDE DEF Sum
    <2>3. TimesPlus(factor, addend)[n] = Sum(Products(n, factor, addend)[Len(n)])
      BY <2>1
    <2> QED BY <1>1, <2>2, <2>3
  <1>16. Canonical(Significant(t), 256) /\ Value(Significant(t), 256) = Value(t, 256)
    BY <1>14, ByteBase, SignificantBytes
  <1> QED BY <1>10, <1>14, <1>15, <1>16, Zenon DEF Shifted

ReadingsOf(R, digits, radix) ==
    /\ R[0] = <<>>
    /\ \A i \in 1 .. Len(digits) : R[i] = TimesPlus(radix, digits[i])[R[i - 1]]
    /\ \A i \in 0 .. Len(digits) : R[i] \in Seq(Byte)

LEMMA ReadingValues ==
    ASSUME NEW factor \in Factors, NEW digits \in Seq(0 .. factor - 1)
    PROVE  ReadingsOf(Readings(digits, factor), digits, factor)
  <1> DEFINE N == Len(digits)
             S == Seq(Byte)
             Next(x, i) == TimesPlus(factor, digits[i])[x]
             step == [i \in 1 .. N |-> [x \in S |-> Next(x, i)]]
             R == Readings(digits, factor)
             Body(f) == [i \in 0 .. N |-> IF i = 0 THEN <<>> ELSE Next(f[i - 1], i)]
  <1>1. N \in Nat /\ <<>> \in S
    OBVIOUS
  <1>2. ASSUME NEW i \in 1 .. N, NEW x \in S
        PROVE  Next(x, i) \in S
    <2>1. digits[i] \in 0 .. factor - 1
      BY ElementOf
    <2>2. Canonical(Next(x, i), 256)
      BY <2>1, TimesPlusIsProduct
    <2> QED BY <2>2, ByteBase DEF Canonical
  <1>3. step \in [1 .. N -> [S -> S]]
    <2> HIDE DEF S, N, Next
    <2> QED BY <1>2
  <1>4. PICK g \in [0 .. N -> S] : Follows(g, <<>>, N, step)
    <2> HIDE DEF step, N, S
    <2> QED BY <1>1, <1>3, Recursion
  <1>5. g = Body(g)
    <2> HIDE DEF N, S, Next
    <2> SUFFICES ASSUME NEW i \in 1 .. N PROVE g[i] = Next(g[i - 1], i)
      BY <1>1, <1>4 DEF Follows
    <2>1. i - 1 \in 0 .. N
      BY <1>1
    <2> QED BY <1>4, <2>1 DEF Follows
  <1>6. R = Body(R)
    <2>1. R = CHOOSE f : f = Body(f)
      BY DEF Readings
    <2> HIDE DEF R, Body
    <2> QED BY <1>5, <2>1
  <1> HIDE DEF R, N, S, Next
  <1>7. R[0] = <<>> /\ \A i \in 1 .. N : R[i] = Next(R[i - 1], i)
    BY <1>1, <1>6
  <1>8. \A i \in 1 .. N : R[i - 1] \in S => R[i] \in S
    BY <1>2, <1>7
  <1>9. \A i \in 0 .. N : R[i] \in S
    BY <1>1, <1>7, <1>8, Throughout
  <1> QED BY <1>7, <1>9 DEF R, N, S, Next, ReadingsOf

\* Reading digits gives the least bytes of their value.
LEMMA ReadingIsValue ==
    ASSUME NEW factor \in Factors, NEW digits \in Seq(0 .. factor - 1)
    PROVE  LET bytes == Readings(digits, factor)[Len(digits)]
           IN  Canonical(bytes, 256) /\ Value(bytes, 256) = Value(digits, factor)
  <1> DEFINE N == Len(digits)
             R == Readings(digits, factor)
             P == Prefixes(0, digits, factor)
             T == {i \in 0 .. N : Canonical(R[i], 256) /\ Value(R[i], 256) = P[i]}
  <1>1. N \in Nat /\ factor \in Nat /\ digits \in Seq(Nat) /\ 0 \in Nat /\ 256 \in Nat
    <2>1. factor \in Nat
      BY DEF Factors
    <2>2. digits \in Seq(Nat)
      BY <2>1, BytesAreNumbers
    <2> QED BY <2>1, <2>2
  <1>2. ReadingsOf(R, digits, factor)
    BY ReadingValues
  <1>3. PrefixesOf(P, 0, digits, factor)
    BY <1>1, PrefixValues
  <1> HIDE DEF R, P, N
  <1>4. 0 \in T
    <2>1. R[0] = <<>>
      BY <1>2 DEF ReadingsOf
    <2>9. 0 \in 0 .. N
      BY <1>1
    <2>8. P[0] = 0
      BY <1>3 DEF PrefixesOf
    <2>2. Canonical(<<>>, 256)
      BY DEF Canonical
    <2>3. Value(<<>>, 256) = 0
      <3>1. Val(0, <<>>, 256) = 0
        BY <1>1, ValEmpty
      <3> QED BY <3>1 DEF Val, Value
    <2> QED BY <2>1, <2>2, <2>3, <2>8, <2>9
  <1>5. ASSUME NEW m \in 0 .. N - 1, m \in T
        PROVE  m + 1 \in T
    <2>1. m + 1 \in 1 .. N /\ (m + 1) - 1 = m /\ m \in 0 .. N /\ m + 1 \in 0 .. N
      BY <1>1
    <2>2. PICK d : d = digits[m + 1]
      OBVIOUS
    <2>3. d \in 0 .. factor - 1
      BY <2>1, <2>2, ElementOf DEF N
    <2>4. R[m + 1] = TimesPlus(factor, d)[R[m]] /\ R[m] \in Seq(Byte)
      BY <1>2, <2>1, <2>2 DEF ReadingsOf, N
    <2>5. P[m + 1] = Shifted(factor, P[m], d)
      BY <1>3, <2>1, <2>2 DEF PrefixesOf, N
    <2>6. Canonical(R[m + 1], 256) /\ Value(R[m + 1], 256) = Shifted(factor, Value(R[m], 256), d)
      BY <2>3, <2>4, TimesPlusIsProduct
    <2>7. Value(R[m], 256) = P[m]
      BY <1>5
    <2> QED BY <2>1, <2>5, <2>6, <2>7
  <1> HIDE DEF T
  <1>6. \A m \in 0 .. N : m \in T
    BY <1>1, <1>4, <1>5, Induction
  <1>7. N \in T
    BY <1>1, <1>6
  <1> QED BY <1>7 DEF T, R, P, N, Value

-----------------------------------------------------------------------------
(* Texts of digits.                                                        *)

LEMMA BelowIsDigit ==
    ASSUME NEW b \in Nat, NEW d \in Nat, d < b
    PROVE  d \in 0 .. b - 1
  OBVIOUS

LEMMA GroupArithmetic ==
    ASSUME NEW radix \in Radixes, NEW x \in Nat,
           NEW a \in 0 .. radix - 1, NEW b \in 0 .. radix - 1, NEW c \in 0 .. radix - 1
    PROVE  /\ (a * radix + b) * radix + c \in 0 .. radix * radix * radix - 1
           /\ Shifted(radix * radix * radix, x, (a * radix + b) * radix + c) =
                  Shifted(radix, Shifted(radix, Shifted(radix, x, a), b), c)
  <1>1. a \in Nat /\ b \in Nat /\ c \in Nat /\ a < radix /\ b < radix /\ c < radix
    BY DEF Radixes
  <1>2. PICK g, r3 : g = (a * radix + b) * radix + c /\ r3 = radix * radix * radix
    OBVIOUS
  <1>3. /\ g \in Nat /\ r3 \in Nat /\ g < r3
        /\ Shifted(r3, x, g) = Shifted(radix, Shifted(radix, Shifted(radix, x, a), b), c)
    <2>1. radix = 10
      BY DEF Radixes
    <2> USE <1>1, <1>2, <2>1
    <2>2. g = 100 * a + 10 * b + c /\ r3 = 1000
      OBVIOUS
    <2>3. 1000 * x + g = 10 * (10 * (10 * x + a) + b) + c
      BY <2>2
    <2> QED BY <2>2, <2>3 DEF Shifted
  <1>4. g \in 0 .. r3 - 1
    BY <1>3, BelowIsDigit
  <1> QED BY <1>2, <1>3, <1>4

LEMMA GroupedKeepsValue ==
    ASSUME NEW radix \in Radixes, NEW digits \in Seq(0 .. radix - 1)
    PROVE  LET r3 == radix * radix * radix
           IN  /\ r3 \in Factors
               /\ Grouped(digits, radix) \in Seq(0 .. r3 - 1)
               /\ Value(Grouped(digits, radix), r3) = Value(digits, radix)
  <1> DEFINE r3 == radix * radix * radix
             groups == (Len(digits) + 2) \div 3
             zeros == 3 * groups - Len(digits)
             padded == Repeat(0, zeros) \o digits
             Three(i) == (padded[3 * i - 2] * radix + padded[3 * i - 1]) * radix + padded[3 * i]
             G == Grouped(digits, radix)
  <1>1. r3 \in Factors /\ radix \in Nat /\ r3 \in Nat /\ 0 \in Nat /\ 0 \in 0 .. radix - 1
    BY DEF Radixes, Factors
  <1>2. digits \in Seq(Nat) /\ Len(digits) \in Nat
    BY <1>1, BytesAreNumbers
  <1>3. groups \in Nat /\ zeros \in Nat
    BY <1>2
  <1>4. padded \in Seq(0 .. radix - 1) /\ Len(padded) = 3 * groups
    <2> HIDE DEF groups
    <2>1. Repeat(0, zeros) \in Seq(0 .. radix - 1) /\ Len(Repeat(0, zeros)) = zeros
      BY <1>1, <1>3, RepeatType
    <2>2. Len(padded) = zeros + Len(digits)
      BY <2>1
    <2> QED BY <1>2, <1>3, <2>1, <2>2
  <1>5. Value(padded, radix) = Value(digits, radix)
    BY <1>1, <1>2, <1>3, ZerosInFront
  <1>6. G = [i \in 1 .. groups |-> Three(i)]
    BY DEF Grouped
  <1> HIDE DEF groups, zeros, padded, r3, G
  <1>7. ASSUME NEW i \in 1 .. groups
        PROVE  /\ 3 * i - 2 \in 1 .. Len(padded) /\ 3 * i - 1 \in 1 .. Len(padded) /\ 3 * i \in 1 .. Len(padded)
               /\ padded[3 * i - 2] \in 0 .. radix - 1
               /\ padded[3 * i - 1] \in 0 .. radix - 1
               /\ padded[3 * i] \in 0 .. radix - 1
    <2>1. 3 * i - 2 \in 1 .. Len(padded) /\ 3 * i - 1 \in 1 .. Len(padded) /\ 3 * i \in 1 .. Len(padded)
      BY <1>3, <1>4
    <2>2. padded[3 * i - 2] \in 0 .. radix - 1
      BY <1>4, <2>1, ElementOf
    <2>3. padded[3 * i - 1] \in 0 .. radix - 1
      BY <1>4, <2>1, ElementOf
    <2>4. padded[3 * i] \in 0 .. radix - 1
      BY <1>4, <2>1, ElementOf
    <2> QED BY <2>1, <2>2, <2>3, <2>4
  <1>8. \A i \in 1 .. groups : Three(i) \in 0 .. r3 - 1
    BY <1>1, <1>7, GroupArithmetic DEF r3
  <1>9. G \in Seq(0 .. r3 - 1) /\ Len(G) = groups /\ G \in Seq(Nat)
    <2> HIDE DEF Three
    <2>1. G \in Seq(0 .. r3 - 1) /\ Len(G) = groups
      BY <1>3, <1>6, <1>8
    <2>2. G \in Seq(Nat)
      BY <1>1, <2>1, BytesAreNumbers
    <2> QED BY <2>1, <2>2
  <1> DEFINE P == Prefixes(0, padded, radix)
             Q == Prefixes(0, G, r3)
             T == {i \in 0 .. groups : Q[i] = P[3 * i]}
  <1>10. padded \in Seq(Nat)
    BY <1>1, <1>4, BytesAreNumbers
  <1>11. PrefixesOf(P, 0, padded, radix)
    BY <1>1, <1>10, PrefixValues
  <1>12. PrefixesOf(Q, 0, G, r3)
    BY <1>1, <1>9, PrefixValues
  <1> HIDE DEF P, Q
  <1>13. 0 \in T
    <2>1. P[0] = 0
      BY <1>11 DEF PrefixesOf
    <2>2. Q[0] = 0
      BY <1>12 DEF PrefixesOf
    <2>3. 3 * 0 = 0 /\ 0 \in 0 .. groups
      BY <1>3
    <2> QED BY <2>1, <2>2, <2>3
  <1>14. ASSUME NEW m \in 0 .. groups - 1, m \in T
         PROVE  m + 1 \in T
    <2>1. PICK i : i = m + 1
      OBVIOUS
    <2>2. /\ i \in 1 .. groups /\ i - 1 = m /\ i \in 0 .. groups
          /\ (3 * i - 2) - 1 = 3 * m /\ (3 * i - 1) - 1 = 3 * i - 2 /\ (3 * i) - 1 = 3 * i - 1
          /\ 3 * m \in 0 .. Len(padded)
      BY <1>3, <1>4, <2>1
    <2>3. PICK a, b, c : a = padded[3 * i - 2] /\ b = padded[3 * i - 1] /\ c = padded[3 * i]
      OBVIOUS
    <2>4. a \in 0 .. radix - 1 /\ b \in 0 .. radix - 1 /\ c \in 0 .. radix - 1
      BY <1>7, <2>2, <2>3
    <2>5. P[3 * i - 2] = Shifted(radix, P[3 * m], a)
      BY <1>7, <1>11, <2>2, <2>3 DEF PrefixesOf
    <2>6. P[3 * i - 1] = Shifted(radix, P[3 * i - 2], b)
      BY <1>7, <1>11, <2>2, <2>3 DEF PrefixesOf
    <2>7. P[3 * i] = Shifted(radix, P[3 * i - 1], c)
      BY <1>7, <1>11, <2>2, <2>3 DEF PrefixesOf
    <2>8. Q[i] = Shifted(r3, Q[m], G[i])
      BY <1>9, <1>12, <2>2 DEF PrefixesOf
    <2>9. G[i] = (a * radix + b) * radix + c
      BY <1>6, <2>2, <2>3
    <2>10. PICK x : x = P[3 * m]
      OBVIOUS
    <2>11. x \in Nat /\ Q[m] = x
      <3>1. x \in Nat
        BY <1>11, <2>2, <2>10 DEF PrefixesOf
      <3>2. Q[m] = x
        BY <1>14, <2>10
      <3> QED BY <3>1, <3>2
    <2>12. Shifted(r3, x, (a * radix + b) * radix + c) =
               Shifted(radix, Shifted(radix, Shifted(radix, x, a), b), c)
      BY <2>4, <2>11, GroupArithmetic DEF r3
    <2>13. Q[i] = P[3 * i]
      BY <2>5, <2>6, <2>7, <2>8, <2>9, <2>10, <2>11, <2>12
    <2> QED BY <2>1, <2>2, <2>13
  <1> HIDE DEF T
  <1>15. \A m \in 0 .. groups : m \in T
    BY <1>3, <1>13, <1>14, Induction
  <1>16. Q[groups] = P[3 * groups]
    <2>1. groups \in T
      BY <1>3, <1>15
    <2> QED BY <2>1 DEF T
  <1>17. Value(G, r3) = Value(padded, radix)
    BY <1>4, <1>9, <1>16 DEF Value, P, Q
  <1> QED BY <1>1, <1>5, <1>9, <1>17 DEF r3, G

\* An alphabet has a character for each digit.
Alphabet(alphabet, radix) ==
    /\ Len(alphabet) = radix
    /\ \A i \in 1 .. radix, j \in 1 .. radix : alphabet[i] = alphabet[j] => i = j

\* What NumberRead gives for a text of digits is the least bytes of their
\* value.
LEMMA ReadsWhatIsWritten ==
    ASSUME NEW radix \in Radixes, NEW alphabet, Alphabet(alphabet, radix),
           NEW digits \in Seq(0 .. radix - 1)
    PROVE  LET bytes == NumberRead(Written(digits, alphabet), alphabet)
           IN  Canonical(bytes, 256) /\ Value(bytes, 256) = Value(digits, radix)
  <1>1. PICK text : text = Written(digits, alphabet)
    OBVIOUS
  <1>2. Len(text) = Len(digits) /\ \A i \in 1 .. Len(digits) : text[i] = alphabet[digits[i] + 1]
    BY <1>1 DEF Written
  <1>3. \A i \in 1 .. Len(text) : Worth(text[i], alphabet) = digits[i]
    <2> SUFFICES ASSUME NEW i \in 1 .. Len(text)
                 PROVE  Worth(text[i], alphabet) = digits[i]
      OBVIOUS
    <2>1. digits[i] \in 0 .. radix - 1
      BY <1>2, ElementOf
    <2>2. digits[i] + 1 \in 1 .. radix
      BY <2>1 DEF Radixes
    <2>3. text[i] = alphabet[digits[i] + 1]
      BY <1>2
    <2>4. (CHOOSE j \in 1 .. Len(alphabet) : alphabet[j] = text[i]) = digits[i] + 1
      BY <2>2, <2>3 DEF Alphabet
    <2>5. Worth(text[i], alphabet) = (digits[i] + 1) - 1
      BY <2>4, Zenon DEF Worth
    <2>6. PICK d : d = digits[i]
      OBVIOUS
    <2>7. (d + 1) - 1 = d
      BY <2>1, <2>6
    <2> QED BY <2>5, <2>6, <2>7
  <1>4. [i \in 1 .. Len(text) |-> Worth(text[i], alphabet)] = digits
    BY <1>2, <1>3
  <1>5. PICK G, r3 : G = Grouped(digits, radix) /\ r3 = radix * radix * radix
    OBVIOUS
  <1>6. r3 \in Factors /\ G \in Seq(0 .. r3 - 1) /\ Value(G, r3) = Value(digits, radix)
    BY <1>5, GroupedKeepsValue
  <1>7. Canonical(Readings(G, r3)[Len(G)], 256) /\ Value(Readings(G, r3)[Len(G)], 256) = Value(G, r3)
    BY <1>6, ReadingIsValue
  <1>8. NumberRead(text, alphabet) = Readings(G, r3)[Len(G)]
    BY <1>4, <1>5 DEF NumberRead, Alphabet
  <1> QED BY <1>1, <1>6, <1>7, <1>8
=============================================================================
