------------------------------- MODULE Numerals -------------------------------
(***************************************************************************)
(* Numbers as the printers have them: the sequence of the bytes, or of     *)
(* wider limbs, most significant first, and the sequence of the digits     *)
(* that long division makes of it (src/lib/util.h, src/lib/printer.c).     *)
(***************************************************************************)
EXTENDS Integers, Sequences

Byte == 0 .. 255

Repeat(x, n) == [i \in 1 .. n |-> x]

AllZeroes(n) == \A i \in DOMAIN n : n[i] = 0

\* The value of each prefix of s in the base, after a number that stands for v.
Prefixes(v, s, base) ==
    LET value[i \in 0 .. Len(s)] == IF i = 0 THEN v ELSE base * value[i - 1] + s[i]
    IN  value

Value(s, base) == Prefixes(0, s, base)[Len(s)]

-----------------------------------------------------------------------------
(* Digits by long division.                                                *)

\* n / radix and n % radix, limb by limb.
Division(n, base, radix) ==
    LET division[i \in 0 .. Len(n)] ==
            IF i = 0 THEN [quotient |-> <<>>, remainder |-> 0]
            ELSE LET above == division[i - 1]
                     limb == above.remainder * base + n[i]
                 IN  [quotient |-> Append(above.quotient, limb \div radix),
                      remainder |-> limb % radix]
    IN  division

DivMod(n, base, radix) == Division(n, base, radix)[Len(n)]

\* One pass of a loop that divides until nothing is left.
Divide(base, radix) ==
    [s \in [left: Seq(Nat), digits: Seq(Nat)] |->
        IF AllZeroes(s.left) THEN s
        ELSE LET d == DivMod(s.left, base, radix)
             IN  [left |-> d.quotient, digits |-> <<d.remainder>> \o s.digits]]

\* A limb makes at most five digits.
Passes(n, base, radix) ==
    LET pass[k \in 0 .. 5 * Len(n)] ==
            IF k = 0 THEN [left |-> n, digits |-> <<>>] ELSE Divide(base, radix)[pass[k - 1]]
    IN  pass

Digits(n, base, radix) == Passes(n, base, radix)[5 * Len(n)].digits

\* Digits as the characters of an alphabet.
Written(digits, alphabet) == [i \in 1 .. Len(digits) |-> alphabet[digits[i] + 1]]

-----------------------------------------------------------------------------
(* What a text of digits says, without the code above: the number is read  *)
(* from left to right, so many times what is before it plus the next       *)
(* digits, three of which are taken at a time.                             *)

\* How many zeros come first.
Leading(n) ==
    CHOOSE i \in 0 .. Len(n) : /\ \A j \in 1 .. i : n[j] = 0
                               /\ i < Len(n) => n[i + 1] # 0

\* Without the zeros in front.
Significant(n) == SubSeq(n, Leading(n) + 1, Len(n))

\* n * factor + addend in bytes, from the last byte on.
Products(n, factor, addend) ==
    LET product[k \in 0 .. Len(n)] ==
            IF k = 0 THEN [bytes |-> <<>>, carry |-> addend]
            ELSE LET below == product[k - 1]
                     limb == below.carry + factor * n[Len(n) + 1 - k]
                 IN  [bytes |-> <<limb % 256>> \o below.bytes, carry |-> limb \div 256]
    IN  product

\* Its least bytes, for a factor of at most three bytes.
TimesPlus(factor, addend) ==
    [n \in Seq(Byte) |->
        LET product == Products(n, factor, addend)[Len(n)]
            carry == product.carry
        IN  Significant(<<carry \div 65536, (carry \div 256) % 256, carry % 256>>
                            \o product.bytes)]

\* The least bytes of each prefix of the digits.
Readings(digits, radix) ==
    LET reading[i \in 0 .. Len(digits)] ==
            IF i = 0 THEN <<>> ELSE TimesPlus(radix, digits[i])[reading[i - 1]]
    IN  reading

\* Three digits as one.
Grouped(digits, radix) ==
    LET groups == (Len(digits) + 2) \div 3
        padded == Repeat(0, 3 * groups - Len(digits)) \o digits
    IN  [i \in 1 .. groups |->
            (padded[3 * i - 2] * radix + padded[3 * i - 1]) * radix + padded[3 * i]]

Worth(character, alphabet) ==
    (CHOOSE i \in 1 .. Len(alphabet) : alphabet[i] = character) - 1

\* The least bytes of the number that a text denotes.
NumberRead(text, alphabet) ==
    LET radix == Len(alphabet)
        digits == Grouped([i \in 1 .. Len(text) |-> Worth(text[i], alphabet)], radix)
    IN  Readings(digits, radix * radix * radix)[Len(digits)]

\* a < b, for numbers without zeros in front.
Below(a, b) ==
    \/ Len(a) < Len(b)
    \/ /\ Len(a) = Len(b)
       /\ \E i \in DOMAIN a : a[i] < b[i] /\ \A j \in 1 .. i - 1 : a[j] = b[j]
=============================================================================
