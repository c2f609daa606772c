------------------------------- MODULE Printing -------------------------------
(***************************************************************************)
(* From the items of a summary to the text on the display:                 *)
(* transaction_summary_display_item prints an item into one static buffer  *)
(* and its title into another (src/lib/transaction_summary.c), with the    *)
(* printers of src/lib/printer.c and the conversions of src/lib/util.h.    *)
(* A text is a sequence of characters, a number the sequence of its bytes  *)
(* as it stands in txContent.                                              *)
(***************************************************************************)
EXTENDS Integers, Sequences, Numerals

CONSTANTS
    Items,       \* the items of the summaries: [kind, value]
    MaxDisplays  \* bound: items displayed between two resets

VARIABLES
    text,      \* G_transaction_summary_text
    title,     \* G_transaction_summary_title: the item it is the title of
    asked,     \* the item that step_index names
    rc,        \* what transaction_summary_display_item returned
    displays   \* displays since the reset

printingVars == <<text, title, asked, rc, displays>>

ASSUME MaxDisplaysAssumption == MaxDisplays \in Nat

-----------------------------------------------------------------------------
TEXT_BUFFER_LENGTH == 50
BASE58_PUBKEY_LENGTH == 45
INT256_LENGTH == 32
DECIMALS == 18
SYMBOL == <<"K", "L", "A", "Y">>

Nul == "nul"
NoTitle == [kind |-> "none", value |-> <<>>]

\* The kinds of item that a summary is made of: an integer as txContent has it,
\* a uint64_t (convertUint256ToUint64 made it, AppSession), an amount of 64 bits,
\* an address, and a string with its length.
ASSUME ItemsAssumption ==
    \A item \in Items :
        \/ /\ item.kind \in {"token", "u64", "amount", "pubkey"}
           /\ item.value \in Seq(Byte)
           /\ Len(item.value) <= INT256_LENGTH
           /\ item.kind \in {"u64", "amount"} => Len(item.value) <= 8
           /\ item.kind = "pubkey" => Len(item.value) = 20
        \/ /\ item.kind = "sized"
           /\ item.value \in Seq(STRING)
           /\ \A i \in DOMAIN item.value : item.value[i] # Nul

Decimals == <<"0", "1", "2", "3", "4", "5", "6", "7", "8", "9">>
hexDigits == Decimals \o <<"A", "B", "C", "D", "E", "F">>
\* A C string: what stands before the terminator.
CString(buffer) ==
    LET stops == {i \in DOMAIN buffer : buffer[i] = Nul}
    IN  IF stops = {} THEN buffer
        ELSE SubSeq(buffer, 1, (CHOOSE i \in stops : \A j \in stops : i <= j) - 1)

Overwrite(buffer, s) == [i \in DOMAIN buffer |-> IF i <= Len(s) THEN s[i] ELSE buffer[i]]

-----------------------------------------------------------------------------
(* The digits of a number.                                                 *)

\* Right-aligned in 32 bytes and read as 16 limbs of 16 bits.
Limbs(value) ==
    LET n == Repeat(0, INT256_LENGTH - Len(value)) \o value
    IN  [i \in 1 .. 16 |-> n[2 * i - 1] * 256 + n[2 * i]]

\* No more than 78 digits: out, of 100 bytes, is never full.
uint256_to_decimal(value) ==
    IF AllZeroes(value) THEN <<"0">> ELSE Written(Digits(Limbs(value), 65536, 10), Decimals)

U64Digits(u64) ==
    IF AllZeroes(u64) THEN <<"0">> ELSE Written(Digits(u64, 256, 10), Decimals)

-----------------------------------------------------------------------------
(* adjustDecimals and amountToString.                                      *)

\* Mutant: the text is cut at the first zero, not at the zeros that end it.
MutantStrip(t, start) ==
    LET zeros == {i \in start .. Len(t) : t[i] = "0"}
    IN  IF zeros = {} THEN t ELSE SubSeq(t, 1, (CHOOSE i \in zeros : \A j \in zeros : i <= j) - 1)

\* The zeros at the end of the decimals go, then a point at the end.
Strip(t, start) ==
    LET last == CHOOSE i \in start - 1 .. Len(t) : /\ \A j \in i + 1 .. Len(t) : t[j] = "0"
                                                   /\ i = start - 1 \/ t[i] # "0"
    IN  SubSeq(t, 1, IF last < Len(t) /\ t[last] = "." THEN last - 1 ELSE last)

\* Mutant: the terminator is forgotten.
MutantFits(src, length) ==
    IF src = <<"0">> THEN length >= 2
    ELSE IF Len(src) <= DECIMALS THEN length >= DECIMALS + 3
    ELSE length >= Len(src) + 1

\* The space that adjustDecimals asks for.
Fits(src, length) ==
    IF src = <<"0">> THEN length >= 2
    ELSE IF Len(src) <= DECIMALS THEN length >= DECIMALS + 3
    ELSE length >= Len(src) + 2

adjustDecimals(src) ==
    IF src = <<"0">> THEN src
    ELSE IF Len(src) <= DECIMALS
    THEN LET zeros == Repeat("0", DECIMALS - Len(src))
         IN  Strip(<<"0", ".">> \o zeros \o src, 3 + Len(zeros))
    ELSE LET delta == Len(src) - DECIMALS
         IN  Strip(SubSeq(src, 1, delta) \o <<".">> \o SubSeq(src, delta + 1, Len(src)), delta + 2)

\* print_token_amount_256, by way of its buffer temp: the ticker, a space and
\* the number in what remains of the text buffer.
TokenFits(value) ==
    Fits(uint256_to_decimal(value), TEXT_BUFFER_LENGTH - (Len(SYMBOL) + 1) - 1)
TokenText(value) == SYMBOL \o <<" ">> \o adjustDecimals(uint256_to_decimal(value))

-----------------------------------------------------------------------------
(* The printers: the buffer they leave.                                    *)

\* print_token_amount makes at least one digit before the point.
PointedDigits(u64) ==
    LET digits == U64Digits(u64)
        padded == Repeat("0", DECIMALS + 1 - Len(digits)) \o digits
        whole == Len(padded) - DECIMALS
    IN  SubSeq(padded, 1, whole) \o <<".">> \o SubSeq(padded, whole + 1, Len(padded))

\* The zeros at the end go, then a point.
WithoutZeros(t) ==
    LET last == CHOOSE i \in 1 .. Len(t) : /\ \A j \in i + 1 .. Len(t) : t[j] = "0"
                                           /\ i = 1 \/ t[i] # "0"
    IN  SubSeq(t, 1, IF t[last] = "." THEN last - 1 ELSE last)

\* print_amount: the symbol comes over what went.
print_amount(u64, out) ==
    LET t == PointedDigits(u64)
    IN  Overwrite(Overwrite(out, t), WithoutZeros(t) \o <<" ">> \o SYMBOL \o <<Nul>>)

print_u64(u64, out) == Overwrite(out, U64Digits(u64) \o <<Nul>>)

print_pubkey(address, out) ==
    Overwrite(out, [i \in 1 .. 2 * Len(address) |->
                       LET byte == address[(i + 1) \div 2]
                       IN  hexDigits[1 + (IF i % 2 = 1 THEN byte \div 16 ELSE byte % 16)]]
                   \o <<Nul>>)

\* Mutant: the last character may be one of the string, the terminator falls
\* beyond the buffer.
MutantSizedString(string, out) ==
    IF Len(string) <= Len(out) THEN Overwrite(out, string \o <<Nul>>)
    ELSE SubSeq(string, 1, Len(out) - 2) \o <<"~", Nul>>

\* The text beyond the terminator stays; a string too long ends with a mark.
print_sized_string(string, out) ==
    IF Len(string) < Len(out) THEN Overwrite(out, string \o <<Nul>>)
    ELSE SubSeq(string, 1, Len(out) - 2) \o <<"~", Nul>>

-----------------------------------------------------------------------------
\* transaction_summary_update_display_for_item fails for an amount only.
Fails(item) == item.kind = "token" /\ ~TokenFits(item.value)

Printed(item, out) ==
    CASE item.kind = "token" -> print_sized_string(TokenText(item.value), out)
      [] item.kind = "u64" -> print_u64(item.value, out)
      [] item.kind = "amount" -> print_amount(item.value, out)
      [] item.kind = "pubkey" -> print_pubkey(item.value, out)
      [] item.kind = "sized" -> print_sized_string(item.value, out)

\* transaction_summary_display_item: a failure comes before the title.
DisplayItem(item) ==
    /\ displays < MaxDisplays
    /\ displays' = displays + 1
    /\ asked' = item
    /\ IF Fails(item)
       THEN rc' = 1 /\ UNCHANGED <<text, title>>
       ELSE rc' = 0 /\ text' = Printed(item, text) /\ title' = item

transaction_summary_reset ==
    /\ text' = Repeat(Nul, TEXT_BUFFER_LENGTH)
    /\ title' = NoTitle
    /\ displays' = 0
    /\ asked' = NoTitle
    /\ rc' = 0

Init ==
    /\ text = Repeat(Nul, TEXT_BUFFER_LENGTH)
    /\ title = NoTitle
    /\ asked = NoTitle
    /\ rc = 0
    /\ displays = 0

Next ==
    \/ \E item \in Items : DisplayItem(item)
    \/ transaction_summary_reset

Spec == Init /\ [][Next]_printingVars

-----------------------------------------------------------------------------
(* What a text says, read without the code above.                          *)

\* The digits of a number with at most 18 decimals, scaled to a whole number.
Scaled(number) ==
    LET points == {i \in DOMAIN number : number[i] = "."}
        point == IF points = {} THEN Len(number) + 1 ELSE CHOOSE i \in points : TRUE
        decimals == SubSeq(number, point + 1, Len(number))
    IN  SubSeq(number, 1, point - 1) \o decimals \o Repeat("0", DECIMALS - Len(decimals))

DenotesToken(shown, value) ==
    /\ SubSeq(shown, 1, 5) = SYMBOL \o <<" ">>
    /\ NumberRead(Scaled(SubSeq(shown, 6, Len(shown))), Decimals) = Significant(value)

DenotesAmount(shown, value) ==
    /\ SubSeq(shown, Len(shown) - 4, Len(shown)) = <<" ">> \o SYMBOL
    /\ NumberRead(Scaled(SubSeq(shown, 1, Len(shown) - 5)), Decimals) = Significant(value)

DenotesU64(shown, value) == NumberRead(shown, Decimals) = Significant(value)

DenotesPubkey(shown, value) ==
    /\ Len(shown) = 2 * Len(value)
    /\ \A i \in DOMAIN value :
          \E hi, lo \in 0 .. 15 : /\ value[i] = 16 * hi + lo
                                  /\ shown[2 * i - 1] = hexDigits[hi + 1]
                                  /\ shown[2 * i] = hexDigits[lo + 1]

DenotesString(shown, value) ==
    \/ shown = value
    \/ /\ Len(value) >= TEXT_BUFFER_LENGTH
       /\ shown = Append(SubSeq(value, 1, TEXT_BUFFER_LENGTH - 2), "~")

Denotes(shown, item) ==
    CASE item.kind = "token" -> DenotesToken(shown, item.value)
      [] item.kind = "amount" -> DenotesAmount(shown, item.value)
      [] item.kind = "u64" -> DenotesU64(shown, item.value)
      [] item.kind = "pubkey" -> DenotesPubkey(shown, item.value)
      [] item.kind = "sized" -> DenotesString(shown, item.value)
      [] item.kind = "none" -> shown = <<>>

\* The text under a title is that item's value, exactly and entirely, or a
\* string marked as cut off: not a digit is lost when a number is scaled and
\* its zeros are stripped (util.h:104), the text before leaves nothing
\* behind in the buffer both share, and an item that fails changes neither
\* text nor title.  The value of an item of 64 bits is what the item holds;
\* whether that is the transaction's number is a question of the summary
\* (SignedNumbersReviewed of AppSession).
TextIsOfTitle == Denotes(CString(text), title)

\* A text ends within its buffer, and fits the narrower one that print_amount
\* is told of.
TextEnds ==
    /\ Len(text) = TEXT_BUFFER_LENGTH
    /\ Len(CString(text)) < TEXT_BUFFER_LENGTH
    /\ title.kind = "amount" => Len(CString(text)) < BASE58_PUBKEY_LENGTH

\* Ten to the power of 42, the least amount with 43 digits.
Widest == NumberRead(<<"1">> \o Repeat("0", 42), Decimals)

\* An amount fails to print from 10^42 on, whatever it is made of, and nothing
\* else ever fails: a review is refused for the size of the amount alone.
OnlyWideAmountsFail ==
    rc = 1 <=> asked.kind = "token" /\ ~Below(Significant(asked.value), Widest)
=============================================================================
