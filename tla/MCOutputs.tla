------------------------------- MODULE MCOutputs -------------------------------
(* Numbers at the boundaries of the printers, texts of every length, and    *)
(* signatures whose numbers have every form in DER.                        *)
EXTENDS Outputs

Zeros(n) == Repeat("0", n)
Nines(n) == Repeat("9", n)
Ones(n) == Repeat("1", n)

\* Numbers as their decimal digits: a single digit, with zeros at either end
\* of the point, one short of a power of ten, and up to 77 digits.
DecimalNumbers ==
    {<<"1">> \o Zeros(n) : n \in {0, 1, 17, 18, 19, 20, 41, 42, 76}}
        \cup {Nines(n) : n \in {1, 17, 18, 19, 42, 43}}
        \cup {<<"1">> \o Zeros(n) \o <<"5">> : n \in {0, 15, 17, 18, 40}}
        \cup {<<"2", "0", "3">> \o Zeros(n) : n \in {5, 16, 18}}

\* With the most bytes an integer of a transaction may have.
Values ==
    {NumberRead(d, Decimals) : d \in DecimalNumbers}
        \cup {<<>>, <<0>>, <<0, 0, 7>>, Repeat(255, 32), <<1>> \o Repeat(0, 31)}

U64s ==
    {<<>>, <<0>>, <<10>>, <<100>>, <<0, 0, 255>>, <<1, 0>>, <<3, 232>>, Repeat(255, 8),
     <<13, 224, 182, 179, 167, 100, 0, 0>>}

Letters(n) == [i \in 1 .. n |-> <<"a", "b", "c">>[1 + (i % 3)]]

MCItems ==
    [kind: {"token"}, value: Values]
        \cup [kind: {"u64", "amount"}, value: U64s]
        \cup [kind: {"pubkey"}, value: {Repeat(0, 20), [i \in 1 .. 20 |-> 13 * i - 5]}]
        \cup [kind: {"sized"}, value: {Letters(n) : n \in {0, 1, 30, 48, 49, 50, 60}}]

\* A request that fills the buffer, and one that leaves it clear.
MCApdus == {[i \in 1 .. 65 |-> 238], [i \in 1 .. 65 |-> 0]}

\* The longest and the shortest numbers, with and without their first bit.
Scalars == {[i \in 1 .. n |-> IF i = 1 THEN first ELSE i] : n \in {1, 2, 31, 32}, first \in {1, 127, 128, 255}}

\* The ids of the networks 1001 and 8217, and ids of every length.
ChainIds ==
    {<<>>, <<0>>, <<1>>, <<109>>, <<110>>, <<255>>, <<3, 233>>, <<32, 25>>, <<0, 0, 32, 25>>,
     <<1, 2, 3, 4>>, <<1, 2, 3, 4, 5>>, [i \in 1 .. 32 |-> i]}

MCSignatures ==
    [r: Scalars, s: {<<1>>, [i \in 1 .. 32 |-> 255]}, chainID: {<<32, 25>>}, odd: {TRUE}, xGTn: {FALSE}]
        \cup [r: {<<200>>}, s: Scalars, chainID: {<<>>}, odd: {FALSE}, xGTn: {TRUE}]
        \cup [r: {<<7>>}, s: {<<7, 7>>}, chainID: ChainIds, odd: BOOLEAN, xGTn: BOOLEAN]
=============================================================================
