------------------------------- MODULE MCDevice -------------------------------
(* One transaction, one configuration request, and the whole menu.         *)
EXTENDS Device, TLC

PathA == <<44, 8217>>

ToValue ==
    [len |-> 74, lc |-> 69, cla |-> TRUE, ins |-> "SignValueTransfer", p1 |-> 0,
     extend |-> FALSE, more |-> FALSE, path |-> PathA, prefix |-> 0, content |-> 1]

Configuration ==
    [len |-> 5, lc |-> 0, cla |-> TRUE, ins |-> "GetAppConfiguration", p1 |-> 0,
     extend |-> FALSE, more |-> FALSE, path |-> <<>>, prefix |-> 0, content |-> 9]

MCApdus == {ToValue, Configuration}

\* The transaction is complete, without a ratio.
MCParsed ==
    [c \in Contents |->
        [finished |-> c = 1,
         writes |-> IF c = 1 THEN (ContentFields \cup {"chainID"}) \ {"ratio"} ELSE {},
         size |-> [f \in Numbers |-> 4],
         wideValue |-> FALSE]]

MCExceptions == {65413}
=============================================================================
