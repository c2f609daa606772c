------------------------------- MODULE TxFields -------------------------------
(***************************************************************************)
(* What the parser promises the rest of the application: the types of a    *)
(* transaction and the fields that one it finished always determines.      *)
(* TxParser shows it of processTx; AppSession assumes it of the parser's   *)
(* results.                                                                *)
(***************************************************************************)

Types == {"Legacy", "ValueTransfer", "ValueTransferMemo", "SmartContractDeploy",
          "SmartContractExecution", "Cancel"}

Numbers == {"nonce", "gasprice", "startgas"}

\* The recipient and the ratio are stored as far as they go: they may be
\* shorter than their place in txContent.  A legacy transaction from before
\* EIP-155 has no chain id.
Determined(type) ==
    Numbers
        \cup (IF type = "Cancel" THEN {} ELSE {"value"})
        \cup (IF type = "Legacy" THEN {} ELSE {"chainID"})
=============================================================================
