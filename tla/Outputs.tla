-------------------------------- MODULE Outputs --------------------------------
(***************************************************************************)
(* The two outputs of a review, one after the other: the texts of its      *)
(* items on the display (Printing) and the signature in the answer         *)
(* (SignatureOut).  The request comes with a reset of the summary.         *)
(***************************************************************************)
EXTENDS Printing, SignatureOut

outputVars == <<printingVars, signatureVars>>

OutputInit == Init /\ SignatureInit

Show(item) == DisplayItem(item) /\ UNCHANGED signatureVars

\* send_result_sign_message counts as a display for the bound.
Approve(x) ==
    /\ displays < MaxDisplays
    /\ displays' = displays + 1
    /\ set_result_sign_message(x)
    /\ UNCHANGED <<text, title, asked, rc>>

NextRequest == transaction_summary_reset /\ ReceiveRequest

OutputNext ==
    \/ \E item \in Items : Show(item)
    \/ \E x \in Signatures : Approve(x)
    \/ NextRequest

OutputSpec == OutputInit /\ [][OutputNext]_outputVars
=============================================================================
