----------------------- MODULE SignerRefinement_proofs -----------------------
(***************************************************************************)
(* The session implements what its user is promised (TxSigner), for any    *)
(* APDUs, any parser and any exceptions; and the numbers of a signed       *)
(* transaction were on the display, as far as 64 bits hold them.           *)
(***************************************************************************)
EXTENDS AppSession_proofs

\* A pending review at its approval has displayed every item.
LEMMA ApprovalIsReviewed ==
    ASSUME SessionInv, pending, ApproveTransaction
    PROVE  ReviewComplete
  <1>1. screen.kind = "sign" /\ screen.index = Len(summary) + 1
    BY DEF ApproveTransaction, AtApprove, ApproveStep, ItemSteps
  <1>2. \A i \in DOMAIN summary : i <= screen.index
    BY <1>1 DEF SessionInv, SessionTypeOK
  <1> QED BY <1>1, <1>2 DEF SessionInv, ReviewOfTransaction, ReviewComplete

\* A number of at most eight bytes is displayed whole.
LEMMA ShortIsWhole ==
    ASSUME NEW f, NEW c \in Contents, f \in Numbers => Parsed[c].size[f] <= 8
    PROVE  ShownWhole(f, c)
  <1>1. f \in Numbers => Parsed[c].size[f] \in Nat
    BY ContentTypes DEF ParseResult
  <1> QED BY <1>1 DEF ShownWhole, convertUint256ToUint64

\* The nonce, the gas price and the gas, of at most eight bytes, and the
\* amount of a transfer, of any size, were shown as the signed transaction
\* has them.
THEOREM SignedNumbersWereReviewed == SafeSpec => SignedNumbersReviewed
  <1> DEFINE short(f) == f \in Numbers => Parsed[screen.tx].size[f] <= 8
             shown(f) == \E s \in screen.shown : s.field = f /\ s.source = screen.tx /\ s.whole
             numbersShown == \A f \in NumbersShown(command.instruction) : short(f) => shown(f)
  <1>1. SessionInv /\ [SessionNext]_sessionVars
          => [(SignatureSent /\ Parsed[screen.tx].finished) => numbersShown]_sessionVars
    <2> SUFFICES ASSUME SessionInv, [SessionNext]_sessionVars, SignatureSent,
                        Parsed[screen.tx].finished, NEW f \in NumbersShown(command.instruction),
                        short(f)
                 PROVE  shown(f)
      OBVIOUS
    <2>1. pending /\ ApproveTransaction
      BY DataIsApproved DEF SignatureSent
    <2>2. ReviewOfTransaction /\ ReviewComplete /\ screen.kind = "sign"
      BY <2>1, ApprovalIsReviewed DEF SessionInv, ApproveTransaction, AtApprove
    <2>3. PICK i \in DOMAIN summary : summary[i].field = f
      BY <2>1, <2>2 DEF ReviewOfTransaction
    <2>4. PICK s \in screen.shown : s.index = i
      BY <2>2 DEF ReviewComplete
    <2>5. s.field = f /\ f \in Parsed[screen.tx].writes
      BY <2>1, <2>2, <2>3, <2>4 DEF ReviewOfTransaction
    <2>6. f \in ContentFields
      BY DEF NumbersShown, Numbers, ContentFields
    <2>7. s.source = txContent[f] /\ txContent[f] = screen.tx
      BY <2>1, <2>2, <2>4, <2>5, <2>6 DEF ReviewOfTransaction
    <2>8. s.whole
      <3>1. s.whole = ShownWhole(f, screen.tx)
        BY <2>1, <2>2, <2>4, <2>5, <2>7 DEF ReviewOfTransaction
      <3>2. screen.tx \in Contents
        BY DEF SessionInv, SessionTypeOK, Screen
      <3> QED BY <3>1, <3>2, ShortIsWhole
    <2> QED BY <2>4, <2>5, <2>7, <2>8
  <1> QED BY <1>1, SessionInvariant, PTL DEF SafeSpec, SignedNumbersReviewed

-----------------------------------------------------------------------------
(* How an answer of the session reads as a response of the signer.         *)

LEMMA StatusWordIsNotZero ==
    ASSUME NEW e \in 0 .. UINT16_MAX
    PROVE  StatusWord(e) # 0
  <1>1. e \in Nat
    BY WordSize
  <1>2. e % 2048 \in Nat
    BY <1>1
  <1>3. CASE e = 0
    <2>1. 0 \div 4096 = 0
      OBVIOUS
    <2>2. StatusWord(e) = 26624 + (e % 2048)
      BY <1>3, <2>1 DEF StatusWord
    <2> QED BY <1>2, <2>2
  <1>4. CASE e # 0
    <2>1. StatusWord(e) = e \/ StatusWord(e) = 26624 + (e % 2048)
      BY DEF StatusWord
    <2> QED BY <1>2, <1>4, <2>1
  <1> QED BY <1>3, <1>4

\* The status words of the answers are none of them the 0 of no answer.
LEMMA StatusWordsAreNotZero ==
    /\ \A e \in Exceptions : StatusWord(e) # 0
    /\ \A r \in Errors : StatusWord(ErrorCode[r]) # 0
    /\ StatusWord(SummaryUpdateFailed) # 0
    /\ 0 \notin {Success, Rejected, NoApduReceived, UnimplementedInstruction}
  <1>1. \A e \in Exceptions : e \in 0 .. UINT16_MAX
    BY ExceptionsAssumption
  <1>2. \A r \in Errors : ErrorCode[r] \in 0 .. UINT16_MAX
    <2>1. /\ ErrorCode["SdkInvalidParameter"] = 26626 /\ ErrorCode["InvalidMessage"] = 27264
          /\ ErrorCode["InvalidMessageHeader"] = 27265 /\ ErrorCode["InvalidMessageSize"] = 27267
          /\ ErrorCode["UnimplementedInstruction"] = 27904
      BY DEF ErrorCode, UnimplementedInstruction
    <2> QED BY <2>1, WordSize DEF Errors
  <1>3. SummaryUpdateFailed \in 0 .. UINT16_MAX
    BY WordSize DEF SummaryUpdateFailed
  <1>4. 0 \notin {Success, Rejected, NoApduReceived, UnimplementedInstruction}
    BY DEF Success, Rejected, NoApduReceived, UnimplementedInstruction
  <1> QED BY <1>1, <1>2, <1>3, <1>4, StatusWordIsNotZero

LEMMA RefusalOf ==
    ASSUME NEW sw, sw # 0, NEW kind \in {"none", "configuration"},
           Reply(sw, [Nothing EXCEPT !.kind = kind])
    PROVE  SignerResponse' = Signer!Refusal
  <1>1. answer' # NoAnswer
    BY DEF Reply, NoAnswer
  <1>2. answer'.data.kind = kind /\ answer'.data.path = <<>> /\ answer'.data.hash = Unknown
    BY DEF Reply, Nothing
  <1> QED BY <1>1, <1>2 DEF SignerResponse, Signer!Refusal

LEMMA NothingRefuses ==
    ASSUME NEW sw, sw # 0, Reply(sw, Nothing)
    PROVE  SignerResponse' = Signer!Refusal
  <1>1. Nothing = [Nothing EXCEPT !.kind = "none"]
    BY DEF Nothing
  <1> QED BY <1>1, RefusalOf

LEMMA KeyResponds ==
    ASSUME NEW path, Reply(Success, [Nothing EXCEPT !.kind = "key", !.path = path])
    PROVE  SignerResponse' = Signer!KeyOf(path)
  <1>1. answer' # NoAnswer
    BY DEF Reply, NoAnswer, Success
  <1>2. answer'.data.kind = "key" /\ answer'.data.path = path /\ answer'.data.hash = Unknown
    BY DEF Reply, Nothing
  <1> QED BY <1>1, <1>2 DEF SignerResponse, Signer!KeyOf

LEMMA NoAnswerResponds ==
    answer' = NoAnswer => SignerResponse' = Signer!NoResponse
  BY DEF SignerResponse, NoAnswer, Nothing, Signer!NoResponse

\* Without a pending APDU there is no request, and nothing is reviewed.
LEMMA NothingPends ==
    /\ ~pending => SignerRequest = Signer!NoRequest /\ SignerReviewed = FALSE
    /\ ~pending' => SignerRequest' = Signer!NoRequest /\ SignerReviewed' = FALSE
  BY DEF SignerRequest, SignerReviewed, Signer!NoRequest

\* A refusal closes the request that waited.
LEMMA RefusalDeclines ==
    ASSUME pending, ~pending', NEW sw, sw # 0, Reply(sw, Nothing)
    PROVE  Signer!Next
  <1>1. SignerRequest # Signer!NoRequest
    <2>1. SignerRequest.kind # "none"
      BY DEF SignerRequest
    <2> QED BY <2>1 DEF Signer!NoRequest
  <1> QED BY <1>1, NothingRefuses, NothingPends DEF Signer!Next, Signer!Decline, Signer!Close

-----------------------------------------------------------------------------
(* Every step of the session is a step of the signer or a stutter.         *)

LEMMA AnsweredAtOnce ==
    ASSUME ~pending, ~pending', SignerResponse' = Signer!Refusal
    PROVE  Signer!Next
  BY NothingPends DEF Signer!Next, Signer!AnswerAtOnce

LEMMA AnsweredAtOnceWithKey ==
    ASSUME ~pending, ~pending', NEW path \in Seq(Nat), SignerResponse' = Signer!KeyOf(path)
    PROVE  Signer!Next
  <1>1. SignerResponse'.path = path
    BY DEF Signer!KeyOf
  <1> QED BY <1>1, NothingPends DEF Signer!Next, Signer!AnswerAtOnce

LEMMA AtOnceRefines ==
    ASSUME NEW a \in Apdus, SessionInv, AssemblerInv',
           \/ Refuse(a) \/ ContinueTransfer(a) \/ GetAppConfiguration(a) \/ RefuseMessage(a)
           \/ SendPubkey(a) \/ \E e \in Exceptions : PubkeyFails(a, e) \/ HashingFails(a, e)
    PROVE  Signer!Next
  <1>1. ~pending /\ ~pending'
    BY DEF Refuse, ContinueTransfer, GetAppConfiguration, RefuseMessage, SendPubkey,
           PubkeyFails, HashingFails, Completes, Deliver, ReviewState
  <1>2. CASE SendPubkey(a)
    <2>1. command'.path \in Seq(Nat)
      BY CompletedPath
    <2> QED BY <1>1, <1>2, <2>1, KeyResponds, AnsweredAtOnceWithKey DEF SendPubkey
  <1>3. CASE Refuse(a)
    <2>1. reply' \in Errors
      BY <1>3 DEF Refuse, AssemblerInv, TypeOK, Replies
    <2>2. SignerResponse' = Signer!Refusal
      BY <1>3, <2>1, StatusWordsAreNotZero, NothingRefuses DEF Refuse
    <2> QED BY <1>1, <2>2, AnsweredAtOnce
  <1>4. CASE ContinueTransfer(a)
    BY <1>1, <1>4, StatusWordsAreNotZero, NothingRefuses, AnsweredAtOnce DEF ContinueTransfer
  <1>5. CASE GetAppConfiguration(a)
    BY <1>1, <1>5, StatusWordsAreNotZero, RefusalOf, AnsweredAtOnce DEF GetAppConfiguration
  <1>6. CASE RefuseMessage(a)
    BY <1>1, <1>6, StatusWordsAreNotZero, NothingRefuses, AnsweredAtOnce DEF RefuseMessage
  <1>7. ASSUME NEW e \in Exceptions, PubkeyFails(a, e) \/ HashingFails(a, e)
        PROVE  Signer!Next
    BY <1>1, <1>7, StatusWordsAreNotZero, NothingRefuses, AnsweredAtOnce
       DEF PubkeyFails, HashingFails
  <1> QED BY <1>2, <1>3, <1>4, <1>5, <1>6, <1>7

LEMMA ShowPubkeyRefines ==
    ASSUME NEW a \in Apdus, SessionInv, AssemblerInv', ShowPubkey(a)
    PROVE  Signer!Next
  <1>1. /\ ~pending /\ pending' /\ answer' = NoAnswer
        /\ screen'.kind = "pubkey" /\ screen'.path = command'.path /\ screen'.tx = Unknown
    BY DEF ShowPubkey, Completes, Deliver, Idle
  <1>2. SignerRequest' = [kind |-> "key", path |-> command'.path, tx |-> Unknown]
    BY <1>1 DEF SignerRequest
  <1>3. SignerRequest' \in Signer!Requests
    BY <1>2, CompletedPath, ContentTypes DEF Signer!Requests
  <1>4. SignerReviewed' = FALSE
    BY <1>1 DEF SignerReviewed
  <1> QED BY <1>1, <1>3, <1>4, NothingPends, NoAnswerResponds DEF Signer!Next, Signer!Ask

\* A review that starts has items that were not displayed yet.
LEMMA ShowTransactionRefines ==
    ASSUME NEW a \in Apdus, SessionInv, SessionInv', ShowTransaction(a)
    PROVE  Signer!Next
  <1>1. /\ ~pending /\ pending' /\ answer' = NoAnswer /\ a.ins \in TransactionIns
        /\ screen'.kind = "sign" /\ \A s \in screen'.shown : s.index = 1
        /\ summary' = SummaryOf(a.ins, a.p1, txContent')
    BY DEF ShowTransaction, Completes, Deliver, Idle
  <1>2. SignerRequest' \in Signer!Requests
    <2>1. screen' \in Screen
      BY DEF SessionInv, SessionTypeOK
    <2>2. SignerRequest' = [kind |-> "sign", path |-> screen'.path, tx |-> screen'.tx]
      BY <1>1 DEF SignerRequest
    <2> QED BY <2>1, <2>2 DEF Screen, Signer!Requests
  <1>3. SignerReviewed' = FALSE
    <2>1. summary' \in Seq(Item) /\ txContent' \in [ContentFields -> Contents]
      BY DEF SessionInv, SessionTypeOK
    <2>2. Len(summary') >= 4
      BY <1>1, <2>1, SummaryType
    <2>3. 2 \in DOMAIN summary'
      BY <2>1, <2>2
    <2> QED BY <1>1, <2>3 DEF SignerReviewed, ReviewComplete
  <1> QED BY <1>1, <1>2, <1>3, NothingPends, NoAnswerResponds DEF Signer!Next, Signer!Ask

\* A step through the screens may complete the review, or fail and end it.
LEMMA ShowStepRefines ==
    ASSUME NEW i \in Nat, NEW backs, SessionInv, ShowStep(i, backs)
    PROVE  [Signer!Next]_(Signer!signerVars)
  <1>1. screen \in Screen /\ UNCHANGED summary
    BY DEF ShowStep, ScreenFrame, SessionInv, SessionTypeOK
  <1>2. CASE UNCHANGED <<pending, answer>>
    <2>1. CASE ~pending
      BY <1>2, <2>1, NothingPends DEF SignerResponse, Signer!signerVars
    <2>2. CASE pending
      <3>1. PICK shown : /\ screen.shown \subseteq shown
                         /\ screen' = [screen EXCEPT !.index = i, !.backs = backs, !.shown = shown]
        <4>1. CASE screen' = [screen EXCEPT !.index = i, !.backs = backs,
                                 !.shown = IF IsItem(i) THEN @ \cup {Displayed(i)} ELSE @]
          BY <4>1
        <4>2. CASE screen' = [screen EXCEPT !.index = i, !.backs = backs]
          <5>1. screen' = [screen EXCEPT !.index = i, !.backs = backs, !.shown = screen.shown]
            BY <1>1, <4>2 DEF Screen
          <5> QED BY <5>1
        <4> QED BY <4>1, <4>2 DEF ShowStep
      <3>2. /\ screen'.kind = screen.kind /\ screen'.path = screen.path /\ screen'.tx = screen.tx
            /\ screen.shown \subseteq screen'.shown
        BY <1>1, <3>1 DEF Screen
      <3>3. UNCHANGED <<SignerRequest, SignerResponse>>
        BY <1>2, <3>2 DEF SignerRequest, SignerResponse
      <3>4. ReviewComplete => ReviewComplete'
        BY <1>1, <3>2 DEF ReviewComplete
      <3>5. CASE SignerReviewed' = SignerReviewed
        BY <3>3, <3>5 DEF Signer!signerVars
      <3>6. CASE SignerReviewed' # SignerReviewed
        <4>1. SignerReviewed' = TRUE /\ SignerRequest.kind = "sign"
          BY <1>2, <2>2, <3>2, <3>4, <3>6 DEF SignerReviewed, SignerRequest
        <4> QED BY <3>3, <4>1 DEF Signer!Next, Signer!Review
      <3> QED BY <3>5, <3>6
    <2> QED BY <2>1, <2>2
  <1>3. CASE PrintFails
    <2>1. CASE pending
      BY <1>3, <2>1, StatusWordsAreNotZero, RefusalDeclines DEF PrintFails
    <2>2. CASE ~pending
      BY <1>3, <2>2, NothingPends DEF PrintFails, SignerResponse, Signer!signerVars
    <2> QED BY <2>1, <2>2
  <1> QED BY <1>2, <1>3 DEF ShowStep

LEMMA DecideRefines ==
    ASSUME SessionInv, Decide
    PROVE  [Signer!Next]_(Signer!signerVars)
  <1>1. CASE ~pending
    <2>1. UNCHANGED <<answer, pending>>
      BY <1>1 DEF Decide, ApproveTransaction, ApprovePubkey, Reject, SigningFails, SendResponse
    <2> QED BY <1>1, <2>1, NothingPends DEF SignerResponse, Signer!signerVars
  <1>2. CASE pending /\ ApproveTransaction
    <2>1. ~pending' /\ Reply(Success, Signature) /\ screen.kind = "sign"
      BY <1>2 DEF ApproveTransaction, SendResponse, AtApprove
    <2>2. SignerRequest = [kind |-> "sign", path |-> screen.path, tx |-> screen.tx]
      BY <1>2, <2>1 DEF SignerRequest
    <2>3. SignerReviewed
      BY <1>2, <2>1, ApprovalIsReviewed DEF SignerReviewed
    <2>4. /\ answer' = [sw |-> Success, data |-> Signature] /\ screen.path = command.path
          /\ messageHash = IF Parsed[screen.tx].finished THEN screen.tx ELSE Unknown
      BY <1>2, <2>1 DEF Reply, SessionInv, PendingIsOnScreen, ReviewOfTransaction
    <2>5. SignerResponse' = [kind |-> "signature", path |-> command.path, tx |-> messageHash]
      <3>1. answer' # NoAnswer
        BY <2>4 DEF NoAnswer, Success
      <3>2. /\ answer'.data.kind = "signature" /\ answer'.data.path = command.path
            /\ answer'.data.hash = messageHash
        BY <2>4 DEF Signature
      <3> QED BY <3>1, <3>2 DEF SignerResponse
    <2>6. screen.tx \in Contents
      BY DEF SessionInv, SessionTypeOK, Screen
    <2>7. SignerResponse' = Signer!SignatureOf(SignerRequest)
      BY <2>2, <2>4, <2>5, <2>6 DEF Signer!SignatureOf
    <2> QED BY <2>1, <2>2, <2>3, <2>7, NothingPends DEF Signer!Next, Signer!Sign, Signer!Close
  <1>3. CASE pending /\ ApprovePubkey
    <2>1. ~pending' /\ Reply(Success, Key) /\ screen.kind = "pubkey"
      BY <1>3 DEF ApprovePubkey, SendResponse, AtApprove
    <2>2. SignerRequest = [kind |-> "key", path |-> screen.path, tx |-> screen.tx]
      BY <1>3, <2>1 DEF SignerRequest
    <2>3. SignerResponse' = Signer!KeyOf(screen.path)
      BY <2>1, KeyIsShown, KeyResponds
    <2> QED BY <2>1, <2>2, <2>3, NothingPends DEF Signer!Next, Signer!GiveKey, Signer!Close
  <1>4. CASE pending /\ Reject
    BY <1>4, StatusWordsAreNotZero, RefusalDeclines DEF Reject, SendResponse
  <1>5. ASSUME NEW e \in Exceptions, pending, SigningFails(e)
        PROVE  Signer!Next
    BY <1>5, StatusWordsAreNotZero, RefusalDeclines DEF SigningFails
  <1> QED BY <1>1, <1>2, <1>3, <1>4, <1>5 DEF Decide

LEMMA SignerStepRefines ==
    SessionInv /\ SessionInv' /\ [SessionNext]_sessionVars
        => [Signer!Next]_(Signer!signerVars)
  <1> SUFFICES ASSUME SessionInv, SessionInv', [SessionNext]_sessionVars
               PROVE  [Signer!Next]_(Signer!signerVars)
    OBVIOUS
  <1>1. ASSUME NEW a \in Apdus, HandleApdu(a)
        PROVE  Signer!Next
    <2>1. AssemblerInv'
      BY DEF SessionInv
    <2> QED BY <1>1, <2>1, AtOnceRefines, ShowPubkeyRefines, ShowTransactionRefines
            DEF HandleApdu
  <1>2. CASE NoApdu
    <2>1. ~pending /\ ~pending'
      BY <1>2 DEF NoApdu, ReviewState
    <2> QED BY <1>2, <2>1, StatusWordsAreNotZero, NothingRefuses, AnsweredAtOnce DEF NoApdu
  <1>3. CASE Forward \/ Back
    <2>1. screen.index \in Nat
      BY DEF SessionInv, SessionTypeOK, Screen
    <2>2. screen.index + 1 \in Nat /\ (screen.index > 1 => screen.index - 1 \in Nat)
      BY <2>1
    <2> QED BY <1>3, <2>2, ShowStepRefines DEF Forward, Back
  <1>4. CASE Decide
    BY <1>4, DecideRefines
  <1>5. CASE IoReset \/ PowerCycle
    <2>1. ~pending' /\ answer' = NoAnswer
      BY <1>5 DEF IoReset, PowerCycle, Restart
    <2> QED BY <2>1, NothingPends, NoAnswerResponds DEF Signer!Next, Signer!Lose, Signer!Close
  <1>6. CASE UNCHANGED sessionVars
    <2>1. UNCHANGED <<pending, screen, summary, answer>>
      BY <1>6 DEF sessionVars
    <2> QED BY <2>1 DEF SignerRequest, SignerReviewed, SignerResponse, ReviewComplete,
                        Signer!signerVars
  <1> QED BY <1>1, <1>2, <1>3, <1>4, <1>5, <1>6 DEF SessionNext

\* What is given out for a request is what its user reviewed, one request at
\* a time, through every interleaving of APDUs, screens, failures, lost links
\* and power cycles.
THEOREM SessionImplementsSigner == SafeSpec => ImplementsTxSigner
  <1>1. SessionInit => Signer!Init
    <2> SUFFICES ASSUME SessionInit PROVE Signer!Init
      OBVIOUS
    <2>1. ~pending /\ answer = NoAnswer
      BY DEF SessionInit
    <2>2. SignerResponse = Signer!NoResponse
      BY <2>1 DEF SignerResponse, NoAnswer, Nothing, Signer!NoResponse
    <2> QED BY <2>1, <2>2, NothingPends DEF Signer!Init
  <1> QED BY <1>1, SignerStepRefines, SessionInvariant, PTL DEF SafeSpec, ImplementsTxSigner, Signer!Spec
=============================================================================
