--------------------------- MODULE AppSession_proofs ---------------------------
(***************************************************************************)
(* Proofs about AppSession, for any APDUs, any parser and any exceptions.  *)
(* The session implements the assembler, so AssemblerInv is an invariant   *)
(* of it as well; SessionInv adds that while a request is pending the      *)
(* globals, the summary and the display are of the transaction reviewed.   *)
(***************************************************************************)
EXTENDS AppSession, ApduAssembler_proofs, SequenceTheorems

\* What the approval of a pending review reads and what the user saw of it.
ReviewOfTransaction ==
    (pending /\ screen.kind = "sign") =>
        /\ \A f \in ContentFields : f \in Parsed[screen.tx].writes => txContent[f] = screen.tx
        /\ "chainID" \in Parsed[screen.tx].writes => chainID = screen.tx
        /\ messageHash = IF Parsed[screen.tx].finished THEN screen.tx ELSE Unknown
        /\ Parsed[screen.tx].finished
              => NumbersShown(command.instruction) \subseteq Parsed[screen.tx].writes
        /\ \A f \in NumbersShown(command.instruction) : \E i \in DOMAIN summary : summary[i].field = f
        /\ \A i \in DOMAIN summary :
              summary[i].field \in ContentFields => summary[i].source = txContent[summary[i].field]
        /\ \A s \in screen.shown : /\ s.field \in ContentFields => s.source = txContent[s.field]
                                  /\ s.index \in DOMAIN summary /\ summary[s.index].field = s.field
                                  /\ s.whole = ShownWhole(s.field, s.source)
        /\ \A i \in DOMAIN summary : summary[i].whole = ShownWhole(summary[i].field, summary[i].source)
        /\ \A i \in DOMAIN summary : i <= screen.index => \E s \in screen.shown : s.index = i

SessionInv ==
    /\ AssemblerInv
    /\ SessionTypeOK
    /\ PendingIsOnScreen
    /\ ReviewOfTransaction

-----------------------------------------------------------------------------
(* The session implements the assembler.                                   *)

LEMMA SessionStartsAssembler == SessionInit => Init
  BY DEF SessionInit

LEMMA SessionStepRefines == [SessionNext]_sessionVars => [Next]_assemblerVars
  <1> SUFFICES ASSUME [SessionNext]_sessionVars PROVE [Next]_assemblerVars
    OBVIOUS
  <1>1. CASE \E a \in Apdus : HandleApdu(a)
    <2>1. PICK a \in Apdus : HandleApdu(a)
      BY <1>1
    <2>2. Deliver(a)
      BY <2>1 DEF HandleApdu, Refuse, ContinueTransfer, GetAppConfiguration, RefuseMessage,
                  SendPubkey, ShowPubkey, ShowTransaction, PubkeyFails, HashingFails, Completes
    <2> QED BY <2>2 DEF Deliver, Next
  <1>2. CASE NoApdu
    BY <1>2 DEF NoApdu
  <1>3. CASE Forward \/ Back
    BY <1>3 DEF Forward, Back, ShowStep, ScreenFrame
  <1>4. CASE Decide
    BY <1>4 DEF Decide, ApproveTransaction, ApprovePubkey, Reject, SigningFails,
                SendResponse, ScreenFrame
  <1>5. CASE IoReset \/ PowerCycle
    BY <1>5 DEF IoReset, PowerCycle, Restart, Next
  <1>6. CASE UNCHANGED sessionVars
    BY <1>6 DEF sessionVars
  <1> QED BY <1>1, <1>2, <1>3, <1>4, <1>5, <1>6 DEF SessionNext

\* The dispatcher, the handlers, the screens and the restarts leave the
\* assembler its behaviour: G_command changes only as apdu_handle_message
\* and reset_main_globals change it.
THEOREM SessionImplementsAssembler == SafeSpec => ImplementsAssembler
  BY SessionStartsAssembler, SessionStepRefines, PTL DEF SafeSpec, ImplementsAssembler, Spec

-----------------------------------------------------------------------------
(* A command that runs.                                                    *)

LEMMA Completed ==
    ASSUME NEW a \in Apdus, AssemblerInv, Completes(a)
    PROVE  /\ a.ins \in Instructions
           /\ command'.instruction = a.ins
           /\ ~pending
           /\ a.ins \notin ConfigIns => AcceptChunk(a)
  <1>1. HandleMessage(a) /\ reply' = "Ok" /\ ~pending
    BY DEF Completes, Deliver
  <1>2. CASE AcceptConfiguration(a)
    <2>1. a.ins \in Instructions /\ a.ins \in ConfigIns
      BY <1>2, GoodHeader DEF AcceptConfiguration
    <2> QED BY <1>1, <1>2, <2>1 DEF AcceptConfiguration, Zeroed
  <1>3. CASE AcceptChunk(a)
    <2>1. a.ins \in Instructions
      BY <1>3, GoodHeader DEF AcceptChunk, Belongs
    <2>2. Opened(a) \in Command /\ Opened(a).instruction = a.ins
      BY <1>3, OpenedCommand DEF AcceptChunk
    <2>3. PICK o, m, n : o = Opened(a) /\ command' = [o EXCEPT !.message = m,
                                            !.messageLength = n, !.state = StateAfter(a)]
      BY <1>3 DEF AcceptChunk
    <2>4. command'.instruction = o.instruction
      BY <2>2, <2>3 DEF Command
    <2> QED BY <1>1, <1>3, <2>1, <2>2, <2>3, <2>4
  <1>4. ~RejectHeader(a) /\ ~RejectExtension(a) /\ ~RejectPath(a) /\ ~RejectPayload(a)
    BY <1>1 DEF RejectHeader, RejectExtension, RejectPath, RejectPayload
  <1> QED BY <1>1, <1>2, <1>3, <1>4 DEF HandleMessage

\* A transaction that runs is the payload of its one APDU.
LEMMA CompletedTransaction ==
    ASSUME NEW a \in Apdus, AssemblerInv, Completes(a), a.ins \in TransactionIns
    PROVE  ContentOf(command') \in {Unknown, a.content}
  <1>1. AcceptChunk(a)
    BY Completed, InstructionClasses
  <1>2. Base(a) = Zeroed
    BY InstructionClasses DEF Base, Replaces
  <1>3. Opened(a).message = <<>>
    BY <1>2 DEF Opened, Zeroed
  <1>4. command'.message = Extended(<<>>, a)
    BY <1>1, <1>2, <1>3 DEF AcceptChunk, Opened, Zeroed
  <1>5. CASE command'.message = <<>>
    BY <1>5 DEF ContentOf
  <1>6. CASE command'.message = Append(<<>>, FragmentOf(a))
    <2>1. command'.message = <<FragmentOf(a)>>
      BY <1>6
    <2>2. command'.message # <<>> /\ command'.message[1].content = a.content
      BY <2>1 DEF FragmentOf
    <2> QED BY <2>2 DEF ContentOf
  <1> QED BY <1>4, <1>5, <1>6 DEF Extended

-----------------------------------------------------------------------------
(* The values the session is made of.                                      *)

LEMMA ContentTypes ==
    /\ Unknown \in Contents
    /\ \A a \in Apdus : a.content \in Contents
    /\ \A c \in Contents : Parsed[c] \in ParseResult
  BY ParsedAssumption DEF Contents

LEMMA WordSize == UINT16_MAX \in Nat /\ UINT16_MAX >= 65535 /\ UINT16_MAX <= 65535
  BY DEF UINT16_MAX

\* Every exception is reported by a word of the two ranges, an internal error
\* of one of 0x6800 to 0x6fff (main.c:142).
LEMMA StatusWordType ==
    ASSUME NEW e \in 0 .. UINT16_MAX
    PROVE  StatusWord(e) \in StatusWordRange
  <1>1. e \in Nat /\ e <= 65535
    BY WordSize
  <1>2. e % 2048 \in 0 .. 2047
    BY <1>1
  <1>3. CASE e \div 4096 \in {6, 9}
    <2>1. PICK n : n = e \div 4096
      OBVIOUS
    <2>2. n \in {6, 9} /\ 4096 * n <= e /\ e < 4096 * n + 4096
      BY <1>1, <1>3, <2>1
    <2>3. e \in StatusWordRange
      BY <1>1, <2>2 DEF StatusWordRange
    <2> QED BY <1>3, <2>3 DEF StatusWord
  <1>4. CASE ~(e \div 4096 \in {6, 9})
    <2>1. PICK r : r = e % 2048 /\ r \in Nat /\ r <= 2047
      BY <1>2
    <2>2. 26624 + r \in StatusWordRange
      BY <2>1 DEF StatusWordRange
    <2> QED BY <1>4, <2>1, <2>2 DEF StatusWord
  <1> QED BY <1>3, <1>4

\* The words that an answer may have, and the 0 of none.
AnswerWords == StatusWordRange \cup {0}

\* Every status word the session answers with is in range.
LEMMA StatusWords ==
    /\ \A e \in Exceptions : StatusWord(e) \in AnswerWords
    /\ \A r \in Errors : StatusWord(ErrorCode[r]) \in AnswerWords
    /\ StatusWord(SummaryUpdateFailed) \in AnswerWords
    /\ {0, Success, Rejected, NoApduReceived, UnimplementedInstruction} \subseteq AnswerWords
  <1>1. \A e \in Exceptions : e \in 0 .. UINT16_MAX
    BY ExceptionsAssumption
  <1>2. \A r \in Errors : ErrorCode[r] \in 0 .. UINT16_MAX
    <2>1. /\ ErrorCode["SdkInvalidParameter"] = 26626 /\ ErrorCode["InvalidMessage"] = 27264
          /\ ErrorCode["InvalidMessageHeader"] = 27265 /\ ErrorCode["InvalidMessageSize"] = 27267
          /\ ErrorCode["UnimplementedInstruction"] = 27904
      BY DEF ErrorCode, UnimplementedInstruction
    <2> QED BY <2>1, WordSize DEF Errors
  <1>3. SummaryUpdateFailed \in 0 .. UINT16_MAX
    BY WordSize DEF SummaryUpdateFailed
  <1>4. {0, Success, Rejected, NoApduReceived, UnimplementedInstruction} \subseteq AnswerWords
    BY DEF Success, Rejected, NoApduReceived, UnimplementedInstruction, AnswerWords,
           StatusWordRange
  <1> QED BY <1>1, <1>2, <1>3, <1>4, StatusWordType DEF AnswerWords

LEMMA DataTypes ==
    /\ Nothing \in Data
    /\ [Nothing EXCEPT !.kind = "configuration"] \in Data
    /\ \A p \in Seq(Nat) : [Nothing EXCEPT !.kind = "key", !.path = p] \in Data
  <1>1. /\ Unknown \in Contents
        /\ <<>> \in Seq(Nat)
    BY ContentTypes
  <1>2. Nothing \in Data
    BY <1>1 DEF Nothing, Data
  <1>3. [Nothing EXCEPT !.kind = "configuration"] \in Data
    BY <1>2 DEF Data
  <1>4. ASSUME NEW p \in Seq(Nat)
        PROVE  [Nothing EXCEPT !.kind = "key", !.path = p] \in Data
    BY <1>2 DEF Data
  <1> QED BY <1>2, <1>3, <1>4

LEMMA ReplyType ==
    ASSUME NEW sw \in AnswerWords, NEW data \in Data, Reply(sw, data)
    PROVE  answer' \in Answers
  BY DEF Reply, Answers, Data, AnswerWords

LEMMA NoAnswerType == NoAnswer \in Answers
  BY DataTypes DEF NoAnswer, Answers

LEMMA IdleType == Idle \in Screen
  BY ContentTypes DEF Idle, Screen

\* A summary lists fields that can be displayed.
LEMMA SummaryFieldsType ==
    ASSUME NEW ins \in TransactionIns, NEW p1
    PROVE  SummaryFields(ins, p1) \in Seq(ItemFields)
  <1> DEFINE fees == <<"nonce", "gasprice", "startgas">>
             ratio == IF p1 = PartialFeeDelegated THEN <<"ratio">> ELSE <<>>
  <1>1. fees \in Seq(ItemFields)
    BY DEF ItemFields, ContentFields
  <1>2. ratio \in Seq(ItemFields)
    <2>1. <<"ratio">> \in Seq(ItemFields) /\ <<>> \in Seq(ItemFields)
      BY DEF ItemFields, ContentFields
    <2> QED BY <2>1
  <1>3. /\ <<"method", "value", "to">> \in Seq(ItemFields)
        /\ <<"method", "amount">> \in Seq(ItemFields)
        /\ <<"method", "amount", "to">> \in Seq(ItemFields)
        /\ <<"method">> \in Seq(ItemFields)
    BY DEF ItemFields, ContentFields
  <1>4. \A s \in Seq(ItemFields) : s \o fees \in Seq(ItemFields)
    BY <1>1, ConcatProperties
  <1>5. \A s \in Seq(ItemFields) : (s \o fees) \o ratio \in Seq(ItemFields)
    BY <1>2, <1>4, ConcatProperties
  <1>6. SummaryFields(ins, p1) \in
           {<<"method", "value", "to">> \o fees, <<"method", "value", "to">> \o fees \o ratio,
            <<"method", "amount">> \o fees \o ratio, <<"method", "amount", "to">> \o fees \o ratio,
            <<"method">> \o fees \o ratio}
    BY DEF SummaryFields, TransactionIns
  <1> HIDE DEF fees, ratio
  <1> QED BY <1>3, <1>4, <1>5, <1>6

\* It starts with the name of the method and shows the numbers it should.
LEMMA SummaryShows ==
    ASSUME NEW ins \in TransactionIns, NEW p1
    PROVE  /\ Len(SummaryFields(ins, p1)) >= 4
           /\ SummaryFields(ins, p1)[1] = "method"
           /\ \A f \in NumbersShown(ins) : \E i \in 1 .. Len(SummaryFields(ins, p1)) :
                 SummaryFields(ins, p1)[i] = f
  <1> DEFINE fees == <<"nonce", "gasprice", "startgas">>
             ratio == IF p1 = PartialFeeDelegated THEN <<"ratio">> ELSE <<>>
  <1>1. fees \in Seq(ItemFields) /\ ratio \in Seq(ItemFields) /\ Len(fees) = 3
    <2>1. fees \in Seq(ItemFields) /\ Len(fees) = 3
      BY DEF ItemFields, ContentFields
    <2>2. <<"ratio">> \in Seq(ItemFields) /\ <<>> \in Seq(ItemFields)
      BY DEF ItemFields, ContentFields
    <2> QED BY <2>1, <2>2
  <1>2. fees[1] = "nonce" /\ fees[2] = "gasprice" /\ fees[3] = "startgas"
    OBVIOUS
  <1> HIDE DEF fees, ratio
  <1> DEFINE Starts(b) == b \in Seq(ItemFields) /\ Len(b) >= 1 /\ b[1] = "method"
             Made(b, s) == s = b \o fees \/ s = (b \o fees) \o ratio
             Shows(b, s) == /\ Len(s) >= 4 /\ Len(s) >= Len(b) /\ s[1] = "method"
                            /\ \A i \in 1 .. Len(b) : s[i] = b[i]
                            /\ \A f \in Numbers : \E i \in 1 .. Len(s) : s[i] = f
  <1>3. ASSUME NEW b, NEW s, Starts(b), Made(b, s)
        PROVE  Shows(b, s)
    <2> DEFINE t == b \o fees
    <2> b \in Seq(ItemFields)
      BY <1>3
    <2>0. /\ t \in Seq(ItemFields) /\ Len(t) = Len(b) + Len(fees)
          /\ \A i \in 1 .. Len(b) + Len(fees) :
                t[i] = IF i <= Len(b) THEN b[i] ELSE fees[i - Len(b)]
      BY <1>1, ConcatProperties, Zenon
    <2> HIDE DEF t
    <2>1. /\ t \in Seq(ItemFields) /\ Len(t) = Len(b) + 3
          /\ \A i \in 1 .. Len(b) + 3 : t[i] = IF i <= Len(b) THEN b[i] ELSE fees[i - Len(b)]
      BY <1>1, <2>0
    <2>2. Len(t \o ratio) >= Len(t) /\ \A i \in 1 .. Len(t) : (t \o ratio)[i] = t[i]
      BY <1>1, <2>1, ConcatProperties
    <2>3. s = t \/ s = t \o ratio
      BY <1>3 DEF t
    <2>4. Len(s) >= Len(t) /\ \A i \in 1 .. Len(t) : s[i] = t[i]
      BY <2>1, <2>2, <2>3
    <2>5. Len(b) \in Nat /\ Len(b) >= 1 /\ Len(s) \in Nat
      BY <1>1, <1>3, <2>1, <2>3, ConcatProperties
    <2>6. /\ s[Len(b) + 1] = fees[1] /\ s[Len(b) + 2] = fees[2] /\ s[Len(b) + 3] = fees[3]
          /\ \A i \in 1 .. Len(b) : s[i] = b[i]
      <3>1. ASSUME NEW n \in Nat, n = Len(b), NEW k \in {1, 2, 3}
            PROVE  s[n + k] = fees[k]
        <4>1. n + k \in 1 .. n + 3 /\ ~(n + k <= n) /\ (n + k) - n = k
          OBVIOUS
        <4>2. t[n + k] = fees[(n + k) - n]
          BY <2>1, <3>1, <4>1
        <4> QED BY <2>1, <2>4, <3>1, <4>1, <4>2
      <3>2. \A i \in 1 .. Len(b) : i \in 1 .. Len(b) + 3 /\ i <= Len(b)
        BY <2>5
      <3>3. \A i \in 1 .. Len(b) : s[i] = b[i]
        BY <2>1, <2>4, <3>2
      <3> QED BY <2>5, <3>1, <3>3
    <2>7. {Len(b) + 1, Len(b) + 2, Len(b) + 3} \subseteq 1 .. Len(s)
      BY <2>1, <2>4, <2>5
    <2>8. \A f \in Numbers : \E i \in 1 .. Len(s) : s[i] = f
      BY <1>2, <2>6, <2>7 DEF Numbers
    <2> QED BY <1>3, <2>1, <2>4, <2>5, <2>6, <2>8
  <1> HIDE DEF Starts, Made, Shows
  <1>4. CASE ins \in {"SignLegacyTransaction", "SignValueTransfer", "SignValueTransferMemo"}
    <2> DEFINE b == <<"method", "value", "to">>
    <2>1. b \in Seq(ItemFields) /\ Len(b) = 3 /\ b[1] = "method" /\ b[2] = "value"
      BY DEF ItemFields, ContentFields
    <2>2. Starts(b)
      BY <2>1 DEF Starts
    <2>3. PICK s : s = SummaryFields(ins, p1) /\ Made(b, s)
      BY <1>4 DEF SummaryFields, fees, ratio, Made
    <2>4. Shows(b, s)
      BY <1>3, <2>2, <2>3
    <2> HIDE DEF b
    <2>5. Len(s) \in Nat
      BY <2>3, SummaryFieldsType
    <2>6. 2 \in 1 .. Len(s) /\ s[2] = "value"
      BY <2>1, <2>4, <2>5 DEF Shows
    <2>7. NumbersShown(ins) = Numbers \cup {"value"}
      BY <1>4 DEF NumbersShown
    <2>8. \A f \in NumbersShown(ins) : \E i \in 1 .. Len(s) : s[i] = f
      BY <2>4, <2>6, <2>7 DEF Shows
    <2> QED BY <2>3, <2>4, <2>8 DEF Shows
  <1>5. CASE ins \in {"SignSmartContractDeploy", "SignSmartContractExecution", "SignCancel"}
    <2>1. Starts(<<"method", "amount">>) /\ Starts(<<"method", "amount", "to">>) /\ Starts(<<"method">>)
      BY DEF ItemFields, ContentFields, Starts
    <2>2. PICK s : s = SummaryFields(ins, p1)
      OBVIOUS
    <2>3. Made(<<"method", "amount">>, s) \/ Made(<<"method", "amount", "to">>, s)
            \/ Made(<<"method">>, s)
      BY <1>5, <2>2 DEF SummaryFields, fees, ratio, Made
    <2>4. \E b : Shows(b, s)
      BY <1>3, <2>1, <2>3
    <2>5. NumbersShown(ins) = Numbers
      BY <1>5 DEF NumbersShown
    <2> QED BY <2>2, <2>4, <2>5 DEF Shows
  <1> QED BY <1>4, <1>5 DEF TransactionIns

\* Its items are read from the content it is made of.
LEMMA SummaryType ==
    ASSUME NEW ins \in TransactionIns, NEW p1, NEW content \in [ContentFields -> Contents]
    PROVE  /\ SummaryOf(ins, p1, content) \in Seq(Item)
           /\ \A i \in DOMAIN SummaryOf(ins, p1, content) :
                 LET item == SummaryOf(ins, p1, content)[i] IN
                 /\ item.field \in ContentFields => item.source = content[item.field]
                 /\ item.whole = ShownWhole(item.field, item.source)
           /\ Len(SummaryOf(ins, p1, content)) >= 4
           /\ SummaryOf(ins, p1, content)[1].field = "method"
           /\ \A f \in NumbersShown(ins) : \E i \in DOMAIN SummaryOf(ins, p1, content) :
                 SummaryOf(ins, p1, content)[i].field = f
  <1> DEFINE fields == SummaryFields(ins, p1)
             source(i) == IF fields[i] \in ContentFields THEN content[fields[i]] ELSE Unknown
             item(i) == [field |-> fields[i], source |-> source(i),
                         whole |-> ShownWhole(fields[i], source(i))]
  <1>1. fields \in Seq(ItemFields)
    BY SummaryFieldsType
  <1>2. PICK s : s = SummaryOf(ins, p1, content)
    OBVIOUS
  <1>3. /\ s = [i \in 1 .. Len(fields) |-> item(i)]
        /\ \A i \in 1 .. Len(fields) : item(i) \in Item
    <2>1. DOMAIN fields = 1 .. Len(fields)
      BY <1>1
    <2>2. s = [i \in 1 .. Len(fields) |-> item(i)]
      BY <1>2, <2>1 DEF SummaryOf
    <2>3. \A i \in 1 .. Len(fields) : fields[i] \in ItemFields
      BY <1>1
    <2> HIDE DEF fields
    <2>4. \A i \in 1 .. Len(fields) : item(i) \in Item
      BY <2>3, ContentTypes DEF Item, ShownWhole
    <2> QED BY <2>2, <2>4
  <1>4. s \in Seq(Item)
    <2>1. Len(fields) \in Nat
      BY <1>1
    <2> HIDE DEF item, fields
    <2> QED BY <1>3, <2>1
  <1>5. \A i \in DOMAIN s : /\ s[i].field \in ContentFields => s[i].source = content[s[i].field]
                            /\ s[i].whole = ShownWhole(s[i].field, s[i].source)
    BY <1>3
  <1>6. /\ Len(fields) \in Nat /\ Len(fields) >= 4 /\ fields[1] = "method"
        /\ \A f \in NumbersShown(ins) : \E i \in 1 .. Len(fields) : fields[i] = f
    BY <1>1, SummaryShows
  <1> HIDE DEF fields
  <1>7. /\ Len(s) = Len(fields) /\ DOMAIN s = 1 .. Len(fields)
        /\ \A i \in 1 .. Len(fields) : s[i].field = fields[i]
    BY <1>3, <1>6
  <1>8. /\ Len(s) >= 4 /\ s[1].field = "method"
        /\ \A f \in NumbersShown(ins) : \E i \in DOMAIN s : s[i].field = f
    BY <1>6, <1>7
  <1> QED BY <1>2, <1>4, <1>5, <1>8

-----------------------------------------------------------------------------
(* The actions that answer at once.                                        *)

LEMMA ClearedHashType ==
    ASSUME NEW a \in Apdus, SessionInv
    PROVE  ClearedHash(a) \in Contents
  BY ContentTypes DEF ClearedHash, SessionInv, SessionTypeOK

\* Nothing is under review before such a step, and nothing is after it.
LEMMA NoReviewInv ==
    ASSUME SessionInv, AssemblerInv', ~pending, messageHash' \in Contents,
           txContent' \in [ContentFields -> Contents], chainID' \in Contents,
           publicKey' \in SUBSET Seq(Nat), answer' \in Answers,
           UNCHANGED <<summary, screen, pending>>
    PROVE  SessionInv'
  <1>1. SessionTypeOK'
    BY DEF SessionInv, SessionTypeOK, AssemblerInv
  <1>2. PendingIsOnScreen' /\ ReviewOfTransaction'
    BY DEF SessionInv, PendingIsOnScreen, ReviewOfTransaction
  <1> QED BY <1>1, <1>2 DEF SessionInv

\* The command of an APDU that completes has a path of words.
LEMMA CompletedPath ==
    ASSUME AssemblerInv'
    PROVE  command'.path \in Seq(Nat)
  BY DEF AssemblerInv, TypeOK, Command

LEMMA RefuseInv ==
    ASSUME NEW a \in Apdus, SessionInv, AssemblerInv',
           Refuse(a) \/ ContinueTransfer(a) \/ GetAppConfiguration(a) \/ RefuseMessage(a)
    PROVE  SessionInv'
  <1>1. /\ ~pending
        /\ messageHash' = ClearedHash(a)
        /\ UNCHANGED <<txContent, chainID, publicKey, summary, screen, pending>>
    BY DEF Refuse, ContinueTransfer, GetAppConfiguration, RefuseMessage, Completes, Deliver,
           ReviewState
  <1>2. reply' # "Ok" => StatusWord(ErrorCode[reply']) \in AnswerWords
    BY StatusWords DEF AssemblerInv, TypeOK, Replies
  <1>3. answer' \in Answers
    <2>1. PICK data \in Data : \E sw \in AnswerWords : Reply(sw, data)
      <3>1. CASE Refuse(a)
        BY <1>2, <3>1, DataTypes DEF Refuse
      <3>2. CASE ContinueTransfer(a)
        BY <3>2, DataTypes, StatusWords DEF ContinueTransfer
      <3>3. CASE GetAppConfiguration(a)
        BY <3>3, DataTypes, StatusWords DEF GetAppConfiguration
      <3>4. CASE RefuseMessage(a)
        BY <3>4, DataTypes, StatusWords DEF RefuseMessage
      <3> QED BY <3>1, <3>2, <3>3, <3>4
    <2> QED BY <2>1, ReplyType
  <1> QED BY <1>1, <1>3, ClearedHashType, NoReviewInv DEF SessionInv, SessionTypeOK

LEMMA KeyAtOnceInv ==
    ASSUME NEW a \in Apdus, SessionInv, AssemblerInv',
           SendPubkey(a) \/ \E e \in Exceptions : PubkeyFails(a, e)
    PROVE  SessionInv'
  <1>1. /\ ~pending
        /\ messageHash' = ClearedHash(a)
        /\ UNCHANGED <<txContent, chainID, summary, screen, pending>>
    BY DEF SendPubkey, PubkeyFails, Completes, Deliver, ReviewState
  <1>2. command'.path \in Seq(Nat)
    BY CompletedPath
  <1>3. publicKey' \in SUBSET Seq(Nat)
    BY <1>2 DEF SendPubkey, PubkeyFails, SessionInv, SessionTypeOK
  <1>4. answer' \in Answers
    <2>1. CASE SendPubkey(a)
      BY <1>2, <2>1, DataTypes, StatusWords, ReplyType DEF SendPubkey
    <2>2. CASE \E e \in Exceptions : PubkeyFails(a, e)
      BY <2>2, DataTypes, StatusWords, ReplyType DEF PubkeyFails
    <2> QED BY <2>1, <2>2
  <1> QED BY <1>1, <1>3, <1>4, ClearedHashType, NoReviewInv DEF SessionInv, SessionTypeOK

\* What processTx leaves is of the transaction or was there before.
LEMMA ParsedTypes ==
    ASSUME SessionInv, NEW tx \in Contents
    PROVE  /\ AfterParsing(tx) \in [ContentFields -> Contents]
           /\ ChainAfterParsing(tx) \in Contents
           /\ \A f \in ContentFields : f \in Parsed[tx].writes => AfterParsing(tx)[f] = tx
  BY DEF AfterParsing, ChainAfterParsing, SessionInv, SessionTypeOK

LEMMA HashingFailsInv ==
    ASSUME NEW a \in Apdus, NEW e \in Exceptions, SessionInv, AssemblerInv', HashingFails(a, e)
    PROVE  SessionInv'
  <1>1. /\ ~pending /\ Completes(a) /\ a.ins \in TransactionIns
        /\ messageHash' = ClearedHash(a)
        /\ UNCHANGED <<summary, screen, pending, publicKey>>
    BY DEF HashingFails, Completes, Deliver
  <1>2. ContentOf(command') \in Contents
    BY <1>1, CompletedTransaction, ContentTypes DEF SessionInv
  <1>3. txContent' \in [ContentFields -> Contents] /\ chainID' \in Contents
    BY <1>2, ParsedTypes DEF HashingFails, SessionInv, SessionTypeOK
  <1>4. answer' \in Answers
    BY DataTypes, StatusWords, ReplyType DEF HashingFails
  <1>5. publicKey' \in SUBSET Seq(Nat)
    BY <1>1 DEF SessionInv, SessionTypeOK
  <1> QED BY <1>1, <1>3, <1>4, <1>5, ClearedHashType, NoReviewInv

LEMMA NoApduInv ==
    ASSUME SessionInv, AssemblerInv', NoApdu
    PROVE  SessionInv'
  <1>1. ~pending /\ UNCHANGED <<messageHash, publicKey, txContent, chainID, summary, screen, pending>>
    BY DEF NoApdu, ReviewState
  <1>2. answer' \in Answers
    BY DataTypes, StatusWords, ReplyType DEF NoApdu
  <1> QED BY <1>1, <1>2, NoReviewInv DEF SessionInv, SessionTypeOK

-----------------------------------------------------------------------------
(* The actions that open a review.                                         *)

LEMMA ShowPubkeyInv ==
    ASSUME NEW a \in Apdus, SessionInv, AssemblerInv', ShowPubkey(a)
    PROVE  SessionInv'
  <1> DEFINE address == [index |-> 1, field |-> "address", source |-> Unknown, whole |-> TRUE]
  <1>1. /\ command'.instruction \in PubkeyIns /\ command'.state = "Complete"
        /\ command'.path \in Seq(Nat)
    BY Completed, CompletedPath DEF ShowPubkey, Completes, SessionInv
  <1>2. /\ screen' = [kind |-> "pubkey", index |-> 1, backs |-> 0, shown |-> {address},
                      path |-> command'.path, tx |-> Unknown]
        /\ publicKey' = {command'.path} /\ pending' = TRUE
    BY DEF ShowPubkey, Idle
  <1>3. screen' \in Screen
    BY <1>1, <1>2, ContentTypes DEF Screen
  <1>4. messageHash' \in Contents /\ answer' \in Answers
    BY ClearedHashType, NoAnswerType DEF ShowPubkey
  <1>5. publicKey' \in SUBSET Seq(Nat) /\ pending' \in BOOLEAN
    BY <1>1, <1>2
  <1>6. UNCHANGED <<txContent, chainID, summary>>
    BY DEF ShowPubkey
  <1>7. SessionTypeOK'
    BY <1>3, <1>4, <1>5, <1>6 DEF SessionInv, SessionTypeOK, AssemblerInv
  <1>8. PendingIsOnScreen'
    BY <1>1, <1>2 DEF PendingIsOnScreen
  <1>9. ReviewOfTransaction'
    BY <1>2 DEF ReviewOfTransaction
  <1> QED BY <1>7, <1>8, <1>9 DEF SessionInv

\* G_command is cleared by the APDU that completes a transaction.
LEMMA CompletedClears ==
    ASSUME NEW a \in Apdus, Completes(a), a.ins \in TransactionIns
    PROVE  ClearedHash(a) = Unknown
  <1>1. HeaderCheck(a) = "Ok"
    <2>1. HandleMessage(a) /\ reply' = "Ok"
      BY DEF Completes, Deliver
    <2>2. ~RejectHeader(a) /\ ~RejectExtension(a)
      BY <2>1 DEF RejectHeader, RejectExtension
    <2>3. AcceptConfiguration(a) \/ RejectPath(a) \/ RejectPayload(a) \/ AcceptChunk(a)
      BY <2>1, <2>2 DEF HandleMessage
    <2> QED BY <2>3 DEF AcceptConfiguration, RejectPath, RejectPayload, AcceptChunk, Belongs
  <1>2. Replaces(a)
    BY InstructionClasses DEF Replaces
  <1> QED BY <1>1, <1>2 DEF ClearedHash

\* The numbers that are shown of a finished transaction are its own.
LEMMA FinishedWritesNumbers ==
    ASSUME NEW a \in Apdus, a.ins \in TransactionIns, NEW tx \in {Unknown, a.content},
           Parsed[tx].finished
    PROVE  NumbersShown(a.ins) \subseteq Parsed[tx].writes
  <1>1. tx = a.content
    BY ParsedAssumption
  <1>2. Determined(TypeOf[a.ins]) \subseteq Parsed[tx].writes
    BY <1>1, ParsedAssumption
  <1>3. NumbersShown(a.ins) \subseteq Determined(TypeOf[a.ins])
    BY DEF NumbersShown, Determined, TypeOf, TransactionIns
  <1> QED BY <1>2, <1>3

LEMMA ShowTransactionInv ==
    ASSUME NEW a \in Apdus, SessionInv, AssemblerInv', ShowTransaction(a)
    PROVE  SessionInv'
  <1> DEFINE tx == ContentOf(command')
             method == [index |-> 1, field |-> "method", source |-> Unknown, whole |-> TRUE]
  <1>1. /\ command'.instruction = a.ins /\ a.ins \in TransactionIns
        /\ command'.state = "Complete" /\ command'.path \in Seq(Nat)
    BY Completed, CompletedPath DEF ShowTransaction, Completes, SessionInv
  <1>2. tx \in Contents
    BY CompletedTransaction, ContentTypes DEF ShowTransaction, SessionInv
  <1>3. /\ screen' = [kind |-> "sign", index |-> 1, backs |-> 0, shown |-> {method},
                      path |-> command'.path, tx |-> tx]
        /\ pending' = TRUE /\ txContent' = AfterParsing(tx) /\ chainID' = ChainAfterParsing(tx)
        /\ messageHash' = IF Parsed[tx].finished THEN tx ELSE ClearedHash(a)
        /\ summary' = SummaryOf(a.ins, a.p1, txContent')
        /\ answer' = NoAnswer /\ publicKey' = publicKey
    BY DEF ShowTransaction, Idle
  <1> HIDE DEF tx
  <1>4. screen' \in Screen
    BY <1>1, <1>2, <1>3, ContentTypes DEF Screen, ItemFields
  <1>5. /\ txContent' \in [ContentFields -> Contents] /\ chainID' \in Contents
        /\ \A f \in ContentFields : f \in Parsed[tx].writes => txContent'[f] = tx
    BY <1>2, <1>3, ParsedTypes
  <1>6. /\ summary' \in Seq(Item)
        /\ \A i \in DOMAIN summary' :
              /\ summary'[i].field \in ContentFields
                    => summary'[i].source = txContent'[summary'[i].field]
              /\ summary'[i].whole = ShownWhole(summary'[i].field, summary'[i].source)
        /\ Len(summary') >= 4 /\ summary'[1].field = "method"
        /\ \A f \in NumbersShown(a.ins) : \E i \in DOMAIN summary' : summary'[i].field = f
    BY <1>1, <1>3, <1>5, SummaryType
  <1>7. messageHash' \in Contents /\ answer' \in Answers /\ publicKey' \in SUBSET Seq(Nat)
        /\ pending' \in BOOLEAN
    BY <1>2, <1>3, ClearedHashType, NoAnswerType DEF SessionInv, SessionTypeOK
  <1>8. SessionTypeOK'
    BY <1>4, <1>5, <1>6, <1>7 DEF SessionTypeOK, AssemblerInv
  <1>9. PendingIsOnScreen'
    BY <1>1, <1>3 DEF PendingIsOnScreen, tx
  <1>10. ReviewOfTransaction'
    <2>1. "chainID" \in Parsed[tx].writes => chainID' = tx
      BY <1>3 DEF ChainAfterParsing
    <2>2. messageHash' = IF Parsed[tx].finished THEN tx ELSE Unknown
      BY <1>3, CompletedClears DEF ShowTransaction
    <2>3. \A s \in screen'.shown : s.field \notin ContentFields
      BY <1>3 DEF ContentFields
    <2>4. \A i \in DOMAIN summary' : i <= screen'.index => \E s \in screen'.shown : s.index = i
      <3>1. \A i \in DOMAIN summary' : i \in Nat /\ i >= 1
        BY <1>6
      <3>2. screen'.index = 1 /\ method \in screen'.shown /\ method.index = 1
        BY <1>3
      <3> HIDE DEF method
      <3> QED BY <3>1, <3>2
    <2>5. screen'.tx = tx
      BY <1>3
    <2>6. Parsed[tx].finished => NumbersShown(a.ins) \subseteq Parsed[tx].writes
      <3>1. Completes(a) /\ tx \in {Unknown, a.content}
        BY CompletedTransaction DEF ShowTransaction, SessionInv, tx
      <3> QED BY <1>1, <3>1, FinishedWritesNumbers
    <2>7. \A f \in NumbersShown(a.ins) : \E i \in DOMAIN summary' : summary'[i].field = f
      BY <1>6
    <2>8. \A s \in screen'.shown : /\ s.index \in DOMAIN summary' /\ summary'[s.index].field = s.field
                                   /\ s.whole = ShownWhole(s.field, s.source)
      <3>1. \A s \in screen'.shown : s.index = 1 /\ s.field = "method" /\ s.whole = TRUE
        BY <1>3
      <3>3. \A c : ShownWhole("method", c) = TRUE
        BY DEF ShownWhole, Numbers
      <3>2. 1 \in DOMAIN summary' /\ summary'[1].field = "method"
        BY <1>6
      <3>4. ASSUME NEW s \in screen'.shown
            PROVE  s.whole = ShownWhole(s.field, s.source)
        <4>1. s.field = "method" /\ s.whole = TRUE
          BY <3>1
        <4>2. ShownWhole(s.field, s.source) = TRUE
          BY <4>1, <3>3
        <4> QED BY <4>1, <4>2
      <3>5. ASSUME NEW s \in screen'.shown
            PROVE  s.index \in DOMAIN summary' /\ summary'[s.index].field = s.field
        BY <3>1, <3>2
      <3> QED BY <3>4, <3>5
    <2> QED BY <1>1, <1>5, <1>6, <2>1, <2>2, <2>3, <2>4, <2>5, <2>6, <2>7, <2>8 DEF ReviewOfTransaction
  <1> QED BY <1>8, <1>9, <1>10 DEF SessionInv

-----------------------------------------------------------------------------
(* The user's actions.                                                     *)

\* The display after a step: what it displayed is read from txContent.
LEMMA ShowStepInv ==
    ASSUME NEW i \in Nat, NEW backs \in Nat, SessionInv, AssemblerInv', ShowStep(i, backs),
           i \in 1 .. screen.index + 1
    PROVE  SessionInv'
  <1>1. UNCHANGED <<command, messageHash, txContent, chainID, publicKey, summary>>
    BY DEF ShowStep, ScreenFrame, assemblerVars
  <1>2. /\ screen \in Screen /\ summary \in Seq(Item) /\ answer \in Answers /\ pending \in BOOLEAN
        /\ txContent \in [ContentFields -> Contents]
    BY DEF SessionInv, SessionTypeOK
  <1>3. PICK shown : /\ screen' = [screen EXCEPT !.index = i, !.backs = backs, !.shown = shown]
                     /\ \/ /\ shown = IF IsItem(i) THEN screen.shown \cup {Displayed(i)}
                                      ELSE screen.shown
                           /\ UNCHANGED <<pending, answer>>
                        \/ shown = screen.shown /\ screen.kind = "sign" /\ PrintFails
    <2>1. CASE /\ screen' = [screen EXCEPT !.index = i, !.backs = backs,
                                 !.shown = IF IsItem(i) THEN @ \cup {Displayed(i)} ELSE @]
               /\ UNCHANGED <<pending, answer>>
      BY <2>1
    <2>2. CASE /\ "failed" \in PrintOutcomes(i)
               /\ screen' = [screen EXCEPT !.index = i, !.backs = backs]
               /\ PrintFails
      <3>1. screen.kind = "sign"
        BY <2>2 DEF PrintOutcomes, IsItem
      <3>2. screen' = [screen EXCEPT !.index = i, !.backs = backs, !.shown = screen.shown]
        BY <1>2, <2>2 DEF Screen
      <3> QED BY <2>2, <3>1, <3>2
    <2> QED BY <2>1, <2>2 DEF ShowStep
  <1>4. IsItem(i) => /\ i \in DOMAIN summary
                     /\ Displayed(i) \in [index: Nat, field: ItemFields, source: Contents, whole: BOOLEAN]
                     /\ Displayed(i).index = i
    <2> SUFFICES ASSUME IsItem(i)
                 PROVE  /\ i \in DOMAIN summary
                        /\ Displayed(i) \in [index: Nat, field: ItemFields, source: Contents, whole: BOOLEAN]
                        /\ Displayed(i).index = i
      OBVIOUS
    <2>1. i \in 1 .. Len(summary)
      BY <1>2 DEF IsItem, ItemSteps
    <2>2. summary[i] \in Item
      BY <1>2, <2>1
    <2>3. txContent["to"] \in Contents
      BY <1>2 DEF ContentFields
    <2> QED BY <1>2, <2>1, <2>2, <2>3 DEF Displayed, Item
  <1>5. shown \in SUBSET [index: Nat, field: ItemFields \cup {"address"}, source: Contents,
                        whole: BOOLEAN]
    BY <1>2, <1>3, <1>4 DEF Screen
  <1>6. /\ screen' \in Screen
        /\ screen'.kind = screen.kind /\ screen'.index = i /\ screen'.path = screen.path
        /\ screen'.tx = screen.tx /\ screen'.shown = shown
    BY <1>2, <1>3, <1>5 DEF Screen
  <1>7. answer' \in Answers /\ pending' \in BOOLEAN
    BY <1>2, <1>3, DataTypes, StatusWords, ReplyType DEF PrintFails
  <1>8. SessionTypeOK'
    BY <1>1, <1>6, <1>7 DEF SessionInv, SessionTypeOK, AssemblerInv
  <1>9. pending' => pending /\ shown = IF IsItem(i) THEN screen.shown \cup {Displayed(i)}
                                       ELSE screen.shown
    BY <1>3 DEF PrintFails
  <1>10. PendingIsOnScreen'
    BY <1>1, <1>3, <1>6, <1>9 DEF SessionInv, PendingIsOnScreen, ContentOf
  <1>11. ReviewOfTransaction'
    <2> SUFFICES ASSUME pending', screen.kind = "sign"
                 PROVE  /\ \A s \in shown : /\ s.field \in ContentFields => s.source = txContent[s.field]
                                            /\ s.index \in DOMAIN summary
                                            /\ summary[s.index].field = s.field
                                            /\ s.whole = ShownWhole(s.field, s.source)
                        /\ \A j \in DOMAIN summary : j <= i => \E s \in shown : s.index = j
      BY <1>1, <1>6, <1>9 DEF SessionInv, ReviewOfTransaction
    <2>1. \A s \in screen.shown : /\ s.field \in ContentFields => s.source = txContent[s.field]
                                  /\ s.index \in DOMAIN summary /\ summary[s.index].field = s.field
                                  /\ s.whole = ShownWhole(s.field, s.source)
      BY <1>9 DEF SessionInv, ReviewOfTransaction
    <2>2. \A j \in DOMAIN summary : j <= screen.index => \E s \in screen.shown : s.index = j
      BY <1>9 DEF SessionInv, ReviewOfTransaction
    <2>3. IsItem(i) => /\ Displayed(i).field \in ContentFields
                             => Displayed(i).source = txContent[Displayed(i).field]
                       /\ Displayed(i).field = summary[i].field
                       /\ Displayed(i).whole = ShownWhole(Displayed(i).field, Displayed(i).source)
      <3> SUFFICES ASSUME IsItem(i)
                   PROVE  /\ Displayed(i).field \in ContentFields
                                => Displayed(i).source = txContent[Displayed(i).field]
                          /\ Displayed(i).field = summary[i].field
                          /\ Displayed(i).whole = ShownWhole(Displayed(i).field, Displayed(i).source)
        OBVIOUS
      <3>1. /\ Displayed(i).field = summary[i].field /\ Displayed(i).whole = summary[i].whole
            /\ Displayed(i).source = IF summary[i].field = "to" THEN txContent["to"]
                                     ELSE summary[i].source
        BY DEF Displayed
      <3>2. /\ summary[i].field \in ContentFields => summary[i].source = txContent[summary[i].field]
            /\ summary[i].whole = ShownWhole(summary[i].field, summary[i].source)
        BY <1>4, <1>9 DEF SessionInv, ReviewOfTransaction
      <3>3. \A c, d : ShownWhole("to", c) = ShownWhole("to", d)
        BY DEF ShownWhole, Numbers
      <3>4. CASE summary[i].field = "to"
        BY <3>1, <3>2, <3>3, <3>4
      <3>5. CASE summary[i].field # "to"
        BY <3>1, <3>2, <3>5
      <3> QED BY <3>4, <3>5
    <2>4. \A j \in DOMAIN summary : j <= i => j <= screen.index \/ j = i
      BY <1>2 DEF Screen
    <2>5. i \in DOMAIN summary => IsItem(i)
      BY <1>2 DEF IsItem, ItemSteps
    <2> QED BY <1>4, <1>9, <2>1, <2>2, <2>3, <2>4, <2>5
  <1> QED BY <1>8, <1>10, <1>11 DEF SessionInv

\* The review ends: the idle screen, or a review without a request.
LEMMA ReviewEndsInv ==
    ASSUME SessionInv, AssemblerInv', UNCHANGED ScreenFrame, screen' \in {Idle, screen},
           screen' # Idle => screen.kind # "pubkey", ~pending', pending' \in BOOLEAN,
           answer' \in Answers
    PROVE  SessionInv'
  <1>1. UNCHANGED <<messageHash, txContent, chainID, publicKey, summary>>
    BY DEF ScreenFrame
  <1>2. screen' \in Screen /\ screen'.kind # "pubkey"
    <2>1. CASE screen' = Idle
      <3>1. Idle.kind # "pubkey"
        BY DEF Idle
      <3> QED BY <2>1, <3>1, IdleType
    <2>2. CASE screen' # Idle
      BY <2>2 DEF SessionInv, SessionTypeOK
    <2> QED BY <2>1, <2>2
  <1>3. SessionTypeOK'
    BY <1>1, <1>2 DEF SessionInv, SessionTypeOK, AssemblerInv
  <1>4. PendingIsOnScreen' /\ ReviewOfTransaction'
    BY <1>2 DEF PendingIsOnScreen, ReviewOfTransaction
  <1> QED BY <1>3, <1>4 DEF SessionInv

LEMMA SendResponseInv ==
    ASSUME SessionInv, AssemblerInv', NEW sw \in AnswerWords, NEW data,
           pending => data \in Data, SendResponse(sw, data)
    PROVE  SessionInv'
  <1>1. UNCHANGED ScreenFrame
    BY DEF SendResponse
  <1>2. CASE pending
    BY <1>1, <1>2, ReplyType, ReviewEndsInv DEF SendResponse
  <1>3. CASE ~pending
    <2>1. /\ screen' \in {Idle, screen}
          /\ UNCHANGED <<answer, pending>>
      BY <1>3 DEF SendResponse
    <2>2. screen.kind # "pubkey" /\ answer \in Answers /\ pending \in BOOLEAN
      BY <1>3 DEF SessionInv, PendingIsOnScreen, SessionTypeOK
    <2> QED BY <1>1, <1>3, <2>1, <2>2, ReviewEndsInv
  <1> QED BY <1>2, <1>3

LEMMA SignatureType ==
    ASSUME SessionInv
    PROVE  Signature \in Data
  BY DEF Signature, Data, SessionInv, SessionTypeOK, AssemblerInv, TypeOK, Command

\* The key that is sent is the key on the display.
LEMMA KeyIsShown ==
    ASSUME SessionInv, screen.kind = "pubkey"
    PROVE  /\ pending
           /\ Key = [Nothing EXCEPT !.kind = "key", !.path = screen.path]
           /\ Key \in Data
  <1>1. pending /\ publicKey = {screen.path} /\ screen.path \in Seq(Nat)
    BY DEF SessionInv, PendingIsOnScreen, SessionTypeOK, Screen
  <1>2. Key = [Nothing EXCEPT !.kind = "key", !.path = screen.path]
    <2>1. (CHOOSE p \in publicKey : TRUE) = screen.path
      BY <1>1
    <2> QED BY <2>1 DEF Key
  <1> QED BY <1>1, <1>2, DataTypes

LEMMA DecideInv ==
    ASSUME SessionInv, AssemblerInv', Decide
    PROVE  SessionInv'
  <1>1. CASE ApproveTransaction
    BY <1>1, SignatureType, StatusWords, SendResponseInv DEF ApproveTransaction
  <1>2. CASE ApprovePubkey
    BY <1>2, KeyIsShown, StatusWords, SendResponseInv DEF ApprovePubkey, AtApprove
  <1>3. CASE Reject
    BY <1>3, DataTypes, StatusWords, SendResponseInv DEF Reject
  <1>4. ASSUME NEW e \in Exceptions, SigningFails(e)
        PROVE  SessionInv'
    <2>1. /\ screen.kind = "sign" /\ pending' = FALSE
          /\ UNCHANGED <<ScreenFrame, screen>>
      BY <1>4 DEF SigningFails, AtApprove
    <2>2. answer' \in Answers
      BY <1>4, DataTypes, StatusWords, ReplyType DEF SigningFails
    <2> QED BY <2>1, <2>2, ReviewEndsInv
  <1> QED BY <1>1, <1>2, <1>3, <1>4 DEF Decide

LEMMA RestartInv ==
    ASSUME SessionInv, AssemblerInv', IoReset \/ PowerCycle
    PROVE  SessionInv'
  <1>1. /\ messageHash' = Unknown /\ chainID' = Unknown /\ publicKey' = {}
        /\ txContent' = [f \in ContentFields |-> Unknown] /\ screen' = Idle
        /\ pending' = FALSE /\ answer' = NoAnswer /\ summary' \in {summary, <<>>}
    BY DEF IoReset, PowerCycle, Restart
  <1>2. summary' \in Seq(Item)
    <2>1. <<>> \in Seq(Item)
      OBVIOUS
    <2> QED BY <1>1, <2>1 DEF SessionInv, SessionTypeOK
  <1>3. SessionTypeOK'
    BY <1>1, <1>2, ContentTypes, IdleType, NoAnswerType DEF SessionTypeOK, AssemblerInv
  <1>4. PendingIsOnScreen' /\ ReviewOfTransaction'
    BY <1>1 DEF PendingIsOnScreen, ReviewOfTransaction, Idle
  <1> QED BY <1>3, <1>4 DEF SessionInv

-----------------------------------------------------------------------------
(* The invariant.                                                          *)

LEMMA SessionInvInit == SessionInit => SessionInv
  <1> SUFFICES ASSUME SessionInit PROVE SessionInv
    OBVIOUS
  <1>1. AssemblerInv
    BY SessionStartsAssembler, AssemblerInvInit
  <1>2. SessionTypeOK
    <2>1. <<>> \in Seq(Item)
      OBVIOUS
    <2> QED BY <1>1, <2>1, ContentTypes, IdleType, NoAnswerType
            DEF SessionInit, SessionTypeOK, AssemblerInv
  <1>3. PendingIsOnScreen /\ ReviewOfTransaction
    BY DEF SessionInit, PendingIsOnScreen, ReviewOfTransaction, Idle
  <1> QED BY <1>1, <1>2, <1>3 DEF SessionInv

LEMMA SessionInvNext == SessionInv /\ [SessionNext]_sessionVars => SessionInv'
  <1> SUFFICES ASSUME SessionInv, [SessionNext]_sessionVars PROVE SessionInv'
    OBVIOUS
  <1>1. AssemblerInv'
    BY SessionStepRefines, AssemblerInvNext DEF SessionInv
  <1>2. ASSUME NEW a \in Apdus, HandleApdu(a)
        PROVE  SessionInv'
    BY <1>1, <1>2, RefuseInv, KeyAtOnceInv, HashingFailsInv, ShowPubkeyInv, ShowTransactionInv
       DEF HandleApdu
  <1>3. CASE NoApdu
    BY <1>1, <1>3, NoApduInv
  <1>4. CASE Forward
    <2>1. screen.index \in Nat /\ screen.backs \in Nat
      BY DEF SessionInv, SessionTypeOK, Screen
    <2>2. screen.index + 1 \in Nat /\ screen.index + 1 \in 1 .. screen.index + 1
      BY <2>1
    <2> QED BY <1>1, <1>4, <2>1, <2>2, ShowStepInv DEF Forward
  <1>5. CASE Back
    <2>1. screen.index \in Nat /\ screen.backs \in Nat
      BY DEF SessionInv, SessionTypeOK, Screen
    <2>2. screen.index - 1 \in Nat /\ screen.index - 1 \in 1 .. screen.index + 1
          /\ screen.backs + 1 \in Nat
      BY <1>5, <2>1 DEF Back
    <2> QED BY <1>1, <1>5, <2>1, <2>2, ShowStepInv DEF Back
  <1>6. CASE Decide
    BY <1>1, <1>6, DecideInv
  <1>7. CASE IoReset \/ PowerCycle
    BY <1>1, <1>7, RestartInv
  <1>8. CASE UNCHANGED sessionVars
    <2>1. UNCHANGED <<command, messageHash, txContent, chainID, publicKey, summary, screen,
                      pending, answer>>
      BY <1>8 DEF sessionVars, assemblerVars
    <2>2. SessionTypeOK'
      BY <1>1, <2>1 DEF SessionInv, SessionTypeOK, AssemblerInv
    <2>3. PendingIsOnScreen' /\ ReviewOfTransaction'
      BY <2>1 DEF SessionInv, PendingIsOnScreen, ReviewOfTransaction, ContentOf
    <2> QED BY <1>1, <2>2, <2>3 DEF SessionInv
  <1> QED BY <1>2, <1>3, <1>4, <1>5, <1>6, <1>7, <1>8 DEF SessionNext

LEMMA SessionInvariant == SafeSpec => []SessionInv
  BY SessionInvInit, SessionInvNext, PTL DEF SafeSpec

\* Every global of the session stays well-formed.
THEOREM SessionTypeCorrect == SafeSpec => []SessionTypeOK
  BY SessionInvariant, PTL DEF SessionInv

\* A pending request is the one on the display, and its command is still in
\* G_command when the user decides, whatever happened in between.
THEOREM PendingRequestIsOnScreen == SafeSpec => []PendingIsOnScreen
  BY SessionInvariant, PTL DEF SessionInv

\* What a pending review displays and the transaction defines is its own.
THEOREM ReviewIsOfTransaction == SafeSpec => []ReviewShowsTransaction
  <1>1. SessionInv => ReviewShowsTransaction
    <2> SUFFICES ASSUME SessionInv, pending, screen.kind = "sign", NEW s \in screen.shown,
                        s.field \in Parsed[screen.tx].writes
                 PROVE  s.source = screen.tx
      BY DEF ReviewShowsTransaction
    <2>1. screen.tx \in Contents /\ s.field \in ItemFields \cup {"address"}
      BY DEF SessionInv, SessionTypeOK, Screen
    <2>2. Parsed[screen.tx].writes \subseteq ContentFields \cup {"chainID"}
      BY <2>1, ContentTypes DEF ParseResult
    <2>3. s.field \in ContentFields
      BY <2>1, <2>2 DEF ItemFields, ContentFields
    <2> QED BY <2>3 DEF SessionInv, ReviewOfTransaction
  <1> QED BY <1>1, SessionInvariant, PTL

-----------------------------------------------------------------------------
(* The answers that wait for the user.                                     *)

\* Only the approval of a review answers with a signature or with a key.
LEMMA DataIsApproved ==
    ASSUME SessionInv, [SessionNext]_sessionVars, pending, ~pending',
           answer'.data.kind \in {"signature", "key"}
    PROVE  \/ answer'.data.kind = "signature" /\ ApproveTransaction
           \/ answer'.data.kind = "key" /\ ApprovePubkey
  <1>1. \A sw : ~Reply(sw, Nothing)
    BY DEF Reply, Nothing
  <1>2. ~(\E a \in Apdus : HandleApdu(a))
    BY DEF HandleApdu, Refuse, ContinueTransfer, GetAppConfiguration, RefuseMessage,
           SendPubkey, ShowPubkey, ShowTransaction, PubkeyFails, HashingFails, Completes, Deliver
  <1>3. ~NoApdu
    BY DEF NoApdu
  <1>4. ~Forward /\ ~Back
    BY <1>1 DEF Forward, Back, ShowStep, PrintFails
  <1>5. ~IoReset /\ ~PowerCycle
    BY DEF IoReset, PowerCycle, Restart, NoAnswer, Nothing
  <1>6. ~Reject /\ \A e \in Exceptions : ~SigningFails(e)
    BY <1>1 DEF Reject, SendResponse, SigningFails
  <1>7. ~UNCHANGED sessionVars
    BY DEF sessionVars
  <1>8. ApproveTransaction => answer'.data.kind = "signature"
    BY DEF ApproveTransaction, SendResponse, Reply, Signature
  <1>9. ApprovePubkey => answer'.data.kind = "key"
    <2> SUFFICES ASSUME ApprovePubkey PROVE answer'.data.kind = "key"
      OBVIOUS
    <2>1. Key.kind = "key" /\ answer'.data = Key
      BY DEF ApprovePubkey, SendResponse, Reply, Key, Nothing
    <2> QED BY <2>1
  <1> QED BY <1>2, <1>3, <1>4, <1>5, <1>6, <1>7, <1>8, <1>9 DEF SessionNext, Decide

\* No signature without a whole review, whatever the way through it.
THEOREM SignedAfterReview == SafeSpec => SignatureAfterReview
  <1>1. SessionInv /\ [SessionNext]_sessionVars
          => [SignatureSent => ReviewComplete]_sessionVars
    <2> SUFFICES ASSUME SessionInv, [SessionNext]_sessionVars, SignatureSent
                 PROVE  ReviewComplete
      OBVIOUS
    <2>1. pending /\ screen.kind = "sign" /\ screen.index = Len(summary) + 1
      BY DataIsApproved DEF SignatureSent, ApproveTransaction, AtApprove, ApproveStep, ItemSteps
    <2>2. \A i \in DOMAIN summary : i <= screen.index
      BY <2>1 DEF SessionInv, SessionTypeOK
    <2> QED BY <2>1, <2>2 DEF SessionInv, ReviewOfTransaction, ReviewComplete
  <1> QED BY <1>1, SessionInvariant, PTL DEF SafeSpec, SignatureAfterReview

\* The signature is over the reviewed transaction, with the reviewed path.
THEOREM SignedAsReviewed == SafeSpec => SignatureOfReviewed
  <1> DEFINE ofReviewed == /\ answer'.data.path = screen.path
                           /\ Parsed[screen.tx].finished => answer'.data.hash = screen.tx
                           /\ "chainID" \in Parsed[screen.tx].writes
                                 => answer'.data.chain = screen.tx
  <1>1. SessionInv /\ [SessionNext]_sessionVars => [SignatureSent => ofReviewed]_sessionVars
    <2> SUFFICES ASSUME SessionInv, [SessionNext]_sessionVars, SignatureSent
                 PROVE  ofReviewed
      OBVIOUS
    <2>1. pending /\ screen.kind = "sign" /\ answer'.data = Signature
      <3>1. pending /\ ApproveTransaction
        BY DataIsApproved DEF SignatureSent
      <3> QED BY <3>1 DEF ApproveTransaction, AtApprove, SendResponse, Reply
    <2>2. /\ answer'.data.path = command.path /\ answer'.data.hash = messageHash
          /\ answer'.data.chain = chainID
      BY <2>1 DEF Signature
    <2> QED BY <2>1, <2>2 DEF SessionInv, PendingIsOnScreen, ReviewOfTransaction
  <1> QED BY <1>1, SessionInvariant, PTL DEF SafeSpec, SignatureOfReviewed

\* The key that is sent after a review is the key that was on the display.
THEOREM ShownKeyIsSent == SafeSpec => KeySentIsShown
  <1>1. SessionInv /\ [SessionNext]_sessionVars
          => [KeySent => screen.kind = "pubkey" /\ answer'.data.path = screen.path]_sessionVars
    <2> SUFFICES ASSUME SessionInv, [SessionNext]_sessionVars, KeySent
                 PROVE  screen.kind = "pubkey" /\ answer'.data.path = screen.path
      OBVIOUS
    <2>1. pending /\ screen.kind = "pubkey" /\ answer'.data = Key
      <3>1. pending /\ ApprovePubkey
        BY DataIsApproved DEF KeySent
      <3> QED BY <3>1 DEF ApprovePubkey, AtApprove, SendResponse, Reply
    <2>2. Key.path = screen.path
      BY <2>1, KeyIsShown DEF Nothing
    <2> QED BY <2>1, <2>2
  <1> QED BY <1>1, SessionInvariant, PTL DEF SafeSpec, KeySentIsShown
================================================================================
