------------------------- MODULE ApduAssembler_proofs -------------------------
(***************************************************************************)
(* Proofs about ApduAssembler, for any set of APDUs, any buffer size and   *)
(* any bound on transfers.  The promises of the module are not inductive   *)
(* one by one: AssemblerInv adds what ties the host's view, the path and   *)
(* the single-APDU transactions to the state of the command.               *)
(***************************************************************************)
EXTENDS ApduAssembler, TLAPS

\* A command that is not open holds nothing, an open one has an instruction.
ClosedIsZeroed ==
    IF command.state = "Uninitialized" THEN command = Zeroed
    ELSE command.instruction \in Instructions

\* What a message command and the host agree on while the command is open,
\* and the path its first chunk left there.
MessageAgreed ==
    (command.instruction \in MessageIns /\ command.state # "Uninitialized")
        => /\ acked = [ins |-> command.instruction, nonConfirm |-> command.nonConfirm,
                       fragments |-> command.message]
           /\ Len(command.path) \in 1 .. MAX_BIP32_PATH_LENGTH

\* The other commands hold the bytes of one APDU.
OneApduPerTransaction ==
    (command.instruction \in PubkeyIns \cup TransactionIns)
        => /\ command.instruction \in TransactionIns => command.messageLength <= UINT8_MAX
           /\ \/ Len(command.path) \in 1 .. MAX_BIP32_PATH_LENGTH
              \/ /\ command.path = <<>>
                 /\ \A i \in DOMAIN command.message : ~command.message[i].first

AssemblerInv ==
    /\ TypeOK
    /\ BufferBounded
    /\ OneCommandPerBuffer
    /\ ClosedIsZeroed
    /\ MessageAgreed
    /\ OneApduPerTransaction

-----------------------------------------------------------------------------
(* The instruction classes.                                                *)

LEMMA InstructionClasses ==
    /\ MessageIns \cap TransactionIns = {}
    /\ MessageIns \cap ConfigIns = {}
    /\ MessageIns \cap PubkeyIns = {}
    /\ TransactionIns \cap (ConfigIns \cup PubkeyIns) = {}
    /\ ConfigIns \cap PubkeyIns = {}
    /\ TransactionIns \cap DeprecatedIns = {}
    /\ None \notin Instructions
  BY DEF MessageIns, TransactionIns, ConfigIns, PubkeyIns, DeprecatedIns, None, Instructions

\* The fields of an APDU, and what a good header says of them.
LEMMA GoodHeader ==
    ASSUME NEW a \in Apdus, HeaderCheck(a) = "Ok"
    PROVE  /\ a \in ApduRecord
           /\ a.ins \in Instructions
           /\ a.lc \in Nat
           /\ a.ins \notin DeprecatedIns => a.lc <= UINT8_MAX
  <1>1. a \in ApduRecord
    BY ApdusAssumption
  <1>2. /\ a.ins # None
        /\ a.len \in HeaderLength(a.ins) .. MaxLength(a.ins)
        /\ a.len = a.lc + HeaderLength(a.ins)
    BY DEF HeaderCheck
  <1>3. a.lc \in Nat /\ a.len \in Nat /\ a.ins \in Instructions
    BY <1>1, <1>2 DEF ApduRecord
  <1>4. a.ins \notin DeprecatedIns => a.lc <= UINT8_MAX
    BY <1>2, <1>3 DEF HeaderLength, MaxLength, UINT8_MAX
  <1> QED BY <1>1, <1>3, <1>4

\* A chunk whose data is accepted carries a non-negative number of bytes, no
\* more than the data field holds.
LEMMA PayloadSizeBounded ==
    ASSUME NEW a \in Apdus, Belongs(a), PayloadCheck(a) = "Ok"
    PROVE  PayloadSize(a) \in Nat /\ PayloadSize(a) <= a.lc
  <1>1. a.lc \in Nat /\ a.path \in Seq(Nat) /\ a.prefix \in Nat /\ a.ins \in Instructions
    BY GoodHeader DEF Belongs, ApduRecord
  <1>2. PathBytes(a) \in Nat
    <2>1. Len(a.path) \in Nat
      BY <1>1
    <2> QED BY <2>1 DEF PathBytes
  <1>3. AfterPath(a) \in Nat /\ AfterPath(a) <= a.lc
    <2>1. CASE IsFirst(a)
      <3>1. a.lc # 0 /\ ~(PathBytes(a) > a.lc)
        BY <2>1 DEF Belongs, PathCheck
      <3> QED BY <1>1, <1>2, <2>1, <3>1 DEF AfterPath
    <2>2. CASE ~IsFirst(a)
      BY <1>1, <2>2 DEF AfterPath
    <2> QED BY <2>1, <2>2
  <1>4. a.ins = "DeprecatedSignMessage" => AfterPath(a) >= 2
    BY <1>3 DEF PayloadCheck
  <1> QED BY <1>1, <1>3, <1>4 DEF PayloadSize

LEMMA FragmentType ==
    ASSUME NEW a \in Apdus, Belongs(a), PayloadCheck(a) = "Ok"
    PROVE  FragmentOf(a) \in Fragment
  <1>1. a \in ApduRecord /\ a.ins \in Instructions
    BY GoodHeader DEF Belongs
  <1>2. a.more \in BOOLEAN /\ a.extend \in BOOLEAN /\ a.content \in Nat
    BY <1>1 DEF ApduRecord
  <1> QED BY <1>1, <1>2, PayloadSizeBounded DEF FragmentOf, Fragment, NonConfirm, IsFirst

\* What Extended does to a sequence: nothing, or one fragment at its end.
LEMMA ExtendedSeq ==
    ASSUME NEW a \in Apdus, Belongs(a), PayloadCheck(a) = "Ok", NEW s \in Seq(Fragment)
    PROVE  /\ Extended(s, a) \in Seq(Fragment)
           /\ \A i \in DOMAIN Extended(s, a) :
                 \/ i \in DOMAIN s /\ Extended(s, a)[i] = s[i]
                 \/ i = Len(s) + 1 /\ i = Len(Extended(s, a)) /\ Extended(s, a)[i] = FragmentOf(a)
  <1>1. CASE Extended(s, a) = s
    BY <1>1
  <1>2. CASE Extended(s, a) = Append(s, FragmentOf(a))
    BY <1>2, FragmentType
  <1> QED BY <1>1, <1>2 DEF Extended

LEMMA ZeroedType == Zeroed \in Command
  BY DEF Zeroed, Command, None

-----------------------------------------------------------------------------
(* A chunk that belongs opens the command.                                 *)

LEMMA OpenedCommand ==
    ASSUME NEW a \in Apdus, AssemblerInv, Belongs(a)
    PROVE  /\ Base(a) \in Command
           /\ Base(a).messageLength <= MAX_MESSAGE_LENGTH
           /\ Opened(a) \in Command
           /\ Opened(a).message = Base(a).message
           /\ Opened(a).messageLength = Base(a).messageLength
           /\ Opened(a).instruction = a.ins
           /\ Opened(a).nonConfirm = NonConfirm(a)
           /\ Opened(a).state = "InProgress"
           /\ IsFirst(a) => Opened(a).path = a.path
           /\ ~IsFirst(a) => Opened(a).path = Base(a).path
  <1>1. a \in ApduRecord /\ a.ins \in Instructions
    BY GoodHeader DEF Belongs
  <1>2. /\ a.path \in Seq(Nat) /\ a.p1 \in 0 .. 255
        /\ NonConfirm(a) \in BOOLEAN /\ Deprecated(a) \in BOOLEAN
    BY <1>1 DEF ApduRecord, NonConfirm, Deprecated
  <1>3. Base(a) \in Command /\ Base(a).messageLength <= MAX_MESSAGE_LENGTH
    BY ZeroedType, MaxMessageLengthAssumption
       DEF Base, AssemblerInv, TypeOK, BufferBounded, Zeroed
  <1> QED BY <1>1, <1>2, <1>3 DEF Opened, Command

\* An extension of a message finds the command its first chunk opened.
LEMMA ExtensionContinues ==
    ASSUME NEW a \in Apdus, AssemblerInv, Belongs(a), a.ins \in MessageIns, ~IsFirst(a)
    PROVE  /\ Base(a) = command
           /\ command.instruction = a.ins
           /\ command.nonConfirm = NonConfirm(a)
           /\ command.state = "InProgress"
           /\ acked = [ins |-> a.ins, nonConfirm |-> NonConfirm(a),
                       fragments |-> command.message]
           /\ Len(command.path) \in 1 .. MAX_BIP32_PATH_LENGTH
  <1>1. ~Replaces(a) /\ ContinuesCommand(a)
    BY DEF Replaces, Belongs
  <1> QED BY <1>1 DEF Base, ContinuesCommand, AssemblerInv, MessageAgreed

\* What the host sees of a message chunk is what the buffer held, if the
\* chunk is an extension, and nothing otherwise; then the accepted bytes.
LEMMA HostViewOfMessage ==
    ASSUME NEW a \in Apdus, AssemblerInv, Belongs(a), a.ins \in MessageIns
    PROVE  /\ HostView(a, "Ok") = [ins |-> a.ins, nonConfirm |-> NonConfirm(a),
                                   fragments |-> Extended(Base(a).message, a)]
           /\ \A e \in Errors : HostView(a, e) =
                 [ins |-> a.ins, nonConfirm |-> NonConfirm(a), fragments |-> Base(a).message]
  <1>1. CASE IsFirst(a)
    <2>1. Base(a).message = <<>>
      BY <1>1 DEF Base, Replaces, Zeroed
    <2> QED BY <1>1, <2>1 DEF HostView, Errors
  <1>2. CASE ~IsFirst(a)
    BY <1>2, ExtensionContinues DEF HostView, Errors
  <1> QED BY <1>1, <1>2

LEMMA HostViewType ==
    ASSUME NEW a \in Apdus, TypeOK, HeaderCheck(a) = "Ok", NEW r \in Replies,
           r = "Ok" => Belongs(a) /\ PayloadCheck(a) = "Ok"
    PROVE  HostView(a, r) \in
             [ins: Instructions \cup {None}, nonConfirm: BOOLEAN, fragments: Seq(Fragment)]
  <1> DEFINE continues == ~IsFirst(a) /\ acked.ins = a.ins /\ acked.nonConfirm = NonConfirm(a)
             kept == IF continues THEN acked.fragments ELSE <<>>
             seen == [ins |-> a.ins, nonConfirm |-> NonConfirm(a), fragments |-> kept]
  <1>1. acked \in [ins: Instructions \cup {None}, nonConfirm: BOOLEAN, fragments: Seq(Fragment)]
    BY DEF TypeOK
  <1>2. kept \in Seq(Fragment)
    BY <1>1
  <1>3. a.ins \in Instructions /\ NonConfirm(a) \in BOOLEAN
    BY GoodHeader DEF NonConfirm
  <1>4. r = "Ok" => Extended(kept, a) \in Seq(Fragment)
    BY <1>2, ExtendedSeq
  <1>5. HostView(a, r) \in {acked, seen,
                             [ins |-> a.ins, nonConfirm |-> NonConfirm(a),
                              fragments |-> Extended(kept, a)]}
    BY DEF HostView
  <1>6. r # "Ok" => HostView(a, r) \in {acked, seen}
    BY DEF HostView
  <1> HIDE DEF kept
  <1> QED BY <1>1, <1>2, <1>3, <1>4, <1>5, <1>6

LEMMA CheckErrors ==
    ASSUME NEW a \in Apdus
    PROVE  HeaderCheck(a) \in Replies /\ PathCheck(a) \in Replies /\ PayloadCheck(a) \in Replies
  BY DEF HeaderCheck, PathCheck, PayloadCheck, Replies, Errors

-----------------------------------------------------------------------------
(* One lemma per action.                                                   *)

LEMMA ZeroedInv ==
    ASSUME AssemblerInv, command' = Zeroed, reply' \in Replies,
           acked' \in [ins: Instructions \cup {None}, nonConfirm: BOOLEAN,
                        fragments: Seq(Fragment)]
    PROVE  AssemblerInv'
  <1>1. TypeOK'
    BY ZeroedType DEF TypeOK
  <1>2. BufferBounded' /\ OneCommandPerBuffer' /\ ClosedIsZeroed'
    BY MaxMessageLengthAssumption DEF BufferBounded, OneCommandPerBuffer, ClosedIsZeroed, Zeroed
  <1>3. MessageAgreed' /\ OneApduPerTransaction'
    BY InstructionClasses
       DEF MessageAgreed, OneApduPerTransaction, Zeroed, Instructions
  <1> QED BY <1>1, <1>2, <1>3 DEF AssemblerInv

LEMMA RejectHeaderInv ==
    ASSUME NEW a \in Apdus, AssemblerInv, RejectHeader(a)
    PROVE  AssemblerInv'
  BY CheckErrors
     DEF RejectHeader, AssemblerInv, TypeOK, BufferBounded, OneCommandPerBuffer,
         ClosedIsZeroed, MessageAgreed, OneApduPerTransaction

LEMMA RejectExtensionInv ==
    ASSUME NEW a \in Apdus, AssemblerInv, RejectExtension(a)
    PROVE  AssemblerInv'
  BY DEF RejectExtension, AssemblerInv, TypeOK, BufferBounded, OneCommandPerBuffer,
         ClosedIsZeroed, MessageAgreed, OneApduPerTransaction, Replies, Errors

LEMMA RejectPathInv ==
    ASSUME NEW a \in Apdus, AssemblerInv, RejectPath(a)
    PROVE  AssemblerInv'
  <1>1. command' = Zeroed
    BY DEF RejectPath, Base, Replaces
  <1>2. reply' \in Replies /\ reply' # "Ok"
    BY CheckErrors DEF RejectPath
  <1>3. acked' \in [ins: Instructions \cup {None}, nonConfirm: BOOLEAN, fragments: Seq(Fragment)]
    BY <1>2, HostViewType DEF RejectPath, AssemblerInv
  <1> QED BY <1>1, <1>2, <1>3, ZeroedInv

LEMMA AcceptConfigurationInv ==
    ASSUME NEW a \in Apdus, AssemblerInv, AcceptConfiguration(a)
    PROVE  AssemblerInv'
  <1>1. a.ins \in Instructions /\ a.ins \in ConfigIns
    BY GoodHeader DEF AcceptConfiguration
  <1>2. command' = [state |-> "Complete", instruction |-> a.ins, path |-> <<>>, p1 |-> 0,
                    nonConfirm |-> NonConfirm(a), deprecatedHost |-> Deprecated(a),
                    message |-> <<>>, messageLength |-> 0]
    BY DEF AcceptConfiguration, Zeroed
  <1>b. command' \in Command
    BY <1>1, <1>2 DEF Command, NonConfirm, Deprecated
  <1>3. TypeOK'
    BY <1>b DEF AcceptConfiguration, AssemblerInv, TypeOK, Replies
  <1>4. BufferBounded' /\ OneCommandPerBuffer' /\ ClosedIsZeroed'
    BY <1>1, <1>2, MaxMessageLengthAssumption DEF BufferBounded, OneCommandPerBuffer, ClosedIsZeroed
  <1>5. MessageAgreed' /\ OneApduPerTransaction'
    BY <1>1, <1>2, InstructionClasses DEF MessageAgreed, OneApduPerTransaction
  <1> QED BY <1>3, <1>4, <1>5 DEF AssemblerInv

\* The bytes of an opened command: those of the message it extends, or none.
LEMMA OpenedFragments ==
    ASSUME NEW a \in Apdus, AssemblerInv, Belongs(a)
    PROVE  \A i \in DOMAIN Base(a).message :
              LET f == Base(a).message[i] IN
              f.ins = a.ins /\ f.nonConfirm = NonConfirm(a) /\ (f.first => i = 1) /\ f.more
  <1>1. CASE Replaces(a)
    BY <1>1 DEF Base, Zeroed
  <1>2. CASE ~Replaces(a)
    <2>1. Base(a) = command /\ ContinuesCommand(a)
      BY <1>2 DEF Base, Belongs
    <2> QED BY <2>1 DEF ContinuesCommand, AssemblerInv, OneCommandPerBuffer
  <1> QED BY <1>1, <1>2

LEMMA RejectPayloadInv ==
    ASSUME NEW a \in Apdus, AssemblerInv, RejectPayload(a)
    PROVE  AssemblerInv'
  <1>1. Belongs(a) /\ command' = Opened(a) /\ reply' \in Errors /\ acked' = HostView(a, reply')
    BY CheckErrors DEF RejectPayload, Replies
  <1>2. HeaderCheck(a) = "Ok" /\ a.ins \in Instructions
    BY <1>1, GoodHeader DEF Belongs
  <1>3. TypeOK'
    BY <1>1, <1>2, OpenedCommand, HostViewType DEF TypeOK, AssemblerInv, Replies, Errors
  <1>4. BufferBounded'
    BY <1>1, OpenedCommand DEF BufferBounded
  <1>5. OneCommandPerBuffer' /\ ClosedIsZeroed'
    BY <1>1, <1>2, OpenedCommand, OpenedFragments DEF OneCommandPerBuffer, ClosedIsZeroed
  <1>6. MessageAgreed'
    <2> SUFFICES ASSUME a.ins \in MessageIns
                 PROVE  /\ acked' = [ins |-> a.ins, nonConfirm |-> NonConfirm(a),
                                     fragments |-> Base(a).message]
                        /\ Len(Opened(a).path) \in 1 .. MAX_BIP32_PATH_LENGTH
      BY <1>1, OpenedCommand DEF MessageAgreed
    <2>1. acked' = [ins |-> a.ins, nonConfirm |-> NonConfirm(a), fragments |-> Base(a).message]
      BY <1>1, HostViewOfMessage
    <2>2. CASE IsFirst(a)
      BY <1>1, <2>1, <2>2, OpenedCommand DEF Belongs, PathCheck
    <2>3. CASE ~IsFirst(a)
      BY <1>1, <2>1, <2>3, OpenedCommand, ExtensionContinues
    <2> QED BY <2>1, <2>2, <2>3
  <1>7. OneApduPerTransaction'
    <2> SUFFICES ASSUME a.ins \in PubkeyIns \cup TransactionIns
                 PROVE  OneApduPerTransaction'
      BY <1>1, OpenedCommand DEF OneApduPerTransaction
    <2>1. Base(a) = Zeroed
      BY InstructionClasses DEF Base, Replaces
    <2>2. Opened(a).messageLength = 0 /\ Opened(a).message = <<>>
      BY <1>1, <2>1, OpenedCommand DEF Zeroed
    <2>3. CASE IsFirst(a)
      BY <1>1, <2>2, <2>3, OpenedCommand DEF Belongs, PathCheck, OneApduPerTransaction, UINT8_MAX
    <2>4. CASE ~IsFirst(a)
      BY <1>1, <2>1, <2>2, <2>4, OpenedCommand DEF OneApduPerTransaction, Zeroed, UINT8_MAX
    <2> QED BY <2>3, <2>4
  <1> QED BY <1>3, <1>4, <1>5, <1>6, <1>7 DEF AssemblerInv

LEMMA AcceptChunkInv ==
    ASSUME NEW a \in Apdus, AssemblerInv, AcceptChunk(a)
    PROVE  AssemblerInv'
  <1> DEFINE old == Base(a).message
             new == Extended(old, a)
             n == IF NoData(a) THEN Base(a).messageLength
                  ELSE Base(a).messageLength + PayloadSize(a)
  <1>1. Belongs(a) /\ PayloadCheck(a) = "Ok" /\ reply' = "Ok" /\ acked' = HostView(a, "Ok")
    BY DEF AcceptChunk
  <1>2. HeaderCheck(a) = "Ok" /\ a.ins \in Instructions /\ a.ins \notin ConfigIns
    BY <1>1, GoodHeader DEF Belongs
  <1>3. /\ Opened(a) \in Command /\ Base(a) \in Command
        /\ Opened(a).message = old /\ Opened(a).messageLength = Base(a).messageLength
    BY <1>1, OpenedCommand
  <1>4. old \in Seq(Fragment) /\ Base(a).messageLength \in Nat
    BY <1>3 DEF Command
  <1>5. PayloadSize(a) \in Nat /\ PayloadSize(a) <= a.lc
    BY <1>1, PayloadSizeBounded
  <1>6. n \in Nat /\ command' = [Opened(a) EXCEPT !.message = new, !.messageLength = n,
                                                  !.state = StateAfter(a)]
    BY <1>3, <1>4, <1>5 DEF AcceptChunk
  <1>7. new \in Seq(Fragment)
    BY <1>1, <1>4, ExtendedSeq
  <1>8. StateAfter(a) \in {"InProgress", "Complete"} /\ (a.more \in BOOLEAN)
        /\ (StateAfter(a) = "InProgress" <=> a.more)
    BY <1>2, GoodHeader DEF StateAfter, ApduRecord
  <1> HIDE DEF new, old, n
  <1>9. /\ command' \in Command
        /\ command'.message = new /\ command'.messageLength = n
        /\ command'.state = StateAfter(a) /\ command'.instruction = a.ins
        /\ command'.nonConfirm = NonConfirm(a) /\ command'.path = Opened(a).path
    <2>1. Opened(a).instruction = a.ins /\ Opened(a).nonConfirm = NonConfirm(a)
      BY <1>1, OpenedCommand
    <2>2. PICK c, d, s : c = Opened(a) /\ d = command' /\ s = StateAfter(a)
      OBVIOUS
    <2>3. d = [c EXCEPT !.message = new, !.messageLength = n, !.state = s]
      BY <1>6, <2>2
    <2>4. c \in Command /\ s \in {"InProgress", "Complete"} /\ n \in Nat /\ new \in Seq(Fragment)
      BY <1>3, <1>6, <1>7, <1>8, <2>2
    <2>5. /\ d \in Command
          /\ d.message = new /\ d.messageLength = n /\ d.state = s
          /\ d.instruction = c.instruction /\ d.nonConfirm = c.nonConfirm /\ d.path = c.path
      BY <2>3, <2>4 DEF Command
    <2> QED BY <2>1, <2>2, <2>5
  <1>10. TypeOK'
    BY <1>1, <1>2, <1>9, HostViewType DEF TypeOK, AssemblerInv, Replies
  <1>11. BufferBounded'
    <2>1. Base(a).messageLength <= MAX_MESSAGE_LENGTH
      BY <1>1, OpenedCommand
    <2>2. ~NoData(a) => Base(a).messageLength + PayloadSize(a) <= MAX_MESSAGE_LENGTH
      BY <1>1 DEF PayloadCheck, Fits
    <2> QED BY <1>6, <1>9, <2>1, <2>2 DEF BufferBounded, n
  <1>12. OneCommandPerBuffer'
    <2> SUFFICES ASSUME NEW i \in DOMAIN new
                 PROVE  /\ new[i].ins = a.ins /\ new[i].nonConfirm = NonConfirm(a)
                        /\ new[i].first => i = 1
                        /\ ~new[i].more => i = Len(new) /\ StateAfter(a) = "Complete"
      BY <1>9 DEF OneCommandPerBuffer
    <2>1. CASE i \in DOMAIN old /\ new[i] = old[i]
      BY <1>1, <2>1, OpenedFragments DEF old
    <2>2. CASE i = Len(old) + 1 /\ i = Len(new) /\ new[i] = FragmentOf(a)
      <3>1. IsFirst(a) => old = <<>>
        BY DEF old, Base, Replaces, Zeroed
      <3> QED BY <1>8, <2>2, <3>1 DEF FragmentOf
    <2> QED BY <1>1, <1>4, <2>1, <2>2, ExtendedSeq DEF new
  <1>13. ClosedIsZeroed'
    BY <1>2, <1>8, <1>9 DEF ClosedIsZeroed
  <1>14. MessageAgreed'
    <2> SUFFICES ASSUME a.ins \in MessageIns
                 PROVE  /\ acked' = [ins |-> a.ins, nonConfirm |-> NonConfirm(a),
                                     fragments |-> new]
                        /\ Len(Opened(a).path) \in 1 .. MAX_BIP32_PATH_LENGTH
      BY <1>9 DEF MessageAgreed
    <2>1. acked' = [ins |-> a.ins, nonConfirm |-> NonConfirm(a), fragments |-> new]
      BY <1>1, HostViewOfMessage DEF new, old
    <2>2. CASE IsFirst(a)
      BY <1>1, <2>1, <2>2, OpenedCommand DEF Belongs, PathCheck
    <2>3. CASE ~IsFirst(a)
      BY <1>1, <2>1, <2>3, OpenedCommand, ExtensionContinues
    <2> QED BY <2>2, <2>3
  <1>15. OneApduPerTransaction'
    <2> SUFFICES ASSUME a.ins \in PubkeyIns \cup TransactionIns
                 PROVE  /\ a.ins \in TransactionIns => n <= UINT8_MAX
                        /\ \/ Len(Opened(a).path) \in 1 .. MAX_BIP32_PATH_LENGTH
                           \/ /\ Opened(a).path = <<>>
                              /\ \A i \in DOMAIN new : ~new[i].first
      BY <1>9 DEF OneApduPerTransaction
    <2>1. Base(a) = Zeroed
      BY InstructionClasses DEF Base, Replaces
    <2>2. Base(a).messageLength = 0 /\ old = <<>> /\ Base(a).path = <<>>
      BY <2>1 DEF Zeroed, old
    <2>3. a.ins \in TransactionIns => n <= UINT8_MAX
      <3> SUFFICES ASSUME a.ins \in TransactionIns PROVE n <= UINT8_MAX
        OBVIOUS
      <3>1. a.lc <= UINT8_MAX /\ a.lc \in Nat
        BY <1>2, GoodHeader, InstructionClasses
      <3> QED BY <1>5, <1>6, <2>2, <3>1 DEF UINT8_MAX, n
    <2>4. CASE IsFirst(a)
      BY <1>1, <2>3, <2>4, OpenedCommand DEF Belongs, PathCheck
    <2>5. CASE ~IsFirst(a)
      <3>1. Opened(a).path = <<>>
        BY <1>1, <2>2, <2>5, OpenedCommand
      <3>2. \A i \in DOMAIN new : new[i] = FragmentOf(a)
        <4>1. DOMAIN old = {}
          BY <2>2
        <4> QED BY <1>1, <1>4, <4>1, ExtendedSeq DEF new
      <3> QED BY <2>3, <2>5, <3>1, <3>2 DEF FragmentOf
    <2> QED BY <2>4, <2>5
  <1> QED BY <1>10, <1>11, <1>12, <1>13, <1>14, <1>15 DEF AssemblerInv

-----------------------------------------------------------------------------
(* The invariant, and the promises that follow from it.                    *)

LEMMA AssemblerInvInit == Init => AssemblerInv
  <1> SUFFICES ASSUME Init PROVE AssemblerInv
    OBVIOUS
  <1>1. TypeOK
    BY ZeroedType DEF Init, TypeOK, Replies, None
  <1> QED BY <1>1, MaxMessageLengthAssumption, InstructionClasses
          DEF Init, AssemblerInv, BufferBounded, OneCommandPerBuffer, ClosedIsZeroed,
              MessageAgreed, OneApduPerTransaction, Zeroed, Instructions

LEMMA AssemblerInvNext == AssemblerInv /\ [Next]_assemblerVars => AssemblerInv'
  <1> SUFFICES ASSUME AssemblerInv, [Next]_assemblerVars PROVE AssemblerInv'
    OBVIOUS
  <1>1. CASE \E a \in Apdus : HandleMessage(a)
    <2>1. PICK a \in Apdus : HandleMessage(a)
      BY <1>1
    <2>2. CASE RejectHeader(a)         BY <2>2, RejectHeaderInv
    <2>3. CASE AcceptConfiguration(a)  BY <2>3, AcceptConfigurationInv
    <2>4. CASE RejectExtension(a)      BY <2>4, RejectExtensionInv
    <2>5. CASE RejectPath(a)           BY <2>5, RejectPathInv
    <2>6. CASE RejectPayload(a)        BY <2>6, RejectPayloadInv
    <2>7. CASE AcceptChunk(a)          BY <2>7, AcceptChunkInv
    <2> QED BY <2>1, <2>2, <2>3, <2>4, <2>5, <2>6, <2>7 DEF HandleMessage
  <1>2. CASE ResetMainGlobals
    BY <1>2, ZeroedInv DEF ResetMainGlobals, AssemblerInv, TypeOK, Replies
  <1>3. CASE UNCHANGED assemblerVars
    BY <1>3 DEF assemblerVars, AssemblerInv, TypeOK, BufferBounded, OneCommandPerBuffer,
                ClosedIsZeroed, MessageAgreed, OneApduPerTransaction
  <1> QED BY <1>1, <1>2, <1>3 DEF Next

LEMMA AssemblerInvariant == Spec => []AssemblerInv
  BY AssemblerInvInit, AssemblerInvNext, PTL DEF Spec

\* The command buffer, the reply and the host's view stay well-formed.
THEOREM TypeCorrect == Spec => []TypeOK
  BY AssemblerInvariant, PTL DEF AssemblerInv

\* Whatever the APDUs, the message buffer (apdu.c:176) is never overrun.
THEOREM BufferNeverOverrun == Spec => []BufferBounded
  BY AssemblerInvariant, PTL DEF AssemblerInv

\* The buffer never mixes the chunks of two commands (apdu.c:119-132).
THEOREM NoMixedCommands == Spec => []OneCommandPerBuffer
  BY AssemblerInvariant, PTL DEF AssemblerInv

\* A message the host saw accepted is in the buffer whole and in order.
THEOREM MessagesArriveWhole == Spec => []MessageTransferWhole
  <1>1. AssemblerInv => MessageTransferWhole
    BY DEF AssemblerInv, MessageAgreed, MessageTransferWhole
  <1> QED BY <1>1, AssemblerInvariant, PTL

\* The uint8_t cast of the transaction length (signLegacyTransaction.c:148)
\* loses nothing, for any buffer size.
THEOREM TransactionLengthExact == Spec => []TransactionLengthFitsByte
  <1>1. AssemblerInv => TransactionLengthFitsByte
    <2> SUFFICES ASSUME AssemblerInv, command.instruction \in TransactionIns
                 PROVE  command.messageLength % 256 = command.messageLength
      BY DEF TransactionLengthFitsByte
    <2>1. command.messageLength \in Nat /\ command.messageLength <= 255
      BY DEF AssemblerInv, TypeOK, Command, OneApduPerTransaction, UINT8_MAX
    <2> QED BY <2>1
  <1> QED BY <1>1, AssemblerInvariant, PTL

\* The path a complete command runs with is the one its first chunk carried.
THEOREM PathIsOfFirstChunk == Spec => []PathOfFirstChunk
  <1>1. AssemblerInv => PathOfFirstChunk
    <2> SUFFICES ASSUME AssemblerInv, command.state = "Complete",
                        command.instruction \notin ConfigIns
                 PROVE  \/ Len(command.path) \in 1 .. MAX_BIP32_PATH_LENGTH
                        \/ /\ command.instruction \in PubkeyIns \cup TransactionIns
                           /\ command.path = <<>>
                           /\ \A i \in DOMAIN command.message : ~command.message[i].first
      BY DEF PathOfFirstChunk
    <2>1. CASE command.instruction \in MessageIns
      BY <2>1 DEF AssemblerInv, MessageAgreed
    <2>2. CASE command.instruction \in PubkeyIns \cup TransactionIns
      BY <2>2 DEF AssemblerInv, OneApduPerTransaction
    <2> QED BY <2>1, <2>2 DEF AssemblerInv, ClosedIsZeroed, Instructions
  <1> QED BY <1>1, AssemblerInvariant, PTL
=============================================================================
