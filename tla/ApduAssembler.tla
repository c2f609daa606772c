---------------------------- MODULE ApduAssembler ----------------------------
(***************************************************************************)
(* apdu_handle_message (src/src/apdu.c): the deserialiser that turns each  *)
(* APDU of the host into G_command, the one command buffer of the          *)
(* application.  A command may take several APDUs: the first one carries   *)
(* the derivation path, the following ones carry P2_EXTEND, and every one  *)
(* but the last carries P2_MORE.                                           *)
(*                                                                         *)
(* An APDU is a record of what the code looks at: its length on the wire   *)
(* (len), the Lc field (lc), whether the class byte is right, the          *)
(* instruction, P1, the flags of P2, the derivation path its data would    *)
(* start with (its Len is the first data byte), the u16 length prefix of   *)
(* the deprecated sign command and the identity of its content.            *)
(***************************************************************************)
EXTENDS Integers, Sequences

CONSTANTS
    Apdus,               \* the APDUs the host may send
    MAX_MESSAGE_LENGTH,  \* bytes of G_command.message
    MaxTransfer          \* bound: chunks the host sends in one transfer

VARIABLES
    command,  \* G_command, without the message hash
    reply,    \* what the last call of apdu_handle_message returned
    acked     \* history: the chunks the host has seen accepted, see HostView

assemblerVars == <<command, reply, acked>>

-----------------------------------------------------------------------------
(* The instruction codes, by what the code does with them.                 *)

None == "None"
ConfigIns == {"GetAppConfiguration", "DeprecatedGetAppConfiguration"}
PubkeyIns == {"GetPubkey", "DeprecatedGetPubkey"}
MessageIns == {"SignMessage", "SignOffchainMessage", "DeprecatedSignMessage"}
TransactionIns == {"SignLegacyTransaction", "SignValueTransfer",
                   "SignValueTransferMemo", "SignSmartContractDeploy",
                   "SignSmartContractExecution", "SignCancel"}
DeprecatedIns == {"DeprecatedGetAppConfiguration", "DeprecatedGetPubkey",
                  "DeprecatedSignMessage"}
Instructions == ConfigIns \cup PubkeyIns \cup MessageIns \cup TransactionIns

MAX_BIP32_PATH_LENGTH == 5
UINT8_MAX == 255
UINT16_MAX == 65535

\* OFFSET_CDATA and DEPRECATED_OFFSET_CDATA: the bytes before the data.
HeaderLength(ins) == IF ins \in DeprecatedIns THEN 6 ELSE 5
MaxLength(ins) == IF ins \in DeprecatedIns THEN UINT16_MAX ELSE UINT8_MAX + 5

Errors == {"SdkInvalidParameter", "InvalidMessage", "InvalidMessageHeader",
           "InvalidMessageSize", "UnimplementedInstruction"}
Replies == {"Ok"} \cup Errors

ApduRecord ==
    [len: Nat, lc: Nat, cla: BOOLEAN, ins: Instructions \cup {None}, p1: 0 .. 255,
     extend: BOOLEAN, more: BOOLEAN, path: Seq(Nat), prefix: Nat, content: Nat]

ASSUME ApdusAssumption == Apdus \subseteq ApduRecord
ASSUME MaxMessageLengthAssumption == MAX_MESSAGE_LENGTH \in Nat
ASSUME MaxTransferAssumption == MaxTransfer \in Nat

-----------------------------------------------------------------------------
(* The command buffer.                                                     *)

Zeroed ==
    [state |-> "Uninitialized", instruction |-> None, path |-> <<>>, p1 |-> 0,
     nonConfirm |-> FALSE, deprecatedHost |-> FALSE, message |-> <<>>, messageLength |-> 0]

\* What one chunk leaves in the message buffer, and who sent it.
Fragment == [ins: Instructions, nonConfirm: BOOLEAN, first: BOOLEAN, more: BOOLEAN,
             size: Nat, content: Nat]

Command ==
    [state: {"Uninitialized", "InProgress", "Complete"},
     instruction: Instructions \cup {None}, path: Seq(Nat), p1: 0 .. 255,
     nonConfirm: BOOLEAN, deprecatedHost: BOOLEAN,
     message: Seq(Fragment), messageLength: Nat]

NonConfirm(a) == a.p1 = 0
IsFirst(a) == ~a.extend
Deprecated(a) == a.ins \in DeprecatedIns

-----------------------------------------------------------------------------
(* The checks, in the order of the code: each yields "Ok" or the error     *)
(* returned.                                                               *)

\* Lines 28-99: the class, the instruction and the three lengths.
HeaderCheck(a) ==
    IF a.len <= 1 THEN "InvalidMessageSize"
    ELSE IF ~a.cla THEN "InvalidMessageHeader"
    ELSE IF a.ins = None THEN "UnimplementedInstruction"
    ELSE IF a.len \in HeaderLength(a.ins) .. MaxLength(a.ins) /\ a.len = a.lc + HeaderLength(a.ins)
         THEN "Ok" ELSE "InvalidMessageSize"

\* Mutant: an extension of another instruction is let through.
MutantContinuesAny(a) ==
    /\ command.state = "InProgress"
    /\ command.nonConfirm = NonConfirm(a)
    /\ command.deprecatedHost = Deprecated(a)

\* Lines 119-126: an extension must continue the command in progress.
ContinuesCommand(a) ==
    /\ command.state = "InProgress"
    /\ command.instruction = a.ins
    /\ command.nonConfirm = NonConfirm(a)
    /\ command.deprecatedHost = Deprecated(a)

\* Mutant: transactions honour P2_EXTEND as messages do.
MutantReplaces(a) == a.ins \in MessageIns \cup TransactionIns => IsFirst(a)

\* Lines 107-132: every APDU but an extension of a message clears G_command.
Replaces(a) == a.ins \in MessageIns => IsFirst(a)

\* Mutant: a first chunk keeps the bytes of an abandoned message.
MutantBase(a) ==
    IF Replaces(a) THEN [Zeroed EXCEPT !.message = command.message,
                                       !.messageLength = command.messageLength]
    ELSE command

Base(a) == IF Replaces(a) THEN Zeroed ELSE command

PathBytes(a) == 1 + 4 * Len(a.path)

\* Mutants: the path may be longer than the data, or than the array.
MutantPathOverrun(a) ==
    IF a.lc = 0 THEN "InvalidMessageSize"
    ELSE IF Len(a.path) \in 1 .. MAX_BIP32_PATH_LENGTH THEN "Ok" ELSE "InvalidMessage"
MutantPathBound(a) ==
    IF a.lc = 0 \/ PathBytes(a) > a.lc THEN "InvalidMessageSize"
    ELSE IF Len(a.path) \in 1 .. MAX_BIP32_PATH_LENGTH + 1 THEN "Ok" ELSE "InvalidMessage"

\* Lines 135-150 and read_derivation_path; only a first chunk has a path.
PathCheck(a) ==
    IF a.lc = 0
    THEN IF Deprecated(a) \/ a.ins = "GetPubkey"
         THEN "SdkInvalidParameter" ELSE "InvalidMessageSize"
    ELSE IF Len(a.path) \notin 1 .. MAX_BIP32_PATH_LENGTH THEN "InvalidMessage"
    ELSE IF PathBytes(a) > a.lc THEN "InvalidMessageSize" ELSE "Ok"

\* Bytes left after the path, and after the prefix of the deprecated command.
AfterPath(a) == IF IsFirst(a) THEN a.lc - PathBytes(a) ELSE a.lc
PayloadSize(a) ==
    IF a.ins = "DeprecatedSignMessage" THEN AfterPath(a) - 2 ELSE AfterPath(a)

\* header.data is NULL: an extension without data (past a path or a prefix
\* the pointer is advanced, so it is not NULL even when nothing is left).
NoData(a) == ~IsFirst(a) /\ a.lc = 0

\* Mutant: the bytes already stored are not counted.
MutantFits(a) == PayloadSize(a) <= MAX_MESSAGE_LENGTH

Fits(a) == Base(a).messageLength + PayloadSize(a) <= MAX_MESSAGE_LENGTH

\* Lines 161-186.
PayloadCheck(a) ==
    IF a.ins = "DeprecatedSignMessage" /\ (AfterPath(a) < 2 \/ a.prefix # AfterPath(a) - 2)
    THEN "InvalidMessageSize"
    ELSE IF NoData(a)
         THEN IF a.ins \in PubkeyIns THEN "Ok" ELSE "InvalidMessageSize"
         ELSE IF Fits(a) THEN "Ok" ELSE "InvalidMessageSize"

\* Lines 151-159: what is stored before the data is looked at.
Opened(a) ==
    [Base(a) EXCEPT !.path = IF IsFirst(a) THEN a.path ELSE @,
                    !.p1 = a.p1, !.state = "InProgress", !.instruction = a.ins,
                    !.nonConfirm = NonConfirm(a), !.deprecatedHost = Deprecated(a)]

FragmentOf(a) ==
    [ins |-> a.ins, nonConfirm |-> NonConfirm(a), first |-> IsFirst(a),
     more |-> a.more, size |-> PayloadSize(a), content |-> a.content]

\* An empty chunk leaves no bytes.
Extended(message, a) ==
    IF NoData(a) \/ PayloadSize(a) = 0 THEN message ELSE Append(message, FragmentOf(a))

StateAfter(a) == IF a.more THEN "InProgress" ELSE "Complete"

-----------------------------------------------------------------------------
(* The host's side of a transfer: the chunks answered "Ok" since its last  *)
(* first chunk, per instruction.  It knows nothing of G_command.           *)

HostView(a, answer) ==
    LET continues == ~IsFirst(a) /\ acked.ins = a.ins /\ acked.nonConfirm = NonConfirm(a)
        seen == [ins |-> a.ins, nonConfirm |-> NonConfirm(a),
                 fragments |-> IF continues THEN acked.fragments ELSE <<>>]
    IN  IF a.ins \notin MessageIns \cup TransactionIns THEN acked
        ELSE IF answer = "Ok" THEN [seen EXCEPT !.fragments = Extended(@, a)]
        ELSE IF IsFirst(a) THEN seen ELSE acked

-----------------------------------------------------------------------------
(* apdu_handle_message, one action per way it returns.                     *)

\* The header is rejected before G_command is touched.
RejectHeader(a) ==
    /\ HeaderCheck(a) # "Ok"
    /\ reply' = HeaderCheck(a)
    /\ UNCHANGED <<command, acked>>

\* Lines 107-115.
AcceptConfiguration(a) ==
    /\ HeaderCheck(a) = "Ok"
    /\ a.ins \in ConfigIns
    /\ reply' = "Ok"
    /\ command' = [Zeroed EXCEPT !.state = "Complete", !.instruction = a.ins,
                                 !.nonConfirm = NonConfirm(a),
                                 !.deprecatedHost = Deprecated(a)]
    /\ UNCHANGED acked

\* Lines 119-126.
RejectExtension(a) ==
    /\ HeaderCheck(a) = "Ok"
    /\ ~Replaces(a)
    /\ ~ContinuesCommand(a)
    /\ reply' = "InvalidMessage"
    /\ UNCHANGED <<command, acked>>

\* Lines 128, 131, 141-150: G_command is cleared, then the path is refused.
RejectPath(a) ==
    /\ HeaderCheck(a) = "Ok"
    /\ a.ins \notin ConfigIns
    /\ IsFirst(a)
    /\ PathCheck(a) # "Ok"
    /\ reply' = PathCheck(a)
    /\ command' = Base(a)
    /\ acked' = HostView(a, reply')

\* The chunk belongs to a command: it passed every check before its data.
Belongs(a) ==
    /\ HeaderCheck(a) = "Ok"
    /\ a.ins \notin ConfigIns
    /\ ~Replaces(a) => ContinuesCommand(a)
    /\ IsFirst(a) => PathCheck(a) = "Ok"

\* Lines 154-186: the data is refused when the command is already open.
RejectPayload(a) ==
    /\ Belongs(a)
    /\ PayloadCheck(a) # "Ok"
    /\ reply' = PayloadCheck(a)
    /\ command' = Opened(a)
    /\ acked' = HostView(a, reply')

\* Lines 175-195.
AcceptChunk(a) ==
    /\ Belongs(a)
    /\ PayloadCheck(a) = "Ok"
    /\ reply' = "Ok"
    /\ command' = [Opened(a) EXCEPT
                     !.message = Extended(@, a),
                     !.messageLength = IF NoData(a) THEN @ ELSE @ + PayloadSize(a),
                     !.state = StateAfter(a)]
    /\ acked' = HostView(a, reply')

HandleMessage(a) ==
    \/ RejectHeader(a)
    \/ AcceptConfiguration(a)
    \/ RejectExtension(a)
    \/ RejectPath(a)
    \/ RejectPayload(a)
    \/ AcceptChunk(a)

\* reset_main_globals, when app_main starts again after an I/O reset.
ResetMainGlobals ==
    /\ command' = Zeroed
    /\ reply' = "Ok"
    /\ UNCHANGED acked

-----------------------------------------------------------------------------
Init ==
    /\ command = Zeroed
    /\ reply = "Ok"
    /\ acked = [ins |-> None, nonConfirm |-> FALSE, fragments |-> <<>>]

\* Bound: the host gives a transfer up after MaxTransfer chunks.
HostSends(a) == a.extend => Len(acked.fragments) < MaxTransfer

Next ==
    \/ \E a \in Apdus : HostSends(a) /\ HandleMessage(a)
    \/ ResetMainGlobals

Spec == Init /\ [][Next]_assemblerVars

-----------------------------------------------------------------------------
TypeOK ==
    /\ command \in Command
    /\ reply \in Replies
    /\ acked \in [ins: Instructions \cup {None}, nonConfirm: BOOLEAN, fragments: Seq(Fragment)]

\* G_command.message never holds more bytes than it has room for, whatever
\* sequence of accepted, refused and abandoned chunks led there: the bound
\* check (apdu.c:176) counts the bytes already stored, after any clearing.
BufferBounded == command.messageLength <= MAX_MESSAGE_LENGTH

\* Two commands never mix: every byte of the buffer was sent under the
\* instruction and the confirmation mode the command has now, only the
\* oldest chunk may be a first chunk, and only the newest may be final
\* (apdu.c:119-132).
OneCommandPerBuffer ==
    \A i \in DOMAIN command.message :
        LET f == command.message[i] IN
        /\ f.ins = command.instruction
        /\ f.nonConfirm = command.nonConfirm
        /\ f.first => i = 1
        /\ ~f.more => i = Len(command.message) /\ command.state = "Complete"

\* A message the host sees complete is exactly the chunks it was told were
\* accepted, in order, none lost to a command, a reset or a refusal in
\* between (sign-message instructions, which honour P2_EXTEND).
MessageTransferWhole ==
    (command.instruction \in MessageIns /\ command.state # "Uninitialized")
        => command.message = acked.fragments

\* The transaction parser takes the length as a uint8_t
\* (signLegacyTransaction.c:148): the cast is exact for every transaction
\* the assembler completes, because a transaction is always one APDU.
TransactionLengthFitsByte ==
    (command.instruction \in TransactionIns /\ command.state = "Complete")
        => command.messageLength % 256 = command.messageLength

\* A command that runs has a derivation path of 1 to 5 words unless its only
\* APDU was an extension, and a message the path of its first chunk.
PathOfFirstChunk ==
    (command.state = "Complete" /\ command.instruction \notin ConfigIns)
        => \/ Len(command.path) \in 1 .. MAX_BIP32_PATH_LENGTH
           \/ /\ command.instruction \in PubkeyIns \cup TransactionIns
              /\ command.path = <<>>
              /\ \A i \in DOMAIN command.message : ~command.message[i].first

\* The host sent a transfer as doc/api.md:112-115 and tests/apps/klaytn.py:134
\* say: one first chunk, then extensions, P2_MORE on all but the last.
ProperTransfer(fragments) ==
    /\ fragments # <<>>
    /\ \A i \in DOMAIN fragments :
          /\ fragments[i].first <=> i = 1
          /\ fragments[i].more <=> i < Len(fragments)

\* The same promise for the transactions: one sent properly in several
\* chunks, each of them accepted, is completed with all of them.  The code
\* clears the buffer at every transaction chunk (apdu.c:131).
TransactionTransferWhole ==
    (/\ command.instruction \in TransactionIns
     /\ command.state = "Complete"
     /\ ProperTransfer(acked.fragments))
        => command.message = acked.fragments
=============================================================================
