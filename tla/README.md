# A TLA+ verification of the Klaytn application

The Klaytn application for Ledger devices (`src/`, `lib/`) takes commands of a
host over a transport that hands over one APDU at a time. It answers some of
them at once, and shows the others to the user, who goes through the screens of
a review and approves or rejects. A host trusts that what it sent is what the
application received; a user, that what was shown is what is signed.

This directory states those promises, checks them with TLC on small instances,
and proves most of them with TLAPS for every instance.

## 1. The system

### Components

| Component | Source | State | Operations | Hard because |
| --- | --- | --- | --- | --- |
| APDU deserialiser | `src/apdu.c`, `read_derivation_path` | `G_command` (one command buffer for all commands) | `apdu_handle_message`: a first chunk or an extension, accepted or refused at one of a dozen points | a refusal may come after the buffer was cleared or the command opened; any command may interrupt a transfer |
| Command loop | `src/main.c` | `rx`, `tx`, `flags`; globals | `app_main`, `handleApdu`, the restart after an I/O reset or a loss of power | exceptions carry every answer; some globals survive a restart |
| Public key command | `src/getPubkey.c`, `src/utils.c` | `G_publicKey` | `handle_get_pubkey`, the flow with Approve and Reject | the key is read again at the approval |
| Transaction command | `src/signLegacyTransaction.c`, `src/logic_signTx.c` | message hash in `G_command`, `chainID` | hash, parse, summarise, show; sign at the approval | path, hash and chain id are read again at the approval; callbacks throw |
| Transaction summary | `lib/message.c`, `lib/instruction.c`, `lib/transaction_summary.c` | `G_transaction_summary`, the text on the display | choose the items, find and print one | a pointer into `txContent` is read at each display; printing may fail in the middle |
| Transaction parser | `src/ethUstream.c`, `src/ethUstream.h`, `src/ethUtils.c` | `txContext_t`, `txContent_t` | `processTx`: one RLP field per turn, hashing as it reads | bytes are given back; a field may break off; fields are skipped by hand |
| RLP header decoding | `src/ethUtils.c`, the loop of `parseRLP` | `rlpBuffer`, `rlpBufferPos` | one header, byte by byte | the buffer keeps the header before; a length has up to four bytes |
| Settings | `src/menu_bagl.c`, `nv_app_state_init` | `N_storage` in flash | the first start, the menu, a choice | the power may go in the middle of a write; menu and review share a screen and an event loop |
| Printing | `lib/printer.c`, `lib/util.h`, `lib/transaction_summary.c` | the text and the title on the display | print an item and set its title | one buffer for all items; zeros stripped by hand; numbers wider than their text |
| Signature formatting | `src/signLegacyTransaction.c:13-80` | `G_io_apdu_buffer` | `set_result_sign_message` | DER numbers of 1 to 33 bytes; `v` is one byte |
| Left over | `src/uint256.c`, `src/uint128.c`, `lib/parser.c`, `lib/rfc3339.c`, and `src/utils_copy.c` but for `u64_from_BE` | none | none reachable from a command | not modelled |

### Interactions

`app_main` calls `io_exchange`, which sends the last answer (unless the request
waits for the user), serves button events and returns the next APDU. `handleApdu`
gives the APDU to `apdu_handle_message`; a complete command runs. A command that
needs the user puts a flow on the display and sets `IO_ASYNCH_REPLY`: the answer
is then sent by `sendResponse`, from a callback of the flow, inside the next
`io_exchange`. When no review is on the display the menu is, and its callbacks write
`N_storage`, which the review's steps read. The components share their state through globals: the deserialiser
writes `G_command`, the parser writes `txContent` and `chainID` and the hash, the
summary points into `txContent`, and the callbacks read all of them later.

### What makes each component correct

* Deserialiser: the buffer is bounded; it never mixes two commands; a message the
  host was told is complete is what the host sent; the path is of a first chunk.
* Loop, commands and review: every request is answered, once; what is shown is
  of the request that waits; no signature before the whole review; the
  signature is over what was reviewed; the key sent is the key shown.
* Settings: whenever the application runs, they are the owner's last choice, or the
  defaults of the device; they do not change under a review.
* Display and answer: the text under a title is the value its item holds, and the answer is
  the signature, whatever lay in the buffers before. That the item holds the transaction's
  own number, whole, is the summary's part (up to 64 bits: see section 5).
* Parser: it returns; a finished transaction was read field by field in the order
  of its encoding, was hashed byte by byte, and determined what is shown.

`PROJECT.json` lists under `hazards`, line by line, what can go wrong and the
properties that would catch it.

## 2. The modules

| Module | Models | Uses |
| --- | --- | --- |
| `ApduAssembler` | `apdu_handle_message` and the host's view of a transfer | |
| `AppSession` | the loop, the commands, the review, the user, the restarts | extends `ApduAssembler`, `TxFields`; implements `ApduAssembler` and `TxSigner` |
| `TxSigner` | abstract: what the application promises its user | |
| `Device` | start-up, flash, menu and session on one screen | extends `AppSession` |
| `RlpHeader` | `rlpCanDecode`, `rlpDecodeLength`, the loop of `parseRLP` | extends `HeaderForms` |
| `HeaderForms` | the headers there are: shown by `RlpHeader`, assumed by `TxParser` | |
| `TxParser` | `processTx` | extends `HeaderForms`, `TxFields` |
| `TxFields` | the fields a finished transaction determines: shown by `TxParser`, assumed by `AppSession` | |
| `Numerals` | long division into digits, and how a text of digits reads | |
| `Printing` | `transaction_summary_display_item` and the printers it reaches | extends `Numerals` |
| `SignatureOut` | `set_result_sign_message`, `format_signature_out` | extends `Numerals` |
| `Outputs` | the two outputs of a review in turn | extends `Printing`, `SignatureOut` |
| `MC...` | the instances TLC checks | one each of the above |
| `..._proofs` | theorems: of `ApduAssembler`, `AppSession`, its refinement of `TxSigner` (`SignerRefinement_proofs`), `Device`, `RlpHeader`, `TxParser`, `Outputs`; `Numerals_proofs` has the lemmas about numbers that the last one rests on | one each of the above, `TLAPS` |

From the bytes to the signature, each module takes over what the one before shows:

    RlpHeader --IsHeader--> TxParser --Determined--> AppSession --> TxSigner
                                                        ^
                                           ApduAssembler, Device

`RlpHeader` shows that the parser meets the headers of `HeaderForms` and no others;
`TxParser` assumes these (but for the two widest, see there) and shows that a finished transaction stored the
fields of `TxFields!Determined`; `AppSession` assumes exactly that of its constant
`Parsed` and shows what a user reviews and signs. The links are operators of a shared
module, so neither side can drift: the assumptions are `HeadersAssumption` and
`ParsedAssumption`, and the invariants that discharge them are `ReadsHeaderForms`
and `FinishedDetermines`.

Operators named `Mutant...` are plausible bugs: each is a variant of the operator
that follows it, and no specification uses them. Replacing the operator by the
variant breaks the property it is listed with in `PROJECT.json`, which shows that
the property depends on that code.

### ApduAssembler

`command` is `G_command`; `reply` the value returned; `acked` is a history of what
the host saw accepted, of which the code knows nothing. An APDU is a record of what
the code reads of it. A payload is not a string of bytes: it is a fragment with a
size, an identity and the instruction it came under, and `command.message` is the
sequence of the fragments stored. There is one action for each way the function
returns, in the order of its checks:

| Action | Lines of `src/apdu.c` |
| --- | --- |
| `RejectHeader` | 28-99, `G_command` untouched |
| `AcceptConfiguration` | 107-115 |
| `RejectExtension` | 119-126, `G_command` untouched |
| `RejectPath` | 127-150, `G_command` cleared |
| `RejectPayload` | 154-186, the command opened, nothing stored |
| `AcceptChunk` | 134-195 |

`ResetMainGlobals` is `reset_main_globals` (`main.c:35`), which runs when `main`
starts over.

### AppSession

Each answer names where its parts come from: a signature is the content its hash
is of, the path and the content of the chain id. A value that the parser stores is
named by the content of the transaction it was read from, so that a value left over
from another transaction is visible as such. An item keeps 64 bits of a nonce, a gas price
or a gas (`convertUint256ToUint64`): the parser's result has the sizes of these numbers, and
each item says whether the whole of its number is displayed (`ShownWhole`). What the parser does with each content
is the constant `Parsed`: any result the parser may have is a value of the constant,
and the theorems hold for all of them. Of the results it is assumed only that a
finished transaction stored what `TxFields` says. `pending` is `IO_ASYNCH_REPLY`.

| Action | Code |
| --- | --- |
| `Refuse`, `ContinueTransfer` | `handleApdu`, `main.c:53-59` |
| `GetAppConfiguration`, `RefuseMessage` | `main.c:62-69`, `85-87` (the message commands are assembled but have no handler) |
| `SendPubkey`, `ShowPubkey`, `PubkeyFails` | `handle_get_pubkey` |
| `ShowTransaction`, `HashingFails` | `handle_sign_legacy_transaction` and its `_ui` |
| `NoApdu` | `main.c:120-122` |
| `Forward`, `Back` | a step of the flow; an item is printed as it comes on the display, and printing may fail (`signLegacyTransaction.c:111`) |
| `ApproveTransaction`, `SigningFails`, `ApprovePubkey`, `Reject` | the callbacks of the last two steps |
| `IoReset` | `main.c:298` and the new `app_main`; the summary stays in memory |
| `PowerCycle` | the same with all memory zeroed |

### TxSigner

The abstract specification has three variables: what waits for the user, whether it was
reviewed, what the host has. `SignerRequest`, `SignerReviewed` and `SignerResponse` of
`AppSession` are the refinement mapping: the request is what is on the display while an
APDU waits, it is reviewed when each item of the summary was displayed, and an answer is
a key, a signature or something that is neither. `ImplementsTxSigner` says in one formula
that there is one request at a time, that a key or a signature goes out for that request
only, that a signature follows a whole review, and that none is ever given at once.
A transaction the parser did not finish has no hash: its signature is over none (see
`unfinished` in section 5), and the specification has to admit it (`Whole`).

### Device

`phase` is off, in `nv_app_state_init`, or on; `storage` is `N_storage`, of which
`nv_app_state_init` writes one byte per step (`WriteByte`) in the order of
`internalStorage_t`, whose last byte is the flag that says it was done; `chosen` is a
history of what the owner last selected. The power may go at any step (`PowerLoss`), also
between two bytes. `RunSession` is a step of `AppSession`; `Scroll`, `OpenSettings`,
`OpenSetting`, `Choose`, `LeaveSetting`, `LeaveSettings` and `Quit` are the entries of the
menu, possible only while the menu, and not a review, is on the screen.

### RlpHeader

`ReadByte` is a turn of the loop of `parseRLP`, `NextHeader` its next call, `initTx` the
start of another transaction. `received`, a history, is compared with `EncodedHeader`, a
reference definition that goes the other way, from the field to its bytes.

### TxParser

The bytes of the transaction are chosen as they are read: when the parser reads a
header, some header of `Headers` is there. `cursor` is the position, the bytes left,
`rlpBufferPos`, and a history of the hashing. A byte that `parseRLP` gives back is
remembered in `known`, so that it is read as the same byte. `WIDEST` is 7: when
`parseNestedRlp` goes on after a header that is not decoded, it is taken whole into the five
bytes of `rlpBuffer` and the padding behind them; the sizes 8 and 9 would end in
`rlpBufferPos` itself, and what the code does then is undefined. A turn of the loop of
`processTxInternal` is one step: `Finish`, `FinishOldStyle`, `StopShort`,
`ReadOuterHeaders` (`parseNestedRlp`), or a field, which is refused (`FailHeader`,
`FailField`), completed (`CompleteField`) or broken off at the end of the bytes
(`BreakOff`).

### Numerals, Printing, SignatureOut and Outputs

A text is the sequence of its characters, in a buffer that every item shares; a number is
the sequence of its bytes. The code's algorithms (long division by limbs of 16 bits,
scaling by 18 decimals, stripping of zeros, DER) are compared with references that read the
result: `NumberRead` multiplies and adds its way back from the text to the bytes, and
`Padded` is the number itself. The two buffers are state, because what an earlier item or
an APDU left in them is the hazard. A loop is a recursive function: `Division` of the
limbs, `Passes` of the number of divisions, with `5 * Len(n)` passes as the bound of the
code's `while`. That this is never too few, and that no array of the code overflows, is
not assumed but proved (`DigitsKeepValue`, `ThreeDigitsAByte`).

## 3. The runs

| Run | Shows | States |
| --- | --- | --- |
| `assembler` | six properties of the deserialiser | 89,813 |
| `session` | the application in every order of commands, failures and restarts; it implements `ApduAssembler` | 44,271 |
| `review` | every request is answered; it implements `TxSigner`; the numbers signed were shown; with steps back | 68,852 |
| `device` | settings, start-up and power loss around a session | 4,020 |
| `rlp_header` | header after header, every boundary of the decoder | 1,552,437 |
| `parser` | five properties of the parser | 95,142 |
| `outputs` | two displays in the shared buffer, and every form of a signature | 8,030 |
| `chunked`, `unfinished`, `contract`, `old_style`, `rlp_buffer` | disagreements, section 5 | |

### The properties

* `BufferBounded`: the buffer never holds more than it has room for.
* `OneCommandPerBuffer`: every stored byte was sent under the instruction and the
  confirmation mode the command has now; a first chunk is the oldest and a final
  chunk the newest.
* `MessageTransferWhole`: a message in the buffer is exactly the chunks the host saw
  accepted, in order. It relates the buffer to a history that the code does not keep.
* `TransactionLengthFitsByte`: the cast to `uint8_t` in `signLegacyTransaction.c:148`
  is exact. That holds only because a transaction never takes two APDUs.
* `PathOfFirstChunk`: a command that runs has a path of 1 to 5 words, unless its only
  APDU was an extension.
* `PendingIsOnScreen`: while a request waits, the display reviews that request and
  `G_command` still holds it; a key on the display is always waited for.
* `ReviewShowsTransaction`: nothing displayed in a pending review is left over from
  another transaction, where the transaction defines that field.
* `SignatureAfterReview`: no signature leaves before each item was on the display.
* `SignatureOfReviewed`: it is made with the reviewed path over the hash of the
  reviewed transaction with its chain id.
* `KeySentIsShown`: the key sent after a review is the key displayed.
* `SignedNumbersReviewed`: of a finished transaction, the amount of a transfer and each nonce,
  gas price and gas of at most eight bytes were on the display before it is signed, its own
  and to the last byte. It joins the parser's promise, the making of the summary, the
  conversion to 64 bits and the way through the review. Of a longer number the display
  has the first eight bytes, another number than the one signed (section 5).
* `SessionTypeOK` also bounds every status word: 0x6000 to 0x6fff or 0x9000 to 0x9fff,
  whatever was thrown (`main.c:133-144`).
* `ImplementsTxSigner` (refinement): the promise to the user, as above.
* `StoredIsChosen`: while the application runs, its settings are the owner's last choice,
  or the defaults, however often it was interrupted in its start-up.
* `SettingsFixedInReview`: from the display of a request to its answer, no setting changes.
* `Answered` (liveness): every request that waits is answered, or the link is lost.
* `ImplementsAssembler` (refinement): the application's steps are the assembler's.
* `HashedOnce`: the hash of a finished transaction took each byte once, in order.
* `FieldsInOrder`: a finished transaction was read as the fields of its encoding.
* `FinishedDetermines`: a finished transaction determines every number shown and,
  unless it is a legacy one, the chain id.
* `Returns` (liveness): the parser returns.
* `DecodedIsEncoded`: a decoded header is, to its last byte, the encoding of the field
  decoded from it. `ReadsHeaderForms`: no other header than those of `HeaderForms` is met.
* `TextIsOfTitle`, `TextEnds`: the text under a title is the value its item holds and ends
  within its buffer. A number of 64 bits is what the item holds after its conversion; whether
  that is the transaction's number, `SignedNumbersReviewed` says. `OnlyWideAmountsFail`: an item fails to print if and only if it is an amount of
  10^42 or more.
* `AnswerIsSignature`: the answer holds r and s, each in 32 bytes. `VIsOfChain`: its first
  byte is the `v` of EIP-155, cut to a byte, for the whole chain id if that has at most four
  bytes. Of a longer id it is the `v` of the four highest bytes, not of the id:
  the code means it so (`signLegacyTransaction.c:56`).

### Bounds, and why they are enough

* `MaxTransfer` bounds the chunks the host sends in one transfer. With 9 chunks of 160
  bytes the buffer of 1280 bytes fills exactly and overflows by one chunk (run
  `assembler`); chunks of 255 bytes pass the end without filling it.
  `MAX_MESSAGE_LENGTH` is the value of `globals.h:38` (1280: 1253 rounded up to a
  multiple of the 64-byte USB segment). The instance has well-formed chunks of four
  kinds of command, and malformed ones for each check of the header, the path and
  the prefix.
* The instance of `session` has three transactions with different results of the parser
  (complete, an amount too wide for the display without a chain id, broken off),
  two paths, key requests with and without confirmation, a message transfer and
  the configuration. Two transactions in sequence are enough to see a left-over
  value, and a third to see one survive.
* `review` has a cancellation (content 5) whose gas price has nine bytes,
  one more than an item holds.
* `MaxBacks` bounds the steps back in one review (1 in `review`, 0 in
  `session`). A step back shows an item already shown: one reaches every item printed
  twice and an approval left again. The theorems hold for any number.
* `device` has one transaction and one configuration request: what matters is where a
  review meets the menu and where the power goes. The four bytes of the storage are all there.
* `rlp_header` has 21 first bytes, at each boundary between the forms, and length bytes of up
  to 127, so that a length of four bytes stays within TLC's integers of 32 bits. The theorems
  hold for all bytes.
* `MaxDisplays` is 2: a text can only be spoilt by the one before it. The numbers are at the
  powers of ten and of 256 where a digit, a limb or a zero more is needed.
* `Lengths` has every boundary of the shortest encodings (16 bytes are a whole
  deployment) and lengths that leave room for an address. `Headers` has each kind
  of header with the lengths around the limits of 20 and 32 bytes.

### Fairness

`SessionSpec` assumes weak fairness of `Forward` and of `Decide` and nothing about the
host: the user goes on to the end of a review and decides there. It is an assumption
about a person; the code justifies that both steps are always possible, since the flow
only moves on buttons. `Back` is bounded, so a user who only goes back is not a
behaviour of this fairness. In `TxParser`, `WF(Next)` says that the loop of
`processTxInternal`, which never waits, goes on turning.

### Assumptions about the SDK

* `io_exchange` hands over no APDU while the last is not answered (`Deliver`). The
  comment at `main.c:101-106` leaves that to the transport, and the properties about a
  pending review need it.
* `io_exchange` with no request outstanding (an approval on a review that outlived its
  request) may return or throw; nothing reaches the host. The same holds of the status word
  of a display that fails on such a review.
* `io_exchange` may return without an APDU (`NoApdu`); the status word then counts as an
  answer.
* `nvm_write` writes the bytes in the order of their addresses, and a byte is written or
  not. The flash of a newly installed application is zeroed.
* After a loss of power the memory is zeroed, as the start-up code of the SDK leaves it.
* Key derivation and cryptography may throw any code of `Exceptions`; the link may be
  lost at any time.

## 4. What is proved

All theorems hold for every value of the constants: any set of APDUs of any sizes,
any buffer size, any results of the parser, any exceptions, any headers and lengths.
The assumptions are the named `ASSUME`s of the modules, which TLC evaluates in each run.

* `ApduAssembler_proofs`: `TypeCorrect`, `BufferNeverOverrun`, `NoMixedCommands`,
  `MessagesArriveWhole`, `TransactionLengthExact`, `PathIsOfFirstChunk`. The inductive
  invariant `AssemblerInv` joins the properties that are already inductive (`TypeOK`,
  `BufferBounded`, `OneCommandPerBuffer`) with what the others need: `ClosedIsZeroed` (a
  command that was never opened holds nothing), `MessageAgreed` (a message in progress
  agrees with the host's view in instruction, mode and fragments; without it an accepted
  extension could append to one and not to the other) and `OneApduPerTransaction` (a
  transaction's buffer holds at most the one fragment of the APDU that replaced it;
  without it the byte cast has no bound).
* `AppSession_proofs`: `SessionImplementsAssembler`, `SessionTypeCorrect`,
  `PendingRequestIsOnScreen`, `ReviewIsOfTransaction`, `SignedAfterReview`,
  `SignedAsReviewed`, `ShownKeyIsSent`. `SessionInv` joins `AssemblerInv`,
  `SessionTypeOK`, `PendingIsOnScreen` and `ReviewOfTransaction`, which says of a review on the
  display that its summary is the one made from the transaction that it names, that the
  hash and the chain id are still that transaction's while the request waits, and that every
  item up to the highest step reached was displayed. The action properties follow from it step
  by step: only `ApproveTransaction` sends a signature, and it does so at the Approve step,
  past every item.
* `SignerRefinement_proofs`: `SignedNumbersWereReviewed` and `SessionImplementsSigner`. The
  latter has a lemma per action: a step of `AppSession` is, under the mapping, the abstract
  step it should be or a stutter. It needs `SessionInv` in two places: an approval of a
  pending review has passed every item (`ApprovalIsReviewed`), and a status word is never the
  0 that stands for no answer.
* `Device_proofs`: `DeviceTypeCorrect`, `DeviceImplementsSession` (a step of the device is a step of the session
  or leaves it alone, so all theorems about the session hold on the device),
  `StoredSettingsAreChosen`, `SettingsStayInReview`. `StorageInv` says what the flash holds at
  each point of the start-up: with the flag, the settings are the chosen ones; without it,
  nothing was ever chosen and the bytes written so far are the defaults. The first half is
  what makes it matter that the flag is the last byte. The menu is at home while a request
  waits, so no entry of it can write.
* `RlpHeader_proofs`: `HeaderTypeCorrect`, `HeadersDecodeToTheirFields`,
  `HeadersHaveTheirForm`. `HeaderInv` adds `Gathers` to the properties: while the loop goes
  on, the bytes in front of `rlpBufferPos` are those received, and they do not decode yet.
  The lemma `LongLengthDigits` says that the bytes of a length are its digits to the base 256.
* `TxParser_proofs`: `ParserTypeCorrect`, `HashIsOfTheBytes`, `FinishedStoresNumbers`,
  `FieldsReadInOrder`.
  `ParserInv` adds to `TypeOK` what is in `rlpBuffer` between turns, that the outer headers
  come before any field, that the hash is exactly at the position (except when the byte that
  `parseRLP` gave back stands in place of the list of fields, which is then refused), that
  every number before the current field is stored, and at which fields the parser finishes.
  `OrderInv` says for `FieldsReadInOrder` that the fields completed are those in front of the
  current one, without the one that is absent, and that only a field that broke off leaves the
  parser at an absent one.

* `Numerals_proofs`: what the loops over digits compute, for numbers of any length. `Value`
  is the number that a sequence of digits stands for. `DigitsKeepValue`: the long division
  ends within its passes, and its digits have the value of the limbs and no zero in front.
  `LimbsCleared` and `DigitsBound` bound their number: a pass divides what is left at least by
  the radix (`RestShrinks`), so that three decimals clear a byte. `ReadsWhatIsWritten`: a text of digits reads, by the multiplication that
  goes the other way, as the least bytes of the same value. `BelowIsLess`: the order of
  canonical numbers is the order of their values, and equal values are equal bytes.
* `Outputs_proofs`: `AnswerCorrect`, `VCorrect`, `NothingElseFails`, `TextIsItsItems`,
  `TextEndsInBuffer`: the five properties of `outputs`, for any items, requests and
  signatures. The inductive invariant of the answer, `AnswerInv`, says byte by byte where r
  and s stand; that of the display, `TextInv`, that the buffer holds a text which ends in it
  and denotes the item of the title. A display overwrites the buffer from the front, so what
  was in it only matters behind the terminator (`Overwritten`); the rest is one
  lemma per printer (`TokenShown`, `U64Shown`, `AmountShown`, `PubkeyShown`,
  `SizedStringShown`). `AmountKept` is the heart of those about amounts: of the
  decimals only zeros went, so that scaling what is left gives every digit back. `FitsBelow`
  says that the space `adjustDecimals` asks for is there exactly below 10^42.

`ItemsAssumption` is what these theorems take from the rest of the application: integers of at
most 32 bytes (`ethUstream.c` bounds them), of at most 8 where the item holds a `uint64_t`,
addresses of 20 bytes, and strings without a terminator in them.

The library's induction rules take an operator as a parameter and cannot be used here.
Induction over data is done without them: `Induction` shows that a set which
holds 0 and is closed under the successor up to N holds all of `0 .. N`, by the pigeonhole
principle (without N, the successor would map the finite set into itself without 0), and
`Recursion` uses it to show that a function defined by its steps exists. The lemmas
about loops are instances of the two.

Only model-checked: `Answered` and `Returns`, which are liveness under fairness.

## 5. Where the code and its documentation differ

Five runs expect TLC to find a violation; the `findings` of `PROJECT.json` quote the lines.

* `chunked` (`TransactionTransferWhole`): `doc/api.md:112-115` describes transactions in
  several APDUs; `apdu.c:131` clears the buffer at each of them.
* `unfinished` (`UnprocessedNeverSigned`): the result of the parser is dropped, and the
  branch for messages not processed (`signLegacyTransaction.c:188-204`) is never reached.
* `contract` (`ValueReviewed`): the amount shown for a contract is never assigned.
* `old_style` (`FinishedAtFieldEnd`): a legacy transaction cut inside its chain id is finished.
* `rlp_buffer` (`RlpBufferBounded`): the sanity check of `parseRLP` is passed by when
  `parseNestedRlp` goes on after a refused header.

A further disagreement is in the model and has no run of its own: `doc/api.md:79` has the user
validate the parameters before the signature, but of a nonce, gas price or gas of 9 to 32 bytes,
which the parser accepts (`ethUstream.c:152, 173, 199`), the number of the first eight bytes is
shown (`instruction.c:43`), another one than is signed. In `AppSession` the item of such a
number is not `whole`. `SignedNumbersReviewed` is therefore stated of numbers of at most
eight bytes and would be violated without that bound: content 5 of the run `review`
is signed with a gas price of nine bytes.

Seen while reading, not modelled: `doc/api.md:143` gives 64 bytes for a signature, the
code sends 65; the comment at `main.c:118` says "reset the session" where nothing is reset.

## 6. What is abstracted or left out

* Values in the modules from the assembler to the session: a value is its origin; the sizes of
  the numbers that an item keeps in 64 bits, and whether an amount fits the display, are part of
  the parser's result. `Printing` has the bytes of the items, and
  shows that the amount is all that can fail to print.
* A field that breaks off may have stored some of its bytes. In `TxParser` it counts as not
  written; `FinishedDetermines` then also says that no finished transaction depends on it.
* The deprecated commands share the actions of the others; P2 is its two flags.
* What a setting does: the flag of blind signing is the first byte of the configuration the host
  asks for and is tested on a branch that is never reached; the pubkey display is read at
  every step of a review, into flags that are not used, and the display mode by nothing but its
  menu. `AppSession` leaves these reads out; `SettingsFixedInReview` is why a review
  cannot see them change.

Not modelled:

* EIP-2930 and EIP-1559 parsing (`getTxType` never returns these types), `continueTx` (never
  called), the blind-signing branch (never reached).
* `src/uint128.c`, `src/uint256.c`: the 128- and 256-bit arithmetic and the printers built on it
  are called by nothing; `lib/util.h` has the conversions in use. Of `src/utils_copy.c` the
  commands reach `u64_from_BE` (`signLegacyTransaction.c:57`), which is part of `ChainByte`; its
  other functions are called by nothing.
* `encode_base58` and items printed by `print_string`: only the branch for messages not
  processed makes such items (`signLegacyTransaction.c:192, 200`), and it is never reached.
* `lib/parser.c`, `lib/rfc3339.c`, `print_summary`, `print_i64`, `print_timestamp`: left from
  another application; no command makes an item that needs them.
* The text of the method name, which points to a stack buffer after its function returned
  (`lib/message.c:24`): it may be any text, and no property says which.
* What a ratio of more than one byte overwrites (`ethUstream.c:307`): the linker's choice.
* The SDK: transport, flow engine, cryptography, flash.

## 7. Order of the work, and what could follow

The modules were written in the order of their importance to a user: the assembler, the
session, the parser; then the abstract promise (`TxSigner`) and the links between the parts
(`TxFields`, `HeaderForms`), the decoder, the device around the session, and the outputs.

What could still be added: the bytes of a recipient shorter than its place in `txContent` (`ethUstream.c:236`), which would
need values below the level of their origin in `AppSession`.

To run a configuration: `tlc -config MCAppSession.cfg MCAppSession.tla`; to check proofs:
`tlapm AppSession_proofs.tla`.
