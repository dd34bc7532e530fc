# Solana application for Ledger devices: a verification project

TLA+ models of the application in `src/` (firmware) and `libsol/` (parsing and
printing), the TLC runs that check them on small instances, and theorems that
TLAPS proves for every value of their constants.

## 1. The system

A Ledger device runs one application at a time. A *host* (wallet) sends APDUs
over USB or Bluetooth; the application receives a public key request or a
message in chunks, parses it, shows the *user* a summary on its screen, and
releases the key or a signature only when the user approves. The *Exchange*
application may start it as a library to sign one payment without a review.

| Component (source) | State | Operations | Modelled by |
| --- | --- | --- | --- |
| APDU receiver (`apdu.c`, `utils.c`) | `G_command` | `apdu_handle_message` | `Apdu` |
| Main loop, replies (`main.c`, `io.c`) | the reply owed, NVM init | `app_main`, `handleApdu`, `io_event`, `sendResponse`, `coin_main`, `app_exit` | `LedgerApp` |
| Public keys (`handle_get_pubkey.c`, `ui/get_pubkey_*.c`) | `G_publicKey` and its text | derive, send, review | `LedgerApp` |
| Transactions (`handle_sign_message.c`) | `G_command.message_hash`, the summary | parse, refuse, review, swap | `LedgerApp` |
| Off-chain messages (`handle_sign_offchain_message.c`) | the same | parse, scan, refuse, review | `LedgerApp`; the parser: `OffchainMessage` |
| Review screens (`ui/sign_message_*.c`) | the UX flow or NBGL review | page forth and back, approve, reject | `LedgerApp` |
| Menus and settings (`ui/menu_*.c`) | `N_storage`, `G_switches` | open, toggle, quit | `LedgerApp` |
| Swap (`swap/handle_swap_sign_transaction.c`) | validated payment, `G_swap_response_ready`, result | `copy_transaction_parameters`, `check_swap_validity`, `finalize_exchange_sign_transaction` | the session: `LedgerApp`; the parameters: `SwapParameters` |
| Address check, printable amount (`swap/`) | none | two stateless calls | `SwapParameters` |
| Transaction summary (`libsol/transaction_summary.c`) | item slots | reset, set, finalize; display | `Summary`; `LedgerApp` |
| Transaction printers (`libsol/message.c`, `transaction_printers.c`, `instruction.c`) | the parsed instructions | read the message, classify, skip, choose a printer | the bytes: `Message`; the rest: `Instructions`, `Summary` |
| Instruction parsers (`libsol/*_instruction.c`) | none | read fields; print fields | `InstructionParsers`; `Instructions` |
| Compute budget (`libsol/compute_budget_instruction.c`) | limit and price found | aggregate; fee arithmetic | `Summary`; `ComputeBudget` |
| Primitives (`libsol/parser.c`, `printer.c`, `rfc3339.c`) | cursor | bounded reads, conversions | `CompactLength`, `Message`; `Printer`, `Rfc3339` |
| Token table (`libsol/token_info.c`) | none | lookup | not modelled: constant data |

How they interact. One thread runs everything. `app_main` calls `io_exchange`,
which sends the reply of the last command and waits for an APDU; while it waits
it calls `io_event`, which runs the callbacks of the buttons or the touch
screen. A command that needs the user sets `IO_ASYNCH_REPLY` and returns; its
reply is sent by a callback (`sendResponse`) some events later. The callbacks
read what the handler left in globals: `G_command`, `G_publicKey`,
`G_transaction_summary`, `N_storage`.

What is hard in it:

- The review is *by reference*: the pages are pointers into `G_command`, printed
  when displayed, and the signature is computed from `G_command` when Approve is
  pressed. Nothing is copied when the review starts.
- Exceptions thrown inside a callback (an item that cannot be printed, a failing
  signature) unwind to `app_main`, which answers the pending command, while the
  review stays on the display and can still be turned and approved.
- An upload is a protocol of many APDUs, any of which can be missing, repeated,
  or belong to another command.
- Settings are read by several handlers at several times, cached for the touch
  screen's switches, and changed by the user between APDUs.
- What is displayed is put together by two dozen printers that share eleven
  slots, recognize combinations of up to four instructions and depend on the
  mode; no caller tests whether a slot was left, and the summary is a global
  that outlives its message.
- An off-chain text is displayed through another buffer with the one library
  than with the other, and that buffer may be shorter than the text.
- A swap session signs without the user, must do so once, must end, and must
  tell Exchange the truth.
- USB power may go at any event; the process then continues from `coin_main`.

The list with lines is `hazards` in `PROJECT.json`.

## 2. Modules

- **`Apdu`**: the receiver as two operators, `ApduReply` (the exception or
  success) and `ApduCommand` (the new `G_command`). The data field of an APDU is
  a sequence of tokens, one per field (number of paths, path, length prefix,
  words of message), so that every error return of `apdu_handle_message` and
  `read_derivation_path` is reached, in the code's order.
- **`LedgerApp`**: the application. Variables: `mode`, `exit` (the process),
  `storage`, `switches` (settings), `cmd` (`G_command`), `pubkey`
  (`G_publicKey`), `summary` (`G_transaction_summary` in display order),
  `screen`, `flow`, `page` (the UX), `out` (the reply as the host sees it),
  `swap`; and two ghosts: `shown`, the pages the review of the pending command
  has displayed with what each printed and, for the page of a text, how many of
  its characters, and `upload`, the message as the host counts it. One action per handler outcome (`Host`), per user gesture (`User`)
  and per event of the surroundings (`Environment`). `HaveNbgl` chooses between
  the two graphic libraries, which the build chooses. They differ in the page of
  a text (`TextDisplayed`): BAGL displays `G_command.message` itself, NBGL a copy
  made by `strlcpy` in a slot of `TEXT_BUFFER_LENGTH` bytes (45 in the code), so
  that 44 characters of a longer text are displayed. What a message means is a
  parameter: `Tx` and `Text` map every content of the buffer to what the parser
  and printers make of it. `PrimaryAssumption` is what `LedgerApp` needs of the
  printers.
- **`LedgerAppProps`**: type invariant, properties, refinement mapping.
- **`SigningService`**: the abstract promise: one request at a time, granted
  only after the user has seen all of it, one unasked payment per session.
- **`Instructions`**: the 49 kinds of instructions, the facts about each that a
  printer branches on (whose authority, which optional fields), and the
  printers: a list of instructions and the mode give the primary item and the
  general items in order, or a failure. An item is its title.
- **`Summary`**: how a message becomes a summary. One action per phase: `Begin`
  (the header, the reset), `ParseInstruction`, `MalformedInstruction`,
  `EndOfBody` (`process_message_body`), `PrintNonce`, `PrintComputeBudget`,
  `PrintTransaction` (`print_transaction`), `BlindSign`, `RefuseBlindSign`,
  `Processed`, `SetFeePayer` (the rest of the handler) and `Finalize`. The
  slots, and `infos` moved along by the printers, are the state. When a printer
  writes through the NULL of a missing slot the model stops (`"fault"`), since
  the code does not define what follows.
- **`SummaryProps`**: its type invariant and properties.
- **`CompactLength`**: the length encoding, its reader and the encoding the
  network writes, for any size of digit (`HALF`, 128 in the code).
- **`Message`**: the parser, byte by byte. One action per reader of
  `parse_message_header` and of the loop of `process_message_body`, the scan for
  the signer between them. The cursor (`position`, `left`), the header's fields
  and the current instruction are the state; a byte is chosen when it is read,
  bytes nobody looks at here are counted. `spans`, a ghost, are the parts of the
  message given out, in their order. Sizes wrap at `SIZE_VALUES`.
- **`MessageProps`**: its type invariant and properties.
- **`InstructionParsers`**: for every kind of instruction its parser, as the
  accounts it takes and the list of its reads (`Layout`), with every point where
  it gives up; which fields of the information record it sets, and which fields
  the printers read of it. What it yields is what `Summary` starts from.
- **`ComputeBudget`**: the maximum fee, with the widths of its C types.
- **`Printer`**, **`Rfc3339`**: the conversions, as functions from a value and
  the length of a buffer to the text and the number of bytes written.
- **`OffchainMessage`**: header, lengths and the UTF-8 scan. `MCLedgerApp` takes
  the meaning of its off-chain messages from it.
- **`SwapParameters`**: what is kept of Exchange's parameters, the comparison of
  an item with them, the address check, the printable amount.
- **`Library`**: the calls into all of these. `validated` is `G_swap_validated`,
  the one thing that outlives a call; `asked` what Exchange asked for; `call`
  and `reply` the call in progress. One action per function.
- **`LibraryProps`**: reference definitions of what the functions should return,
  and the properties that compare.
- **`MCLedgerApp`**, **`MCPythonClient`**, **`MCSummary`**, **`MCLibrary`**:
  instances for TLC. `MCLibrary` runs `Message` and `Library` in turns.
- **`LedgerAppProof`**, **`LedgerAppReviewProof`**, **`SummaryProof`**,
  **`SummaryReviewProof`**, **`MessageProof`**, **`LibraryProof`**,
  **`DisplayProof`**, **`ParserProof`**: theorems.

The loops of the primitives are written with `After` of **`Loop`**: the states
that a turn, a function on the states of the loop, leads to from the start; the
parser of an instruction is such a loop, too, over the steps of its layout
(`StepsTaken`). No module declares a recursive operator, so that everything is
within reach of the provers; `LibraryProof` has the induction over the turns
(`LoopExists`).

`LedgerApp` and `Summary` meet at `process_message_body`: `LedgerApp` takes the
summary of a message as a parameter and assumes `PrimaryAssumption` of it,
`Summary` makes it step by step and `BlindSlotsFree` is that assumption.
`Summary` starts from the instructions a message has: `Message` shows how they
are cut out of it, and `SummaryInfosAreParsed` that `InstructionParsers` yields
exactly the instructions `Summary` is given. `LedgerApp` compares a payment with
the validated one as a whole; `SwapParameters` does it on texts and numbers.

External, modelled from its use: the transport (half-duplex: an APDU arrives
only when no reply is owed; a reply nobody awaits is dropped), key derivation
(`Derivable`), the signature primitive (`CxFaults`), the UX libraries (pages,
callbacks), atomic writes of NVM settings.

Abstractions: the menu's submenus are one screen; the bootloader reset and
logging are left out; a transaction is its meaning, not its bytes; the message
hash is the message it was computed from; keys are known by their paths. The
content of instruction data is a fact a printer branches on. In `Library` the
calls that do not look at `G_swap_validated` are made in a process where nothing
was validated. An instruction that cannot be parsed, or has no printer of its
own nor a place in a brief, has kind `Unknown`: all of them make
`process_message_body` fail.

## 3. What is checked

| Run | Question | Properties |
| --- | --- | --- |
| `receiver` | Does the buffer always hold exactly the transfer the host was acknowledged, under any order of chunks of any instruction and flags? | `UploadIntact` |
| `text_nbgl` | Touch screen: off-chain messages, whose text is one page more and may be longer than this page; switches against the stored settings. | `SwitchesMirrorStorage`, `ReviewInv`, `SignsOnlyReviewed` |
| `swap` | Is the unreviewed signature only the validated payment, once, and is Exchange told the truth (when the primitive does not fail)? | `SwapResultTruthful`, `SwapQuitsAfterTransaction`, `SignsUnreviewedOnlyInSwap` |
| `service` | A device with buttons, in both modes: transactions, keys and a text, settings, unplugging, unprintable items, failing signatures. Is anything released that was not displayed? Does the application implement `SigningService`? Is every command that waits for the user answered? | `TypeOK`, `PendingHasReview`, `BlindReviewNeedsConsent`, `SignsOnlyReviewed`, `PubkeyShownIsPubkeySent`, `SettingsChangeOnlyByUser`, `ImplementsService`, `PendingIsAnswered` |
| `summary` | Is the summary of every message complete, made of this message only, and does it fit into the slots? | `TypeOK`, `SlotsSuffice`, `BlindSlotsFree`, `OthersAreShown`, `ExpertSeesMore`, `BudgetIsWhole`, `NonceComesFirst` |
| `library` | Is a message read to its last byte, by one reader each, and no key outside of it used? Do lengths, instructions, fees, texts, dates, addresses and payments come out as reference definitions say? | `MessageTypeOK`, `WholeMessageParsed`, `KeysAreInside`, `CompactLengthIsExact`; `ShownFieldsAreParsed`, `SignersAreCounted`, `SummaryInfosAreParsed`; `MaxFeeFits`; `AmountIsExact`, `NumberIsExact`, `TextStaysInBuffer`, `TruncationIsMarked`, `Base58IsExact`, `DateIsExact`; `TextIsWhatItSays`; `AddressIsOfKey`, `PaidItemIsPayment`, `PrintableAmountIsPaid` |
| `summary_slots` | (violated) A unit price in front of the longest transaction needs a twelfth general item in expert mode: the printers write through NULL. | `EveryItemHasASlot` |
| `swap_fault` | (violated) A failing signature does not end the swap, contrary to `handle_sign_message.c:136`. | `SwapQuitsAfterTransaction` |
| `swap_refused` | (violated) A transaction refused while parsed does not end the swap, contrary to `io.c:125`. | `SwapQuitsAfterRequest` |
| `text_cut` | (violated) On a touch screen a text longer than its page is approved and signed when only its front has been displayed, contrary to `doc/api.md:112`. | `TextIsValidatedWhole` |
| `max_fee` | (violated) A fee above 32 bits is shown without its high part (`compute_budget_instruction.c:49`). | `MaxFeeIsExact` |
| `python_client` | (violated) The test client's second chunk carries a header the receiver keeps as message (`tests/python/apps/solana.py:102`). | `ClientMessageArrives` |

Bounds. Two paths, one of which cannot be derived; a buffer of two words, so
that an upload of two chunks fits and one of three overflows; three words, so
that messages have a known meaning, an unknown one, an unprintable one, and no
meaning at all. Larger buffers repeat the chunks. The slot of a text has three
bytes (`TEXT_BUFFER_LENGTH = 3`) and there are ASCII texts of two characters,
the longest that fit, and of three, the shortest that do not. Reviews have up to five items
in these instances, every flow kind and both libraries. The instances leave no
counter unbounded: pages are bounded by the summary, everything else is finite.

`summary` takes the messages of one and two instructions over all 168
instructions (every kind with every combination of facts), and those of three
and four over 13: the parts of every brief of that length with the facts that
print most, a nonce, a limit, a price, another compute budget instruction and an
ignored one. Zero and five instructions are refused. `Begin` is enabled again
when a message is done, so every message follows every other.

`library` scales the sizes so that TLC enumerates all of a small machine: a
digit of a length is one bit (`HALF = 2`), so one, two and three bytes of every
code occur in messages of up to 16 bytes; keys have two bytes, the hash one, a
`size_t` 17 values, the least `KeysFitSize` allows for the sizes taken. At most
two instructions. `Sizes` has the empty message, messages that end in each
phase, and ones that are complete with none, one and two instructions. The fee
is computed with words of 4 and 8 bits, so that every product, sum and default
occurs on both sides of the wrap. The parsers of instructions get every number
of accounts around those they ask for, and data that ends at every field's end
and one byte before and behind it. The printers get the values at which the
number of digits changes, all lengths of buffer around them, and every text of
up to six of three characters, NUL among them. Dates are the days around the
ends of years and of centuries, and the seconds around each carry; their
intermediate results must fit TLC's integers of 31 bits. The scan of UTF-8 gets
every sequence of bytes at either side of its limits. An address and a payment
are of two keys, one of them with a leading zero.

What `OthersAreShown` leaves out, and so what the code leaves out: the authority
of a durable nonce in user mode, since the nonce advance in front of a
transaction is shown to experts only (`system_instruction.c:413`); the signers
of the instructions that make the account of a stake split (the prefunder is
shown to experts only); and the signer of the first of two authorizations.
`AuthorityHidden` names the three. An authority here is a key the printers
compare with the user's (`print_config_show_authority`), or that of an advanced
nonce. Keys that sign in another role (who funds an account, the base of a
seeded address, the new account itself) and keys an instruction names that do
not sign are not authorities.

What `SignsOnlyReviewed` leaves out on a touch screen, and so what the code
leaves out: what follows the 44th character of an off-chain text
(`sign_message_nbgl.c:46`). There is no mark that the text was cut.
`TextIsValidatedWhole` is what the documentation says instead; the run
`text_cut` shows a review of all pages that violates it, `ImplementsService` is
run with buttons and proved for texts that fit (`TextsFit`).

`SwapResultTruthful` and `SwapQuitsAfterTransaction` are checked in run `swap`
of sessions in which signing succeeds. With a primitive that fails the second is
violated (`swap_fault`) and so is the first (see the observation below).

Fairness (`FairSpec`, run `service`). Buttons reach the application because
`io_exchange` polls events while a reply is owed, which is the reason for weak
fairness of `NextPage`. That the user ever decides is an assumption on the user:
who goes through the pages, stops going back, and presses one of the offered
choices. No fairness is assumed of the host or of signing succeeding.

Observations that are not findings. `main.c:121` says an empty APDU resets the
session; the code only replies with an error and `G_command` stays.
`doc/api.md:219-220` lists status words 6700 and 6982 the code does not use for
those cases. `transaction_summary.h:18-20` says that the fee payer is required
and finalization fails without it; `transaction_summary_finalize` tests the
primary item only, and the fee payer is left out when it is the signer. A
multisig threshold above the number of signers leaves its item unset. In a swap
whose signature failed, a public key confirmed later goes through `sendResponse`
and tells Exchange of success (the same cause as the finding of `swap_fault`).

Of the library:

- `max_fee` in figures: 1400000 units at 3100000000 micro lamports cost 4.34 SOL
  and are shown as about 0.045 SOL. `FeeIsNeverOverstated` says that wrapping
  can only ever understate the fee.
- `scan_header_for_signer` goes up to `num_required_signatures` without
  comparing it with the number of keys, and the fee payer is the first key even
  if there is none. A message that is recognized has enough keys; one signed
  blindly may not.
- `print_token_amount` writes a digit at `out[out_length]` when the decimals are
  one less than the buffer's length (`printer.c:24`), as the point took the last
  place. The displayed item of a token transfer takes its decimals from the
  message, so 44 of them and a buffer of 45 are such a case; the next test makes
  it an error, and the byte is behind the text. `TextStaysInBuffer` names the
  exception.
- `print_sized_string` shows what precedes an embedded NUL, without a mark.
- The parser of the associated token program reads no data: each of its
  instructions with six or seven accounts is shown as the creation of an
  account.
- The data of an instruction may be longer, and its accounts more, than its
  parser reads. Lengths may be encoded with more bytes than they need, and the
  high bit of the third is ignored.
- `instructions_count`, from which the default limit of units follows, counts
  compute budget instructions and not the ignored ones.
- The printer of a checked stake initialization reads lockup fields its parser
  never sets, and the page of an off-chain text is a C string; both rely on the
  buffers having been cleared.
- `copy_transaction_parameters` copies the recipient with `strlcpy`, which cuts
  what is too long: its "Address copy error" is never reached. A cut address
  matches none, so the payment is refused later.
- The number of days of a date is cut to 32 bits: timestamps far away or
  negative are shown as ordinary dates.

## 4. What is proved

All theorems hold for every value of the constants that satisfies the named
assumptions of the modules (`ApduAssumption`, `LedgerAppAssumption`,
`PrimaryAssumption`, `SummaryAssumption`, `MessageAssumption`, `KeysFitSize`,
`ComputeBudgetAssumption`, `CompactLengthAssumption`, `OffchainAssumption`,
`PrinterAssumption`, `SwapParametersAssumption`, `LibraryAssumption`): any set
of APDUs, any buffer size, any meaning of messages, both libraries, faults or
not. TLC evaluates each assumption in a run.

What the assumptions say of sizes is what the code's constants have: a key or a
hash has at most 32 bytes (`PUBKEY_LENGTH`), `BASE58_PUBKEY_LENGTH` is at least
45, a symbol of `token_info.c` has at most `MAX_SYMBOL_LENGTH` characters (8, of
`laineSOL`) and fits the buffer behind the longest number
(`HasRoomForSymbols`), the short form of a key is two ends and the mark
(`BASE58_PUBKEY_SHORT`), `KeysFitSize` is about the largest number of keys. The
calls `Library` gets are any set of calls of the right types: every item of
every kind, every instruction of every kind with any accounts, bytes and
facts.

1. `ReceivedCommand` (`LedgerAppProof`): an accepted APDU turns a command into a
   command. The lemmas follow the code: an accepted first chunk has its path
   where `read_derivation_path` looks (`AcceptedPath`), the payload is data
   (`PayloadIsData`), and it fits what the buffer holds already (`BaseFits`).
2. `TypeCorrect` (`LedgerAppProof`): `Spec => []TypeOK`, one step per action,
   lemmas for what several actions share (`StopTypes`, `StartReviewTypes`,
   `SendResponseTypes`, `DisplayPageTypes`).
3. `ReviewIntact` (`LedgerAppReviewProof`): `Spec => []ReviewInv`. None of
   `PendingHasReview`, `BlindReviewNeedsConsent`, `SignsOnlyReviewed` is
   inductive: the signature is made from globals, so what the handler checked
   when the review started has to be carried along. `ReviewInv` says that while
   the host waits the command still passes its handler's checks, the summary is
   still the one its meaning calls for, the hash on display is its hash, and the
   pages up to the current one have been displayed. Host steps are excluded by
   the half-duplex transport; user steps that would change a setting need
   another screen.
4. From it: `PendingReviewIsOfCommand`, `BlindReviewsHaveConsent`,
   `SignaturesAreReviewed` (`Spec => SignsOnlyReviewed`) and
   `PubkeysAreReviewed` (`Spec => PubkeyShownIsPubkeySent`). `ApprovedIsSeen`
   says that on the approve page all pages have been displayed,
   `PagesAreComplete` that they are the complete review; `KnownItems` shows that
   a stale hash cannot be among the pages of a message whose hash was not
   computed.
5. `ServiceIsImplemented` (`LedgerAppReviewProof`): `Spec =>
   ImplementsService`, the refinement of `SigningService`. The mapping computes
   the request from the command, "seen" from `shown`, and the session's payment
   from `swap`. There is one lemma per kind of step of the service (`AskIsStep`,
   `SeeingIsStep`, `ReplyIsStep`, `InterruptIsStep`, `PaymentIsStep`,
   `IdleStutters`), and then each action is shown to be one of these;
   `ReviewInv` gives that what is approved was seen.
6. On the history of a session (`LedgerAppReviewProof`):
   - `MessageIsWhatWasSent` (`UploadIntact`). `UploadInv` adds that the process
     that is off has no command; `ReceivedFields` and `AcceptedIsUploaded`
     follow a chunk through the receiver.
   - `SettingsPageIsTrue` and `SettingsAreTheUsers`: every write of a setting is
     followed by that of the copy before the next gesture.
   - `UnreviewedIsThePayment`, failing primitives included. `PaymentIsAsked`
     carries Exchange's parameters through the session. It uses that the amount
     and the recipient of a payment are different items, which
     `LedgerAppAssumption` states because `check_swap_validity` switches on
     their kind.
   - `ExchangeIsToldTheTruth` and `SwapEndsWithItsTransaction`, under the
     hypothesis that signing does not fail (`CxFaults \subseteq {FALSE}`); the
     run `swap_fault` shows that the latter needs it. `SwapInv` says that a
     session is over as soon as `G_swap_response_ready` is set, and that what
     Exchange was told is what the host was sent.
7. `PrinterOutcome` (`SummaryProof`): no printer fails after it has set an item,
   one lemma per number of instructions. With it `BlindSlots`, `Spec =>
   []BlindSlotsFree`. That property speaks of one phase; the invariant
   `SlotsInv` says for each phase before it what the summary holds, from the
   reset on. `ModesCompare` puts each printer's items in the two modes beside
   each other (`Beside`, `Compare`): the same primary item, at most nine general
   items for users and eleven for experts, and every title a user sees. From it
   follow `ExpertsSeeMore` (`ExpertSeesMore`) and `SlotsAreEnough`
   (`SlotsSuffice`): eleven slots are too few only when the maximum fee takes
   one of them, in expert mode. Its invariant `RoomInv` adds to `SlotsInv` what
   a printer that failed leaves to the blind signing branch.
8. `SummaryReviewProof`, on what the user reads in a summary:
   - `SummaryTypes` (`Spec => []TypeOK`). `ListInv` says that `list` is the end
     of `infos` in every phase; `EndOfEnd` and `EndElements` follow it through
     the two loops that move the head of the list.
   - `WholeBudget` (`BudgetIsWhole`) and `NonceInFront` (`NonceComesFirst`).
     Both speak of the moment the transaction is recognized and of instructions
     the loops looked at, or missed, two phases earlier. `FrontInv` carries
     between the phases that what is in front of `list` is the advance of a
     nonce and compute budget instructions, that the two pointers are the last
     of their kind among them (`LastIn`), and what the summary holds because of
     them. `PrintedParts` then shows from the briefs that a list which is
     printed has one to four elements, none of the compute budget program, and
     an advance only by itself: so the loops missed nothing.
   - `OthersShown` (`OthersAreShown`). One lemma per program follows each
     printer to the item for the authority (`SystemShows`, `StakeShows`,
     `VoteShows`, `TokenShows`), one per number of instructions to those of the
     parts (`PairShows`, `TripleShows`, `QuadrupleShows`); `WrittenItems` says
     that all of them reach the slots. It is about the whole transaction: `FrontInv`
     says that nothing in front of what is printed has an authority but the
     advance of a nonce, whose item experts have. Of the exceptions of
     `AuthorityHidden` the one of the nonce is what that item needs, the others
     are the disjuncts the proof of `PairShows` and `TripleShows` cannot do
     without.
9. `MessageProof`: `MessageTypes`, `MessageIsCovered` (what is signed was read,
   each byte by one field) and `KeysLieInside`. The inductive invariant
   `MessageInv` says that cursor and rest make up the message, that the spans
   tile what was read, that the keys are a span of their own as long as their
   number says, and what each phase has compared. Of the signer it says that it
   is one of the required signatures, whose number is not compared with that of
   the keys: its key is a key of the message if the scan did not go past them.
   `KeysFitSize` is the fact
   about the real sizes (2^21 keys of 32 bytes fit 32 bits) without which the
   product wraps (`KeysDoNotWrap`). `LengthsAreRead` says that the reader of
   lengths inverts the network's encoding, for every size of digit.
10. `LibraryProof`, on the conversions, for every parameter of a call:
   - `FeeFits` (`MaxFeeFits`), from `FeeIsNeverOverstated` and
     `FeeIsExactWithinWidths`: the lemmas bound a product, a quotient and a
     remainder by what it would be without wrapping.
   - `EveryLengthIsExact` (`CompactLengthIsExact`) and `StringsAreMarked`
     (`TruncationIsMarked`).
   - `EveryTextIsWhatItSays` (`TextIsWhatItSays`). The reference definition cuts
     a text into encodings of characters wherever it can; the scan only goes
     forward. The lemmas show that of the encodings a text can start with there
     is only one, which is the one the scan takes.
   - `EveryNumberIsExact` (`NumberIsExact`) and `EveryAmountIsExact`
     (`AmountIsExact`). The invariants of the two loops (`NumberStates`,
     `AmountStates`) say that the buffer holds the last digits of the number,
     what is left is the rest of it, and the turn before did not come too soon.
     `DigitsMakeNumber` reads the digits back; `MagnitudeIsAbsolute` is the
     turning of the bits; `StrippedIsAmount` that the zeros and the point that
     are stripped do not change the number.
   - `PrintableIsPaid` (`PrintableAmountIsPaid`) and `PaidIsPayment`
     (`PaidItemIsPayment`). The payment is compared by its text, so the text
     must determine it, across buffers of two lengths: `OneIsComplete` says that
     an amount has one complete text, `SameTextSameAmount` that the text has one
     amount, `AmountHasRoom` that no amount is too long. `AmountIsRead` is the
     shifting of the bytes, `AskedStaysKept` the invariant.

   - `EveryDateIsExact` (`DateIsExact`). The conversion divides by approximations
     of the century, the year and the month. `QuotientsAndRests` bounds what
     each leaves, `YearIsFound` and `MonthIsFound` show that none is off by
     one, leap days included; `DayHasDate` that the calendar has no other date
     for the day. `Days` are those whose intermediate results fit 31 bits, TLC's limit.

   The provers have no induction over an operator; `SetInduction` takes a set
   instead and follows from the well-foundedness of `<`.

11. `DisplayProof`, on what stands on the display:
   - `EveryKeyIsExact` (`Base58IsExact`). `encode_base58` divides the number of
     the bytes by 58 in place, counts leading zeros twice and fills a buffer of
     twice the length from its end. The invariant of a division (`NumberIsDivided`)
     says that the quotient so far and the rest make up the bytes read; that of
     the conversion (`DigitsMakeKey`) that the digits behind the cursor and what
     is left of the bytes make up the key, and the turn before did not come too
     soon. `NumberAndZerosAreUnique` and `LengthTellsSize` are the arithmetic of
     numbers in a base. On the other side the reference multiplies and adds
     (`NumberIsMultiplied`); `NothingIsLost` says that no carry leaves it, and
     `DigitsAreUnique` that the bytes it ends with are those of the key.
   - `EveryAddressIsOfKey` (`AddressIsOfKey`): a text that can be decoded to the
     key, with the same zeros in front, is the text of the key (`TextIsOfKey`);
     so the comparison of the texts is one of the keys. `CharactersHaveRoom`
     gives that 44 characters are enough for 32 bytes, eight bytes at a time.
   - `EveryTextStaysInBuffer` (`TextStaysInBuffer`). The bounds follow from the
     invariants of the loops (`NumberStates`, `AmountStates` of `LibraryProof`):
     `AmountIsBounded` says how long an amount can get, `AmountStaysInside` that
     the point in the last byte is the one way past the end; one lemma per kind
     of item for the buffer the items share.
12. `ParserProof`, on the parsers and printers of single instructions:
   - The invariant `Parsing` of the loop over a layout says that the reading has
     what each step so far reads, and that a signature in front of which nothing
     was signed leaves exactly the counted accounts. `EveryStepAdvances` is that
     one step keeps it, whatever the step, the accounts and the bytes left;
     `BodyIsRead` what holds of an instruction that was parsed. From it follow,
     layout by layout, the fields each kind of instruction has
     (`SystemFieldsAreRead`, `StakeFieldsAreRead`, `VoteFieldsAreRead`,
     `ValidatorFieldsAreRead`, `TokenFieldsAreRead`, `SignedFieldsAreRead`,
     `AssociatedFieldsAreRead`).
   - `EverySignerIsCounted` (`SignersAreCounted`) and `EveryInfoIsOfSummary`:
     what the parsers yield is what `Summary` expects, so that what is proved of
     its printers is proved of every instruction.
   - `EveryShownFieldIsParsed` (`ShownFieldsAreParsed`). `Known` are the titles
     under which only parsed fields are shown; one lemma per program says that a
     printer's items are among them, in both modes. `FactsAreParsed` connects the
     two sides: a printer looks at an option only if the fact says that it is
     there, and the fact is there only if the parser read it.

Only model-checked:

- `PendingIsAnswered`: TLAPS does not reach liveness under fairness.
- The second half of `SummaryInfosAreParsed`: that every instruction the run
  `summary` is given is one the parsers yield, from the calls of the run
  `library`. It compares two instances, and is no theorem for every value of the
  constants. The first half, that they yield nothing else, is
  `EveryInfoIsOfSummary`.

## 5. Not modelled

- The token table (`token_info.c`, `spl/token.h`): constant data, and one loop
  that looks a key up in it.
- The titles and texts of a display: `transaction_summary_display_item` copies
  them between static buffers; a title is its name here, and of a text only what
  its buffer cuts off is kept.
- The SDK: USB and Bluetooth framing, drawing, key derivation, signatures and
  their errors are external and modelled from their use.
- The bytes of instruction data beyond the facts printers branch on, and key
  values in messages: the models count them.
- Dates whose intermediate results exceed TLC's integers.
- Of tests and examples only the chunking of the Python client.

## 6. Plan

Done: the receiver, the application, the signing service and its refinement, the
summary, messages byte by byte, the instruction parsers, the primitives,
off-chain texts, the parameters of a swap, and the proofs above. Left:

1. The mutual agreement of `Message` and `Summary` as one composed specification
   rather than by their shared instructions.
