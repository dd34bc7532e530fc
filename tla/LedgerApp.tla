------------------------------ MODULE LedgerApp ------------------------------
(***************************************************************************)
(* The Solana application on a Ledger device: the main loop (src/main.c),  *)
(* the command handlers, the review screens and settings menus of the two  *)
(* graphic libraries, and the mode in which the Exchange application       *)
(* starts it to sign the payment of a swap.                                *)
(*                                                                         *)
(* Three parties act: the host sends APDUs, the user presses buttons, the  *)
(* environment unplugs and powers off the device.  The transport is        *)
(* external and half-duplex: it delivers an APDU only when none awaits its *)
(* reply, and drops a reply nobody awaits.                                 *)
(*                                                                         *)
(* What a message means is a parameter: Tx and Text give, for every        *)
(* content of the message buffer, what the parser and the printers make of *)
(* it as a transaction and as an off-chain message.                        *)
(***************************************************************************)
EXTENDS Apdu

CONSTANTS
    HaveNbgl,      \* TRUE: touch screen (NBGL); FALSE: buttons (BAGL)
    TargetNanos,   \* the default of the pubkey length setting depends on it
    TEXT_BUFFER_LENGTH, \* bytes of an item's text, the NUL behind it included
    HostApdus,     \* APDUs the host may send
    Derivable,     \* paths the operating system derives keys for
    OtherKey,      \* a key that is not the device's
    Item,          \* summary items the instruction printers set
    BadItems,      \* items whose value does not fit its text buffer
    Tx,            \* the meaning of each message as a transaction
    Text,          \* the meaning of each message as off-chain message
    SwapParams,    \* payments the Exchange application may ask for
    NoSwap,        \* no payment was asked for
    UserSettings,  \* settings the user may change
    CxFaults       \* whether the signature primitive may fail

(* Items set by the handlers themselves.                                   *)
HandlerItems ==
    {"Unrecognized", "Message Hash", "Fee payer", "Sign", "Version",
     "Format", "Size", "Hash", "Signer"}
SummaryItems == Item \cup HandlerItems \cup {"Unset"}
HashItems == {"Message Hash", "Hash"}

Setting == {"allow_blind_sign", "pubkey_display", "display_mode"}

(* The summary slots the printers fill, for a display mode: the primary    *)
(* item, the general items and the nonce account and authority.            *)
Body == [primary: Item \cup {"Unset"}, general: Seq(Item), nonce: Seq(Item)]

TxMeaning ==
    [wellFormed: BOOLEAN, signers: SUBSET Path,
     feePayer: Path \cup {OtherKey}, known: BOOLEAN,
     body: [{"User", "Expert"} -> Body]]

TextMeaning ==
    [wellFormed: BOOLEAN, encoding: {"ascii", "utf8", "invalid"},
     extended: BOOLEAN, length: Nat]

ASSUME LedgerAppAssumption ==
    /\ HaveNbgl \in BOOLEAN
    /\ TargetNanos \in BOOLEAN
    /\ TEXT_BUFFER_LENGTH \in Nat \ {0}
    /\ HostApdus \subseteq ApduMessage
    /\ Derivable \subseteq Path \cup {NoPath}
    /\ OtherKey \notin Path
    /\ BadItems \subseteq Item
    /\ Item \cap (HandlerItems \cup {"Unset", "Pubkey", "Message"}) = {}
    /\ Tx \in [Messages -> TxMeaning]
    /\ Text \in [Messages -> TextMeaning]
    /\ SwapParams \subseteq [amount: Item, recipient: Item]
    /\ NoSwap \notin SwapParams
    /\ \A p \in SwapParams : p.amount # p.recipient
    /\ UserSettings \subseteq Setting
    /\ CxFaults \subseteq BOOLEAN

(* process_message_body succeeds exactly when it has set the primary item: *)
(* the printers' side of this is checked in module Summary.                *)
ASSUME PrimaryAssumption ==
    \A m \in Messages, d \in {"User", "Expert"} :
        Tx[m].known <=> Tx[m].body[d].primary # "Unset"

VARIABLES
    mode,      \* "off", "app" (standalone) or "swap" (started by Exchange)
    exit,      \* why the application last stopped
    storage,   \* N_storage: the settings in non-volatile memory
    switches,  \* G_switches: what the NBGL settings page shows
    cmd,       \* G_command
    pubkey,    \* G_publicKey and its text, by the path it is derived from
    summary,   \* G_transaction_summary: the used items in display order
    screen,    \* what the display shows
    flow,      \* the review on the display: kind, number of summary steps
    page,      \* the step of the review on the display
    out,       \* what the host has received for its last APDU
    swap,      \* the payment to sign, G_swap_response_ready, the result
    shown,     \* ghost: what the review of the pending command displayed
    upload     \* ghost: the message the host has sent, as it counts it

vars == <<mode, exit, storage, switches, cmd, pubkey, summary, screen, flow,
          page, out, swap, shown, upload>>

-----------------------------------------------------------------------------
(* Values of the variables.                                                *)

Storage == [initialized: BOOLEAN, allow_blind_sign: BOOLEAN,
            pubkey_display: {"Long", "Short"},
            display_mode: {"User", "Expert"}]

Switches == [Setting -> BOOLEAN]

Screens == {"off", "blank", "home", "settings", "review", "status"}

NoFlow == [kind |-> "none", steps |-> 0, text |-> FALSE]
Flow == [kind: {"none", "pubkey", "transaction", "message"}, steps: Nat,
         text: BOOLEAN]

(* A reply carries nothing, the configuration, a public key (known by its  *)
(* path) or a signature over a message with the key of a path.             *)
Reply(sw) == [state |-> "sent", sw |-> sw, payload |-> "nothing",
              path |-> NoPath, message |-> <<>>]
ConfigReply == [Reply("Success") EXCEPT !.payload = "configuration"]
PubkeyReply(p) == [Reply("Success") EXCEPT !.payload = "pubkey", !.path = p]
SignatureReply(p, m) ==
    [Reply("Success") EXCEPT !.payload = "signature", !.path = p, !.message = m]
NoReply == [Reply("Success") EXCEPT !.state = "none"]
Pending == [Reply("Success") EXCEPT !.state = "pending"]

Replies ==
    [state: {"none", "pending", "sent"}, sw: StatusWord,
     payload: {"nothing", "configuration", "pubkey", "signature"},
     path: Path \cup {NoPath}, message: Messages]

IsPending == out.state = "pending"

NoUpload == [instruction |-> "None", path |-> NoPath, message |-> <<>>,
             more |-> FALSE]

Uploads == [instruction: InstructionCode \cup {"None"},
            path: Path \cup {NoPath}, message: Seq(Token), more: BOOLEAN]

Swaps == [validated: SwapParams \cup {NoSwap}, ready: BOOLEAN, result: BOOLEAN]

InitSwap == [validated |-> NoSwap, ready |-> FALSE, result |-> FALSE]

-----------------------------------------------------------------------------
(* What handling a message puts in the summary.                            *)

(* Items after process_message_body: complete when the message is known,   *)
(* what was set before it gave up otherwise.                               *)
BodySummary(m, display) ==
    LET body == Tx[m].body[display]
    IN  <<body.primary>> \o body.general \o body.nonce

(* handle_sign_message_parse_message: an unknown message gets a summary of *)
(* its hash; the fee payer comes last, if print_config_show_authority.     *)
TxSummary(m, p, display) ==
    LET body == Tx[m].body[display]
        primary == IF Tx[m].known THEN body.primary ELSE "Unrecognized"
        hash == IF Tx[m].known THEN <<>> ELSE <<"Message Hash">>
        feePayer == IF display = "Expert" \/ Tx[m].feePayer # p
                    THEN <<"Fee payer">> ELSE <<>>
    IN  <<primary>> \o body.general \o hash \o body.nonce \o feePayer

IsAscii(m) == Text[m].encoding = "ascii"

ExpertTextItems == <<"Sign", "Version", "Format", "Size", "Hash">>

TextSummary(m, display) ==
    IF display = "Expert" THEN Append(ExpertTextItems, "Signer")
    ELSE IF IsAscii(m) THEN <<"Sign">>
    ELSE <<"Sign", "Hash">>

(* Mutant of TransactionReply: the blind signing setting is not consulted. *)
TransactionReplyBlind(c) ==
    IF ~Tx[c.message].wellFormed THEN "InvalidMessage"
    ELSE IF c.derivation_path \notin Derivable THEN "CxError"
    ELSE IF c.derivation_path \notin Tx[c.message].signers
    THEN "InvalidMessageHeader"
    ELSE IF c.non_confirm THEN "SdkNotSupported"
    ELSE "Success"

(* The exceptions of the two signing handlers, in the order of the code.   *)
TransactionReply(c) ==
    IF ~Tx[c.message].wellFormed THEN "InvalidMessage"
    ELSE IF c.derivation_path \notin Derivable THEN "CxError"
    ELSE IF c.derivation_path \notin Tx[c.message].signers
    THEN "InvalidMessageHeader"
    ELSE IF c.non_confirm THEN "SdkNotSupported"
    ELSE IF ~Tx[c.message].known /\ ~storage.allow_blind_sign
    THEN "SdkNotSupported"
    ELSE "Success"

TextReply(c) ==
    LET text == Text[c.message]
    IN  IF c.non_confirm THEN "SdkNotSupported"
        ELSE IF ~text.wellFormed THEN "InvalidMessageHeader"
        ELSE IF text.encoding = "invalid" THEN "InvalidMessageFormat"
        ELSE IF text.encoding = "utf8" /\ ~text.extended
        THEN "InvalidMessageFormat"
        ELSE IF text.encoding = "utf8" /\ ~storage.allow_blind_sign
        THEN "SdkNotSupported"
        ELSE IF /\ storage.display_mode = "Expert"
                /\ c.derivation_path \notin Derivable
        THEN "CxError"
        ELSE "Success"

(* Mutant of CheckSwapValidity: the number of steps is not checked.        *)
CheckSwapItems(items) ==
    /\ swap.validated.amount \in {items[1], items[2]}
    /\ swap.validated.recipient \in {items[1], items[2]}

(* The payment the summary shows is the one the Exchange user validated:   *)
(* two steps, its amount and its recipient.                                *)
CheckSwapValidity(items) ==
    /\ Len(items) = 2
    /\ swap.validated.amount \in {items[1], items[2]}
    /\ swap.validated.recipient \in {items[1], items[2]}

-----------------------------------------------------------------------------
(* What a page of a review displays.  Summary items point into G_command:  *)
(* a page shows what the command holds when the page is displayed.         *)

PageItem(f, items, n) ==
    IF f.kind = "pubkey" THEN "Pubkey"
    ELSE IF n = f.steps + 1 THEN "Message"
    ELSE items[n]

(* What a buffer of this size holds of a text of this length: its NUL      *)
(* takes the last byte, what does not fit is cut.                          *)
strlcpy(length, size) == IF length < size THEN length ELSE size - 1

(* The characters of a text its page displays.  NBGL copies the text into  *)
(* a slot the size of an item's text and displays the slot; BAGL displays  *)
(* the message buffer itself.                                              *)
TextDisplayed(m) ==
    IF HaveNbgl THEN strlcpy(Text[m].length, TEXT_BUFFER_LENGTH)
                ELSE Text[m].length

Shown(f, items, c, key, n) ==
    LET item == PageItem(f, items, n)
    IN  [page |-> n, item |-> item,
         key |-> IF item = "Pubkey" THEN key ELSE NoPath,
         message |-> IF item = "Pubkey" THEN <<>>
                     ELSE IF item \in HashItems THEN c.message_hash
                     ELSE c.message,
         text |-> IF item = "Message" THEN TextDisplayed(c.message) ELSE 0]

(* transaction_summary_display_item: fails for an item that is not set or  *)
(* that cannot be printed.                                                 *)
Displayable(f, items, n) ==
    \/ f.kind = "pubkey"
    \/ f.text /\ n = f.steps + 1
    \/ n \in DOMAIN items /\ items[n] \notin BadItems \cup {"Unset"}

(* Mutant of PagesOf: the page of the text is not counted.                 *)
PagesWithoutText(f) == f.steps

PagesOf(f) == IF f.text THEN f.steps + 1 ELSE f.steps

(* After the pages comes the approve step, and in BAGL the reject step.    *)
ApprovePage == PagesOf(flow) + 1
LastPage == IF HaveNbgl THEN ApprovePage ELSE ApprovePage + 1

(* Mutant of FirstPage: the BAGL flow starts at its second step.           *)
SecondPage == IF HaveNbgl THEN 0 ELSE 2

(* NBGL starts on a title page, BAGL on the first item.                    *)
FirstPage == IF HaveNbgl THEN 0 ELSE 1

-----------------------------------------------------------------------------
(* Starting and stopping.                                                  *)

device == <<mode, exit, storage, switches, swap>>
view == <<screen, flow, page, shown>>

AllOff == [s \in Setting |-> FALSE]

(* nv_app_state_init *)
InitializedStorage ==
    IF storage.initialized THEN storage
    ELSE [initialized |-> TRUE, allow_blind_sign |-> FALSE,
          pubkey_display |-> IF TargetNanos THEN "Short" ELSE "Long",
          display_mode |-> "User"]

SwitchesOf(s) ==
    [k \in Setting |->
        CASE k = "allow_blind_sign" -> s.allow_blind_sign
          [] k = "pubkey_display" -> s.pubkey_display # "Long"
          [] k = "display_mode" -> s.display_mode # "User"]

(* Mutant of IdleSwitches: the switches keep their state.                  *)
StaleSwitches(s) == switches

(* ui_idle sets the NBGL switches from the settings.                       *)
IdleSwitches(s) == IF HaveNbgl THEN SwitchesOf(s) ELSE switches

NoReview == flow' = NoFlow /\ page' = 0 /\ shown' = {}

GlobalsReset ==
    /\ cmd' = ClearedCommand
    /\ pubkey' = NoPath

(* The application's memory is lost; `reply' is the last thing sent.       *)
Stop(reason, reply) ==
    /\ mode' = "off"
    /\ exit' = reason
    /\ out' = reply
    /\ screen' = "off"
    /\ switches' = AllOff
    /\ summary' = <<>>
    /\ GlobalsReset
    /\ NoReview
    /\ UNCHANGED storage

Init ==
    /\ mode = "off"
    /\ exit = "none"
    /\ storage = [initialized |-> FALSE, allow_blind_sign |-> FALSE,
                  pubkey_display |-> "Long", display_mode |-> "User"]
    /\ switches = AllOff
    /\ cmd = ClearedCommand
    /\ pubkey = NoPath
    /\ summary = <<>>
    /\ screen = "off"
    /\ flow = NoFlow
    /\ page = 0
    /\ out = NoReply
    /\ swap = InitSwap
    /\ shown = {}
    /\ upload = NoUpload

(* coin_main: opened from the dashboard.                                   *)
Launch ==
    /\ mode = "off"
    /\ mode' = "app"
    /\ exit' = "none"
    /\ storage' = InitializedStorage
    /\ switches' = IdleSwitches(InitializedStorage)
    /\ screen' = "home"
    /\ out' = NoReply
    /\ swap' = InitSwap
    /\ upload' = NoUpload
    /\ UNCHANGED <<cmd, pubkey, summary, flow, page, shown>>

(* SIGN_TRANSACTION of library_main_helper, start_app_from_lib: started by *)
(* Exchange with valid parameters; no menu, no settings page.              *)
LaunchSwap(p) ==
    /\ mode = "off"
    /\ mode' = "swap"
    /\ exit' = "none"
    /\ storage' = InitializedStorage
    /\ screen' = "blank"
    /\ out' = NoReply
    /\ swap' = [InitSwap EXCEPT !.validated = p]
    /\ upload' = NoUpload
    /\ UNCHANGED <<switches, cmd, pubkey, summary, flow, page, shown>>

PowerCut ==
    /\ mode # "off"
    /\ Stop("power", NoReply)
    /\ upload' = NoUpload
    /\ UNCHANGED swap

(* The menu's Quit: os_sched_exit.                                         *)
Quit ==
    /\ screen = "home"
    /\ Stop("quit", out)
    /\ upload' = NoUpload
    /\ UNCHANGED swap

(* io_event throws IoReset when USB power goes: coin_main starts over, a   *)
(* swap returns to Exchange through library_main.                          *)
UsbUnplugged ==
    /\ upload' = NoUpload
    /\ \/ /\ mode = "app"
          /\ screen' = "home"
          /\ switches' = IdleSwitches(storage)
          /\ out' = NoReply
          /\ GlobalsReset
          /\ NoReview
          /\ UNCHANGED <<mode, exit, storage, summary, swap>>
       \/ /\ mode = "swap"
          /\ Stop("io_reset", NoReply)
          /\ UNCHANGED swap

-----------------------------------------------------------------------------
(* One pass of the main loop: io_exchange delivers an APDU, handleApdu     *)
(* throws the reply or starts a review, whose reply comes later.           *)

(* The message as the host counts it: what was acknowledged since the      *)
(* first chunk.                                                            *)
UploadAfter(a) ==
    IF a.ins \notin SignInstructions THEN NoUpload
    ELSE IF ~a.extend
    THEN [instruction |-> a.ins, path |-> a.data[PathIndex(a)],
          message |-> Payload(a), more |-> a.more]
    ELSE IF upload.more /\ upload.instruction = a.ins
    THEN [upload EXCEPT !.message = @ \o Payload(a), !.more = a.more]
    ELSE NoUpload

CanReceive == mode # "off" /\ ~IsPending

(* rx == 0: replied to as an error, nothing else changes.                  *)
EmptyApdu ==
    /\ CanReceive
    /\ out' = Reply("NoApduReceived")
    /\ UNCHANGED <<device, view, cmd, pubkey, summary, upload>>

RejectApdu(a) ==
    /\ CanReceive
    /\ ApduReply(a, cmd) # "Success"
    /\ cmd' = ClearedCommand
    /\ out' = Reply(ApduReply(a, cmd))
    /\ upload' = NoUpload
    /\ UNCHANGED <<device, view, pubkey, summary>>

(* The APDU is accepted and leaves the command in this state.              *)
Accept(a, state) ==
    /\ CanReceive
    /\ ApduReply(a, cmd) = "Success"
    /\ ApduCommand(a, cmd).state = state
    /\ upload' = UploadAfter(a)

StoreChunk(a) ==
    /\ Accept(a, "PayloadInProgress")
    /\ cmd' = ApduCommand(a, cmd)
    /\ out' = Reply("Success")
    /\ UNCHANGED <<device, view, pubkey, summary>>

(* The APDU completes a command of these instructions.                     *)
Complete(a, instructions) ==
    /\ a.ins \in instructions
    /\ Accept(a, "PayloadComplete")

GetAppConfiguration(a) ==
    /\ Complete(a, ConfigInstructions)
    /\ cmd' = ApduCommand(a, cmd)
    /\ out' = ConfigReply
    /\ UNCHANGED <<device, view, pubkey, summary>>

(* ux_flow_init and nbgl_useCaseReview.  BAGL displays the first item; the *)
(* NBGL library fetches every item to lay out the pages and starts on a    *)
(* title page.  An item that cannot be displayed makes the start throw: in *)
(* BAGL the flow is entered nevertheless, in NBGL the page left on display *)
(* has lost its callbacks.                                                 *)
StartReview(f, items, c, key) ==
    \/ /\ IF HaveNbgl THEN \A n \in 1..PagesOf(f) : Displayable(f, items, n)
                       ELSE Displayable(f, items, 1)
       /\ screen' = "review"
       /\ flow' = f
       /\ page' = FirstPage
       /\ shown' = IF HaveNbgl THEN {} ELSE {Shown(f, items, c, key, 1)}
       /\ out' = Pending
    \/ /\ ~HaveNbgl
       /\ ~Displayable(f, items, 1)
       /\ screen' = "review"
       /\ flow' = f
       /\ page' = 1
       /\ shown' = {}
       /\ out' = Reply("SummaryUpdateFailed")
    \/ /\ HaveNbgl
       /\ \E n \in 1..PagesOf(f) : ~Displayable(f, items, n)
       /\ screen' = "blank"
       /\ NoReview
       /\ out' = Reply("SummaryUpdateFailed")

(* handle_get_pubkey: the key is derived, then sent or reviewed.           *)
GetPubkeyRefused(a) ==
    /\ Complete(a, PubkeyInstructions)
    /\ cmd' = ApduCommand(a, cmd)
    /\ cmd'.derivation_path \notin Derivable
    /\ out' = Reply("CxError")
    /\ UNCHANGED <<device, view, pubkey, summary>>

GetPubkeySilently(a) ==
    /\ Complete(a, PubkeyInstructions)
    /\ cmd' = ApduCommand(a, cmd)
    /\ cmd'.derivation_path \in Derivable
    /\ cmd'.non_confirm
    /\ pubkey' = cmd'.derivation_path
    /\ out' = PubkeyReply(pubkey')
    /\ UNCHANGED <<device, view, summary>>

PubkeyFlow == [kind |-> "pubkey", steps |-> 1, text |-> FALSE]

(* Mutant of ReviewPubkey: the text is encoded before the key is derived.  *)
ReviewStalePubkey(a) ==
    /\ Complete(a, PubkeyInstructions)
    /\ cmd' = ApduCommand(a, cmd)
    /\ cmd'.derivation_path \in Derivable
    /\ ~cmd'.non_confirm
    /\ pubkey' = cmd'.derivation_path
    /\ StartReview(PubkeyFlow, summary, cmd', pubkey)
    /\ UNCHANGED <<device, summary>>

ReviewPubkey(a) ==
    /\ Complete(a, PubkeyInstructions)
    /\ cmd' = ApduCommand(a, cmd)
    /\ cmd'.derivation_path \in Derivable
    /\ ~cmd'.non_confirm
    /\ pubkey' = cmd'.derivation_path
    /\ StartReview(PubkeyFlow, summary, cmd', pubkey')
    /\ UNCHANGED <<device, summary>>

(* handle_sign_message_parse_message throws.                               *)
SignTransactionRefused(a) ==
    LET c == ApduCommand(a, cmd)
    IN  /\ Complete(a, TransactionInstructions)
        /\ TransactionReply(c) # "Success"
        /\ cmd' = c
        /\ summary' = IF TransactionReply(c) = "SdkNotSupported"
                          /\ ~c.non_confirm
                      THEN BodySummary(c.message, storage.display_mode)
                      ELSE summary
        /\ out' = Reply(TransactionReply(c))
        /\ UNCHANGED <<device, view, pubkey>>

(* Mutant of ParsedTransaction: the hash is never computed.                *)
UnhashedTransaction(c) == c

(* The command a transaction review or a swap works on: the hash of an     *)
(* unknown message is computed.                                            *)
ParsedTransaction(c) ==
    IF Tx[c.message].known THEN c
                           ELSE [c EXCEPT !.message_hash = c.message]

(* The APDU completes a transaction that handle_sign_message_ui gets.      *)
SignTransactionParsed(a) ==
    /\ Complete(a, TransactionInstructions)
    /\ TransactionReply(ApduCommand(a, cmd)) = "Success"

TransactionFlow(items) ==
    [kind |-> "transaction", steps |-> Len(items), text |-> FALSE]

ReviewTransaction(a) ==
    /\ SignTransactionParsed(a)
    /\ mode = "app"
    /\ cmd' = ParsedTransaction(ApduCommand(a, cmd))
    /\ summary' = TxSummary(cmd'.message, cmd'.derivation_path,
                            storage.display_mode)
    /\ StartReview(TransactionFlow(summary'), summary', cmd', pubkey)
    /\ UNCHANGED <<device, pubkey>>

(* handle_sign_offchain_message.  The hash is computed before the summary  *)
(* is filled, the key of an expert's Signer item derived after that.       *)
HashedText(c) ==
    IF storage.display_mode = "Expert" \/ ~IsAscii(c.message)
    THEN [c EXCEPT !.message_hash = c.message] ELSE c

SignTextRefused(a) ==
    LET c == ApduCommand(a, cmd)
    IN  /\ Complete(a, {"SignOffchainMessage"})
        /\ TextReply(c) # "Success"
        /\ \/ /\ TextReply(c) # "CxError"
              /\ cmd' = c
              /\ UNCHANGED summary
           \/ /\ TextReply(c) = "CxError"
              /\ cmd' = HashedText(c)
              /\ summary' = ExpertTextItems
        /\ out' = Reply(TextReply(c))
        /\ UNCHANGED <<device, view, pubkey>>

TextFlow(items, m) ==
    [kind |-> "message", steps |-> Len(items), text |-> IsAscii(m)]

ReviewText(a) ==
    /\ Complete(a, {"SignOffchainMessage"})
    /\ TextReply(ApduCommand(a, cmd)) = "Success"
    /\ cmd' = HashedText(ApduCommand(a, cmd))
    /\ summary' = TextSummary(cmd'.message, storage.display_mode)
    /\ StartReview(TextFlow(summary', cmd'.message), summary', cmd', pubkey)
    /\ UNCHANGED <<device, pubkey>>

-----------------------------------------------------------------------------
(* Sending the reply of a review or of a swap.                             *)

(* Mutants of FinalizeSwap: Exchange is always told of a success; the      *)
(* application does not quit.                                              *)
FinalizeSwapAlwaysTrue(reply, ok) ==
    /\ Stop("lib_end", reply)
    /\ swap' = [swap EXCEPT !.ready = TRUE, !.result = TRUE]

FinalizeSwapStays(reply, ok) ==
    /\ out' = reply
    /\ swap' = [swap EXCEPT !.ready = TRUE, !.result = ok]
    /\ UNCHANGED <<mode, exit, storage, switches, view, cmd, pubkey, summary>>

(* sendResponse once G_swap_response_ready is set: the reply is sent, then *)
(* finalize_exchange_sign_transaction tells Exchange and ends the library  *)
(* call.                                                                   *)
FinalizeSwap(reply, ok) ==
    /\ Stop("lib_end", reply)
    /\ swap' = [swap EXCEPT !.ready = TRUE, !.result = ok]

(* Mutant of SendResponse: back to the menu, without the reply.            *)
SendNothing(reply, ok) ==
    /\ screen' = IF HaveNbgl THEN "status" ELSE "home"
    /\ NoReview
    /\ UNCHANGED <<device, cmd, pubkey, summary, upload, out>>

(* sendResponse from a review: a swap that has had its answer ends,        *)
(* otherwise BAGL shows the menu and NBGL a status page.                   *)
SendResponse(reply, ok) ==
    \/ /\ mode = "swap"
       /\ swap.ready
       /\ FinalizeSwap(reply, ok)
       /\ UNCHANGED upload
    \/ /\ ~(mode = "swap" /\ swap.ready)
       /\ out' = reply
       /\ screen' = IF HaveNbgl THEN "status" ELSE "home"
       /\ NoReview
       /\ UNCHANGED <<device, cmd, pubkey, summary, upload>>

(* set_result_sign_message throws when the key cannot be derived or the    *)
(* primitive fails.                                                        *)
SigningFails(c, fault) == fault \/ c.derivation_path \notin Derivable

(* handle_sign_message_ui in a swap: no review, the summary is compared    *)
(* with the payment validated in Exchange, and the swap ends - unless      *)
(* set_result_sign_message throws before the reply is sent.                *)
SignSwap(a, fault) ==
    LET c == ParsedTransaction(ApduCommand(a, cmd))
        items == TxSummary(c.message, c.derivation_path, storage.display_mode)
    IN  /\ SignTransactionParsed(a)
        /\ mode = "swap"
        /\ ~swap.ready
        /\ \/ /\ CheckSwapValidity(items)
              /\ ~SigningFails(c, fault)
              /\ FinalizeSwap(SignatureReply(c.derivation_path, c.message),
                              TRUE)
           \/ /\ CheckSwapValidity(items)
              /\ SigningFails(c, fault)
              /\ out' = Reply("CxError")
              /\ cmd' = c
              /\ summary' = items
              /\ swap' = [swap EXCEPT !.ready = TRUE]
              /\ UNCHANGED <<mode, exit, storage, switches, view, pubkey>>
           \/ /\ ~CheckSwapValidity(items)
              /\ FinalizeSwap(Reply("SummaryFinalizeFailed"), FALSE)

(* The safety against double signing: os_sched_exit, without a reply.      *)
SignSwapAgain(a) ==
    /\ SignTransactionParsed(a)
    /\ mode = "swap"
    /\ swap.ready
    /\ Stop("safety", NoReply)
    /\ UNCHANGED swap

-----------------------------------------------------------------------------
(* The user, through io_event.                                             *)

(* A page is displayed: its item is printed from the globals.  A failure   *)
(* throws out of io_exchange: the main loop sends it as the reply of the   *)
(* pending command and the review stays on the display.                    *)
DisplayPage(n) ==
    /\ page' = n
    /\ \/ /\ n \in 1..PagesOf(flow)
          /\ Displayable(flow, summary, n)
          /\ shown' = IF IsPending
                      THEN shown \cup {Shown(flow, summary, cmd, pubkey, n)}
                      ELSE shown
          /\ out' = out
       \/ /\ n \in 1..PagesOf(flow)
          /\ ~Displayable(flow, summary, n)
          /\ out' = IF IsPending THEN Reply("SummaryUpdateFailed") ELSE out
          /\ shown' = {}
       \/ /\ n \notin 1..PagesOf(flow)
          /\ UNCHANGED <<out, shown>>
    /\ UNCHANGED <<device, screen, flow, cmd, pubkey, summary, upload>>

(* Mutant of NextPage: the flow ends after its last item.                  *)
NextItem ==
    /\ screen = "review"
    /\ page < PagesOf(flow)
    /\ DisplayPage(page + 1)

NextPage ==
    /\ screen = "review"
    /\ page < LastPage
    /\ DisplayPage(page + 1)

PrevPage ==
    /\ screen = "review"
    /\ page > FirstPage
    /\ DisplayPage(page - 1)

(* BAGL offers Reject after Approve; NBGL offers it on every page.         *)
CanApprove == screen = "review" /\ page = ApprovePage
CanReject == screen = "review" /\ (HaveNbgl \/ page = LastPage)

Approve(fault) ==
    /\ IsPending
    /\ CanApprove
    /\ \/ /\ flow.kind = "pubkey"
          /\ SendResponse(PubkeyReply(pubkey), TRUE)
       \/ /\ flow.kind # "pubkey"
          /\ ~SigningFails(cmd, fault)
          /\ SendResponse(SignatureReply(cmd.derivation_path, cmd.message),
                          TRUE)
       \/ /\ flow.kind # "pubkey"
          /\ SigningFails(cmd, fault)
          /\ out' = Reply("CxError")
          /\ shown' = {}
          /\ UNCHANGED <<device, screen, flow, page, cmd, pubkey, summary,
                         upload>>

Reject ==
    /\ IsPending
    /\ CanReject
    /\ SendResponse(Reply("UserRefusal"), FALSE)

(* The user decides on a review whose command has been answered already:   *)
(* nobody awaits the reply.                                                *)
DecideAnswered(ok) ==
    /\ ~IsPending
    /\ IF ok THEN CanApprove ELSE CanReject
    /\ SendResponse(out, ok)

(* nbgl_useCaseReviewStatus calls ui_idle when its delay expires.          *)
StatusDone ==
    /\ screen = "status"
    /\ screen' = "home"
    /\ switches' = IdleSwitches(storage)
    /\ UNCHANGED <<mode, exit, storage, swap, flow, page, shown, cmd, pubkey,
                   summary, out, upload>>

OpenSettings ==
    /\ screen = "home"
    /\ screen' = "settings"
    /\ UNCHANGED <<device, flow, page, shown, cmd, pubkey, summary, out, upload>>

CloseSettings ==
    /\ screen = "settings"
    /\ screen' = "home"
    /\ UNCHANGED <<device, flow, page, shown, cmd, pubkey, summary, out, upload>>

(* Mutant of WithSetting: the display mode write covers all settings.      *)
WithAllSettings(s, on) ==
    [storage EXCEPT !.allow_blind_sign = on,
                    !.display_mode = IF on THEN "Expert" ELSE "User"]

WithSetting(s, on) ==
    CASE s = "allow_blind_sign" -> [storage EXCEPT !.allow_blind_sign = on]
      [] s = "pubkey_display" ->
            [storage EXCEPT !.pubkey_display = IF on THEN "Short" ELSE "Long"]
      [] s = "display_mode" ->
            [storage EXCEPT !.display_mode = IF on THEN "Expert" ELSE "User"]

(* BAGL: the menu entry of a value writes it.                              *)
SelectSetting(s, on) ==
    /\ ~HaveNbgl
    /\ screen = "settings"
    /\ storage' = WithSetting(s, on)
    /\ UNCHANGED <<mode, exit, switches, swap, view, cmd, pubkey, summary, out,
                   upload>>

(* NBGL, settings_controls_callback: writes the opposite of the switch.    *)
ToggleSetting(s) ==
    /\ HaveNbgl
    /\ screen = "settings"
    /\ switches' = [switches EXCEPT ![s] = ~@]
    /\ storage' = WithSetting(s, ~switches[s])
    /\ UNCHANGED <<mode, exit, swap, view, cmd, pubkey, summary, out, upload>>

-----------------------------------------------------------------------------
Host ==
    \/ EmptyApdu
    \/ \E a \in HostApdus :
        \/ RejectApdu(a)
        \/ StoreChunk(a)
        \/ GetAppConfiguration(a)
        \/ GetPubkeyRefused(a)
        \/ GetPubkeySilently(a)
        \/ ReviewPubkey(a)
        \/ SignTransactionRefused(a)
        \/ ReviewTransaction(a)
        \/ SignTextRefused(a)
        \/ ReviewText(a)
        \/ \E fault \in CxFaults : SignSwap(a, fault)
        \/ SignSwapAgain(a)

User ==
    \/ NextPage
    \/ PrevPage
    \/ \E fault \in CxFaults : Approve(fault)
    \/ Reject
    \/ \E ok \in BOOLEAN : DecideAnswered(ok)
    \/ StatusDone
    \/ OpenSettings
    \/ CloseSettings
    \/ \E s \in UserSettings, on \in BOOLEAN : SelectSetting(s, on)
    \/ \E s \in UserSettings : ToggleSetting(s)
    \/ Quit

Environment ==
    \/ Launch
    \/ \E p \in SwapParams : LaunchSwap(p)
    \/ UsbUnplugged
    \/ PowerCut

Next == Host \/ User \/ Environment

Spec == Init /\ [][Next]_vars

(* io_exchange hands every button press to the review on the display.  The *)
(* user turns its pages, stops going back at some time, and decides.       *)
Decide == Reject \/ \E fault \in CxFaults : Approve(fault)

Fairness ==
    /\ WF_vars(NextPage)
    /\ WF_vars(Decide)
    /\ <>[][~PrevPage]_vars

FairSpec == Spec /\ Fairness
=============================================================================
