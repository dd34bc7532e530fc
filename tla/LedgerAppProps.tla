--------------------------- MODULE LedgerAppProps ---------------------------
(***************************************************************************)
(* The properties of LedgerApp.                                            *)
(***************************************************************************)
EXTENDS LedgerApp

(* What a review displays, page by page.                                   *)
PageRecords ==
    [page: Nat, item: SummaryItems \cup {"Pubkey", "Message"},
     key: Path \cup {NoPath}, message: Messages, text: Nat]

(* Every variable has a value of its type.                                 *)
TypeOK ==
    /\ mode \in {"off", "app", "swap"}
    /\ exit \in {"none", "power", "quit", "io_reset", "lib_end", "safety"}
    /\ storage \in Storage
    /\ switches \in Switches
    /\ cmd \in Command
    /\ pubkey \in Path \cup {NoPath}
    /\ summary \in Seq(SummaryItems)
    /\ screen \in Screens
    /\ flow \in Flow
    /\ page \in Nat
    /\ out \in Replies
    /\ swap \in Swaps
    /\ shown \subseteq PageRecords
    /\ upload \in Uploads

-----------------------------------------------------------------------------
(* Signing.                                                                *)

(* The complete review of a message: every item of the summary its meaning *)
(* calls for, read from that very message, and, when it is ASCII, so many  *)
(* characters of the text.                                                 *)
CompleteReview(kind, p, m, chars) ==
    LET items == IF kind = "transaction"
                 THEN TxSummary(m, p, storage.display_mode)
                 ELSE IF IsAscii(m)
                 THEN Append(TextSummary(m, storage.display_mode), "Message")
                 ELSE TextSummary(m, storage.display_mode)
    IN  {[page |-> n, item |-> items[n], key |-> NoPath, message |-> m,
          text |-> IF items[n] = "Message" THEN chars ELSE 0] :
            n \in DOMAIN items}

(* A touch screen has no room for all of the text.                         *)
TextIsCut(m) == HaveNbgl /\ Text[m].length >= TEXT_BUFFER_LENGTH

(* No text the device can display is longer than its page.  With buttons   *)
(* this always holds.                                                      *)
TextsFit ==
    \A m \in Messages :
        Text[m].wellFormed /\ IsAscii(m) => ~TextIsCut(m)

NewSignature == out'.payload = "signature" /\ out' # out

(* Outside the payment of a swap, a signature is released only over a      *)
(* message all of whose pages the current review has displayed, the        *)
(* command buffer holding that message each time, and, for a transaction,  *)
(* only with the key of a required signer.  The pages are pointers into    *)
(* G_command, which every APDU rewrites.  The page of a text displays all  *)
(* of it, except that a touch screen, which has no room for a text of      *)
(* TEXT_BUFFER_LENGTH characters or more, displays what fits: the rest is  *)
(* signed unseen (see TextIsValidatedWhole).                               *)
SignsOnlyReviewed ==
    [][NewSignature /\ IsPending =>
        /\ screen = "review"
        /\ flow.kind \in {"transaction", "message"}
        /\ shown = CompleteReview(flow.kind, out'.path, out'.message,
                                  IF TextIsCut(out'.message)
                                  THEN TEXT_BUFFER_LENGTH - 1
                                  ELSE Text[out'.message].length)
        /\ flow.kind = "transaction" =>
                out'.path \in Tx[out'.message].signers]_vars

(* doc/api.md, line 112: an off-chain message is signed "after having the  *)
(* user validate the text of ASCII encoded messages, or hash of UTF-8      *)
(* encoded messages": when the user can approve, the pages displayed are   *)
(* the complete review, the text in all its length.                        *)
TextIsValidatedWhole ==
    IsPending /\ CanApprove /\ flow.kind = "message" =>
        shown = CompleteReview("message", cmd.derivation_path, cmd.message,
                               Text[cmd.message].length)

(* A signature no review precedes is released only in a swap, for the      *)
(* first transaction of the swap, and only when its summary is the payment *)
(* Exchange validated and nothing else.                                    *)
SignsUnreviewedOnlyInSwap ==
    [][NewSignature /\ ~IsPending =>
        /\ mode = "swap"
        /\ ~swap.ready
        /\ LET items == TxSummary(out'.message, out'.path,
                                  storage.display_mode)
           IN  /\ Len(items) = 2
               /\ {items[1], items[2]} =
                        {swap.validated.amount, swap.validated.recipient}
        /\ out'.path \in Tx[out'.message].signers]_vars

(* A review whose meaning the device cannot display - an unknown           *)
(* transaction, a text that is not ASCII - is on the screen awaiting the   *)
(* decision only while the user's settings allow blind signing.            *)
BlindReviewNeedsConsent ==
    IsPending =>
        /\ flow.kind = "transaction" /\ ~Tx[cmd.message].known =>
                storage.allow_blind_sign
        /\ flow.kind = "message" /\ ~IsAscii(cmd.message) =>
                storage.allow_blind_sign

(* The message in the buffer, at every stage of its transfer, is the one   *)
(* the host has been acknowledged chunk by chunk since its first chunk,    *)
(* with nothing of an earlier, aborted or rejected transfer.               *)
UploadIntact ==
    cmd.instruction \in SignInstructions =>
        /\ cmd.instruction = upload.instruction
        /\ cmd.derivation_path = upload.path
        /\ cmd.message = upload.message
        /\ cmd.state = "PayloadInProgress" <=> upload.more

-----------------------------------------------------------------------------
(* Requests and reviews.                                                   *)

(* While the host waits, the review on the display is the review of its    *)
(* command: the command is complete, of the kind the review has, and its   *)
(* summary has the number of pages the review was started with.            *)
PendingHasReview ==
    IsPending =>
        /\ mode # "off"
        /\ screen = "review"
        /\ cmd.state = "PayloadComplete"
        /\ flow.kind = "pubkey" =>
                /\ cmd.instruction \in PubkeyInstructions
                /\ pubkey = cmd.derivation_path
        /\ flow.kind = "transaction" =>
                /\ cmd.instruction \in TransactionInstructions
                /\ flow.steps = Len(summary)
        /\ flow.kind = "message" =>
                /\ cmd.instruction = "SignOffchainMessage"
                /\ flow.steps = Len(summary)

(* The review of each kind of command: how the command passed its handler, *)
(* and what the review's flow, summary and hash were made of.              *)
PubkeyReview ==
    /\ cmd.instruction \in PubkeyInstructions
    /\ flow = PubkeyFlow
    /\ pubkey = cmd.derivation_path

TransactionReview ==
    /\ cmd.instruction \in TransactionInstructions
    /\ TransactionReply(cmd) = "Success"
    /\ ParsedTransaction(cmd) = cmd
    /\ summary = TxSummary(cmd.message, cmd.derivation_path,
                           storage.display_mode)
    /\ flow = TransactionFlow(summary)

TextReview ==
    /\ cmd.instruction = "SignOffchainMessage"
    /\ TextReply(cmd) = "Success"
    /\ HashedText(cmd) = cmd
    /\ summary = TextSummary(cmd.message, storage.display_mode)
    /\ flow = TextFlow(summary, cmd.message)

(* The pages displayed are those of the review, and all up to this one.    *)
PagesSeen ==
    LET pageShown(n) == Shown(flow, summary, cmd, pubkey, n)
    IN  /\ page \in FirstPage..LastPage
        /\ shown \subseteq {pageShown(n) : n \in 1..PagesOf(flow)}
        /\ \A n \in 1..PagesOf(flow) : n <= page => pageShown(n) \in shown

(* While the host waits, the globals the review is printed from and the    *)
(* signature is made of - buffer, hash, summary, key and settings - are    *)
(* still those the handler started the review with.                        *)
ReviewInv ==
    IsPending =>
        /\ mode # "off"
        /\ screen = "review"
        /\ cmd.state = "PayloadComplete"
        /\ PubkeyReview \/ TransactionReview \/ TextReview
        /\ PagesSeen

(* A public key sent after a review is the one the review displayed, and   *)
(* is the key of the path the command asked for.                           *)
PubkeyShownIsPubkeySent ==
    [][out'.payload = "pubkey" /\ IsPending /\ ~IsPending' =>
        /\ shown = {[page |-> 1, item |-> "Pubkey", key |-> out'.path,
                     message |-> <<>>, text |-> 0]}
        /\ out'.path = cmd.derivation_path]_vars

(* Every command that waits for the user's decision is answered (or given  *)
(* up by the host: device unplugged or off).                               *)
PendingIsAnswered == IsPending ~> ~IsPending

-----------------------------------------------------------------------------
(* Settings.                                                               *)

(* Whenever the NBGL settings page can be opened, its switches show what   *)
(* the non-volatile memory holds: a toggle, which writes the opposite of   *)
(* the switch, then writes the opposite of the setting.                    *)
SwitchesMirrorStorage ==
    HaveNbgl /\ screen \in {"home", "settings"} =>
        switches = SwitchesOf(storage)

(* A setting changes only at first launch and in the settings menu, one at *)
(* a time, and never while a command waits for a decision.                 *)
SettingsChangeOnlyByUser ==
    [][storage' # storage =>
        \/ mode = "off" /\ ~storage.initialized
        \/ /\ screen = "settings"
           /\ ~IsPending
           /\ \E s \in Setting :
                \A t \in Setting \ {s} : storage'[t] = storage[t]]_vars

-----------------------------------------------------------------------------
(* Swap.                                                                   *)

(* What Exchange is told matches what the host got: success exactly when   *)
(* the last reply of the session is the signature of a transaction.        *)
SwapResultTruthful ==
    exit = "lib_end" => (swap.result <=> out.payload = "signature")

(* handle_sign_message.c: the application quits after the swap's           *)
(* transaction, whether it succeeds or fails.                              *)
SwapQuitsAfterTransaction == swap.ready => mode # "swap"

(* io.c: once one transaction of a swap session has been processed, with   *)
(* success or not, the application quits after sending the status.  (It    *)
(* does not when the transaction is refused before G_swap_response_ready   *)
(* is set: the main loop replies and the session goes on.)                 *)
SwapQuitsAfterRequest ==
    mode = "swap" /\ cmd.instruction \in TransactionInstructions =>
        ~(cmd.state = "PayloadComplete" /\ out.state = "sent")

-----------------------------------------------------------------------------
(* Refinement.                                                             *)

(* The request of a command that awaits the user.                          *)
Asked == [kind |-> IF cmd.instruction \in PubkeyInstructions
                   THEN "pubkey" ELSE "sign",
          path |-> cmd.derivation_path,
          message |-> IF cmd.instruction \in PubkeyInstructions
                      THEN <<>> ELSE cmd.message]

NobodyAsks == [kind |-> "none", path |-> NoPath, message |-> <<>>]

GrantOf(r) == IF r.kind = "pubkey" THEN PubkeyReply(r.path)
                                   ELSE SignatureReply(r.path, r.message)

HasSignature(a) == a.payload = "signature"

(* The user has seen a request when all its pages have been displayed, the *)
(* page of a text with every character of it.                              *)
SeenAll ==
    /\ IsPending
    /\ shown = IF flow.kind = "pubkey"
               THEN {[page |-> 1, item |-> "Pubkey",
                      key |-> cmd.derivation_path, message |-> <<>>,
                      text |-> 0]}
               ELSE CompleteReview(flow.kind, cmd.derivation_path, cmd.message,
                                   Text[cmd.message].length)

Service ==
    INSTANCE SigningService WITH
        Request <- [kind: {"pubkey", "sign"}, path: Path \cup {NoPath},
                     message: Messages],
        NoRequest <- NobodyAsks,
        Answer <- Replies,
        NoAnswer <- NoReply,
        Granted <- GrantOf,
        IsSignature <- HasSignature,
        running <- mode # "off",
        request <- IF IsPending THEN Asked ELSE NobodyAsks,
        seen <- SeenAll,
        answer <- IF IsPending THEN NoReply ELSE out,
        owed <- mode = "swap" /\ ~swap.ready

(* The application implements the signing service: with buttons whatever   *)
(* is signed, on a touch screen when no text is longer than its page.      *)
ImplementsService == Service!Spec
=============================================================================
