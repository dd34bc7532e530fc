------------------------- MODULE LedgerAppReviewProof -------------------------
(***************************************************************************)
(* While a command awaits the user, its review is intact.  ReviewInv is    *)
(* inductive relative to TypeOK; the invariants and the action property    *)
(* about reviews follow from it, and the refinement of the signing service *)
(* with them.                                                              *)
(***************************************************************************)
EXTENDS LedgerAppProof

-----------------------------------------------------------------------------
(* Replies and hashes.                                                     *)

LEMMA SentReplies ==
    /\ \A sw : Reply(sw).state = "sent"
    /\ ConfigReply.state = "sent"
    /\ NoReply.state = "none"
    /\ Pending.state = "pending"
    /\ \A p : PubkeyReply(p).state = "sent"
    /\ \A p, m : SignatureReply(p, m).state = "sent"
  BY DEF Reply, ConfigReply, NoReply, Pending, PubkeyReply, SignatureReply

(* Computing the hash does not change what a command means.                *)
LEMMA HashingKeepsMeaning ==
    ASSUME NEW c \in Command
    PROVE  /\ \A d \in {ParsedTransaction(c), HashedText(c)} :
                    /\ d.state = c.state
                    /\ d.instruction = c.instruction
                    /\ d.derivation_path = c.derivation_path
                    /\ d.message = c.message
                    /\ d.non_confirm = c.non_confirm
           /\ ParsedTransaction(ParsedTransaction(c)) = ParsedTransaction(c)
           /\ HashedText(HashedText(c)) = HashedText(c)
           /\ TransactionReply(ParsedTransaction(c)) = TransactionReply(c)
           /\ TextReply(HashedText(c)) = TextReply(c)
  <1>1. \A d \in {ParsedTransaction(c), HashedText(c)} :
            /\ d.state = c.state
            /\ d.instruction = c.instruction
            /\ d.derivation_path = c.derivation_path
            /\ d.message = c.message
            /\ d.non_confirm = c.non_confirm
    BY DEF ParsedTransaction, HashedText, Command
  <1>2. ParsedTransaction(ParsedTransaction(c)) = ParsedTransaction(c)
    BY DEF ParsedTransaction, Command
  <1>3. HashedText(HashedText(c)) = HashedText(c)
    BY DEF HashedText, Command, IsAscii
  <1>4. TransactionReply(ParsedTransaction(c)) = TransactionReply(c)
    BY <1>1 DEF TransactionReply
  <1>5. TextReply(HashedText(c)) = TextReply(c)
    BY <1>1 DEF TextReply
  <1> QED
    BY <1>1, <1>2, <1>3, <1>4, <1>5

-----------------------------------------------------------------------------
(* Pages.                                                                  *)

(* A review starts with nothing or with its first page displayed.          *)
LEMMA ReviewStarted ==
    ASSUME NEW f \in Flow, NEW items \in Seq(SummaryItems), NEW c, NEW key,
           f = PubkeyFlow \/ (f.kind # "pubkey" /\ f.steps = Len(items)),
           StartReview(f, items, c, key), IsPending',
           cmd' = c, summary' = items, pubkey' = key
    PROVE  screen' = "review" /\ flow' = f /\ PagesSeen'
  <1>1. /\ IF HaveNbgl THEN \A n \in 1..PagesOf(f) : Displayable(f, items, n)
                       ELSE Displayable(f, items, 1)
        /\ screen' = "review"
        /\ flow' = f
        /\ page' = FirstPage
        /\ shown' = IF HaveNbgl THEN {} ELSE {Shown(f, items, c, key, 1)}
    BY SentReplies DEF StartReview, IsPending
  <1>2. PagesOf(f) \in Nat
    BY DEF PagesOf, Flow
  <1>3. page' \in FirstPage..LastPage'
    BY <1>1, <1>2 DEF FirstPage, LastPage, ApprovePage
  <1>4. ~HaveNbgl => 1 \in 1..PagesOf(f)
    BY <1>1, <1>2 DEF Displayable, PagesOf, PubkeyFlow, Flow
  <1>5. shown' \subseteq {Shown(f, items, c, key, n) : n \in 1..PagesOf(f)}
    BY <1>1, <1>4
  <1>6. \A n \in 1..PagesOf(f) : n <= page' =>
            Shown(f, items, c, key, n) \in shown'
    <2> SUFFICES ASSUME NEW n \in 1..PagesOf(f), n <= page'
                 PROVE  Shown(f, items, c, key, n) \in shown'
      OBVIOUS
    <2>1. ~HaveNbgl /\ n = 1
      BY <1>1, <1>2 DEF FirstPage
    <2> QED
      BY <1>1, <2>1
  <1> QED
    BY <1>1, <1>3, <1>5, <1>6 DEF PagesSeen

(* Going on by a page, or back, keeps count of what has been displayed.    *)
LEMMA PageTurned ==
    ASSUME TypeOK, PagesSeen, IsPending', NEW n \in FirstPage..LastPage,
           n <= page + 1, DisplayPage(n)
    PROVE  PagesSeen'
  <1>1. IsPending
    BY DEF DisplayPage, IsPending
  <1> DEFINE pageShown(k) == Shown(flow, summary, cmd, pubkey, k)
             P == PagesOf(flow)
  <1>2. /\ page' = n
        /\ UNCHANGED <<flow, summary, cmd, pubkey>>
        /\ IF n \in 1..P THEN shown' = shown \cup {pageShown(n)}
                        ELSE shown' = shown
    BY <1>1, SentReplies DEF DisplayPage, IsPending
  <1>3. P \in Nat /\ page \in Nat /\ n \in Int
    BY DEF TypeOK, PagesOf, Flow, FirstPage, LastPage
  <1>4. /\ shown \subseteq {pageShown(k) : k \in 1..P}
        /\ \A k \in 1..P : k <= page => pageShown(k) \in shown
    BY DEF PagesSeen
  <1> HIDE DEF pageShown
  <1>5. shown' \subseteq {pageShown(k) : k \in 1..P}
    BY <1>2, <1>4
  <1>6. ASSUME NEW k \in 1..P, k <= n
        PROVE  pageShown(k) \in shown'
    <2>1. CASE k = n
      BY <1>2, <2>1
    <2>2. CASE k # n
      <3>1. k <= page
        BY <1>3, <1>6, <2>2 DEF P
      <3> QED
        BY <1>2, <1>4, <3>1
    <2> QED
      BY <2>1, <2>2
  <1>7. page' \in FirstPage..LastPage'
    BY <1>2 DEF LastPage, ApprovePage
  <1> QED
    BY <1>2, <1>5, <1>6, <1>7 DEF PagesSeen, pageShown, P

-----------------------------------------------------------------------------
(* ReviewInv is inductive.                                                 *)

LEMMA ReviewHostStep ==
    ASSUME TypeOK, Host
    PROVE  ReviewInv'
  <1>1. CanReceive
    BY DEF Host, EmptyApdu, RejectApdu, StoreChunk, GetAppConfiguration,
           GetPubkeyRefused, GetPubkeySilently, ReviewPubkey,
           SignTransactionRefused, ReviewTransaction, SignTextRefused,
           ReviewText, SignSwap, SignSwapAgain, SignTransactionParsed,
           Complete, Accept
  <1>2. CASE EmptyApdu
    BY <1>2, SentReplies DEF EmptyApdu, ReviewInv, IsPending
  <1> SUFFICES ASSUME NEW a \in HostApdus,
                      \/ RejectApdu(a)
                      \/ StoreChunk(a)
                      \/ GetAppConfiguration(a)
                      \/ GetPubkeyRefused(a)
                      \/ GetPubkeySilently(a)
                      \/ ReviewPubkey(a)
                      \/ SignTransactionRefused(a)
                      \/ ReviewTransaction(a)
                      \/ SignTextRefused(a)
                      \/ ReviewText(a)
                      \/ \E fault \in CxFaults : SignSwap(a, fault)
                      \/ SignSwapAgain(a),
                      IsPending'
               PROVE  ReviewInv'
    BY <1>2 DEF Host, ReviewInv
  <1> DEFINE c == ApduCommand(a, cmd)
  <1>3. \/ ReviewPubkey(a)
        \/ ReviewTransaction(a)
        \/ ReviewText(a)
    BY SentReplies
    DEF IsPending, RejectApdu, StoreChunk, GetAppConfiguration,
        GetPubkeyRefused, GetPubkeySilently, SignTransactionRefused,
        SignTextRefused, SignSwap, FinalizeSwap, SignSwapAgain, Stop
  <1>4. mode # "off"
    BY <1>1 DEF CanReceive
  <1>5. pubkey \in PathOrNone
    BY DEF TypeOK, PathOrNone
  <1>6. CASE ReviewPubkey(a)
    <2>1. /\ c \in Command
          /\ c.state = "PayloadComplete"
      BY <1>6, CompleteTypes DEF ReviewPubkey, Complete, Accept
    <2>2. c.instruction \in PubkeyInstructions
      <3>1. a.ins \in PubkeyInstructions
        BY <1>6 DEF ReviewPubkey, Complete
      <3>2. c.instruction = a.ins
        BY <1>6, <3>1, AcceptedInstruction, LedgerAppAssumption
        DEF ReviewPubkey, Complete, Accept, TypeOK
      <3> QED
        BY <3>1, <3>2
    <2>3. /\ cmd' = c /\ pubkey' = c.derivation_path /\ summary' = summary
          /\ StartReview(PubkeyFlow, summary, c, c.derivation_path)
          /\ mode' = mode
      BY <1>6 DEF ReviewPubkey, device
    <2>4. PubkeyFlow \in Flow /\ summary \in Seq(SummaryItems)
      BY DEF PubkeyFlow, Flow, TypeOK
    <2>5. screen' = "review" /\ flow' = PubkeyFlow /\ PagesSeen'
      BY <2>3, <2>4, ReviewStarted
    <2>6. PubkeyReview'
      BY <2>2, <2>3, <2>5 DEF PubkeyReview
    <2> QED
      BY <1>4, <2>1, <2>3, <2>5, <2>6 DEF ReviewInv
  <1>7. CASE ReviewTransaction(a)
    <2> DEFINE d == ParsedTransaction(c)
               items == TxSummary(d.message, d.derivation_path,
                                  storage.display_mode)
    <2>1. /\ c \in Command
          /\ d \in Command
          /\ c.state = "PayloadComplete"
          /\ TransactionReply(c) = "Success"
      BY <1>7, CompleteTypes
      DEF ReviewTransaction, SignTransactionParsed, Complete, Accept
    <2>2. c.instruction \in TransactionInstructions
      <3>1. a.ins \in TransactionInstructions
        BY <1>7 DEF ReviewTransaction, SignTransactionParsed, Complete
      <3>2. c.instruction = a.ins
        BY <1>7, AcceptedInstruction, LedgerAppAssumption
        DEF ReviewTransaction, SignTransactionParsed, Complete, Accept, TypeOK
      <3> QED
        BY <3>1, <3>2
    <2>3. /\ cmd' = d /\ pubkey' = pubkey /\ summary' = items
          /\ StartReview(TransactionFlow(items), items, d, pubkey)
          /\ mode' = mode /\ storage' = storage
      BY <1>7 DEF ReviewTransaction, device
    <2>4. TransactionFlow(items) \in Flow /\ items \in Seq(SummaryItems)
      BY <2>1, HandlerTypes
    <2>5. screen' = "review" /\ flow' = TransactionFlow(items) /\ PagesSeen'
      <3> HIDE DEF items, d
      <3>1. /\ TransactionFlow(items).kind # "pubkey"
            /\ TransactionFlow(items).steps = Len(items)
        BY DEF TransactionFlow
      <3> QED
        BY <2>3, <2>4, <3>1, ReviewStarted
    <2>6. /\ ParsedTransaction(d) = d
          /\ TransactionReply(d) = "Success"
          /\ d.state = "PayloadComplete"
          /\ d.instruction \in TransactionInstructions
      BY <2>1, <2>2, HashingKeepsMeaning
    <2>8. TransactionReply(cmd)' = TransactionReply(d)
      <3> HIDE DEF d
      <3> QED
        BY <2>3 DEF TransactionReply
    <2>9. TransactionReview'
      <3> HIDE DEF d
      <3> QED
        BY <2>3, <2>5, <2>6, <2>8
        DEF TransactionReview, ParsedTransaction
    <2> QED
      BY <1>4, <2>3, <2>5, <2>6, <2>9 DEF ReviewInv
  <1>8. CASE ReviewText(a)
    <2> DEFINE d == HashedText(c)
               items == TextSummary(d.message, storage.display_mode)
    <2>1. /\ c \in Command
          /\ d \in Command
          /\ c.state = "PayloadComplete"
          /\ TextReply(c) = "Success"
      BY <1>8, CompleteTypes
      DEF ReviewText, Complete, Accept
    <2>2. c.instruction = "SignOffchainMessage"
      <3>1. a.ins = "SignOffchainMessage"
        BY <1>8 DEF ReviewText, Complete
      <3>2. c.instruction = a.ins
        BY <1>8, AcceptedInstruction, LedgerAppAssumption
        DEF ReviewText, Complete, Accept, TypeOK
      <3> QED
        BY <3>1, <3>2
    <2>3. /\ cmd' = d /\ pubkey' = pubkey /\ summary' = items
          /\ StartReview(TextFlow(items, d.message), items, d, pubkey)
          /\ mode' = mode /\ storage' = storage
      BY <1>8 DEF ReviewText, device
    <2>4. TextFlow(items, d.message) \in Flow /\ items \in Seq(SummaryItems)
      BY <2>1, HandlerTypes
    <2>5. screen' = "review" /\ flow' = TextFlow(items, d.message)
          /\ PagesSeen'
      <3> HIDE DEF items, d
      <3>1. /\ TextFlow(items, d.message).kind # "pubkey"
            /\ TextFlow(items, d.message).steps = Len(items)
        BY DEF TextFlow
      <3> QED
        BY <2>3, <2>4, <3>1, ReviewStarted
    <2>6. /\ HashedText(d) = d
          /\ TextReply(d) = "Success"
          /\ d.state = "PayloadComplete"
          /\ d.instruction = "SignOffchainMessage"
      BY <2>1, <2>2, HashingKeepsMeaning
    <2>8. /\ TextReply(cmd)' = TextReply(d)
          /\ HashedText(cmd)' = HashedText(d)
      <3> HIDE DEF d
      <3> QED
        BY <2>3 DEF TextReply, HashedText
    <2>9. TextReview'
      <3> HIDE DEF d
      <3> QED
        BY <2>3, <2>5, <2>6, <2>8 DEF TextReview
    <2> QED
      BY <1>4, <2>3, <2>5, <2>6, <2>9 DEF ReviewInv
  <1> QED
    BY <1>3, <1>6, <1>7, <1>8

(* Whatever leaves the review where it is leaves its globals alone.        *)
LEMMA ReviewUserStep ==
    ASSUME TypeOK, ReviewInv, User
    PROVE  ReviewInv'
  <1> SUFFICES ASSUME IsPending'
               PROVE  ReviewInv'
    BY DEF ReviewInv
  <1>1. ASSUME NEW n \in FirstPage..LastPage, n <= page + 1, screen = "review",
               DisplayPage(n)
        PROVE  ReviewInv'
    <2>1. IsPending
      BY <1>1 DEF DisplayPage, IsPending
    <2>2. PagesSeen'
      BY <1>1, <2>1, PageTurned DEF ReviewInv
    <2>3. UNCHANGED <<mode, storage, screen, flow, cmd, pubkey, summary>>
      BY <1>1 DEF DisplayPage, device
    <2>4. /\ TransactionReply(cmd)' = TransactionReply(cmd)
          /\ TextReply(cmd)' = TextReply(cmd)
          /\ HashedText(cmd)' = HashedText(cmd)
      BY <2>3 DEF TransactionReply, TextReply, HashedText
    <2>5. /\ PubkeyReview => PubkeyReview'
          /\ TransactionReview => TransactionReview'
          /\ TextReview => TextReview'
      BY <2>3, <2>4 DEF PubkeyReview, TransactionReview, TextReview
    <2> QED
      BY <2>1, <2>2, <2>3, <2>5 DEF ReviewInv
  <1>2. PagesOf(flow) \in Nat /\ page \in Nat
    BY DEF TypeOK, PagesOf, Flow
  <1>3. CASE NextPage
    <2>1. page + 1 \in FirstPage..LastPage
      BY <1>2, <1>3, SentReplies
      DEF NextPage, DisplayPage, ReviewInv, PagesSeen, IsPending, FirstPage,
          LastPage, ApprovePage
    <2> QED
      BY <1>1, <1>2, <1>3, <2>1 DEF NextPage
  <1>4. CASE PrevPage
    <2>1. IsPending
      BY <1>4 DEF PrevPage, DisplayPage, IsPending
    <2>2. page - 1 \in FirstPage..LastPage
      BY <1>2, <1>4, <2>1
      DEF PrevPage, ReviewInv, PagesSeen, FirstPage, LastPage, ApprovePage
    <2> QED
      BY <1>1, <1>2, <1>4, <2>2 DEF PrevPage
  <1>5. \A reply, ok : SendResponse(reply, ok) => out' = reply
    BY DEF SendResponse, FinalizeSwap, Stop
  <1>6. ASSUME NEW fault \in CxFaults, Approve(fault)
        PROVE  FALSE
    BY <1>5, <1>6, SentReplies DEF Approve, IsPending
  <1>7. CASE Reject
    BY <1>5, <1>7, SentReplies DEF Reject, IsPending
  <1>8. ASSUME NEW ok \in BOOLEAN, DecideAnswered(ok)
        PROVE  FALSE
    BY <1>5, <1>8 DEF DecideAnswered, IsPending
  <1>9. ASSUME \/ StatusDone \/ OpenSettings \/ CloseSettings \/ Quit
               \/ \E s \in UserSettings, on \in BOOLEAN : SelectSetting(s, on)
               \/ \E s \in UserSettings : ToggleSetting(s)
        PROVE  FALSE
    BY <1>9 DEF StatusDone, OpenSettings, CloseSettings, Quit, Stop,
                SelectSetting, ToggleSetting, ReviewInv, IsPending
  <1> QED
    BY <1>3, <1>4, <1>6, <1>7, <1>8, <1>9 DEF User

LEMMA ReviewStep ==
    ASSUME TypeOK, ReviewInv, [Next]_vars
    PROVE  ReviewInv'
  <1>1. CASE Host
    BY <1>1, ReviewHostStep
  <1>2. CASE User
    BY <1>2, ReviewUserStep
  <1>3. CASE Environment
    BY <1>3, SentReplies
    DEF Environment, Launch, LaunchSwap, UsbUnplugged, PowerCut, Stop,
        ReviewInv, IsPending
  <1>4. CASE UNCHANGED vars
    <2>1. /\ TransactionReply(cmd)' = TransactionReply(cmd)
          /\ TextReply(cmd)' = TextReply(cmd)
          /\ HashedText(cmd)' = HashedText(cmd)
      BY <1>4 DEF vars, TransactionReply, TextReply, HashedText
    <2>2. /\ PubkeyReview => PubkeyReview'
          /\ TransactionReview => TransactionReview'
          /\ TextReview => TextReview'
      BY <1>4, <2>1 DEF vars, PubkeyReview, TransactionReview, TextReview
    <2>3. PagesSeen => PagesSeen'
      BY <1>4 DEF vars, PagesSeen, LastPage, ApprovePage
    <2> QED
      BY <1>4, <2>2, <2>3 DEF vars, ReviewInv, IsPending
  <1> QED
    BY <1>1, <1>2, <1>3, <1>4 DEF Next

(* The globals a review is printed from are not changed before the user    *)
(* has decided on it, whatever the host sends and the user presses.        *)
THEOREM ReviewIntact == Spec => []ReviewInv
  <1>1. Init => ReviewInv
    BY SentReplies DEF Init, ReviewInv, IsPending
  <1> QED
    BY <1>1, ReviewStep, TypeCorrect, PTL DEF Spec

-----------------------------------------------------------------------------
(* What follows from it.                                                   *)

(* The review on the display is the review of the command the host waits   *)
(* for.                                                                    *)
THEOREM PendingReviewIsOfCommand == Spec => []PendingHasReview
  <1>1. ReviewInv => PendingHasReview
    BY DEF ReviewInv, PendingHasReview, PubkeyReview, TransactionReview,
           TextReview, PubkeyFlow, TransactionFlow, TextFlow
  <1> QED
    BY <1>1, ReviewIntact, PTL

(* Nothing the device cannot display awaits the user unless the settings   *)
(* allow it at that moment.                                                *)
THEOREM BlindReviewsHaveConsent == Spec => []BlindReviewNeedsConsent
  <1>1. TypeOK /\ ReviewInv => BlindReviewNeedsConsent
    <2> SUFFICES ASSUME TypeOK, ReviewInv, IsPending
                 PROVE  /\ flow.kind = "transaction" /\ ~Tx[cmd.message].known
                                => storage.allow_blind_sign
                        /\ flow.kind = "message" /\ ~IsAscii(cmd.message)
                                => storage.allow_blind_sign
      BY DEF BlindReviewNeedsConsent
    <2>1. CASE PubkeyReview
      BY <2>1 DEF PubkeyReview, PubkeyFlow
    <2>2. CASE TransactionReview
      BY <2>2 DEF TransactionReview, TransactionFlow, TransactionReply
    <2>3. CASE TextReview
      <3>1. Text[cmd.message] \in TextMeaning
        BY Meanings DEF TypeOK, Command
      <3> QED
        BY <2>3, <3>1
        DEF TextReview, TextFlow, TextReply, TextMeaning, IsAscii
    <2> QED
      BY <2>1, <2>2, <2>3 DEF ReviewInv
  <1> QED
    BY <1>1, TypeCorrect, ReviewIntact, PTL

LEMMA Singleton == ASSUME NEW S, NEW x \in S PROVE <<x>> \in Seq(S)
  OBVIOUS

LEMMA SeqMonotone ==
    ASSUME NEW S, NEW T, S \subseteq T, NEW s \in Seq(S)
    PROVE  s \in Seq(T)
  <1>1. /\ s \in [1..Len(s) -> S]
        /\ Len(s) \in Nat
    OBVIOUS
  <1>2. s \in [1..Len(s) -> T]
    BY <1>1
  <1> QED
    BY <1>1, <1>2

(* A message whose meaning is known is summarised without its hash.        *)
LEMMA KnownItems ==
    ASSUME NEW m \in Messages, NEW d \in Display, NEW p, Tx[m].known
    PROVE  TxSummary(m, p, d) \in Seq(SummaryItems \ HashItems)
  <1> DEFINE body == Tx[m].body[d]
             NoHash == SummaryItems \ HashItems
             feePayer == IF d = "Expert" \/ Tx[m].feePayer # p
                         THEN <<"Fee payer">> ELSE <<>>
  <1>1. Item \subseteq NoHash /\ "Fee payer" \in NoHash
    BY LedgerAppAssumption DEF HandlerItems, HashItems, SummaryItems
  <1>2. body \in Body /\ body.primary # "Unset"
    BY Meanings, PrimaryAssumption DEF TxMeaning, Display
  <1>3. TxSummary(m, p, d) =
            <<body.primary>> \o body.general \o <<>> \o body.nonce \o feePayer
    BY DEF TxSummary
  <1>4. /\ <<body.primary>> \in Seq(NoHash)
        /\ body.general \in Seq(NoHash)
        /\ body.nonce \in Seq(NoHash)
    <2>1. \A s \in Seq(Item) : s \in Seq(NoHash)
      <3> HIDE DEF NoHash
      <3> QED
        BY <1>1, SeqMonotone
    <2>2. body.primary \in NoHash
      <3> HIDE DEF NoHash, body
      <3> QED
        BY <1>1, <1>2 DEF Body
    <2> HIDE DEF NoHash, body
    <2> QED
      BY <1>2, <2>1, <2>2, Singleton DEF Body
  <1>5. feePayer \in Seq(NoHash)
    <2>1. <<"Fee payer">> \in Seq(NoHash)
      <3> HIDE DEF NoHash
      <3> QED
        BY <1>1, Singleton
    <2>2. <<>> \in Seq(NoHash)
      OBVIOUS
    <2> QED
      BY <2>1, <2>2
  <1> HIDE DEF body, NoHash, feePayer
  <1>6. TxSummary(m, p, d) \in Seq(NoHash)
    BY <1>3, <1>4, <1>5
  <1> QED
    BY <1>6 DEF NoHash

(* The pages of the review on the display.                                 *)
AllPages == {Shown(flow, summary, cmd, pubkey, n) : n \in 1..PagesOf(flow)}

(* Whoever reaches the approve button has seen them all.                   *)
LEMMA ApprovedIsSeen ==
    ASSUME TypeOK, ReviewInv, IsPending, CanApprove
    PROVE  shown = AllPages
  <1>1. \A n \in 1..PagesOf(flow) : n <= page
    <2>1. PagesOf(flow) \in Nat
      BY DEF PagesOf, TypeOK, Flow
    <2> QED
      BY <2>1 DEF CanApprove, ApprovePage
  <1> QED
    BY <1>1 DEF ReviewInv, PagesSeen, AllPages

(* The pages of a review of a message are all its meaning calls for, with  *)
(* as much of a text as its page displays.                                 *)
LEMMA PagesAreComplete ==
    ASSUME TypeOK, ReviewInv, IsPending, flow.kind # "pubkey"
    PROVE  /\ flow.kind \in {"transaction", "message"}
           /\ AllPages = CompleteReview(flow.kind, cmd.derivation_path,
                                        cmd.message, TextDisplayed(cmd.message))
           /\ flow.kind = "transaction" =>
                    cmd.derivation_path \in Tx[cmd.message].signers
  <1> DEFINE m == cmd.message
             text == IF flow.text THEN <<"Message">> ELSE <<>>
             items == summary \o text
             pageShown(n) == Shown(flow, summary, cmd, pubkey, n)
             record(n) == [page |-> n, item |-> items[n], key |-> NoPath,
                           message |-> m,
                           text |-> IF items[n] = "Message"
                                    THEN TextDisplayed(m) ELSE 0]
  <1>1. TransactionReview \/ TextReview
    BY DEF ReviewInv, PubkeyReview, PubkeyFlow
  <1>2. /\ summary \in Seq(SummaryItems)
        /\ m \in Messages
        /\ storage.display_mode \in Display
    BY DEF TypeOK, Command, Storage, Display
  <1>3. flow.steps = Len(summary) /\ flow.text \in BOOLEAN
    BY <1>1 DEF TransactionReview, TextReview, TransactionFlow, TextFlow, TypeOK,
                Flow
  <1>4. "Pubkey" \notin SummaryItems
    BY LedgerAppAssumption DEF SummaryItems, HandlerItems
  <1>5. DOMAIN items = 1..PagesOf(flow)
    <2>1. Len(items) = PagesOf(flow)
      BY <1>2, <1>3 DEF PagesOf
    <2>2. text \in Seq({"Message"})
      <3>1. <<"Message">> \in Seq({"Message"}) /\ <<>> \in Seq({"Message"})
        BY Singleton
      <3> QED
        BY <3>1
    <2>3. items \in Seq(SummaryItems \cup {"Message"})
      <3> HIDE DEF text
      <3>1. /\ summary \in Seq(SummaryItems \cup {"Message"})
            /\ text \in Seq(SummaryItems \cup {"Message"})
        BY <1>2, <2>2
      <3> QED
        BY <3>1
    <2> HIDE DEF items
    <2> QED
      BY <2>1, <2>3
  <1>6. ASSUME NEW n \in 1..PagesOf(flow)
        PROVE  PageItem(flow, summary, n) = items[n]
    BY <1>2, <1>3 DEF PageItem, PagesOf
  <1>7. \A n \in DOMAIN summary : summary[n] \in HashItems => cmd.message_hash = m
    <2>1. CASE TransactionReview
      <3>1. CASE Tx[m].known
        <4>1. summary \in Seq(SummaryItems \ HashItems)
          BY <1>2, <2>1, <3>1, KnownItems DEF TransactionReview
        <4> QED
          BY <4>1
      <3>2. CASE ~Tx[m].known
        BY <2>1, <3>2 DEF TransactionReview, ParsedTransaction, TypeOK, Command
      <3> QED
        BY <3>1, <3>2
    <2>2. CASE TextReview
      <3>1. CASE storage.display_mode = "Expert" \/ ~IsAscii(m)
        BY <2>2, <3>1 DEF TextReview, HashedText, TypeOK, Command
      <3>2. CASE ~(storage.display_mode = "Expert" \/ ~IsAscii(m))
        <4>1. summary = <<"Sign">>
          BY <2>2, <3>2 DEF TextReview, TextSummary
        <4>2. \A n \in DOMAIN summary : summary[n] = "Sign"
          BY <4>1
        <4> QED
          BY <4>2 DEF HashItems
      <3> QED
        BY <3>1, <3>2
    <2> QED
      BY <1>1, <2>1, <2>2
  <1>8. ASSUME NEW n \in 1..PagesOf(flow)
        PROVE  pageShown(n) = record(n)
    <2>1. PageItem(flow, summary, n) = items[n]
      BY <1>6
    <2>2. items[n] # "Pubkey" /\ (items[n] \in HashItems => cmd.message_hash = m)
      <3>1. CASE n <= Len(summary)
        <4>1. n \in DOMAIN summary /\ items[n] = summary[n]
          BY <1>2, <3>1
        <4>2. summary[n] \in SummaryItems
          BY <1>2, <4>1
        <4> QED
          BY <1>4, <1>7, <4>1, <4>2
      <3>2. CASE ~(n <= Len(summary))
        <4>1. items[n] = "Message"
          BY <1>2, <1>3, <3>2 DEF PagesOf
        <4> QED
          BY <4>1 DEF HashItems
      <3> QED
        BY <3>1, <3>2
    <2> HIDE DEF items
    <2> QED
      BY <2>1, <2>2 DEF Shown
  <1>9. AllPages = {pageShown(n) : n \in 1..PagesOf(flow)}
    BY DEF AllPages
  <1>10. AllPages = {record(n) : n \in DOMAIN items}
    <2> HIDE DEF items, pageShown, record
    <2> QED
      BY <1>5, <1>8, <1>9
  <1>11. CASE TransactionReview
    <2>1. flow.kind = "transaction" /\ flow.text = FALSE
      BY <1>11 DEF TransactionReview, TransactionFlow
    <2>2. items = TxSummary(m, cmd.derivation_path, storage.display_mode)
      BY <1>2, <1>11, <2>1 DEF TransactionReview
    <2>3. cmd.derivation_path \in Tx[m].signers
      BY <1>11 DEF TransactionReview, TransactionReply
    <2> HIDE DEF items
    <2> QED
      BY <1>10, <2>1, <2>2, <2>3 DEF CompleteReview
  <1>12. CASE TextReview
    <2>1. flow.kind = "message" /\ flow.text = IsAscii(m)
      BY <1>12 DEF TextReview, TextFlow
    <2>2. items = IF IsAscii(m)
                  THEN Append(TextSummary(m, storage.display_mode), "Message")
                  ELSE TextSummary(m, storage.display_mode)
      <3>1. summary = TextSummary(m, storage.display_mode)
        BY <1>12 DEF TextReview
      <3>2. summary \o <<"Message">> = Append(summary, "Message")
        BY <1>2
      <3>3. summary \o <<>> = summary
        BY <1>2
      <3> QED
        BY <2>1, <3>1, <3>2, <3>3
    <2> HIDE DEF items
    <2> QED
      BY <1>10, <2>1, <2>2 DEF CompleteReview
  <1> QED
    BY <1>1, <1>11, <1>12

(* On the approve page, the review has displayed the whole message, with   *)
(* as much of a text as its page displays.                                 *)
LEMMA ApprovedIsComplete ==
    ASSUME TypeOK, ReviewInv, IsPending, CanApprove, flow.kind # "pubkey"
    PROVE  /\ flow.kind \in {"transaction", "message"}
           /\ shown = CompleteReview(flow.kind, cmd.derivation_path,
                                     cmd.message, TextDisplayed(cmd.message))
           /\ flow.kind = "transaction" =>
                    cmd.derivation_path \in Tx[cmd.message].signers
  <1>1. shown = AllPages
    BY ApprovedIsSeen
  <1> QED
    BY <1>1, PagesAreComplete

(* The one page of the review of a public key.                             *)
LEMMA PubkeyPage ==
    ASSUME PubkeyReview
    PROVE  AllPages = {[page |-> 1, item |-> "Pubkey",
                        key |-> cmd.derivation_path, message |-> <<>>,
                        text |-> 0]}
  <1>1. /\ flow = PubkeyFlow
        /\ pubkey = cmd.derivation_path
    BY DEF PubkeyReview
  <1>2. PagesOf(flow) = 1 /\ flow.kind = "pubkey"
    BY <1>1 DEF PagesOf, PubkeyFlow
  <1>3. Shown(flow, summary, cmd, pubkey, 1) =
            [page |-> 1, item |-> "Pubkey", key |-> cmd.derivation_path,
             message |-> <<>>, text |-> 0]
    BY <1>1, <1>2 DEF Shown, PageItem
  <1>4. AllPages = {Shown(flow, summary, cmd, pubkey, 1)}
    BY <1>2 DEF AllPages
  <1> QED BY <1>3, <1>4

(* The one place a pending command can get a signature is the Approve      *)
(* button, and it signs what the review has displayed - of a text too long *)
(* for a touch screen, what fits: for every message, meaning, settings,    *)
(* order of APDUs, buttons and faults.                                     *)
THEOREM SignaturesAreReviewed == Spec => SignsOnlyReviewed
  <1> DEFINE chars == IF TextIsCut(out'.message) THEN TEXT_BUFFER_LENGTH - 1
                      ELSE Text[out'.message].length
             complete == CompleteReview(flow.kind, out'.path, out'.message,
                                        chars)
  <1>1. ASSUME TypeOK, ReviewInv, Next, NewSignature, IsPending
        PROVE  /\ screen = "review"
               /\ flow.kind \in {"transaction", "message"}
               /\ shown = complete
               /\ flow.kind = "transaction" =>
                        out'.path \in Tx[out'.message].signers
    <2> DEFINE signature == SignatureReply(cmd.derivation_path, cmd.message)
    <2>1. ~Host
      BY <1>1
      DEF Host, EmptyApdu, RejectApdu, StoreChunk, GetAppConfiguration,
          GetPubkeyRefused, GetPubkeySilently, ReviewPubkey,
          SignTransactionRefused, ReviewTransaction, SignTextRefused,
          ReviewText, SignSwap, SignSwapAgain, SignTransactionParsed,
          Complete, Accept, CanReceive
    <2>2. \A sw : Reply(sw).payload = "nothing"
      BY DEF Reply
    <2>3. \A p : PubkeyReply(p).payload = "pubkey"
      BY DEF PubkeyReply, Reply
    <2>4. NoReply.payload = "nothing"
      BY DEF NoReply, Reply
    <2>5. ~Environment
      BY <1>1, <2>4
      DEF Environment, Launch, LaunchSwap, UsbUnplugged, PowerCut, Stop,
          NewSignature
    <2>6. \A reply, ok : SendResponse(reply, ok) => out' = reply
      BY DEF SendResponse, FinalizeSwap, Stop
    <2>7. PICK fault \in CxFaults : Approve(fault)
      BY <1>1, <2>1, <2>2, <2>5, <2>6
      DEF Next, User, NextPage, PrevPage, DisplayPage, Reject, DecideAnswered,
          StatusDone, OpenSettings, CloseSettings, SelectSetting, ToggleSetting,
          Quit, Stop, NewSignature
    <2>8. flow.kind # "pubkey" /\ out' = signature
      BY <1>1, <2>2, <2>3, <2>6, <2>7 DEF Approve, NewSignature
    <2>9. /\ out'.path = cmd.derivation_path
          /\ out'.message = cmd.message
      BY <2>8 DEF SignatureReply, Reply
    <2>10. TextDisplayed(cmd.message) = chars
      BY <1>1, <2>9, DisplayedText DEF TypeOK, Command
    <2> HIDE DEF chars
    <2> QED
      BY <1>1, <2>7, <2>8, <2>9, <2>10, ApprovedIsComplete
      DEF Approve, CanApprove
  <1>2. TypeOK /\ ReviewInv /\ [Next]_vars =>
            [NewSignature /\ IsPending =>
                /\ screen = "review"
                /\ flow.kind \in {"transaction", "message"}
                /\ shown = complete
                /\ flow.kind = "transaction" =>
                        out'.path \in Tx[out'.message].signers]_vars
    BY <1>1
  <1> QED
    BY <1>2, TypeCorrect, ReviewIntact, PTL DEF Spec, SignsOnlyReviewed

(* The public key a review ends with is the one on its page, and that of   *)
(* the path asked for (handle_get_pubkey, G_publicKey).                    *)
THEOREM PubkeysAreReviewed == Spec => PubkeyShownIsPubkeySent
  <1> DEFINE Displayed ==
                /\ shown = {[page |-> 1, item |-> "Pubkey", key |-> out'.path,
                             message |-> <<>>, text |-> 0]}
                /\ out'.path = cmd.derivation_path
  <1>1. ASSUME TypeOK, ReviewInv, Next, out'.payload = "pubkey", IsPending,
               ~IsPending'
        PROVE  Displayed
    <2>1. ~Host
      BY <1>1
      DEF Host, EmptyApdu, RejectApdu, StoreChunk, GetAppConfiguration,
          GetPubkeyRefused, GetPubkeySilently, ReviewPubkey,
          SignTransactionRefused, ReviewTransaction, SignTextRefused,
          ReviewText, SignSwap, SignSwapAgain, SignTransactionParsed,
          Complete, Accept, CanReceive
    <2>2. /\ \A sw : Reply(sw).payload = "nothing"
          /\ NoReply.payload = "nothing"
          /\ \A p, m : SignatureReply(p, m).payload = "signature"
      BY DEF Reply, NoReply, SignatureReply
    <2>3. ~Environment
      BY <1>1, <2>2
      DEF Environment, Launch, LaunchSwap, UsbUnplugged, PowerCut, Stop
    <2>4. \A reply, ok : SendResponse(reply, ok) => out' = reply
      BY DEF SendResponse, FinalizeSwap, Stop
    <2>5. screen = "review"
      BY <1>1 DEF ReviewInv
    <2>6. PICK fault \in CxFaults : Approve(fault)
      BY <1>1, <2>1, <2>2, <2>3, <2>4, <2>5
      DEF Next, User, NextPage, PrevPage, DisplayPage, Reject, DecideAnswered,
          StatusDone, OpenSettings, CloseSettings, SelectSetting, ToggleSetting,
          Quit, IsPending
    <2>7. /\ flow.kind = "pubkey"
          /\ out' = PubkeyReply(pubkey)
          /\ CanApprove
      BY <1>1, <2>2, <2>4, <2>6 DEF Approve
    <2>8. PubkeyReview
      BY <1>1, <2>7 DEF ReviewInv, TransactionReview, TransactionFlow,
                        TextReview, TextFlow
    <2>9. out'.path = pubkey /\ pubkey = cmd.derivation_path
      BY <2>7, <2>8 DEF PubkeyReply, Reply, PubkeyReview
    <2> QED
      BY <1>1, <2>7, <2>8, <2>9, ApprovedIsSeen, PubkeyPage
  <1>2. TypeOK /\ ReviewInv /\ [Next]_vars =>
            [out'.payload = "pubkey" /\ IsPending /\ ~IsPending'
                => Displayed]_vars
    BY <1>1
  <1> QED
    BY <1>2, TypeCorrect, ReviewIntact, PTL DEF Spec, PubkeyShownIsPubkeySent

-----------------------------------------------------------------------------
(* LedgerApp implements the signing service of module SigningService:      *)
(* under the mapping of LedgerAppProps every step of the application is    *)
(* one of the service's or changes nothing the service knows of.  First,   *)
(* what the service sees of a state.                                       *)

Owed == mode = "swap" /\ ~swap.ready

LEMMA SeenIsBoolean == SeenAll \in BOOLEAN /\ SeenAll' \in BOOLEAN
  BY DEF SeenAll

LEMMA AskedIsRequest ==
    ASSUME TypeOK
    PROVE  /\ Asked \in [kind: {"pubkey", "sign"}, path: Path \cup {NoPath},
                         message: Messages]
           /\ Asked # NobodyAsks
  <1>1. /\ cmd.derivation_path \in Path \cup {NoPath}
        /\ cmd.message \in Messages
        /\ <<>> \in Messages
    BY EmptyMessage DEF TypeOK, Command
  <1>2. Asked \in [kind: {"pubkey", "sign"}, path: Path \cup {NoPath},
                   message: Messages]
    BY <1>1 DEF Asked
  <1>3. Asked.kind # "none"
    BY DEF Asked
  <1>4. NobodyAsks.kind = "none"
    BY DEF NobodyAsks
  <1> QED BY <1>2, <1>3, <1>4

(* How much of a text is displayed makes a difference to texts only.       *)
LEMMA TextIsTextsOnly ==
    ASSUME NEW m \in Messages, NEW p, NEW kind, NEW few, NEW many,
           storage.display_mode \in Display, kind = "transaction" \/ ~IsAscii(m)
    PROVE  CompleteReview(kind, p, m, few) = CompleteReview(kind, p, m, many)
  <1> DEFINE items == IF kind = "transaction"
                      THEN TxSummary(m, p, storage.display_mode)
                      ELSE TextSummary(m, storage.display_mode)
             pages(chars) ==
                {[page |-> n, item |-> items[n], key |-> NoPath, message |-> m,
                  text |-> IF items[n] = "Message" THEN chars ELSE 0] :
                    n \in DOMAIN items}
  <1>1. \A chars : CompleteReview(kind, p, m, chars) = pages(chars)
    BY DEF CompleteReview
  <1>2. items \in Seq(SummaryItems)
    BY SummaryTypes
  <1>3. "Message" \notin SummaryItems
    BY LedgerAppAssumption DEF SummaryItems, HandlerItems
  <1> HIDE DEF items
  <1>4. \A n \in DOMAIN items : items[n] # "Message"
    BY <1>2, <1>3
  <1>5. pages(few) = pages(many)
    BY <1>4
  <1> QED
    BY <1>1, <1>5

(* When no text is cut, the pages of a review are the complete review.     *)
LEMMA PagesAreWhole ==
    ASSUME TextsFit, TypeOK, ReviewInv, IsPending, flow.kind # "pubkey"
    PROVE  AllPages = CompleteReview(flow.kind, cmd.derivation_path,
                                     cmd.message, Text[cmd.message].length)
  <1> DEFINE m == cmd.message
  <1>1. m \in Messages /\ storage.display_mode \in Display
    BY DEF TypeOK, Command, Storage, Display
  <1>2. AllPages = CompleteReview(flow.kind, cmd.derivation_path, m,
                                  TextDisplayed(m))
    BY PagesAreComplete
  <1>3. CASE TransactionReview \/ ~IsAscii(m)
    <2>1. flow.kind = "transaction" \/ ~IsAscii(m)
      BY <1>3 DEF TransactionReview, TransactionFlow
    <2>2. \A few, many :
              CompleteReview(flow.kind, cmd.derivation_path, m, few) =
              CompleteReview(flow.kind, cmd.derivation_path, m, many)
      BY <1>1, <2>1, TextIsTextsOnly
    <2> QED
      BY <1>2, <2>2
  <1>4. CASE TextReview /\ IsAscii(m)
    <2>1. Text[m].wellFormed
      BY <1>4 DEF TextReview, TextReply
    <2>2. TextDisplayed(m) = Text[m].length
      BY <1>1, <1>4, <2>1, DisplayedText DEF TextsFit
    <2> QED
      BY <1>2, <2>2
  <1> QED
    BY <1>3, <1>4 DEF ReviewInv, PubkeyReview, PubkeyFlow

(* A review has been seen when all its pages have been displayed.          *)
LEMMA SeenIsAllPages ==
    ASSUME TextsFit, TypeOK, ReviewInv, IsPending
    PROVE  SeenAll <=> shown = AllPages
  <1>1. CASE flow.kind = "pubkey"
    <2>1. PubkeyReview
      BY <1>1 DEF ReviewInv, TransactionReview, TransactionFlow, TextReview,
                  TextFlow
    <2>2. SeenAll <=> shown = {[page |-> 1, item |-> "Pubkey",
                                key |-> cmd.derivation_path,
                                message |-> <<>>, text |-> 0]}
      BY <1>1 DEF SeenAll
    <2> QED BY <2>1, <2>2, PubkeyPage
  <1>2. CASE flow.kind # "pubkey"
    <2>1. AllPages = CompleteReview(flow.kind, cmd.derivation_path,
                                    cmd.message, Text[cmd.message].length)
      BY <1>2, PagesAreWhole
    <2> QED BY <1>2, <2>1 DEF SeenAll
  <1> QED BY <1>1, <1>2

(* The same after a step.                                                  *)
LEMMA SeenLater ==
    ASSUME TextsFit
    PROVE  (TypeOK /\ ReviewInv /\ IsPending => (SeenAll <=> shown = AllPages))'
  <1>1. TextsFit /\ TypeOK /\ ReviewInv /\ IsPending =>
            (SeenAll <=> shown = AllPages)
    BY SeenIsAllPages
  <1>2. TextsFit' = TextsFit
    BY DEF TextsFit, TextIsCut, IsAscii
  <1> QED BY <1>1, <1>2, PTL

LEMMA AskedLater ==
    (TypeOK => Asked \in [kind: {"pubkey", "sign"}, path: Path \cup {NoPath},
                          message: Messages])'
  <1>1. TypeOK => Asked \in [kind: {"pubkey", "sign"},
                             path: Path \cup {NoPath}, message: Messages]
    BY AskedIsRequest
  <1> QED BY <1>1, PTL

LEMMA PendingRuns ==
    ASSUME ReviewInv, IsPending
    PROVE  mode # "off" /\ screen = "review"
  BY DEF ReviewInv

-----------------------------------------------------------------------------
(* Steps of the service.                                                   *)

LEMMA Settles ==
    ASSUME mode # "off", ~IsPending', Owed' => Owed
    PROVE  Service!Settle
  <1>1. SeenAll' = FALSE
    BY DEF SeenAll
  <1>2. (mode = "swap" /\ ~swap.ready)' \in {mode = "swap" /\ ~swap.ready, FALSE}
    BY DEF Owed
  <1> QED BY <1>1, <1>2 DEF Service!Settle

LEMMA ReplyIsStep ==
    ASSUME mode # "off", out' \in Replies, ~IsPending',
           out'.payload # "signature", Owed' => Owed
    PROVE  Service!Next
  <1>1. Service!Settle
    BY Settles
  <1>2. (IF IsPending THEN NoReply ELSE out)' = out'
    OBVIOUS
  <1>3. Service!Reply
    BY <1>1, <1>2 DEF Service!Reply, HasSignature
  <1> QED BY <1>3 DEF Service!Next

LEMMA InterruptIsStep ==
    ASSUME mode # "off", ~IsPending',
           out' = NoReply \/ (~IsPending /\ out' = out), Owed' => Owed
    PROVE  Service!Next
  <1>1. Service!Settle
    BY Settles
  <1>2. (IF IsPending THEN NoReply ELSE out)' = out'
    OBVIOUS
  <1>3. Service!Interrupt
    BY <1>1, <1>2 DEF Service!Interrupt
  <1> QED BY <1>3 DEF Service!Next

(* Nothing awaits the user before the step or after it.                    *)
LEMMA IdleStutters ==
    ASSUME ~IsPending, out' = out, (mode # "off")' <=> mode # "off",
           Owed' <=> Owed
    PROVE  UNCHANGED Service!vars
  <1>1. ~IsPending'
    BY DEF IsPending
  <1>2. SeenAll = FALSE /\ SeenAll' = FALSE
    BY <1>1 DEF SeenAll
  <1>3. (mode = "swap" /\ ~swap.ready)' = (mode = "swap" /\ ~swap.ready)
    BY DEF Owed
  <1> QED BY <1>1, <1>2, <1>3 DEF Service!vars

(* A page is displayed to the user who is asked.                           *)
LEMMA SeeingIsStep ==
    ASSUME TextsFit, TypeOK, TypeOK', ReviewInv, ReviewInv', IsPending,
           IsPending',
           UNCHANGED <<mode, swap, storage, cmd, flow, summary, pubkey>>,
           shown = AllPages => shown' = AllPages
    PROVE  Service!Next \/ UNCHANGED Service!vars
  <1>1. AllPages' = AllPages
    BY DEF AllPages, Shown, PageItem, PagesOf
  <1>2. /\ SeenAll <=> shown = AllPages
        /\ SeenAll' <=> shown' = AllPages
    <2>1. SeenAll <=> shown = AllPages
      BY SeenIsAllPages
    <2>2. SeenAll' <=> (shown = AllPages)'
      BY SeenLater
    <2> QED BY <1>1, <2>1, <2>2
  <1>3. Asked' = Asked /\ Asked # NobodyAsks
    BY AskedIsRequest DEF Asked
  <1>4. CASE SeenAll' = SeenAll
    BY <1>3, <1>4 DEF Service!vars
  <1>5. CASE SeenAll' # SeenAll
    <2>1. SeenAll' = TRUE
      BY <1>2, <1>5, SeenIsBoolean
    <2> QED BY <1>3, <2>1 DEF Service!Next, Service!SeeAll
  <1> QED BY <1>4, <1>5

LEMMA AskIsStep ==
    ASSUME TypeOK', CanReceive, out' = Pending, UNCHANGED <<mode, swap>>
    PROVE  Service!Next
  <1>1. mode # "off" /\ ~IsPending
    BY DEF CanReceive
  <1>2. IsPending'
    BY DEF IsPending, Pending
  <1>3. Asked' \in [kind: {"pubkey", "sign"}, path: Path \cup {NoPath},
                    message: Messages]
    BY AskedLater
  <1>4. SeenAll' \in BOOLEAN
    BY SeenIsBoolean
  <1>5. Service!Ask
    BY <1>1, <1>2, <1>3, <1>4 DEF Service!Ask
  <1> QED BY <1>5 DEF Service!Next

LEMMA ReviewStartIsStep ==
    ASSUME TypeOK', CanReceive, UNCHANGED <<mode, swap>>,
           NEW f, NEW items, NEW c, NEW key, StartReview(f, items, c, key)
    PROVE  Service!Next
  <1>1. CASE out' = Pending
    BY <1>1, AskIsStep
  <1>2. CASE out' # Pending
    <2>1. out' = Reply("SummaryUpdateFailed")
      BY <1>2 DEF StartReview
    <2>2. out'.payload = "nothing" /\ out'.state = "sent"
      BY <2>1 DEF Reply
    <2>3. mode # "off" /\ ~IsPending' /\ out' \in Replies /\ (Owed' => Owed)
      BY <2>2 DEF CanReceive, IsPending, TypeOK, Owed
    <2> QED BY <2>2, <2>3, ReplyIsStep
  <1> QED BY <1>1, <1>2

(* The reply of a review that is decided on, or of one that was answered.  *)
LEMMA SentReplyOwes ==
    ASSUME NEW reply, NEW ok, SendResponse(reply, ok)
    PROVE  /\ out' = reply
           /\ Owed' => Owed
           /\ (mode # "off")' => mode # "off"
           /\ (mode' = mode /\ swap' = swap) \/ mode' = "off"
  BY DEF SendResponse, FinalizeSwap, Stop, device, Owed

-----------------------------------------------------------------------------
(* The steps of the application.                                           *)

LEMMA PaymentIsStep ==
    ASSUME TypeOK, TypeOK', NEW a \in HostApdus, NEW fault \in CxFaults,
           SignSwap(a, fault)
    PROVE  Service!Next
  <1>1. CanReceive /\ mode = "swap" /\ ~swap.ready
    BY DEF SignSwap, SignTransactionParsed, Complete, Accept
  <1>2. swap'.ready \/ mode' = "off"
    BY DEF SignSwap, FinalizeSwap, Stop, TypeOK, Swaps
  <1>3. Owed /\ ~Owed' /\ mode # "off" /\ ~IsPending
    BY <1>1, <1>2 DEF Owed, CanReceive
  <1>4. PICK p, m : \/ out' = SignatureReply(p, m)
                    \/ out' = Reply("CxError")
                    \/ out' = Reply("SummaryFinalizeFailed")
    BY DEF SignSwap, FinalizeSwap, Stop
  <1>5. ~IsPending'
    <2>1. /\ \A sw : Reply(sw).state = "sent"
          /\ SignatureReply(p, m).state = "sent"
      BY DEF SignatureReply, Reply
    <2> QED BY <1>4, <2>1 DEF IsPending
  <1>6. out' \in Replies
    BY DEF TypeOK
  <1>7. Service!Settle
    BY <1>3, <1>5, Settles
  <1>8. (mode = "swap" /\ ~swap.ready)' = FALSE
    BY <1>3 DEF Owed
  <1>9. Service!Pay
    BY <1>1, <1>3, <1>5, <1>6, <1>7, <1>8 DEF Service!Pay
  <1> QED BY <1>9 DEF Service!Next

LEMMA HostIsStep ==
    ASSUME TypeOK, TypeOK', Host
    PROVE  Service!Next
  <1>1. CanReceive
    BY DEF Host, EmptyApdu, RejectApdu, StoreChunk, GetAppConfiguration,
           GetPubkeyRefused, GetPubkeySilently, ReviewPubkey,
           SignTransactionRefused, ReviewTransaction, SignTextRefused,
           ReviewText, SignSwap, SignSwapAgain, SignTransactionParsed,
           Complete, Accept
  <1>2. mode # "off" /\ ~IsPending
    BY <1>1 DEF CanReceive
  <1>3. out' \in Replies
    BY DEF TypeOK
  <1>4. ASSUME UNCHANGED <<mode, swap>>, out'.payload # "signature",
               out'.state = "sent"
        PROVE  Service!Next
    BY <1>2, <1>3, <1>4, ReplyIsStep DEF IsPending, Owed
  <1>5. /\ \A sw : /\ Reply(sw).payload = "nothing"
                   /\ Reply(sw).state = "sent"
        /\ \A p : /\ PubkeyReply(p).payload = "pubkey"
                  /\ PubkeyReply(p).state = "sent"
        /\ ConfigReply.payload = "configuration" /\ ConfigReply.state = "sent"
    BY DEF Reply, PubkeyReply, ConfigReply
  <1>6. CASE EmptyApdu
    BY <1>4, <1>5, <1>6 DEF EmptyApdu, device
  <1>7. ASSUME NEW a \in HostApdus,
               \/ RejectApdu(a)
               \/ StoreChunk(a)
               \/ GetAppConfiguration(a)
               \/ GetPubkeyRefused(a)
               \/ GetPubkeySilently(a)
               \/ SignTransactionRefused(a)
               \/ SignTextRefused(a)
        PROVE  Service!Next
    <2>1. UNCHANGED <<mode, swap>>
      BY <1>7
      DEF RejectApdu, StoreChunk, GetAppConfiguration, GetPubkeyRefused,
          GetPubkeySilently, SignTransactionRefused, SignTextRefused, device
    <2>2. out'.payload # "signature" /\ out'.state = "sent"
      BY <1>5, <1>7
      DEF RejectApdu, StoreChunk, GetAppConfiguration, GetPubkeyRefused,
          GetPubkeySilently, SignTransactionRefused, SignTextRefused
    <2> QED BY <1>4, <2>1, <2>2
  <1>8. ASSUME NEW a \in HostApdus,
               ReviewPubkey(a) \/ ReviewTransaction(a) \/ ReviewText(a)
        PROVE  Service!Next
    <2>1. UNCHANGED <<mode, swap>>
      BY <1>8 DEF ReviewPubkey, ReviewTransaction, ReviewText, device
    <2>2. PICK f, items, c, key : StartReview(f, items, c, key)
      BY <1>8 DEF ReviewPubkey, ReviewTransaction, ReviewText
    <2> QED BY <1>1, <2>1, <2>2, ReviewStartIsStep
  <1>9. ASSUME NEW a \in HostApdus, NEW fault \in CxFaults, SignSwap(a, fault)
        PROVE  Service!Next
    BY <1>9, PaymentIsStep
  <1>10. ASSUME NEW a \in HostApdus, SignSwapAgain(a)
         PROVE  Service!Next
    <2>1. out' = NoReply /\ mode' = "off"
      BY <1>10 DEF SignSwapAgain, Stop
    <2>2. ~IsPending' /\ ~Owed'
      BY <2>1 DEF IsPending, NoReply, Owed
    <2> QED BY <1>2, <2>1, <2>2, InterruptIsStep
  <1> QED BY <1>6, <1>7, <1>8, <1>9, <1>10 DEF Host

LEMMA PageIsStep ==
    ASSUME TextsFit, TypeOK, TypeOK', ReviewInv, ReviewInv', NEW n,
           DisplayPage(n)
    PROVE  Service!Next \/ UNCHANGED Service!vars
  <1>1. UNCHANGED <<mode, swap, storage, cmd, flow, summary, pubkey>>
    BY DEF DisplayPage, device
  <1>2. CASE ~IsPending
    <2>1. out' = out
      BY <1>2 DEF DisplayPage
    <2> QED BY <1>1, <1>2, <2>1, IdleStutters DEF Owed
  <1>3. CASE IsPending /\ out' = out
    <2>1. IsPending'
      BY <1>3 DEF IsPending
    <2>2. \/ shown' = shown
          \/ /\ n \in 1..PagesOf(flow)
             /\ shown' = shown \cup {Shown(flow, summary, cmd, pubkey, n)}
      BY <1>3, SentReplies DEF DisplayPage, IsPending
    <2>3. shown = AllPages => shown' = AllPages
      BY <2>2 DEF AllPages
    <2> QED BY <1>1, <1>3, <2>1, <2>3, SeeingIsStep
  <1>4. CASE IsPending /\ out' # out
    <2>1. out' = Reply("SummaryUpdateFailed")
      BY <1>4 DEF DisplayPage
    <2>2. out'.payload = "nothing" /\ out'.state = "sent"
      BY <2>1 DEF Reply
    <2>3. mode # "off" /\ ~IsPending' /\ out' \in Replies /\ (Owed' => Owed)
      BY <1>1, <1>4, <2>2, PendingRuns DEF IsPending, TypeOK, Owed
    <2> QED BY <2>2, <2>3, ReplyIsStep
  <1> QED BY <1>2, <1>3, <1>4

(* The approve button of a review that has been seen grants the request.   *)
LEMMA ApprovalIsStep ==
    ASSUME TextsFit, TypeOK, TypeOK', ReviewInv, NEW fault \in CxFaults,
           Approve(fault)
    PROVE  Service!Next
  <1>1. IsPending /\ CanApprove /\ mode # "off"
    BY PendingRuns DEF Approve
  <1>2. SeenAll
    BY <1>1, ApprovedIsSeen, SeenIsAllPages
  <1>3. out' \in Replies
    BY DEF TypeOK
  <1>4. ASSUME out' = GrantOf(Asked), Owed' => Owed
        PROVE  Service!Next
    <2>1. out'.state = "sent"
      BY <1>4 DEF GrantOf, PubkeyReply, SignatureReply, Reply
    <2>2. ~IsPending'
      BY <2>1 DEF IsPending
    <2>3. Service!Settle
      BY <1>1, <1>4, <2>2, Settles
    <2>4. Asked # NobodyAsks
      BY AskedIsRequest
    <2>5. Service!Grant
      BY <1>1, <1>2, <1>4, <2>2, <2>3, <2>4 DEF Service!Grant
    <2> QED BY <2>5 DEF Service!Next
  <1>5. CASE flow.kind = "pubkey" /\ SendResponse(PubkeyReply(pubkey), TRUE)
    <2>1. PubkeyReview
      BY <1>1, <1>5 DEF ReviewInv, TransactionReview, TransactionFlow,
                        TextReview, TextFlow
    <2>2. Asked.kind = "pubkey" /\ Asked.path = pubkey
      BY <2>1 DEF PubkeyReview, Asked
    <2>3. out' = GrantOf(Asked)
      BY <1>5, <2>2, SentReplyOwes DEF GrantOf
    <2> QED BY <1>4, <1>5, <2>3, SentReplyOwes
  <1>6. CASE /\ flow.kind # "pubkey"
             /\ SendResponse(SignatureReply(cmd.derivation_path, cmd.message),
                             TRUE)
    <2>1. TransactionReview \/ TextReview
      BY <1>1, <1>6 DEF ReviewInv, PubkeyReview, PubkeyFlow
    <2>2. cmd.instruction \notin PubkeyInstructions
      BY <2>1 DEF TransactionReview, TextReview, TransactionInstructions,
                  PubkeyInstructions
    <2>3. /\ Asked.kind = "sign"
          /\ Asked.path = cmd.derivation_path
          /\ Asked.message = cmd.message
      BY <2>2 DEF Asked
    <2>4. out' = GrantOf(Asked)
      BY <1>6, <2>3, SentReplyOwes DEF GrantOf
    <2> QED BY <1>4, <1>6, <2>4, SentReplyOwes
  <1>7. CASE out' = Reply("CxError") /\ UNCHANGED device
    <2>1. out'.payload = "nothing" /\ out'.state = "sent"
      BY <1>7 DEF Reply
    <2> QED
      BY <1>1, <1>3, <1>7, <2>1, ReplyIsStep DEF IsPending, Owed, device
  <1> QED BY <1>5, <1>6, <1>7 DEF Approve

LEMMA UserIsStep ==
    ASSUME TextsFit, TypeOK, TypeOK', ReviewInv, ReviewInv', User
    PROVE  Service!Next \/ UNCHANGED Service!vars
  <1>1. CASE NextPage \/ PrevPage
    BY <1>1, PageIsStep DEF NextPage, PrevPage
  <1>2. ASSUME NEW fault \in CxFaults, Approve(fault)
        PROVE  Service!Next
    BY <1>2, ApprovalIsStep
  <1>3. CASE Reject
    <2>1. IsPending /\ SendResponse(Reply("UserRefusal"), FALSE)
      BY <1>3 DEF Reject
    <2>2. out' = Reply("UserRefusal") /\ (Owed' => Owed)
      BY <2>1, SentReplyOwes
    <2>3. out'.payload = "nothing" /\ out'.state = "sent" /\ out' \in Replies
      BY <2>2 DEF Reply, TypeOK
    <2> QED BY <2>1, <2>2, <2>3, PendingRuns, ReplyIsStep DEF IsPending
  <1>4. ASSUME NEW ok \in BOOLEAN, DecideAnswered(ok)
        PROVE  Service!Next \/ UNCHANGED Service!vars
    <2>1. ~IsPending /\ SendResponse(out, ok)
      BY <1>4 DEF DecideAnswered
    <2>2. /\ out' = out
          /\ Owed' => Owed
          /\ (mode # "off")' => mode # "off"
          /\ (mode' = mode /\ swap' = swap) \/ mode' = "off"
      BY <2>1, SentReplyOwes
    <2>3. ~IsPending'
      BY <2>1, <2>2 DEF IsPending
    <2>4. CASE mode = "off" \/ (mode' = mode /\ swap' = swap)
      <3>1. (mode # "off")' <=> mode # "off"
        BY <2>2, <2>4
      <3>2. Owed' <=> Owed
        BY <2>2, <2>4 DEF Owed
      <3> QED BY <2>1, <2>2, <3>1, <3>2, IdleStutters
    <2>5. CASE mode # "off"
      BY <2>1, <2>2, <2>3, <2>5, InterruptIsStep
    <2> QED BY <2>2, <2>4, <2>5
  <1>5. CASE Quit
    <2>1. screen = "home" /\ Stop("quit", out) /\ swap' = swap
      BY <1>5 DEF Quit
    <2>2. ~IsPending
      BY <2>1, PendingRuns
    <2>3. out' = out /\ mode' = "off" /\ ~Owed' /\ ~IsPending'
      BY <2>1, <2>2 DEF Stop, Owed, IsPending
    <2>4. CASE mode # "off"
      BY <2>2, <2>3, <2>4, InterruptIsStep
    <2>5. CASE mode = "off"
      BY <2>2, <2>3, <2>5, IdleStutters DEF Owed
    <2> QED BY <2>4, <2>5
  <1>6. CASE \/ StatusDone \/ OpenSettings \/ CloseSettings
             \/ \E s \in UserSettings, on \in BOOLEAN : SelectSetting(s, on)
             \/ \E s \in UserSettings : ToggleSetting(s)
    <2>1. screen # "review" /\ out' = out /\ UNCHANGED <<mode, swap>>
      BY <1>6 DEF StatusDone, OpenSettings, CloseSettings, SelectSetting,
                  ToggleSetting, device
    <2>2. ~IsPending
      BY <2>1, PendingRuns
    <2> QED BY <2>1, <2>2, IdleStutters DEF Owed
  <1> QED BY <1>1, <1>2, <1>3, <1>4, <1>5, <1>6 DEF User

LEMMA EnvironmentIsStep ==
    ASSUME TypeOK, ReviewInv, Environment
    PROVE  Service!Next
  <1>1. NoReply.state = "none"
    BY DEF NoReply
  <1>2. CASE Launch \/ \E p \in SwapParams : LaunchSwap(p)
    <2>1. /\ mode = "off" /\ (mode # "off")' = TRUE
          /\ out' = NoReply
      BY <1>2 DEF Launch, LaunchSwap
    <2>2. ~IsPending /\ ~IsPending'
      BY <1>1, <2>1, PendingRuns DEF IsPending
    <2>3. SeenAll = FALSE /\ SeenAll' = FALSE
      BY <2>2 DEF SeenAll
    <2>4. (mode = "swap" /\ ~swap.ready)' \in BOOLEAN
      OBVIOUS
    <2>5. Service!Start
      BY <2>1, <2>2, <2>3, <2>4 DEF Service!Start
    <2> QED BY <2>5 DEF Service!Next
  <1>3. CASE UsbUnplugged
    <2>1. mode # "off" /\ out' = NoReply /\ swap' = swap
      BY <1>3 DEF UsbUnplugged, Stop
    <2>2. mode' \in {mode, "off"}
      BY <1>3 DEF UsbUnplugged, Stop
    <2>3. ~IsPending' /\ (Owed' => Owed)
      BY <1>1, <2>1, <2>2 DEF IsPending, Owed
    <2> QED BY <2>1, <2>3, InterruptIsStep
  <1>4. CASE PowerCut
    <2>1. mode # "off" /\ out' = NoReply /\ mode' = "off"
      BY <1>4 DEF PowerCut, Stop
    <2>2. ~IsPending' /\ ~Owed'
      BY <1>1, <2>1 DEF IsPending, Owed
    <2> QED BY <2>1, <2>2, InterruptIsStep
  <1> QED BY <1>2, <1>3, <1>4 DEF Environment

LEMMA UnchangedStutters ==
    ASSUME UNCHANGED vars
    PROVE  UNCHANGED Service!vars
  <1>1. SeenAll' = SeenAll
    BY DEF vars, SeenAll, IsPending, CompleteReview, TxSummary, TextSummary
  <1>2. /\ IsPending' <=> IsPending
        /\ Asked' = Asked
        /\ UNCHANGED <<mode, out, swap>>
    BY DEF vars, IsPending, Asked
  <1> QED BY <1>1, <1>2 DEF Service!vars

LEMMA InitImplements == Init => Service!Init
  BY DEF Init, Service!Init, IsPending, NoReply, Reply, SeenAll, InitSwap

(* With buttons every text fits: the flow pages through the whole message  *)
(* buffer.                                                                 *)
LEMMA ButtonsShowAllText == ~HaveNbgl => TextsFit
  BY DEF TextsFit, TextIsCut

(* The application is a signing service: one request at a time, granted    *)
(* only when the user has seen all of it, and granted with the very        *)
(* answer it asks for; no other signature but the one payment of a swap.   *)
(* Of a text that a touch screen cuts the user does not see all, so that   *)
(* the texts must fit; with buttons they always do (ButtonsShowAllText).   *)
THEOREM ServiceIsImplemented ==
    ASSUME TextsFit PROVE Spec => ImplementsService
  <1>1. TypeOK /\ TypeOK' /\ ReviewInv /\ ReviewInv' /\ [Next]_vars =>
            [Service!Next]_Service!vars
    <2> SUFFICES ASSUME TypeOK, TypeOK', ReviewInv, ReviewInv', [Next]_vars
                 PROVE  Service!Next \/ UNCHANGED Service!vars
      OBVIOUS
    <2> QED BY HostIsStep, UserIsStep, EnvironmentIsStep, UnchangedStutters
            DEF Next
  <1> QED
    BY <1>1, InitImplements, TypeCorrect, ReviewIntact, PTL
    DEF Spec, ImplementsService, Service!Spec

-----------------------------------------------------------------------------
(* Swap.                                                                   *)

(* The inductive invariant: a swap session in which the response has been  *)
(* given is over, so that no review of the session can send another one;   *)
(* an application that has stopped is off, and its display, too; and what  *)
(* its end told Exchange is what the host was sent.                        *)
SwapInv ==
    /\ mode = "swap" => ~swap.ready
    /\ exit # "none" => mode = "off"
    /\ mode = "off" => screen = "off"
    /\ SwapResultTruthful

LEMMA AReply ==
    ASSUME NEW sw
    PROVE  /\ Reply(sw).payload = "nothing" /\ Reply(sw).state = "sent"
           /\ NoReply.payload = "nothing"
  BY DEF Reply, NoReply

LEMMA ASignature ==
    ASSUME NEW p, NEW m
    PROVE  SignatureReply(p, m).payload = "signature"
  BY DEF SignatureReply, Reply

(* Steps that neither start nor end a session, nor send anything in a swap *)
(* that has ended.                                                         *)
LEMMA SessionGoesOn ==
    ASSUME SwapInv, mode # "off", UNCHANGED <<mode, exit, swap>>
    PROVE  SwapInv'
  BY DEF SwapInv, SwapResultTruthful

LEMMA StopEndsSession ==
    ASSUME NEW reason, NEW reply, Stop(reason, reply),
           reason = "lib_end" =>
                (swap'.result <=> reply.payload = "signature")
    PROVE  SwapInv'
  BY DEF Stop, SwapInv, SwapResultTruthful

(* The end of a swap: the primitive does not fail, so that the session     *)
(* does not survive its transaction.                                       *)
LEMMA SignSwapEnds ==
    ASSUME TypeOK, NEW a \in HostApdus, SignSwap(a, FALSE)
    PROVE  SwapInv'
  <1> DEFINE c == ApduCommand(a, cmd)
             d == ParsedTransaction(c)
             items == TxSummary(d.message, d.derivation_path,
                                storage.display_mode)
  <1>1. c \in Command
    BY CompleteTypes DEF SignSwap, SignTransactionParsed
  <1>2. d.derivation_path = c.derivation_path
    <2> HIDE DEF c
    <2> QED BY <1>1 DEF ParsedTransaction, Command
  <1>3. c.derivation_path \in Derivable
    BY DEF SignSwap, SignTransactionParsed, TransactionReply
  <1>4. ~SigningFails(d, FALSE)
    BY <1>2, <1>3 DEF SigningFails
  <1>5. swap \in [validated: SwapParams \cup {NoSwap}, ready: BOOLEAN,
                  result: BOOLEAN]
    BY DEF TypeOK, Swaps
  <1>6. \/ FinalizeSwap(SignatureReply(d.derivation_path, d.message), TRUE)
        \/ FinalizeSwap(Reply("SummaryFinalizeFailed"), FALSE)
    BY <1>4 DEF SignSwap
  <1>7. CASE FinalizeSwap(SignatureReply(d.derivation_path, d.message), TRUE)
    <2>1. swap'.result
      BY <1>5, <1>7 DEF FinalizeSwap
    <2> QED
      BY <1>7, <2>1, ASignature, StopEndsSession DEF FinalizeSwap
  <1>8. CASE FinalizeSwap(Reply("SummaryFinalizeFailed"), FALSE)
    <2>1. ~swap'.result
      BY <1>5, <1>8 DEF FinalizeSwap
    <2> QED
      BY <1>8, <2>1, AReply, StopEndsSession DEF FinalizeSwap
  <1> QED BY <1>6, <1>7, <1>8

(* A review of a swap session that goes on sends its reply and ends only   *)
(* its review.                                                             *)
LEMMA ReviewReplied ==
    ASSUME SwapInv, mode # "off", NEW reply, NEW ok, SendResponse(reply, ok)
    PROVE  SwapInv'
  <1>1. ~(mode = "swap" /\ swap.ready)
    BY DEF SwapInv
  <1>2. UNCHANGED <<mode, exit, swap>>
    BY <1>1 DEF SendResponse, device
  <1> QED BY <1>2, SessionGoesOn

LEMMA SwapStep ==
    ASSUME CxFaults \subseteq {FALSE}, TypeOK, SwapInv, [Next]_vars
    PROVE  SwapInv'
  <1>1. CASE UNCHANGED vars
    BY <1>1 DEF vars, SwapInv, SwapResultTruthful
  <1>2. CASE Host
    <2>1. CanReceive
      BY <1>2
      DEF Host, EmptyApdu, RejectApdu, StoreChunk, GetAppConfiguration,
          GetPubkeyRefused, GetPubkeySilently, ReviewPubkey,
          SignTransactionRefused, ReviewTransaction, SignTextRefused,
          ReviewText, SignSwap, SignSwapAgain, SignTransactionParsed,
          Complete, Accept
    <2>2. mode # "off"
      BY <2>1 DEF CanReceive
    <2>3. ASSUME NEW a \in HostApdus, NEW fault \in CxFaults,
                 SignSwap(a, fault)
          PROVE  SwapInv'
      <3>1. fault = FALSE
        OBVIOUS
      <3> QED BY <2>3, <3>1, SignSwapEnds
    <2>4. ASSUME NEW a \in HostApdus, SignSwapAgain(a)
          PROVE  SwapInv'
      BY <2>4, StopEndsSession DEF SignSwapAgain
    <2>5. ASSUME NEW a \in HostApdus,
                 \/ RejectApdu(a)
                 \/ StoreChunk(a)
                 \/ GetAppConfiguration(a)
                 \/ GetPubkeyRefused(a)
                 \/ GetPubkeySilently(a)
                 \/ ReviewPubkey(a)
                 \/ SignTransactionRefused(a)
                 \/ ReviewTransaction(a)
                 \/ SignTextRefused(a)
                 \/ ReviewText(a)
          PROVE  SwapInv'
      <3>1. UNCHANGED <<mode, exit, swap>>
        BY <2>5
        DEF EmptyApdu, RejectApdu, StoreChunk, GetAppConfiguration,
            GetPubkeyRefused, GetPubkeySilently, ReviewPubkey,
            SignTransactionRefused, ReviewTransaction, SignTextRefused,
            ReviewText, device
      <3> QED BY <2>2, <3>1, SessionGoesOn
    <2>6. CASE EmptyApdu
      <3>1. UNCHANGED <<mode, exit, swap>>
        BY <2>6 DEF EmptyApdu, device
      <3> QED BY <2>2, <3>1, SessionGoesOn
    <2> QED BY <1>2, <2>3, <2>4, <2>5, <2>6 DEF Host
  <1>3. CASE User
    <2>1. CASE NextPage \/ PrevPage
      <3>1. UNCHANGED <<mode, exit, swap>> /\ screen = "review"
        BY <2>1 DEF NextPage, PrevPage, DisplayPage, device
      <3> QED BY <3>1, SessionGoesOn DEF SwapInv
    <2>2. ASSUME NEW fault \in CxFaults, Approve(fault)
          PROVE  SwapInv'
      <3>1. mode # "off"
        BY <2>2 DEF Approve, CanApprove, SwapInv
      <3>2. CASE UNCHANGED device
        BY <3>1, <3>2, SessionGoesOn DEF device
      <3>3. CASE \E reply, ok : SendResponse(reply, ok)
        BY <3>1, <3>3, ReviewReplied
      <3> QED BY <2>2, <3>2, <3>3 DEF Approve
    <2>3. CASE Reject
      BY <2>3, ReviewReplied DEF Reject, CanReject, SwapInv
    <2>4. ASSUME NEW ok \in BOOLEAN, DecideAnswered(ok)
          PROVE  SwapInv'
      BY <2>4, ReviewReplied
      DEF DecideAnswered, CanApprove, CanReject, SwapInv
    <2>5. CASE Quit
      BY <2>5, StopEndsSession DEF Quit
    <2>6. CASE \/ StatusDone \/ OpenSettings \/ CloseSettings
               \/ \E s \in UserSettings, on \in BOOLEAN : SelectSetting(s, on)
               \/ \E s \in UserSettings : ToggleSetting(s)
      <3>1. UNCHANGED <<mode, exit, swap>> /\ screen # "off"
        BY <2>6 DEF StatusDone, OpenSettings, CloseSettings, SelectSetting,
                    ToggleSetting, device
      <3> QED BY <3>1, SessionGoesOn DEF SwapInv
    <2> QED BY <1>3, <2>1, <2>2, <2>3, <2>4, <2>5, <2>6 DEF User
  <1>4. CASE Environment
    <2>1. CASE Launch
      BY <2>1 DEF Launch, InitSwap, SwapInv, SwapResultTruthful
    <2>2. CASE \E p \in SwapParams : LaunchSwap(p)
      BY <2>2 DEF LaunchSwap, InitSwap, SwapInv, SwapResultTruthful
    <2>3. CASE UsbUnplugged
      <3>1. CASE mode = "app"
        BY <2>3, <3>1, SessionGoesOn DEF UsbUnplugged
      <3>2. CASE mode # "app"
        BY <2>3, <3>2, StopEndsSession DEF UsbUnplugged
      <3> QED BY <3>1, <3>2
    <2>4. CASE PowerCut
      BY <2>4, StopEndsSession DEF PowerCut
    <2> QED BY <1>4, <2>1, <2>2, <2>3, <2>4 DEF Environment
  <1> QED BY <1>1, <1>2, <1>3, <1>4 DEF Next

(* If the signature primitive never fails, Exchange is told of a success   *)
(* exactly when the host got a signature (G_swap_signing_return_value).    *)
THEOREM ExchangeIsToldTheTruth ==
    ASSUME CxFaults \subseteq {FALSE}
    PROVE  Spec => []SwapResultTruthful
  <1>1. Init => SwapInv
    BY DEF Init, InitSwap, SwapInv, SwapResultTruthful
  <1>2. TypeOK /\ SwapInv /\ [Next]_vars => SwapInv'
    BY SwapStep
  <1>3. SwapInv => SwapResultTruthful
    BY DEF SwapInv
  <1> QED BY <1>1, <1>2, <1>3, TypeCorrect, PTL DEF Spec

(* If the signature primitive never fails, no session survives the answer  *)
(* to its transaction (sendResponse, finalize_exchange_sign_transaction).  *)
THEOREM SwapEndsWithItsTransaction ==
    ASSUME CxFaults \subseteq {FALSE}
    PROVE  Spec => []SwapQuitsAfterTransaction
  <1>1. Init => SwapInv
    BY DEF Init, InitSwap, SwapInv, SwapResultTruthful
  <1>2. TypeOK /\ SwapInv /\ [Next]_vars => SwapInv'
    BY SwapStep
  <1>3. SwapInv => SwapQuitsAfterTransaction
    BY DEF SwapInv, SwapQuitsAfterTransaction
  <1> QED BY <1>1, <1>2, <1>3, TypeCorrect, PTL DEF Spec

(* A swap session has a payment to sign.                                   *)
PaymentIsAsked == mode = "swap" => swap.validated \in SwapParams

LEMMA PaymentStaysAsked ==
    ASSUME TypeOK, PaymentIsAsked, [Next]_vars
    PROVE  PaymentIsAsked'
  <1>1. CASE mode' # "swap"
    BY <1>1 DEF PaymentIsAsked
  <1>2. CASE UNCHANGED <<mode, swap>>
    BY <1>2 DEF PaymentIsAsked
  <1>3. \A reason, reply : Stop(reason, reply) => mode' = "off"
    BY DEF Stop
  <1>4. ASSUME NEW reply, NEW ok, SendResponse(reply, ok)
        PROVE  mode' # "swap" \/ UNCHANGED <<mode, swap>>
    BY <1>3, <1>4 DEF SendResponse, FinalizeSwap, device
  <1>5. CASE Host
    <2>1. ASSUME NEW a \in HostApdus, NEW fault \in CxFaults,
                 SignSwap(a, fault)
          PROVE  PaymentIsAsked'
      <3>1. mode' = "off" \/ (/\ mode = "swap"
                              /\ swap' = [swap EXCEPT !.ready = TRUE])
        BY <1>3, <2>1 DEF SignSwap, FinalizeSwap
      <3> QED BY <3>1 DEF PaymentIsAsked, TypeOK, Swaps
    <2>2. ASSUME NEW a \in HostApdus, SignSwapAgain(a)
          PROVE  mode' # "swap"
      BY <1>3, <2>2 DEF SignSwapAgain
    <2>3. ASSUME NEW a \in HostApdus,
                 \/ RejectApdu(a)
                 \/ StoreChunk(a)
                 \/ GetAppConfiguration(a)
                 \/ GetPubkeyRefused(a)
                 \/ GetPubkeySilently(a)
                 \/ ReviewPubkey(a)
                 \/ SignTransactionRefused(a)
                 \/ ReviewTransaction(a)
                 \/ SignTextRefused(a)
                 \/ ReviewText(a)
          PROVE  UNCHANGED <<mode, swap>>
      BY <2>3
      DEF RejectApdu, StoreChunk, GetAppConfiguration, GetPubkeyRefused,
          GetPubkeySilently, ReviewPubkey, SignTransactionRefused,
          ReviewTransaction, SignTextRefused, ReviewText, device
    <2>4. CASE EmptyApdu
      BY <1>2, <2>4 DEF EmptyApdu, device
    <2> QED BY <1>1, <1>2, <1>5, <2>1, <2>2, <2>3, <2>4 DEF Host
  <1>6. CASE User
    <2>1. mode' # "swap" \/ UNCHANGED <<mode, swap>>
      BY <1>3, <1>4, <1>6
      DEF User, NextPage, PrevPage, DisplayPage, Approve, Reject,
          DecideAnswered, StatusDone, OpenSettings, CloseSettings,
          SelectSetting, ToggleSetting, Quit, device
    <2> QED BY <1>1, <1>2, <2>1
  <1>7. CASE Environment
    <2>1. CASE \E p \in SwapParams : LaunchSwap(p)
      BY <2>1 DEF LaunchSwap, InitSwap, PaymentIsAsked
    <2>2. CASE Launch \/ UsbUnplugged \/ PowerCut
      BY <1>1, <2>2 DEF Launch, UsbUnplugged, PowerCut, Stop
    <2> QED BY <1>7, <2>1, <2>2 DEF Environment
  <1>8. CASE UNCHANGED vars
    BY <1>2, <1>8 DEF vars
  <1> QED BY <1>5, <1>6, <1>7, <1>8 DEF Next

(* A signature no review precedes is the payment of a swap, and the first  *)
(* transaction of its session (handle_sign_message_ui, check_swap_validity,*)
(* the safety against double signing).                                     *)
THEOREM UnreviewedIsThePayment == Spec => SignsUnreviewedOnlyInSwap
  <1> DEFINE Payment ==
                /\ mode = "swap"
                /\ ~swap.ready
                /\ LET items == TxSummary(out'.message, out'.path,
                                          storage.display_mode)
                   IN  /\ Len(items) = 2
                       /\ {items[1], items[2]} =
                              {swap.validated.amount, swap.validated.recipient}
                /\ out'.path \in Tx[out'.message].signers
  <1>1. ASSUME TypeOK, PaymentIsAsked, NEW a \in HostApdus,
               NEW fault \in CxFaults, SignSwap(a, fault), NewSignature
        PROVE  Payment
    <2> DEFINE c == ApduCommand(a, cmd)
               d == ParsedTransaction(c)
               items == TxSummary(d.message, d.derivation_path,
                                  storage.display_mode)
    <2>1. \A sw : Reply(sw).payload = "nothing"
      BY AReply
    <2>2. /\ out' = SignatureReply(d.derivation_path, d.message)
          /\ CheckSwapValidity(items)
          /\ mode = "swap" /\ ~swap.ready
      BY <1>1, <2>1 DEF SignSwap, FinalizeSwap, Stop, NewSignature
    <2>3. out'.path = d.derivation_path /\ out'.message = d.message
      BY <2>2 DEF SignatureReply, Reply
    <2>4. c \in Command
      BY <1>1, CompleteTypes DEF SignSwap, SignTransactionParsed
    <2>5. d.derivation_path \in Tx[d.message].signers
      <3>1. TransactionReply(c) = "Success"
        BY <1>1 DEF SignSwap, SignTransactionParsed
      <3>2. c.derivation_path \in Tx[c.message].signers
        BY <3>1 DEF TransactionReply
      <3> HIDE DEF c
      <3> QED BY <2>4, <3>2, HashingKeepsMeaning
    <2> HIDE DEF items
    <2>6. /\ Len(items) = 2
          /\ swap.validated.amount \in {items[1], items[2]}
          /\ swap.validated.recipient \in {items[1], items[2]}
      BY <2>2 DEF CheckSwapValidity
    <2>7. swap.validated.amount # swap.validated.recipient
      BY <1>1, <2>2, LedgerAppAssumption DEF PaymentIsAsked
    <2>8. {items[1], items[2]} =
                {swap.validated.amount, swap.validated.recipient}
      BY <2>6, <2>7
    <2> QED BY <2>2, <2>3, <2>5, <2>6, <2>8 DEF items
  <1>2. ASSUME TypeOK, PaymentIsAsked, Next, NewSignature, ~IsPending
        PROVE  Payment
    <2>1. /\ \A sw : Reply(sw).payload = "nothing"
          /\ NoReply.payload = "nothing"
          /\ Pending.payload = "nothing"
          /\ ConfigReply.payload = "configuration"
          /\ \A p : PubkeyReply(p).payload = "pubkey"
      BY DEF Reply, NoReply, Pending, ConfigReply, PubkeyReply
    <2>2. ASSUME NEW f, NEW items, NEW c, NEW key, StartReview(f, items, c, key)
          PROVE  out'.payload = "nothing"
      BY <2>1, <2>2 DEF StartReview
    <2>3. \A reply, ok : SendResponse(reply, ok) => out' = reply
      BY DEF SendResponse, FinalizeSwap, Stop
    <2>4. ~Environment
      BY <1>2, <2>1
      DEF Environment, Launch, LaunchSwap, UsbUnplugged, PowerCut, Stop,
          NewSignature
    <2>5. ~User
      BY <1>2, <2>3
      DEF User, NextPage, PrevPage, DisplayPage, Approve, Reject,
          DecideAnswered, StatusDone, OpenSettings, CloseSettings,
          SelectSetting, ToggleSetting, Quit, Stop, NewSignature
    <2>6. ASSUME NEW a \in HostApdus,
                 \/ RejectApdu(a)
                 \/ StoreChunk(a)
                 \/ GetAppConfiguration(a)
                 \/ GetPubkeyRefused(a)
                 \/ GetPubkeySilently(a)
                 \/ ReviewPubkey(a)
                 \/ SignTransactionRefused(a)
                 \/ ReviewTransaction(a)
                 \/ SignTextRefused(a)
                 \/ ReviewText(a)
                 \/ SignSwapAgain(a)
          PROVE  out'.payload # "signature"
      BY <2>1, <2>2, <2>6
      DEF RejectApdu, StoreChunk, GetAppConfiguration, GetPubkeyRefused,
          GetPubkeySilently, ReviewPubkey, SignTransactionRefused,
          ReviewTransaction, SignTextRefused, ReviewText, SignSwapAgain, Stop
    <2>7. ~EmptyApdu
      BY <1>2, <2>1 DEF EmptyApdu, NewSignature
    <2>8. PICK a \in HostApdus, fault \in CxFaults : SignSwap(a, fault)
      BY <1>2, <2>4, <2>5, <2>6, <2>7 DEF Next, Host, NewSignature
    <2> QED BY <1>1, <1>2, <2>8
  <1>3. TypeOK /\ PaymentIsAsked /\ [Next]_vars =>
            [NewSignature /\ ~IsPending => Payment]_vars
    BY <1>2
  <1>4. Init => PaymentIsAsked
    BY DEF Init, PaymentIsAsked
  <1>5. TypeOK /\ PaymentIsAsked /\ [Next]_vars => PaymentIsAsked'
    BY PaymentStaysAsked
  <1> QED BY <1>3, <1>4, <1>5, TypeCorrect, PTL DEF Spec, SignsUnreviewedOnlyInSwap

-----------------------------------------------------------------------------
(* Settings.                                                               *)

LEMMA SwitchesAreWritten ==
    ASSUME TypeOK, NEW s \in Setting, switches = SwitchesOf(storage)
    PROVE  [switches EXCEPT ![s] = ~@]
                = SwitchesOf(WithSetting(s, ~switches[s]))
  <1> DEFINE new == WithSetting(s, ~switches[s])
             on == ~switches[s]
  <1>0. storage \in Storage /\ switches \in Switches
    BY DEF TypeOK
  <1>1. /\ switches["allow_blind_sign"] = storage.allow_blind_sign
        /\ switches["pubkey_display"] = (storage.pubkey_display # "Long")
        /\ switches["display_mode"] = (storage.display_mode # "User")
    BY Zenon DEF SwitchesOf, Setting
  <1>2. storage.allow_blind_sign \in BOOLEAN /\ on \in BOOLEAN
    BY <1>0 DEF Storage
  <1>3. ASSUME NEW k \in Setting
        PROVE  SwitchesOf(new)[k] = IF k = s THEN on ELSE switches[k]
    <2>1. CASE s = "allow_blind_sign"
      <3>1. new = [storage EXCEPT !.allow_blind_sign = on]
        BY <2>1 DEF WithSetting
      <3> HIDE DEF on
      <3>2. /\ new.allow_blind_sign = on
            /\ new.pubkey_display = storage.pubkey_display
            /\ new.display_mode = storage.display_mode
        BY <1>0, <3>1 DEF Storage
      <3> HIDE DEF new
      <3> QED BY <1>1, <2>1, <3>2, Zenon DEF SwitchesOf, Setting
    <2>2. CASE s = "pubkey_display"
      <3>1. new = [storage EXCEPT !.pubkey_display =
                                     IF on THEN "Short" ELSE "Long"]
        BY <2>2 DEF WithSetting
      <3> HIDE DEF on
      <3>2. /\ new.allow_blind_sign = storage.allow_blind_sign
            /\ new.pubkey_display = IF on THEN "Short" ELSE "Long"
            /\ new.display_mode = storage.display_mode
        BY <1>0, <3>1 DEF Storage
      <3>3. (new.pubkey_display # "Long") = on
        BY <1>2, <3>2
      <3> HIDE DEF new
      <3> QED BY <1>1, <2>2, <3>2, <3>3, Zenon DEF SwitchesOf, Setting
    <2>3. CASE s = "display_mode"
      <3>1. new = [storage EXCEPT !.display_mode =
                                     IF on THEN "Expert" ELSE "User"]
        BY <2>3 DEF WithSetting
      <3> HIDE DEF on
      <3>2. /\ new.allow_blind_sign = storage.allow_blind_sign
            /\ new.pubkey_display = storage.pubkey_display
            /\ new.display_mode = IF on THEN "Expert" ELSE "User"
        BY <1>0, <3>1 DEF Storage
      <3>3. (new.display_mode # "User") = on
        BY <1>2, <3>2
      <3> HIDE DEF new
      <3> QED BY <1>1, <2>3, <3>2, <3>3, Zenon DEF SwitchesOf, Setting
    <2> QED BY <2>1, <2>2, <2>3 DEF Setting
  <1>4. /\ SwitchesOf(new) = [k \in Setting |-> SwitchesOf(new)[k]]
        /\ [switches EXCEPT ![s] = ~@]
                = [k \in Setting |-> IF k = s THEN on ELSE switches[k]]
    <2>1. new \in Storage
      <3>1. on \in BOOLEAN
        BY <1>2
      <3> HIDE DEF on
      <3> QED BY <1>0, <3>1 DEF WithSetting, Storage, Setting
    <2>2. SwitchesOf(new) \in Switches
      <3> HIDE DEF new
      <3> QED BY <2>1, LifecycleTypes
    <2>3. SwitchesOf(new) = [k \in Setting |-> SwitchesOf(new)[k]]
      <3> DEFINE f == SwitchesOf(new)
      <3> HIDE DEF f
      <3> QED BY <2>2 DEF Switches
    <2>4. [switches EXCEPT ![s] = ~@]
                = [k \in Setting |-> IF k = s THEN on ELSE switches[k]]
      BY <1>0 DEF Switches
    <2> QED BY <2>3, <2>4
  <1> HIDE DEF new
  <1> QED BY <1>3, <1>4 DEF new

LEMMA SwitchesStep ==
    ASSUME TypeOK, SwitchesMirrorStorage, [Next]_vars
    PROVE  SwitchesMirrorStorage'
  <1> SUFFICES ASSUME HaveNbgl, screen' \in {"home", "settings"}
               PROVE  switches' = SwitchesOf(storage')
    BY DEF SwitchesMirrorStorage, SwitchesOf
  <1>1. CASE UNCHANGED <<screen, storage, switches>>
    BY <1>1 DEF SwitchesMirrorStorage
  <1>2. CASE Launch
    BY <1>2 DEF Launch, IdleSwitches
  <1>3. CASE UsbUnplugged \/ PowerCut \/ Quit
             \/ \E p \in SwapParams : LaunchSwap(p)
    BY <1>3 DEF UsbUnplugged, PowerCut, Quit, LaunchSwap, Stop, IdleSwitches
  <1>4. CASE StatusDone
    BY <1>4 DEF StatusDone, IdleSwitches
  <1>5. CASE OpenSettings \/ CloseSettings
    BY <1>5 DEF OpenSettings, CloseSettings, SwitchesMirrorStorage, device
  <1>6. ASSUME NEW s \in UserSettings, ToggleSetting(s)
        PROVE  switches' = SwitchesOf(storage')
    <2>1. s \in Setting
      BY LedgerAppAssumption
    <2>2. switches = SwitchesOf(storage)
      BY <1>6 DEF ToggleSetting, SwitchesMirrorStorage
    <2> QED BY <1>6, <2>1, <2>2, SwitchesAreWritten DEF ToggleSetting
  <1>7. ASSUME NEW reply, NEW ok, SendResponse(reply, ok)
        PROVE  FALSE
    BY <1>7 DEF SendResponse, FinalizeSwap, Stop
  <1>8. CASE Host
    <2>1. ASSUME NEW a \in HostApdus, NEW fault \in CxFaults,
                 SignSwap(a, fault)
          PROVE  UNCHANGED <<screen, storage, switches>>
      BY <2>1 DEF SignSwap, FinalizeSwap, Stop, view
    <2>2. ASSUME NEW a \in HostApdus,
                 ReviewPubkey(a) \/ ReviewTransaction(a) \/ ReviewText(a)
          PROVE  FALSE
      BY <2>2 DEF ReviewPubkey, ReviewTransaction, ReviewText, StartReview
    <2>3. ASSUME NEW a \in HostApdus, SignSwapAgain(a)
          PROVE  FALSE
      BY <2>3 DEF SignSwapAgain, Stop
    <2>4. CASE EmptyApdu
      BY <1>1, <2>4 DEF EmptyApdu, view, device
    <2>5. ASSUME NEW a \in HostApdus,
                 \/ RejectApdu(a)
                 \/ StoreChunk(a)
                 \/ GetAppConfiguration(a)
                 \/ GetPubkeyRefused(a)
                 \/ GetPubkeySilently(a)
                 \/ SignTransactionRefused(a)
                 \/ SignTextRefused(a)
          PROVE  UNCHANGED <<screen, storage, switches>>
      BY <2>5
      DEF RejectApdu, StoreChunk, GetAppConfiguration, GetPubkeyRefused,
          GetPubkeySilently, SignTransactionRefused, SignTextRefused, view,
          device
    <2> QED BY <1>1, <1>8, <2>1, <2>2, <2>3, <2>4, <2>5 DEF Host
  <1>9. CASE NextPage \/ PrevPage
    BY <1>1, <1>9 DEF NextPage, PrevPage, DisplayPage, device
  <1>10. ASSUME NEW fault \in CxFaults, Approve(fault)
         PROVE  UNCHANGED <<screen, storage, switches>>
    BY <1>7, <1>10 DEF Approve, device
  <1>11. CASE Reject \/ \E ok \in BOOLEAN : DecideAnswered(ok)
    BY <1>7, <1>11 DEF Reject, DecideAnswered
  <1>12. ASSUME NEW s \in UserSettings, NEW on \in BOOLEAN,
                SelectSetting(s, on)
         PROVE  FALSE
    BY <1>12 DEF SelectSetting
  <1>13. CASE UNCHANGED vars
    BY <1>1, <1>13 DEF vars
  <1> QED
    BY <1>1, <1>2, <1>3, <1>4, <1>5, <1>6, <1>8, <1>9, <1>10, <1>11, <1>12,
       <1>13
    DEF Next, User, Environment

(* Whatever review, reset or toggle came before, the NBGL settings page    *)
(* shows what is stored, so that a toggle flips the setting the user sees  *)
(* (ui_idle, settings_controls_callback).                                  *)
THEOREM SettingsPageIsTrue == Spec => []SwitchesMirrorStorage
  <1>1. Init => SwitchesMirrorStorage
    BY DEF Init, SwitchesMirrorStorage
  <1> QED
    BY <1>1, SwitchesStep, TypeCorrect, PTL DEF Spec

(* Settings are written at first launch, and one at a time in the settings *)
(* menu, which no review leads to (nv_app_state_init, settings_controls_   *)
(* callback and the BAGL menu).                                            *)
THEOREM SettingsAreTheUsers == Spec => SettingsChangeOnlyByUser
  <1> DEFINE ByUser ==
                \/ mode = "off" /\ ~storage.initialized
                \/ /\ screen = "settings"
                   /\ ~IsPending
                   /\ \E s \in Setting :
                        \A t \in Setting \ {s} : storage'[t] = storage[t]
  <1>1. ASSUME TypeOK, NEW s \in Setting, NEW on \in BOOLEAN,
               storage' = WithSetting(s, on)
        PROVE  \A t \in Setting \ {s} : storage'[t] = storage[t]
    BY <1>1 DEF WithSetting, TypeOK, Storage, Setting
  <1>2. ASSUME TypeOK, ReviewInv, Next, storage' # storage
        PROVE  ByUser
    <2>1. ASSUME NEW reason, NEW reply, Stop(reason, reply)
          PROVE  FALSE
      BY <1>2, <2>1 DEF Stop
    <2>2. ASSUME NEW reply, NEW ok, SendResponse(reply, ok)
          PROVE  FALSE
      BY <1>2, <2>1, <2>2 DEF SendResponse, FinalizeSwap, device
    <2>3. ~Host
      BY <1>2, <2>1
      DEF Host, EmptyApdu, RejectApdu, StoreChunk, GetAppConfiguration,
          GetPubkeyRefused, GetPubkeySilently, ReviewPubkey,
          SignTransactionRefused, ReviewTransaction, SignTextRefused,
          ReviewText, SignSwap, SignSwapAgain, FinalizeSwap, device
    <2>4. CASE Environment
      BY <1>2, <2>1, <2>4
      DEF Environment, Launch, LaunchSwap, UsbUnplugged, PowerCut,
          InitializedStorage
    <2>5. CASE User
      <3>1. PICK s \in UserSettings, on \in BOOLEAN :
                storage' = WithSetting(s, on) /\ screen = "settings"
        <4>1. ASSUME NEW s \in UserSettings, NEW on \in BOOLEAN,
                     SelectSetting(s, on)
              PROVE  storage' = WithSetting(s, on) /\ screen = "settings"
          BY <4>1 DEF SelectSetting
        <4>2. ASSUME NEW s \in UserSettings, ToggleSetting(s)
              PROVE  /\ storage' = WithSetting(s, ~switches[s])
                     /\ (~switches[s]) \in BOOLEAN
                     /\ screen = "settings"
          BY <4>2 DEF ToggleSetting
        <4>3. \/ \E s \in UserSettings, on \in BOOLEAN : SelectSetting(s, on)
              \/ \E s \in UserSettings : ToggleSetting(s)
          BY <1>2, <2>1, <2>2, <2>5
          DEF User, NextPage, PrevPage, DisplayPage, Approve, Reject,
              DecideAnswered, StatusDone, OpenSettings, CloseSettings, Quit,
              device
        <4> QED BY <4>1, <4>2, <4>3
      <3>2. s \in Setting
        BY LedgerAppAssumption
      <3>3. ~IsPending
        BY <1>2, <3>1 DEF ReviewInv
      <3> QED BY <1>1, <1>2, <3>1, <3>2, <3>3
    <2> QED BY <1>2, <2>3, <2>4, <2>5 DEF Next
  <1>3. TypeOK /\ ReviewInv /\ [Next]_vars =>
            [storage' # storage => ByUser]_vars
    BY <1>2
  <1> QED
    BY <1>3, TypeCorrect, ReviewIntact, PTL DEF Spec, SettingsChangeOnlyByUser

-----------------------------------------------------------------------------
(* A message sent in chunks.                                               *)

(* The fields of the command an accepted chunk leaves.                     *)
LEMMA ReceivedFields ==
    ASSUME NEW a \in ApduMessage, NEW c \in Command,
           a.ins \in SignInstructions
    PROVE  LET new == ApduCommand(a, c)
           IN  /\ new.instruction = a.ins
               /\ new.state = IF a.more THEN "PayloadInProgress"
                                        ELSE "PayloadComplete"
               /\ new.derivation_path = IF a.extend THEN c.derivation_path
                                        ELSE a.data[PathIndex(a)]
               /\ new.message = (IF a.extend THEN c.message ELSE <<>>)
                                    \o Payload(a)
  <1> DEFINE base == BaseCommand(a, c)
             old == a.ins \in DeprecatedInstructions
             received ==
                [base EXCEPT !.instruction = a.ins,
                             !.non_confirm = a.nonConfirm,
                             !.deprecated_host = old]
             state == IF a.more THEN "PayloadInProgress"
                                ELSE "PayloadComplete"
             paths == IF a.extend THEN received.num_derivation_paths ELSE 1
             path == IF a.extend THEN received.derivation_path
                                 ELSE a.data[PathIndex(a)]
             message == received.message \o Payload(a)
  <1>1. base \in Command
    BY ClearedIsCommand DEF BaseCommand
  <1>2. /\ base.message = IF a.extend THEN c.message ELSE <<>>
        /\ a.extend => base.derivation_path = c.derivation_path
    BY DEF BaseCommand, ClearedCommand
  <1>3. /\ received.message = base.message
        /\ received.derivation_path = base.derivation_path
        /\ received.instruction = a.ins
        /\ DOMAIN received = DOMAIN base
    <2> HIDE DEF base, old
    <2> QED BY <1>1 DEF Command
  <1>4. a.ins \notin ConfigInstructions
    BY DEF SignInstructions, TransactionInstructions, ConfigInstructions
  <1>5. ApduCommand(a, c) =
            [received EXCEPT
                !.state = IF a.more THEN "PayloadInProgress"
                                    ELSE "PayloadComplete",
                !.num_derivation_paths = IF a.extend THEN @ ELSE 1,
                !.derivation_path =
                    IF a.extend THEN @ ELSE a.data[PathIndex(a)],
                !.message = @ \o Payload(a)]
    BY <1>4 DEF ApduCommand
  <1>6. DOMAIN base = {"state", "instruction", "num_derivation_paths",
                       "derivation_path", "non_confirm", "deprecated_host",
                       "message", "message_hash"}
    <2> HIDE DEF base
    <2> QED BY <1>1 DEF Command
  <1> HIDE DEF received, base
  <1>7. ApduCommand(a, c) =
            [received EXCEPT !.state = state, !.num_derivation_paths = paths,
                             !.derivation_path = path, !.message = message]
    BY <1>3, <1>5, <1>6
  <1> HIDE DEF state, paths, path, message
  <1>8. /\ ApduCommand(a, c).instruction = received.instruction
        /\ ApduCommand(a, c).state = state
        /\ ApduCommand(a, c).derivation_path = path
        /\ ApduCommand(a, c).message = message
    BY <1>3, <1>6, <1>7
  <1> QED BY <1>2, <1>3, <1>8 DEF state, path, message

LEMMA AcceptedIsUploaded ==
    ASSUME TypeOK, UploadIntact, NEW a \in HostApdus, NEW st, Accept(a, st),
           a.ins \in SignInstructions
    PROVE  LET c == ApduCommand(a, cmd)
           IN  /\ c.instruction = upload'.instruction
               /\ c.derivation_path = upload'.path
               /\ c.message = upload'.message
               /\ c.state = "PayloadInProgress" <=> upload'.more
  <1> DEFINE c == ApduCommand(a, cmd)
  <1>1. a \in ApduMessage /\ cmd \in Command
    BY LedgerAppAssumption DEF TypeOK
  <1>2. a.ins \notin ConfigInstructions
    BY DEF SignInstructions, TransactionInstructions, ConfigInstructions
  <1>3. Payload(a) \in Seq(Token)
    BY <1>1, <1>2, PayloadIsData DEF Accept
  <1>4. /\ c.instruction = a.ins
        /\ c.state = IF a.more THEN "PayloadInProgress" ELSE "PayloadComplete"
        /\ c.derivation_path = IF a.extend THEN cmd.derivation_path
                               ELSE a.data[PathIndex(a)]
        /\ c.message = (IF a.extend THEN cmd.message ELSE <<>>) \o Payload(a)
    BY <1>1, ReceivedFields
  <1>5. c.state = "PayloadInProgress" <=> a.more
    BY <1>4
  <1> HIDE DEF c
  <1>6. CASE ~a.extend
    <2>1. upload' = [instruction |-> a.ins, path |-> a.data[PathIndex(a)],
                     message |-> Payload(a), more |-> a.more]
      BY <1>6 DEF Accept, UploadAfter
    <2>2. <<>> \o Payload(a) = Payload(a)
      BY <1>3
    <2>3. upload'.more <=> a.more
      BY <2>1
    <2>4. c.instruction = upload'.instruction
      BY <1>4, <2>1
    <2>5. c.derivation_path = upload'.path
      BY <1>4, <1>6, <2>1
    <2>6. c.message = upload'.message
      BY <1>4, <1>6, <2>1, <2>2
    <2> QED BY <1>5, <2>3, <2>4, <2>5, <2>6 DEF c
  <1>7. CASE a.extend
    <2>1. ContinuesCommand(a, cmd)
      BY <1>2, <1>7 DEF Accept, ApduReply
    <2>2. /\ cmd.state = "PayloadInProgress"
          /\ cmd.instruction = a.ins
      BY <2>1 DEF ContinuesCommand
    <2>3. /\ upload.more
          /\ upload.instruction = a.ins
          /\ upload.path = cmd.derivation_path
          /\ upload.message = cmd.message
      BY <2>2 DEF UploadIntact
    <2>4. upload' = [upload EXCEPT !.message = @ \o Payload(a),
                                   !.more = a.more]
      BY <1>7, <2>3 DEF Accept, UploadAfter
    <2>5. DOMAIN upload = {"instruction", "path", "message", "more"}
      BY DEF TypeOK, Uploads
    <2>6. /\ upload'.instruction = a.ins
          /\ upload'.path = cmd.derivation_path
          /\ upload'.message = cmd.message \o Payload(a)
      BY <2>3, <2>4, <2>5
    <2>7. upload'.more <=> a.more
      BY <2>4, <2>5
    <2> QED BY <1>4, <1>5, <1>7, <2>6, <2>7 DEF c
  <1> QED BY <1>6, <1>7

(* The inductive invariant: an application that is off holds no command.   *)
UploadInv ==
    /\ mode = "off" => cmd = ClearedCommand
    /\ UploadIntact

LEMMA UploadStep ==
    ASSUME TypeOK, UploadInv, [Next]_vars
    PROVE  UploadInv'
  <1>1. CASE UNCHANGED <<mode, cmd, upload>>
    BY <1>1 DEF UploadInv, UploadIntact
  <1>2. CASE cmd' = ClearedCommand
    BY <1>2
    DEF UploadInv, UploadIntact, ClearedCommand, SignInstructions,
        TransactionInstructions
  <1>3. ASSUME NEW a \in HostApdus, NEW st, Accept(a, st), mode' = mode,
               cmd' \in {ApduCommand(a, cmd),
                         ParsedTransaction(ApduCommand(a, cmd)),
                         HashedText(ApduCommand(a, cmd))}
        PROVE  UploadInv'
    <2> DEFINE c == ApduCommand(a, cmd)
    <2>1. c \in Command
      BY <1>3, AcceptTypes
    <2>0. mode' # "off"
      BY <1>3 DEF Accept, CanReceive
    <2>2. /\ cmd'.instruction = c.instruction
          /\ cmd'.derivation_path = c.derivation_path
          /\ cmd'.message = c.message
          /\ cmd'.state = c.state
      BY <1>3, <2>1, HashingKeepsMeaning
    <2>3. c.instruction = a.ins
      BY <1>3, AcceptedInstruction, LedgerAppAssumption DEF TypeOK
    <2>4. CASE a.ins \notin SignInstructions
      BY <2>0, <2>2, <2>3, <2>4 DEF UploadInv, UploadIntact
    <2>5. CASE a.ins \in SignInstructions
      <3>1. /\ c.instruction = upload'.instruction
            /\ c.derivation_path = upload'.path
            /\ c.message = upload'.message
            /\ c.state = "PayloadInProgress" <=> upload'.more
        BY <1>3, <2>5, AcceptedIsUploaded DEF UploadInv
      <3> HIDE DEF c
      <3> QED BY <2>0, <2>2, <3>1 DEF UploadInv, UploadIntact
    <2> QED BY <2>4, <2>5
  <1>4. ASSUME NEW reason, NEW reply, Stop(reason, reply)
        PROVE  cmd' = ClearedCommand
    BY <1>4 DEF Stop, GlobalsReset
  <1>5. ASSUME NEW reply, NEW ok, SendResponse(reply, ok)
        PROVE  cmd' = ClearedCommand \/ UNCHANGED <<mode, cmd, upload>>
    BY <1>4, <1>5 DEF SendResponse, FinalizeSwap, device
  <1>6. CASE Host
    <2>1. CASE EmptyApdu
      BY <1>1, <2>1 DEF EmptyApdu, device
    <2>2. ASSUME NEW a \in HostApdus, RejectApdu(a) \/ SignSwapAgain(a)
          PROVE  cmd' = ClearedCommand
      BY <1>4, <2>2 DEF RejectApdu, SignSwapAgain
    <2>3. ASSUME NEW a \in HostApdus,
                 \/ StoreChunk(a)
                 \/ GetAppConfiguration(a)
                 \/ GetPubkeyRefused(a)
                 \/ GetPubkeySilently(a)
                 \/ ReviewPubkey(a)
                 \/ SignTransactionRefused(a)
                 \/ ReviewTransaction(a)
                 \/ SignTextRefused(a)
                 \/ ReviewText(a)
          PROVE  \E st :
                    /\ Accept(a, st)
                    /\ mode' = mode
                    /\ cmd' \in {ApduCommand(a, cmd),
                                 ParsedTransaction(ApduCommand(a, cmd)),
                                 HashedText(ApduCommand(a, cmd))}
      BY <2>3
      DEF StoreChunk, GetAppConfiguration, GetPubkeyRefused,
          GetPubkeySilently, ReviewPubkey, SignTransactionRefused,
          ReviewTransaction, SignTextRefused, ReviewText,
          SignTransactionParsed, Complete, device
    <2>4. ASSUME NEW a \in HostApdus, NEW fault \in CxFaults,
                 SignSwap(a, fault)
          PROVE  \/ cmd' = ClearedCommand
                 \/ \E st :
                    /\ Accept(a, st)
                    /\ mode' = mode
                    /\ cmd' \in {ApduCommand(a, cmd),
                                 ParsedTransaction(ApduCommand(a, cmd)),
                                 HashedText(ApduCommand(a, cmd))}
      BY <1>4, <2>4
      DEF SignSwap, FinalizeSwap, SignTransactionParsed, Complete
    <2> QED BY <1>2, <1>3, <1>6, <2>1, <2>2, <2>3, <2>4 DEF Host
  <1>7. CASE User
    <2>1. CASE NextPage \/ PrevPage
      BY <1>1, <2>1 DEF NextPage, PrevPage, DisplayPage, device
    <2>2. ASSUME NEW fault \in CxFaults, Approve(fault)
          PROVE  cmd' = ClearedCommand \/ UNCHANGED <<mode, cmd, upload>>
      BY <1>5, <2>2 DEF Approve, device
    <2>3. CASE Reject \/ \E ok \in BOOLEAN : DecideAnswered(ok)
      BY <1>1, <1>2, <1>5, <2>3 DEF Reject, DecideAnswered
    <2>4. CASE Quit
      BY <1>2, <1>4, <2>4 DEF Quit
    <2>5. CASE \/ StatusDone \/ OpenSettings \/ CloseSettings
               \/ \E s \in UserSettings, on \in BOOLEAN : SelectSetting(s, on)
               \/ \E s \in UserSettings : ToggleSetting(s)
      BY <1>1, <2>5
      DEF StatusDone, OpenSettings, CloseSettings, SelectSetting, ToggleSetting,
          device
    <2> QED BY <1>1, <1>2, <1>7, <2>1, <2>2, <2>3, <2>4, <2>5 DEF User
  <1>8. CASE Launch \/ \E p \in SwapParams : LaunchSwap(p)
    BY <1>8
    DEF Launch, LaunchSwap, UploadInv, UploadIntact, ClearedCommand,
        SignInstructions, TransactionInstructions
  <1>9. CASE UsbUnplugged \/ PowerCut
    BY <1>2, <1>4, <1>9 DEF UsbUnplugged, PowerCut, GlobalsReset
  <1>10. CASE UNCHANGED vars
    BY <1>1, <1>10 DEF vars
  <1> QED BY <1>6, <1>7, <1>8, <1>9, <1>10 DEF Next, Environment

(* The message a command holds is what the host sent for it: nothing of an *)
(* earlier, aborted or refused transfer is left in the buffer              *)
(* (apdu_handle_message, handleApdu).                                      *)
THEOREM MessageIsWhatWasSent == Spec => []UploadIntact
  <1>1. Init => UploadInv
    BY DEF Init, UploadInv, UploadIntact, ClearedCommand, SignInstructions,
           TransactionInstructions
  <1>2. UploadInv => UploadIntact
    BY DEF UploadInv
  <1> QED
    BY <1>1, <1>2, UploadStep, TypeCorrect, PTL DEF Spec
=============================================================================
