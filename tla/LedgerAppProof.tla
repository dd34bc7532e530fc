---------------------------- MODULE LedgerAppProof ----------------------------
(***************************************************************************)
(* Theorems about LedgerApp, for every value of its constants.             *)
(***************************************************************************)
EXTENDS LedgerAppProps, TLAPS

-----------------------------------------------------------------------------
(* The receiver, for any paths, words and buffer size.                     *)

(* A message is a sequence of tokens that fits the buffer.                 *)
LEMMA MessagesAreSequences ==
    ASSUME NEW m
    PROVE  m \in Messages <=> m \in Seq(Token) /\ Len(m) <= MAX_MESSAGE_LENGTH
  <1>1. ASSUME m \in Messages
        PROVE  m \in Seq(Token) /\ Len(m) <= MAX_MESSAGE_LENGTH
    <2>1. PICK n \in 0..MAX_MESSAGE_LENGTH : m \in [1..n -> Token]
      BY <1>1 DEF Messages
    <2> QED
      BY <2>1
  <1>2. ASSUME m \in Seq(Token), Len(m) <= MAX_MESSAGE_LENGTH
        PROVE  m \in Messages
    <2>1. Len(m) \in 0..MAX_MESSAGE_LENGTH /\ m \in [1..Len(m) -> Token]
      BY <1>2, ApduAssumption
    <2> QED
      BY <2>1 DEF Messages
  <1> QED
    BY <1>1, <1>2

LEMMA EmptyMessage == <<>> \in Messages
  <1>1. <<>> \in Seq(Token) /\ Len(<<>>) <= MAX_MESSAGE_LENGTH
    BY ApduAssumption
  <1> QED
    BY <1>1, MessagesAreSequences

LEMMA ClearedIsCommand == ClearedCommand \in Command
  BY EmptyMessage DEF ClearedCommand, Command, ApduState

(* An accepted first APDU of an instruction that takes data names a path.  *)
LEMMA AcceptedPath ==
    ASSUME NEW a \in ApduMessage, NEW c,
           ApduReply(a, c) = "Success",
           a.ins \notin ConfigInstructions, ~a.extend
    PROVE  /\ PathIndex(a) \in DOMAIN a.data
           /\ a.data[PathIndex(a)] \in Path
  <1>1. PathReply(a) = "Success"
    BY DEF ApduReply
  <1> QED
    BY <1>1 DEF PathReply

(* What is copied to the message buffer is message data.                   *)
LEMMA PayloadIsData ==
    ASSUME NEW a \in ApduMessage, NEW c,
           ApduReply(a, c) = "Success",
           a.ins \notin ConfigInstructions
    PROVE  Payload(a) \in Seq(Token)
  <1>1. a.data \in Seq(Token) /\ a.extend \in BOOLEAN
    BY DEF ApduMessage
  <1>2. AfterPath(a) \in Seq(Token)
    BY <1>1, AcceptedPath DEF AfterPath, PathIndex
  <1>3. a.ins = "DeprecatedSignMessage" => AfterPath(a) # <<>>
    BY DEF ApduReply, PayloadReply
  <1> QED
    BY <1>2, <1>3 DEF Payload

(* The command a chunk is added to, and the size after adding it.          *)
LEMMA BaseFits ==
    ASSUME NEW a \in ApduMessage, NEW c \in Command,
           ApduReply(a, c) = "Success",
           a.ins \notin ConfigInstructions
    PROVE  /\ BaseCommand(a, c) \in Command
           /\ Len(BaseCommand(a, c).message) + Len(Payload(a))
                    <= MAX_MESSAGE_LENGTH
  <1>1. PayloadReply(a, c) = "Success"
    BY DEF ApduReply
  <1>2. BaseCommand(a, c) \in Command
    BY ClearedIsCommand DEF BaseCommand
  <1>3. Len(BaseCommand(a, c).message) + Len(Payload(a)) <= MAX_MESSAGE_LENGTH
    <2>1. BaseCommand(a, c).message \in Seq(Token)
      BY <1>2, MessagesAreSequences DEF Command
    <2> QED
      BY <1>1, <2>1, PayloadIsData, ApduAssumption DEF PayloadReply
  <1> QED
    BY <1>2, <1>3

(* An accepted APDU leaves a well-formed command: the message still fits,  *)
(* the path is one the data holds.                                         *)
THEOREM ReceivedCommand ==
    ASSUME NEW a \in ApduMessage, NEW c \in Command,
           ApduReply(a, c) = "Success"
    PROVE  ApduCommand(a, c) \in Command
  <1> DEFINE base == BaseCommand(a, c)
             old == a.ins \in DeprecatedInstructions
             received ==
                [base EXCEPT !.instruction = a.ins,
                             !.non_confirm = a.nonConfirm,
                             !.deprecated_host = old]
  <1>1. base \in Command
    BY ClearedIsCommand DEF BaseCommand
  <1>2. received \in Command /\ received.message = base.message
    <2>1. a.ins \in InstructionCode /\ a.nonConfirm \in BOOLEAN
      BY DEF ApduReply, HeaderReply, ApduMessage
    <2>2. old \in BOOLEAN
      OBVIOUS
    <2> HIDE DEF base, old
    <2> QED
      BY <1>1, <2>1, <2>2 DEF Command
  <1>3. CASE a.ins \in ConfigInstructions
    <2>1. ApduCommand(a, c) = [received EXCEPT !.state = "PayloadComplete"]
      BY <1>3 DEF ApduCommand
    <2> HIDE DEF received
    <2> QED
      BY <1>2, <2>1 DEF Command, ApduState
  <1>4. CASE a.ins \notin ConfigInstructions
    <2>1. ApduCommand(a, c) =
            [received EXCEPT
                !.state = IF a.more THEN "PayloadInProgress"
                                    ELSE "PayloadComplete",
                !.num_derivation_paths = IF a.extend THEN @ ELSE 1,
                !.derivation_path =
                    IF a.extend THEN @ ELSE a.data[PathIndex(a)],
                !.message = @ \o Payload(a)]
      BY <1>4 DEF ApduCommand
    <2>2. base.message \o Payload(a) \in Messages
      <3>1. base.message \in Seq(Token)
        BY <1>1, MessagesAreSequences DEF Command
      <3>2. Payload(a) \in Seq(Token)
        BY <1>4, PayloadIsData
      <3>3. Len(base.message) + Len(Payload(a)) <= MAX_MESSAGE_LENGTH
        BY <1>4, BaseFits
      <3> HIDE DEF base
      <3>4. /\ base.message \o Payload(a) \in Seq(Token)
            /\ Len(base.message \o Payload(a)) <= MAX_MESSAGE_LENGTH
        BY <3>1, <3>2, <3>3
      <3> QED
        BY <3>4, MessagesAreSequences
    <2>3. a.extend \/ a.data[PathIndex(a)] \in Path
      BY <1>4, AcceptedPath
    <2> DEFINE state == IF a.more THEN "PayloadInProgress"
                                  ELSE "PayloadComplete"
               paths == IF a.extend THEN received.num_derivation_paths ELSE 1
               path == IF a.extend THEN received.derivation_path
                                   ELSE a.data[PathIndex(a)]
               message == received.message \o Payload(a)
    <2>4. /\ state \in ApduState
          /\ paths \in {0, 1}
          /\ path \in Path \cup {NoPath}
          /\ message \in Messages
      BY <1>2, <2>2, <2>3 DEF Command, ApduState
    <2>5. ApduCommand(a, c) =
            [received EXCEPT !.state = state, !.num_derivation_paths = paths,
                             !.derivation_path = path, !.message = message]
      BY <1>2, <2>1 DEF Command
    <2> HIDE DEF received, base, state, paths, path, message
    <2> QED
      BY <1>2, <2>4, <2>5 DEF Command
  <1> QED
    BY <1>3, <1>4

(* The command an APDU is received into takes the APDU's instruction.      *)
LEMMA AcceptedInstruction ==
    ASSUME NEW a \in ApduMessage, NEW c \in Command
    PROVE  ApduCommand(a, c).instruction = a.ins
  <1> DEFINE base == BaseCommand(a, c)
             old == a.ins \in DeprecatedInstructions
             received ==
                [base EXCEPT !.instruction = a.ins,
                             !.non_confirm = a.nonConfirm,
                             !.deprecated_host = old]
  <1>1. base \in Command
    BY ClearedIsCommand DEF BaseCommand
  <1>2. received.instruction = a.ins
    <2> HIDE DEF base, old
    <2> QED
      BY <1>1 DEF Command
  <1>3. DOMAIN received = DOMAIN base
    <2> HIDE DEF base, old
    <2> QED
      BY <1>1 DEF Command
  <1>4. CASE a.ins \in ConfigInstructions
    <2>1. ApduCommand(a, c) = [received EXCEPT !.state = "PayloadComplete"]
      BY <1>4 DEF ApduCommand
    <2> HIDE DEF received
    <2> QED
      BY <1>2, <2>1
  <1>5. CASE a.ins \notin ConfigInstructions
    <2>1. ApduCommand(a, c) =
            [received EXCEPT
                !.state = IF a.more THEN "PayloadInProgress"
                                    ELSE "PayloadComplete",
                !.num_derivation_paths = IF a.extend THEN @ ELSE 1,
                !.derivation_path =
                    IF a.extend THEN @ ELSE a.data[PathIndex(a)],
                !.message = @ \o Payload(a)]
      BY <1>5 DEF ApduCommand
    <2> HIDE DEF received
    <2> QED
      BY <1>2, <2>1
  <1> QED
    BY <1>4, <1>5

-----------------------------------------------------------------------------
(* Types of the operators.                                                 *)

Display == {"User", "Expert"}
PathOrNone == Path \cup {NoPath}

LEMMA ReplyTypes ==
    /\ \A sw \in StatusWord : Reply(sw) \in Replies
    /\ ConfigReply \in Replies
    /\ NoReply \in Replies
    /\ Pending \in Replies
    /\ \A p \in PathOrNone : PubkeyReply(p) \in Replies
    /\ \A p \in PathOrNone, m \in Messages : SignatureReply(p, m) \in Replies
  <1>1. \A sw \in StatusWord : Reply(sw) \in Replies
    BY EmptyMessage DEF Reply, Replies
  <1>2. Reply("Success") \in Replies
    BY <1>1 DEF StatusWord
  <1> QED
    BY <1>1, <1>2
    DEF ConfigReply, NoReply, Pending, PubkeyReply, SignatureReply, Replies,
        PathOrNone

LEMMA ReplyIsStatusWord ==
    ASSUME NEW a, NEW c
    PROVE  /\ ApduReply(a, c) \in StatusWord
           /\ TransactionReply(c) \in StatusWord
           /\ TextReply(c) \in StatusWord
  BY DEF ApduReply, HeaderReply, PathReply, PayloadReply, TransactionReply,
         TextReply, StatusWord

LEMMA Meanings ==
    ASSUME NEW m \in Messages
    PROVE  Tx[m] \in TxMeaning /\ Text[m] \in TextMeaning
  BY LedgerAppAssumption

(* The items of every summary, whatever the printers made of the message.  *)
LEMMA SummaryTypes ==
    ASSUME NEW m \in Messages, NEW d \in Display, NEW p
    PROVE  /\ BodySummary(m, d) \in Seq(SummaryItems)
           /\ TxSummary(m, p, d) \in Seq(SummaryItems)
           /\ TextSummary(m, d) \in Seq(SummaryItems)
           /\ ExpertTextItems \in Seq(SummaryItems)
  <1> DEFINE body == Tx[m].body[d]
  <1>1. /\ body.primary \in SummaryItems
        /\ body.general \in Seq(SummaryItems)
        /\ body.nonce \in Seq(SummaryItems)
    <2>1. body \in Body
      BY Meanings DEF TxMeaning, Display
    <2>2. \A s \in Seq(Item) : s \in Seq(SummaryItems)
      BY DEF SummaryItems
    <2> QED
      BY <2>1, <2>2 DEF Body, SummaryItems
  <1>2. \A i \in HandlerItems : <<i>> \in Seq(SummaryItems)
    BY DEF SummaryItems
  <1>3. BodySummary(m, d) \in Seq(SummaryItems)
    <2> HIDE DEF body
    <2>1. <<body.primary>> \o body.general \o body.nonce \in Seq(SummaryItems)
      BY <1>1
    <2> QED
      BY <2>1 DEF BodySummary, body
  <1>4. TxSummary(m, p, d) \in Seq(SummaryItems)
    <2> DEFINE primary == IF Tx[m].known THEN body.primary ELSE "Unrecognized"
               hash == IF Tx[m].known THEN <<>> ELSE <<"Message Hash">>
               feePayer == IF d = "Expert" \/ Tx[m].feePayer # p
                           THEN <<"Fee payer">> ELSE <<>>
    <2>1. primary \in SummaryItems
      BY <1>1 DEF HandlerItems, SummaryItems
    <2>3. /\ hash \in Seq(SummaryItems)
          /\ feePayer \in Seq(SummaryItems)
      <3>1. /\ <<"Message Hash">> \in Seq(SummaryItems)
            /\ <<"Fee payer">> \in Seq(SummaryItems)
        BY <1>2 DEF HandlerItems
      <3>2. <<>> \in Seq(SummaryItems)
        OBVIOUS
      <3> QED
        BY <3>1, <3>2
    <2>2. TxSummary(m, p, d) =
            <<primary>> \o body.general \o hash \o body.nonce \o feePayer
      BY DEF TxSummary
    <2> HIDE DEF primary, hash, feePayer, body
    <2> QED
      BY <1>1, <2>1, <2>2, <2>3
  <1>5. ExpertTextItems \in Seq(SummaryItems)
    BY DEF ExpertTextItems, SummaryItems, HandlerItems
  <1>6. TextSummary(m, d) \in Seq(SummaryItems)
    <2>1. "Signer" \in SummaryItems
      BY DEF SummaryItems, HandlerItems
    <2>2. Append(ExpertTextItems, "Signer") \in Seq(SummaryItems)
      BY <1>5, <2>1
    <2>3. <<"Sign">> \in Seq(SummaryItems) /\ <<"Sign", "Hash">> \in Seq(SummaryItems)
      BY DEF SummaryItems, HandlerItems
    <2> QED
      BY <2>2, <2>3 DEF TextSummary
  <1> QED
    BY <1>3, <1>4, <1>5, <1>6

(* The page of a text displays all of it, unless it is cut.                *)
LEMMA DisplayedText ==
    ASSUME NEW m \in Messages
    PROVE  /\ TextDisplayed(m) = IF TextIsCut(m) THEN TEXT_BUFFER_LENGTH - 1
                                                ELSE Text[m].length
           /\ TextDisplayed(m) \in Nat
  <1>1. Text[m].length \in Nat /\ TEXT_BUFFER_LENGTH \in Nat \ {0}
    BY Meanings, LedgerAppAssumption DEF TextMeaning
  <1>2. HaveNbgl \in BOOLEAN
    BY LedgerAppAssumption
  <1> QED
    BY <1>1, <1>2 DEF TextDisplayed, strlcpy, TextIsCut

(* What a displayable page shows.                                          *)
LEMMA ShownType ==
    ASSUME NEW f \in Flow, NEW items \in Seq(SummaryItems),
           NEW c \in Command, NEW key \in PathOrNone, NEW n \in Nat,
           Displayable(f, items, n)
    PROVE  Shown(f, items, c, key, n) \in PageRecords
  <1>1. PageItem(f, items, n) \in SummaryItems \cup {"Pubkey", "Message"}
    BY DEF PageItem, Displayable
  <1> QED
    BY <1>1, EmptyMessage, DisplayedText
    DEF Shown, PageRecords, Command, PathOrNone

(* Starting a review.                                                      *)
LEMMA StartReviewTypes ==
    ASSUME NEW f \in Flow, NEW items \in Seq(SummaryItems),
           NEW c \in Command, NEW key \in PathOrNone,
           StartReview(f, items, c, key)
    PROVE  /\ screen' \in Screens
           /\ flow' \in Flow
           /\ page' \in Nat
           /\ shown' \subseteq PageRecords
           /\ out' \in Replies
  <1>1. Reply("SummaryUpdateFailed") \in Replies /\ Pending \in Replies
    BY ReplyTypes DEF StatusWord
  <1>2. NoFlow \in Flow
    BY DEF NoFlow, Flow
  <1>3. ~HaveNbgl /\ Displayable(f, items, 1) =>
            Shown(f, items, c, key, 1) \in PageRecords
    BY ShownType
  <1> QED
    BY <1>1, <1>2, <1>3 DEF StartReview, Screens, FirstPage, NoReview
-----------------------------------------------------------------------------
(* Type correctness.                                                       *)

ExitReason == {"none", "power", "quit", "io_reset", "lib_end", "safety"}

(* What receiving an accepted APDU makes of the command and the upload.    *)
LEMMA AcceptTypes ==
    ASSUME TypeOK, NEW a \in HostApdus, NEW st, Accept(a, st)
    PROVE  /\ ApduCommand(a, cmd) \in Command
           /\ upload' \in Uploads
  <1>1. a \in ApduMessage
    BY LedgerAppAssumption
  <1>2. ApduCommand(a, cmd) \in Command
    BY <1>1, ReceivedCommand DEF TypeOK, Accept
  <1>3. upload' \in Uploads
    <2>1. CASE a.ins \notin SignInstructions
      BY <2>1 DEF Accept, UploadAfter, NoUpload, Uploads
    <2>2. CASE a.ins \in SignInstructions
      <3>1. /\ a.ins \in InstructionCode \ ConfigInstructions
            /\ a.more \in BOOLEAN
        BY <1>1, <2>2 DEF ApduMessage, SignInstructions, TransactionInstructions,
                          ConfigInstructions, InstructionCode
      <3>2. Payload(a) \in Seq(Token)
        BY <1>1, <3>1, PayloadIsData DEF Accept
      <3>3. ~a.extend => a.data[PathIndex(a)] \in Path
        BY <1>1, <3>1, AcceptedPath DEF Accept
      <3>4. upload.message \in Seq(Token) /\ upload \in Uploads
        BY DEF TypeOK, Uploads
      <3>5. upload.message \o Payload(a) \in Seq(Token)
        BY <3>2, <3>4
      <3>6. NoUpload \in Uploads
        BY DEF NoUpload, Uploads
      <3> QED
        BY <3>1, <3>2, <3>3, <3>4, <3>5, <3>6
        DEF Accept, UploadAfter, Uploads
    <2> QED
      BY <2>1, <2>2
  <1> QED
    BY <1>2, <1>3

(* Starting and stopping.                                                  *)
LEMMA LifecycleTypes ==
    ASSUME TypeOK
    PROVE  /\ InitializedStorage \in Storage
           /\ \A s \in Storage : SwitchesOf(s) \in Switches
           /\ \A s \in Storage : IdleSwitches(s) \in Switches
           /\ AllOff \in Switches
           /\ NoFlow \in Flow
           /\ NoUpload \in Uploads
  <1>1. InitializedStorage \in Storage
    BY DEF InitializedStorage, Storage, TypeOK
  <1>2. \A s \in Storage : SwitchesOf(s) \in Switches
    <2> SUFFICES ASSUME NEW s \in Storage, NEW k \in Setting
                 PROVE  SwitchesOf(s)[k] \in BOOLEAN
      BY Zenon DEF SwitchesOf, Switches
    <2>1. s.allow_blind_sign \in BOOLEAN
      BY DEF Storage
    <2> QED
      BY <2>1, Zenon DEF SwitchesOf, Setting
  <1>3. \A s \in Storage : IdleSwitches(s) \in Switches
    BY <1>2 DEF IdleSwitches, TypeOK
  <1>4. AllOff \in Switches /\ NoFlow \in Flow /\ NoUpload \in Uploads
    BY DEF AllOff, Switches, NoFlow, Flow, NoUpload, Uploads
  <1> QED
    BY <1>1, <1>2, <1>3, <1>4

LEMMA StopTypes ==
    ASSUME TypeOK, NEW reason \in ExitReason, NEW reply \in Replies,
           Stop(reason, reply), swap' \in Swaps, upload' \in Uploads
    PROVE  TypeOK'
  BY LifecycleTypes, ClearedIsCommand
  DEF Stop, TypeOK, ExitReason, GlobalsReset, NoReview, Screens

(* Replying from a review.                                                 *)
LEMMA SendResponseTypes ==
    ASSUME TypeOK, NEW reply \in Replies, NEW ok \in BOOLEAN,
           SendResponse(reply, ok)
    PROVE  TypeOK'
  <1>1. CASE FinalizeSwap(reply, ok)
    <2>1. swap' \in Swaps
      BY <1>1 DEF FinalizeSwap, TypeOK, Swaps
    <2>2. "lib_end" \in ExitReason
      BY DEF ExitReason
    <2>3. upload' \in Uploads
      BY DEF SendResponse, TypeOK
    <2> QED
      BY <1>1, <2>1, <2>2, <2>3, StopTypes DEF FinalizeSwap
  <1>2. CASE ~FinalizeSwap(reply, ok)
    BY <1>2, LifecycleTypes
    DEF SendResponse, TypeOK, device, NoReview, Screens
  <1> QED
    BY <1>1, <1>2

LEMMA DisplayPageTypes ==
    ASSUME TypeOK, NEW n \in Nat, DisplayPage(n)
    PROVE  TypeOK'
  <1>1. Displayable(flow, summary, n) =>
            Shown(flow, summary, cmd, pubkey, n) \in PageRecords
    BY ShownType DEF TypeOK, PathOrNone
  <1>2. Reply("SummaryUpdateFailed") \in Replies
    BY ReplyTypes DEF StatusWord
  <1>3. shown' \subseteq PageRecords
    BY <1>1 DEF DisplayPage, TypeOK
  <1>4. out' \in Replies
    BY <1>2 DEF DisplayPage, TypeOK
  <1> QED
    BY <1>3, <1>4 DEF DisplayPage, TypeOK, device

(* The globals of the message handlers keep their types.                   *)
LEMMA HandlerTypes ==
    ASSUME TypeOK, NEW c \in Command
    PROVE  /\ ParsedTransaction(c) \in Command
           /\ HashedText(c) \in Command
           /\ BodySummary(c.message, storage.display_mode) \in Seq(SummaryItems)
           /\ TxSummary(c.message, c.derivation_path, storage.display_mode)
                    \in Seq(SummaryItems)
           /\ TextSummary(c.message, storage.display_mode)
                    \in Seq(SummaryItems)
           /\ ExpertTextItems \in Seq(SummaryItems)
           /\ \A items \in Seq(SummaryItems) :
                    /\ TransactionFlow(items) \in Flow
                    /\ TextFlow(items, c.message) \in Flow
  <1>1. c.message \in Messages /\ storage.display_mode \in Display
    BY DEF Command, TypeOK, Storage, Display
  <1>2. /\ ParsedTransaction(c) \in Command
        /\ HashedText(c) \in Command
    BY <1>1 DEF ParsedTransaction, HashedText, Command
  <1>3. \A items \in Seq(SummaryItems) :
            /\ TransactionFlow(items) \in Flow
            /\ TextFlow(items, c.message) \in Flow
    BY DEF TransactionFlow, TextFlow, Flow, IsAscii
  <1> QED
    BY <1>1, <1>2, <1>3, SummaryTypes

(* An APDU that completes a command.                                       *)
LEMMA CompleteTypes ==
    ASSUME TypeOK, NEW a \in HostApdus, NEW I, Complete(a, I)
    PROVE  /\ ApduCommand(a, cmd) \in Command
           /\ ParsedTransaction(ApduCommand(a, cmd)) \in Command
           /\ HashedText(ApduCommand(a, cmd)) \in Command
           /\ upload' \in Uploads
  BY AcceptTypes, HandlerTypes DEF Complete

LEMMA LifecycleStep ==
    ASSUME TypeOK,
           Launch \/ (\E p \in SwapParams : LaunchSwap(p)) \/ UsbUnplugged
           \/ PowerCut \/ Quit
    PROVE  TypeOK'
  <1>1. CASE Launch
    <2>1. InitSwap \in Swaps
      BY DEF InitSwap, Swaps
    <2> QED
      BY <1>1, <2>1, LifecycleTypes, ReplyTypes DEF Launch, TypeOK, Screens
  <1>2. CASE \E p \in SwapParams : LaunchSwap(p)
    <2>1. \A p \in SwapParams : [InitSwap EXCEPT !.validated = p] \in Swaps
      BY DEF InitSwap, Swaps
    <2> QED
      BY <1>2, <2>1, LifecycleTypes, ReplyTypes DEF LaunchSwap, TypeOK, Screens
  <1>3. CASE UsbUnplugged
    <2>1. CASE mode = "app"
      BY <1>3, <2>1, LifecycleTypes, ReplyTypes, ClearedIsCommand
      DEF UsbUnplugged, TypeOK, Screens, GlobalsReset, NoReview
    <2>2. CASE mode # "app"
      <3>1. /\ "io_reset" \in ExitReason
            /\ swap' \in Swaps
            /\ upload' \in Uploads
        BY <1>3, <2>2, LifecycleTypes DEF UsbUnplugged, TypeOK, ExitReason
      <3> QED
        BY <1>3, <2>2, <3>1, StopTypes, ReplyTypes DEF UsbUnplugged
    <2> QED
      BY <2>1, <2>2
  <1>4. CASE PowerCut
    <2>1. /\ "power" \in ExitReason
          /\ swap' \in Swaps
          /\ upload' \in Uploads
      BY <1>4, LifecycleTypes DEF PowerCut, TypeOK, ExitReason
    <2> QED
      BY <1>4, <2>1, StopTypes, ReplyTypes DEF PowerCut
  <1>5. CASE Quit
    <2>1. /\ "quit" \in ExitReason
          /\ swap' \in Swaps
          /\ upload' \in Uploads
          /\ out \in Replies
      BY <1>5, LifecycleTypes DEF Quit, TypeOK, ExitReason
    <2> QED
      BY <1>5, <2>1, StopTypes DEF Quit
  <1> QED
    BY <1>1, <1>2, <1>3, <1>4, <1>5

LEMMA HostStep ==
    ASSUME TypeOK, Host
    PROVE  TypeOK'
  <1>1. CASE EmptyApdu
    BY <1>1, ReplyTypes DEF EmptyApdu, TypeOK, StatusWord, device, view
  <1> SUFFICES ASSUME NEW a \in HostApdus,
                      \/ RejectApdu(a)
                      \/ StoreChunk(a)
                      \/ GetAppConfiguration(a)
                      \/ GetPubkeyRefused(a)
                      \/ GetPubkeySilently(a)
                      \/ ReviewPubkey(a)
                      \/ SignTransactionRefused(a)
                      \/ ReviewTransaction(a)
                      \/ SignTextRefused(a)
                      \/ ReviewText(a)
                      \/ \E fault \in CxFaults : SignSwap(a, fault)
                      \/ SignSwapAgain(a)
               PROVE  TypeOK'
    BY <1>1 DEF Host
  <1> DEFINE c == ApduCommand(a, cmd)
  <1>2. CASE RejectApdu(a)
    <2>1. Reply(ApduReply(a, cmd)) \in Replies
      BY ReplyTypes, ReplyIsStatusWord
    <2> QED
      BY <1>2, <2>1, ClearedIsCommand, LifecycleTypes
      DEF RejectApdu, TypeOK, device, view
  <1>3. CASE StoreChunk(a)
    BY <1>3, AcceptTypes, ReplyTypes
    DEF StoreChunk, TypeOK, StatusWord, device, view
  <1>4. CASE GetAppConfiguration(a)
    BY <1>4, CompleteTypes, ReplyTypes
    DEF GetAppConfiguration, TypeOK, device, view
  <1>5. CASE GetPubkeyRefused(a)
    BY <1>5, CompleteTypes, ReplyTypes
    DEF GetPubkeyRefused, TypeOK, StatusWord, device, view
  <1>6. CASE GetPubkeySilently(a)
    <2>1. c \in Command /\ upload' \in Uploads
      BY <1>6, CompleteTypes DEF GetPubkeySilently
    <2>2. c.derivation_path \in PathOrNone
      BY <2>1 DEF Command, PathOrNone
    <2> QED
      BY <1>6, <2>1, <2>2, ReplyTypes
      DEF GetPubkeySilently, TypeOK, device, view, PathOrNone
  <1>7. CASE ReviewPubkey(a)
    <2>1. c \in Command /\ upload' \in Uploads
      BY <1>7, CompleteTypes DEF ReviewPubkey
    <2>2. c.derivation_path \in PathOrNone /\ PubkeyFlow \in Flow
      BY <2>1 DEF Command, PathOrNone, PubkeyFlow, Flow
    <2>3. /\ cmd' = c /\ pubkey' = c.derivation_path
          /\ StartReview(PubkeyFlow, summary, c, c.derivation_path)
      BY <1>7 DEF ReviewPubkey
    <2>4. /\ screen' \in Screens /\ flow' \in Flow /\ page' \in Nat
          /\ shown' \subseteq PageRecords /\ out' \in Replies
      BY <2>1, <2>2, <2>3, StartReviewTypes DEF TypeOK
    <2> QED
      BY <1>7, <2>1, <2>2, <2>3, <2>4
      DEF ReviewPubkey, TypeOK, device, PathOrNone
  <1>8. CASE SignTransactionRefused(a)
    <2>1. c \in Command /\ upload' \in Uploads
      BY <1>8, CompleteTypes DEF SignTransactionRefused
    <2>2. BodySummary(c.message, storage.display_mode) \in Seq(SummaryItems)
      BY <2>1, HandlerTypes
    <2>3. Reply(TransactionReply(c)) \in Replies
      BY ReplyTypes, ReplyIsStatusWord
    <2> QED
      BY <1>8, <2>1, <2>2, <2>3
      DEF SignTransactionRefused, TypeOK, device, view
  <1>9. CASE ReviewTransaction(a)
    <2> DEFINE d == ParsedTransaction(c)
               items == TxSummary(d.message, d.derivation_path,
                                  storage.display_mode)
    <2>1. d \in Command /\ upload' \in Uploads
      BY <1>9, CompleteTypes DEF ReviewTransaction, SignTransactionParsed
    <2>2. items \in Seq(SummaryItems) /\ TransactionFlow(items) \in Flow
      BY <2>1, HandlerTypes
    <2>3. /\ cmd' = d /\ summary' = items
          /\ StartReview(TransactionFlow(items), items, d, pubkey)
      BY <1>9 DEF ReviewTransaction
    <2>4. /\ screen' \in Screens /\ flow' \in Flow /\ page' \in Nat
          /\ shown' \subseteq PageRecords /\ out' \in Replies
      <3>1. pubkey \in PathOrNone
        BY DEF TypeOK, PathOrNone
      <3> HIDE DEF d, items
      <3> QED
        BY <2>1, <2>2, <2>3, <3>1, StartReviewTypes
    <2> QED
      BY <1>9, <2>1, <2>2, <2>3, <2>4
      DEF ReviewTransaction, TypeOK, device
  <1>10. CASE SignTextRefused(a)
    <2>1. c \in Command /\ HashedText(c) \in Command /\ upload' \in Uploads
      BY <1>10, CompleteTypes DEF SignTextRefused
    <2>2. ExpertTextItems \in Seq(SummaryItems)
      BY <2>1, HandlerTypes
    <2>3. Reply(TextReply(c)) \in Replies
      BY ReplyTypes, ReplyIsStatusWord
    <2> QED
      BY <1>10, <2>1, <2>2, <2>3
      DEF SignTextRefused, TypeOK, device, view
  <1>11. CASE ReviewText(a)
    <2> DEFINE d == HashedText(c)
               items == TextSummary(d.message, storage.display_mode)
    <2>1. d \in Command /\ upload' \in Uploads
      BY <1>11, CompleteTypes DEF ReviewText
    <2>2. items \in Seq(SummaryItems) /\ TextFlow(items, d.message) \in Flow
      BY <2>1, HandlerTypes
    <2>3. /\ cmd' = d /\ summary' = items
          /\ StartReview(TextFlow(items, d.message), items, d, pubkey)
      BY <1>11 DEF ReviewText
    <2>4. /\ screen' \in Screens /\ flow' \in Flow /\ page' \in Nat
          /\ shown' \subseteq PageRecords /\ out' \in Replies
      <3>1. pubkey \in PathOrNone
        BY DEF TypeOK, PathOrNone
      <3> HIDE DEF d, items
      <3> QED
        BY <2>1, <2>2, <2>3, <3>1, StartReviewTypes
    <2> QED
      BY <1>11, <2>1, <2>2, <2>3, <2>4
      DEF ReviewText, TypeOK, device
  <1>12. ASSUME NEW fault \in CxFaults, SignSwap(a, fault)
         PROVE  TypeOK'
    <2> DEFINE d == ParsedTransaction(c)
               items == TxSummary(d.message, d.derivation_path,
                                  storage.display_mode)
    <2>1. d \in Command /\ upload' \in Uploads
      BY <1>12, CompleteTypes DEF SignSwap, SignTransactionParsed
    <2>2. items \in Seq(SummaryItems)
      BY <2>1, HandlerTypes
    <2>3. SignatureReply(d.derivation_path, d.message) \in Replies
      BY <2>1, ReplyTypes DEF Command, PathOrNone
    <2>4. /\ Reply("CxError") \in Replies
          /\ Reply("SummaryFinalizeFailed") \in Replies
      BY ReplyTypes DEF StatusWord
    <2>5. "lib_end" \in ExitReason
      BY DEF ExitReason
    <2>6. swap' \in Swaps
      BY <1>12 DEF SignSwap, FinalizeSwap, TypeOK, Swaps
    <2>7. \/ Stop("lib_end", SignatureReply(d.derivation_path, d.message))
          \/ Stop("lib_end", Reply("SummaryFinalizeFailed"))
          \/ /\ out' = Reply("CxError")
             /\ cmd' = d
             /\ summary' = items
             /\ UNCHANGED <<mode, exit, storage, switches, view, pubkey>>
      BY <1>12 DEF SignSwap, FinalizeSwap
    <2>8. CASE /\ out' = Reply("CxError")
               /\ cmd' = d
               /\ summary' = items
               /\ UNCHANGED <<mode, exit, storage, switches, view, pubkey>>
      <3> HIDE DEF d, items
      <3> QED
        BY <2>1, <2>2, <2>4, <2>6, <2>8 DEF TypeOK, view
    <2> HIDE DEF d, items
    <2> QED
      BY <2>1, <2>3, <2>4, <2>5, <2>6, <2>7, <2>8, StopTypes
  <1>13. CASE SignSwapAgain(a)
    <2>1. /\ "safety" \in ExitReason
          /\ swap' \in Swaps
          /\ upload' \in Uploads
      BY <1>13, CompleteTypes
      DEF SignSwapAgain, SignTransactionParsed, TypeOK, ExitReason
    <2> QED
      BY <1>13, <2>1, StopTypes, ReplyTypes DEF SignSwapAgain
  <1> QED
    BY <1>2, <1>3, <1>4, <1>5, <1>6, <1>7, <1>8, <1>9, <1>10, <1>11, <1>12,
       <1>13

LEMMA UserStep ==
    ASSUME TypeOK, User
    PROVE  TypeOK'
  <1>1. CASE NextPage
    BY <1>1, DisplayPageTypes DEF NextPage, TypeOK
  <1>2. CASE PrevPage
    <2>1. page - 1 \in Nat
      BY <1>2 DEF PrevPage, FirstPage, TypeOK
    <2> QED
      BY <1>2, <2>1, DisplayPageTypes DEF PrevPage
  <1>3. ASSUME NEW fault \in CxFaults, Approve(fault)
        PROVE  TypeOK'
    <2>1. /\ PubkeyReply(pubkey) \in Replies
          /\ SignatureReply(cmd.derivation_path, cmd.message) \in Replies
          /\ Reply("CxError") \in Replies
      BY ReplyTypes DEF TypeOK, Command, PathOrNone, StatusWord
    <2>2. CASE SendResponse(PubkeyReply(pubkey), TRUE)
      BY <2>1, <2>2, SendResponseTypes
    <2>3. CASE SendResponse(SignatureReply(cmd.derivation_path, cmd.message),
                            TRUE)
      BY <2>1, <2>3, SendResponseTypes
    <2>4. CASE /\ out' = Reply("CxError")
               /\ shown' = {}
               /\ UNCHANGED <<device, screen, flow, page, cmd, pubkey,
                              summary, upload>>
      BY <2>1, <2>4 DEF TypeOK, device
    <2> QED
      BY <1>3, <2>2, <2>3, <2>4 DEF Approve
  <1>4. CASE Reject
    BY <1>4, SendResponseTypes, ReplyTypes DEF Reject, StatusWord
  <1>5. ASSUME NEW ok \in BOOLEAN, DecideAnswered(ok)
        PROVE  TypeOK'
    BY <1>5, SendResponseTypes DEF DecideAnswered, TypeOK
  <1>6. CASE StatusDone \/ OpenSettings \/ CloseSettings
    BY <1>6, LifecycleTypes
    DEF StatusDone, OpenSettings, CloseSettings, TypeOK, Screens, device
  <1>7. \A s \in Setting, on \in BOOLEAN : WithSetting(s, on) \in Storage
    BY DEF WithSetting, Setting, Storage, TypeOK
  <1>8. UserSettings \subseteq Setting
    BY LedgerAppAssumption
  <1>9. ASSUME NEW s \in UserSettings, NEW on \in BOOLEAN, SelectSetting(s, on)
        PROVE  TypeOK'
    BY <1>7, <1>8, <1>9 DEF SelectSetting, TypeOK, view
  <1>10. ASSUME NEW s \in UserSettings, ToggleSetting(s)
         PROVE  TypeOK'
    <2>1. switches[s] \in BOOLEAN
      BY <1>8 DEF TypeOK, Switches
    <2>2. [switches EXCEPT ![s] = ~@] \in Switches
      BY <1>8, Zenon DEF TypeOK, Switches
    <2> QED
      BY <1>7, <1>8, <1>10, <2>1, <2>2 DEF ToggleSetting, TypeOK, view
  <1>11. CASE Quit
    BY <1>11, LifecycleStep
  <1> QED
    BY <1>1, <1>2, <1>3, <1>4, <1>5, <1>6, <1>9, <1>10, <1>11 DEF User

LEMMA TypeInit == Init => TypeOK
  <1>1. AllOff \in Switches /\ NoFlow \in Flow /\ NoUpload \in Uploads
    BY DEF AllOff, Switches, NoFlow, Flow, NoUpload, Uploads
  <1>2. InitSwap \in Swaps
    BY DEF InitSwap, Swaps
  <1> QED
    BY <1>1, <1>2, ClearedIsCommand, ReplyTypes
    DEF Init, TypeOK, Storage, Screens

(* Every step keeps every variable within its type: in particular the      *)
(* message buffer never holds more than MAX_MESSAGE_LENGTH words, and what *)
(* a page displays or a reply carries is always a value of the program.    *)
THEOREM TypeCorrect == Spec => []TypeOK
  <1>1. TypeOK /\ [Next]_vars => TypeOK'
    <2> SUFFICES ASSUME TypeOK, [Next]_vars
                 PROVE  TypeOK'
      OBVIOUS
    <2>1. CASE UNCHANGED vars
      BY <2>1 DEF vars, TypeOK
    <2>2. CASE Next
      BY <2>2, HostStep, UserStep, LifecycleStep DEF Next, Environment
    <2> QED
      BY <2>1, <2>2
  <1> QED
    BY <1>1, TypeInit, PTL DEF Spec
=============================================================================
