-------------------------------- MODULE Apdu --------------------------------
(***************************************************************************)
(* The APDU receiver of the application (src/apdu.c): how one APDU read    *)
(* from the transport updates the command under assembly, G_command.       *)
(*                                                                         *)
(* The data field of an APDU is a sequence of tokens, one for each field   *)
(* the receiver parses: the number of derivation paths, a derivation path, *)
(* the u16 length of the deprecated SignMessage, and then the words of the *)
(* message.  A token that is not the one a field accepts stands for every  *)
(* malformed value of that field.  The receiver's two results, the reply   *)
(* and the new command, are the operators ApduReply and ApduCommand.       *)
(***************************************************************************)
EXTENDS Integers, Sequences

CONSTANTS
    Path,               \* derivation paths the host may name
    NoPath,             \* derivation_path_length = 0
    Word,               \* units of message data that are no field
    OnePath,            \* the byte 1: "one derivation path follows"
    TruncatedPath,      \* a path whose data ends before its declared length
    DataLength,         \* a u16 length equal to the data that follows it
    MAX_MESSAGE_LENGTH  \* capacity of G_command.message, in words

ASSUME ApduAssumption ==
    /\ MAX_MESSAGE_LENGTH \in Nat
    /\ NoPath \notin Path
    /\ OnePath \notin Path
    /\ TruncatedPath \notin Path

-----------------------------------------------------------------------------
(* Instructions and replies.                                               *)

ConfigInstructions ==
    {"DeprecatedGetAppConfiguration", "GetAppConfiguration"}
PubkeyInstructions == {"DeprecatedGetPubkey", "GetPubkey"}
TransactionInstructions == {"DeprecatedSignMessage", "SignMessage"}
SignInstructions == TransactionInstructions \cup {"SignOffchainMessage"}

DeprecatedInstructions ==
    {"DeprecatedGetAppConfiguration", "DeprecatedGetPubkey",
     "DeprecatedSignMessage"}

InstructionCode ==
    ConfigInstructions \cup PubkeyInstructions \cup SignInstructions

StatusWord ==
    {"Success", "SdkInvalidParameter", "SdkNotSupported", "NoApduReceived",
     "UserRefusal", "InvalidMessage", "InvalidMessageHeader",
     "InvalidMessageFormat", "InvalidMessageSize", "SummaryFinalizeFailed",
     "SummaryUpdateFailed", "UnimplementedInstruction", "CxError"}

(* Whatever the fields leave of the data is message: any token may be one  *)
(* of its words.                                                           *)
Token == Word \cup Path \cup {OnePath, TruncatedPath, DataLength}

(* An APDU as the receiver sees it.  `length' tells how the number of      *)
(* bytes received relates to the header: too few for class and             *)
(* instruction, different from what the header announces, or exact.        *)
ApduMessage ==
    [claOk: BOOLEAN, ins: InstructionCode \cup {"Unknown"},
     length: {"truncated", "mismatch", "exact"},
     nonConfirm: BOOLEAN, extend: BOOLEAN, more: BOOLEAN,
     data: Seq(Token)]

-----------------------------------------------------------------------------
(* The command under assembly.                                             *)

Messages == UNION {[1..n -> Token] : n \in 0..MAX_MESSAGE_LENGTH}

ApduState == {"Uninitialized", "PayloadInProgress", "PayloadComplete"}

(* message_hash is the message it was computed from; <<>> is the zeroed    *)
(* hash.  A cleared command has instruction code 0, written "None".        *)
Command ==
    [state: ApduState, instruction: InstructionCode \cup {"None"},
     num_derivation_paths: {0, 1}, derivation_path: Path \cup {NoPath},
     non_confirm: BOOLEAN, deprecated_host: BOOLEAN,
     message: Messages, message_hash: Messages]

ClearedCommand ==
    [state |-> "Uninitialized", instruction |-> "None",
     num_derivation_paths |-> 0, derivation_path |-> NoPath,
     non_confirm |-> FALSE, deprecated_host |-> FALSE,
     message |-> <<>>, message_hash |-> <<>>]

-----------------------------------------------------------------------------
(* The fields of the data.                                                 *)

(* The modern signing instructions announce the number of paths first.     *)
HasPathCount(a) == a.ins \in {"SignMessage", "SignOffchainMessage"}

PathIndex(a) == IF HasPathCount(a) THEN 2 ELSE 1

AfterPath(a) ==
    IF a.extend THEN a.data
                ELSE SubSeq(a.data, PathIndex(a) + 1, Len(a.data))

(* What is copied to the message buffer: the rest of the data, without the *)
(* length prefix every deprecated SignMessage chunk carries.               *)
Payload(a) ==
    IF a.ins = "DeprecatedSignMessage" THEN Tail(AfterPath(a))
                                       ELSE AfterPath(a)

(* Mutant of ContinuesCommand: a complete command may be extended.         *)
ContinuesAnyCommand(a, cmd) ==
    /\ cmd.instruction = a.ins
    /\ cmd.non_confirm = a.nonConfirm
    /\ cmd.deprecated_host = (a.ins \in DeprecatedInstructions)
    /\ cmd.num_derivation_paths = 1

(* An EXTEND chunk must continue the command that is in progress.          *)
ContinuesCommand(a, cmd) ==
    /\ cmd.state = "PayloadInProgress"
    /\ cmd.instruction = a.ins
    /\ cmd.non_confirm = a.nonConfirm
    /\ cmd.deprecated_host = (a.ins \in DeprecatedInstructions)
    /\ cmd.num_derivation_paths = 1

(* The command the chunk is added to.                                      *)
BaseCommand(a, cmd) ==
    IF a.extend /\ a.ins \in SignInstructions THEN cmd ELSE ClearedCommand

-----------------------------------------------------------------------------
(* The reply of each stage of the receiver.                                *)

HeaderReply(a) ==
    IF a.length = "truncated" THEN "InvalidMessageSize"
    ELSE IF ~a.claOk THEN "InvalidMessageHeader"
    ELSE IF a.ins \notin InstructionCode THEN "UnimplementedInstruction"
    ELSE IF a.length = "mismatch" THEN "InvalidMessageSize"
    ELSE "Success"

(* Mutant of PathReply: the path may end after the data.                   *)
PathReplyUnbounded(a) ==
    IF a.data = <<>>
    THEN IF HasPathCount(a) THEN "InvalidMessageSize" ELSE "SdkInvalidParameter"
    ELSE IF HasPathCount(a) /\ a.data[1] # OnePath THEN "InvalidMessage"
    ELSE IF PathIndex(a) \notin DOMAIN a.data THEN "InvalidMessageSize"
    ELSE "Success"

(* read_derivation_path: no data at all is an invalid parameter, no data   *)
(* left after the number of paths a bad size.                              *)
PathReply(a) ==
    IF a.data = <<>>
    THEN IF HasPathCount(a) THEN "InvalidMessageSize" ELSE "SdkInvalidParameter"
    ELSE IF HasPathCount(a) /\ a.data[1] # OnePath THEN "InvalidMessage"
    ELSE IF PathIndex(a) \notin DOMAIN a.data THEN "InvalidMessageSize"
    ELSE IF a.data[PathIndex(a)] = TruncatedPath THEN "InvalidMessageSize"
    ELSE IF a.data[PathIndex(a)] \notin Path THEN "InvalidMessage"
    ELSE "Success"

PayloadReply(a, cmd) ==
    IF a.ins = "DeprecatedSignMessage" /\ AfterPath(a) = <<>>
    THEN "InvalidMessageSize"
    ELSE IF a.ins = "DeprecatedSignMessage" /\ AfterPath(a)[1] # DataLength
    THEN "InvalidMessageSize"
    ELSE IF Len(BaseCommand(a, cmd).message) + Len(Payload(a))
                > MAX_MESSAGE_LENGTH
    THEN "InvalidMessageSize"
    ELSE IF a.extend /\ a.data = <<>> /\ a.ins \in SignInstructions
    THEN "InvalidMessageSize"
    ELSE "Success"

(* apdu_handle_message: the return value.                                  *)
ApduReply(a, cmd) ==
    IF HeaderReply(a) # "Success" THEN HeaderReply(a)
    ELSE IF a.ins \in ConfigInstructions THEN "Success"
    ELSE IF /\ a.extend
            /\ a.ins \in SignInstructions
            /\ ~ContinuesCommand(a, cmd)
    THEN "InvalidMessage"
    ELSE IF ~a.extend /\ PathReply(a) # "Success" THEN PathReply(a)
    ELSE PayloadReply(a, cmd)

(* apdu_handle_message: the command, when it returns Success.  (On an      *)
(* error handleApdu clears the command, whatever was written to it.)       *)
ApduCommand(a, cmd) ==
    LET received ==
            [BaseCommand(a, cmd) EXCEPT
                !.instruction = a.ins,
                !.non_confirm = a.nonConfirm,
                !.deprecated_host = (a.ins \in DeprecatedInstructions)]
    IN  IF a.ins \in ConfigInstructions
        THEN [received EXCEPT !.state = "PayloadComplete"]
        ELSE [received EXCEPT
                !.state = IF a.more THEN "PayloadInProgress"
                                    ELSE "PayloadComplete",
                !.num_derivation_paths = IF a.extend THEN @ ELSE 1,
                !.derivation_path =
                    IF a.extend THEN @ ELSE a.data[PathIndex(a)],
                !.message = @ \o Payload(a)]
=============================================================================
