----------------------------- MODULE MCLedgerApp -----------------------------
(***************************************************************************)
(* A small instance of LedgerApp: two paths, one of which can be derived,  *)
(* messages of at most two words and, for each, a meaning that sends it    *)
(* through a different branch of the handlers.                             *)
(***************************************************************************)
EXTENDS LedgerAppProps, FiniteSets, TLC

CONSTANTS p1, p2, one, cut, len, w1, w2, w3

MCPath == {p1, p2}
MCWord == {w1, w2, w3}

(* Items of the printers.                                                  *)
MCItem == {"Transfer 1", "Recipient R", "Sender", "Amount", "Nonce account"}

NoBody == [primary |-> "Unset", general |-> <<>>, nonce |-> <<>>]
BodyOf(user, expert) == [d \in {"User", "Expert"} |->
                            IF d = "User" THEN user ELSE expert]

Malformed == [wellFormed |-> FALSE, signers |-> {}, feePayer |-> OtherKey,
              known |-> FALSE, body |-> BodyOf(NoBody, NoBody)]

(* A transfer the signer pays for: two items, three for an expert.         *)
Transfer ==
    LET items == [primary |-> "Transfer 1", general |-> <<"Recipient R">>,
                  nonce |-> <<>>]
    IN  [wellFormed |-> TRUE, signers |-> {p1, p2}, feePayer |-> p1,
         known |-> TRUE,
         body |-> BodyOf(items, [items EXCEPT !.general =
                                    <<"Sender", "Recipient R">>])]

(* The same transfer, paid by another key: one more item.                  *)
SponsoredTransfer == [Transfer EXCEPT !.feePayer = OtherKey]

(* A known transaction whose second item cannot be printed.                *)
Unprintable ==
    LET items == [primary |-> "Transfer 1", general |-> <<"Amount">>,
                  nonce |-> <<>>]
    IN  [Transfer EXCEPT !.body = BodyOf(items, items)]

(* An unknown transaction with a durable nonce, shown to experts.          *)
Unknown ==
    [Transfer EXCEPT
        !.known = FALSE,
        !.body = BodyOf(NoBody, [NoBody EXCEPT !.nonce = <<"Nonce account">>])]

MCTx == [m \in Messages |->
            CASE m = <<w1>> -> Transfer
              [] m = <<w1, w2>> -> SponsoredTransfer
              [] m = <<w2>> -> Unprintable
              [] m = <<w3>> -> Unknown
              [] OTHER -> Malformed]

(* What the messages are as off-chain messages: their bytes, for a signing *)
(* domain of one byte.  Two texts in ASCII, of which a touch screen can    *)
(* display the first as a whole, a long one in UTF-8, a short one in       *)
(* UTF-8, and bytes that are no text.                                      *)
Offchain == INSTANCE OffchainMessage WITH
                Domain <- <<255>>,
                OFFCHAIN_MESSAGE_HEADER_LENGTH <- 5,
                MAX_OFFCHAIN_MESSAGE_LENGTH <- 3

TextBytes(m) ==
    CASE m = <<w1>> -> <<255, 0, 0, 2, 0, 72, 105>>
      [] m = <<w1, w1>> -> <<255, 0, 0, 3, 0, 72, 101, 121>>
      [] m = <<w2>> -> <<255, 0, 1, 2, 0, 195, 164>>
      [] m = <<w2, w2>> -> <<255, 0, 0, 3, 0, 226, 130, 172>>
      [] m = <<w3>> -> <<255, 0, 1, 1, 0, 128>>
      [] OTHER -> <<255, 0, 0, 3, 0, 72>>

MCText == [m \in Messages |-> Offchain!TextOf(TextBytes(m))]

(* The payment of the swap is the transfer of <<w1>>.                      *)
MCSwapParams ==
    {[amount |-> "Transfer 1", recipient |-> "Recipient R"]}

-----------------------------------------------------------------------------
(* APDUs.                                                                  *)

Plain(ins, data) ==
    [claOk |-> TRUE, ins |-> ins, length |-> "exact", nonConfirm |-> FALSE,
     extend |-> FALSE, more |-> FALSE, data |-> data]
More(a) == [a EXCEPT !.more = TRUE]
Extending(a) == [a EXCEPT !.extend = TRUE]
Silent(a) == [a EXCEPT !.nonConfirm = TRUE]

First(ins, p, message) ==
    Plain(ins, IF ins = "DeprecatedSignMessage"
               THEN <<p, len>> \o message ELSE <<one, p>> \o message)
Next2(ins, message) ==
    Extending(Plain(ins, IF ins = "DeprecatedSignMessage"
                         THEN <<len>> \o message ELSE message))

(* APDUs the receiver refuses in any state.                                *)
InvalidApdus ==
    {[Plain("GetPubkey", <<p1>>) EXCEPT !.length = "truncated"],
     [Plain("GetPubkey", <<p1>>) EXCEPT !.length = "mismatch"],
     [Plain("GetPubkey", <<p1>>) EXCEPT !.claOk = FALSE],
     Plain("Unknown", <<>>),
     Plain("GetPubkey", <<>>),
     Plain("GetPubkey", <<cut>>),
     Plain("SignMessage", <<>>),
     Plain("SignMessage", <<one>>),
     Plain("SignMessage", <<p1>>),
     Plain("SignMessage", <<one, one>>),
     Plain("DeprecatedSignMessage", <<p1>>),
     Plain("DeprecatedSignMessage", <<p1, w1>>),
     First("SignMessage", p1, <<w1, w1, w1>>)}

ConfigApdus ==
    {Plain("GetAppConfiguration", <<>>),
     Plain("DeprecatedGetAppConfiguration", <<>>)}

PubkeyApdus ==
    {Plain("GetPubkey", <<p1>>), Plain("GetPubkey", <<p2>>),
     Silent(Plain("DeprecatedGetPubkey", <<p1>>)),
     More(Plain("GetPubkey", <<p1>>)),
     Extending(Plain("GetPubkey", <<w1>>))}

TransactionApdus ==
    {First("SignMessage", p1, <<w1>>), First("SignMessage", p2, <<w1>>),
     First("SignMessage", p1, <<w2>>), First("SignMessage", p1, <<w3>>),
     First("SignMessage", p1, <<w1, w3>>),
     Silent(First("SignMessage", p1, <<w1>>)),
     More(First("SignMessage", p1, <<w1>>)),
     More(First("SignMessage", p1, <<>>)),
     Next2("SignMessage", <<w2>>),
     More(Next2("SignMessage", <<w2>>)),
     Next2("SignMessage", <<>>),
     Silent(Next2("SignMessage", <<w2>>))}

DeprecatedApdus ==
    {First("DeprecatedSignMessage", p1, <<w1>>),
     More(First("DeprecatedSignMessage", p1, <<w1>>)),
     Next2("DeprecatedSignMessage", <<w2>>),
     Next2("DeprecatedSignMessage", <<>>)}

TextApdus ==
    {First("SignOffchainMessage", p1, <<w1>>),
     First("SignOffchainMessage", p1, <<w1, w1>>),
     First("SignOffchainMessage", p2, <<w1>>),
     First("SignOffchainMessage", p1, <<w2>>),
     First("SignOffchainMessage", p1, <<w3>>),
     First("SignOffchainMessage", p1, <<>>),
     Silent(First("SignOffchainMessage", p1, <<w1>>)),
     More(First("SignOffchainMessage", p1, <<w2>>)),
     Next2("SignOffchainMessage", <<w2>>)}

AllApdus == InvalidApdus \cup ConfigApdus \cup PubkeyApdus
            \cup TransactionApdus \cup DeprecatedApdus \cup TextApdus

(* Sets of APDUs for the runs about the handlers.                          *)
HandlerApdus ==
    TransactionApdus \cup
    {Plain("GetPubkey", <<p1>>), Plain("GetPubkey", <<p2>>),
     Plain("GetPubkey", <<cut>>),
     Silent(Plain("DeprecatedGetPubkey", <<p1>>)),
     Plain("GetAppConfiguration", <<>>)}

ServiceApdus ==
    HandlerApdus \cup
    {First("SignOffchainMessage", p1, <<w1, w1>>)}

TextReviewApdus ==
    TextApdus \cup
    {First("SignMessage", p1, <<w1>>), First("SignMessage", p1, <<w2>>),
     Plain("GetPubkey", <<p1>>)}

(* Chunks of every signing instruction, in every combination of the flags. *)
ChunkApdus ==
    LET chunks(ins) ==
            {First(ins, p, m) : p \in Path, m \in {<<>>, <<w1>>, <<w2, w3>>}}
            \cup {Next2(ins, m) : m \in {<<>>, <<w1>>, <<w2, w3>>}}
    IN  {[a EXCEPT !.nonConfirm = n, !.more = more] :
            a \in UNION {chunks(ins) : ins \in SignInstructions},
            n \in BOOLEAN, more \in BOOLEAN}

ReceiverApdus ==
    ChunkApdus \cup InvalidApdus \cup ConfigApdus \cup PubkeyApdus

(* A receiver that gets every APDU, with handlers that refuse everything.  *)
NoTx == [m \in Messages |-> Malformed]
NoText == [m \in Messages |->
            [wellFormed |-> FALSE, encoding |-> "ascii", extended |-> FALSE,
             length |-> 0]]
=============================================================================
