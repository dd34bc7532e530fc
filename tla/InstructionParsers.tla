------------------------- MODULE InstructionParsers -------------------------
(***************************************************************************)
(* How the parsers of src/libsol/*_instruction.c turn an instruction of    *)
(* the message into the information its printer reads: the order in which  *)
(* they take accounts and bytes, and when they give up.                    *)
(*                                                                         *)
(* An instruction has a number of accounts, a number of bytes, the options *)
(* that are Some, the length of its seed, and whether its enumerations and *)
(* options have valid values; "content" are the facts about it that depend *)
(* on what the bytes and keys are.                                         *)
(***************************************************************************)
EXTENDS Instructions, SequencesExt, Loop

Token_MAX_SIGNERS == 11

-----------------------------------------------------------------------------
(* Reading: what is left of the accounts and of the bytes, which fields    *)
(* were set, the bits of StakeLockup.present, and the number of signers.   *)

Raw == [kind : Kinds, accounts : Nat, data : Nat, some : SUBSET STRING,
        seed : Nat, valid : BOOLEAN, content : SUBSET STRING]

(* The fields of what is parsed, and what is read and not kept.            *)
Fields ==
    {"account", "address", "amount", "authority", "authority_type",
     "authorize", "authorized_pubkey", "base", "commission", "custodian",
     "decimals", "delegate", "dest_account", "destination", "epoch",
     "freeze_authority", "from", "funder", "lamports", "lockup.custodian",
     "m", "mint_account", "mint_authority", "multisig", "multisig_account",
     "new_authority", "new_validator_id", "owner", "program_id", "seed",
     "signer", "signers", "source", "space", "split_account", "src_account",
     "stake_authority", "stake_pubkey", "to", "token_account", "units",
     "unix_timestamp", "validator_id", "vote_authority", "vote_pubkey",
     "withdraw_authority"}
    \cup {"kind", "length", "option", "skipped"}

Readings == [rc : {0, 1}, accounts : Nat, data : Nat, fields : SUBSET Fields,
             present : SUBSET Fields, signers : Nat]

Step(op, field, size) == [op |-> op, field |-> field, size |-> size]
Account(field) == Step("account", field, 0)
SkippedAccount == Account("skipped")
OptionalAccount(field) == Step("optional account", field, 0)
U8(field) == Step("bytes", field, 1)
U32(field) == Step("bytes", field, 4)
U64(field) == Step("bytes", field, 8)
Pubkey(field) == Step("bytes", field, 32)
Enumerated(field, size) == Step("enumeration", field, size)
Option(field, size) == Step("option", field, size)
Seed == Step("sized string", "seed", 8)
Exactly(accounts) == Step("exactly", "account", accounts)
Signers == Step("signers", "signers", 0)
Sign == Step("sign", "signer", 0)
Failure == Step("failure", "kind", 0)

Reading(raw) == [rc |-> 0, accounts |-> raw.accounts, data |-> raw.data,
                 fields |-> {}, present |-> {}, signers |-> 0]

Failed(s) == [s EXCEPT !.rc = 1]

(* instruction_accounts_iterator_next.                                     *)
NextAccount(s, field) ==
    IF s.accounts = 0 THEN Failed(s)
    ELSE [s EXCEPT !.accounts = @ - 1, !.fields = @ \cup {field}]

(* Mutant of TakeOptionalAccount: the parser gives up without it.          *)
TakeExpectedAccount(s, field) == NextAccount(s, field)

TakeOptionalAccount(s, field) ==
    IF s.accounts = 0 THEN s
    ELSE [NextAccount(s, field) EXCEPT !.present = @ \cup {field}]

TakeBytes(s, field, size) ==
    IF s.data < size THEN Failed(s)
    ELSE [s EXCEPT !.data = @ - size, !.fields = @ \cup {field}]

(* Mutant of TakeOption: the bit says that there was an option.            *)
TakeAnyOption(s, raw, field, size) ==
    LET tag == TakeBytes(s, "option", 1)
        some == [tag EXCEPT !.present = @ \cup {field}]
    IN  IF tag.rc # 0 \/ ~raw.valid THEN Failed(s)
        ELSE IF field \in raw.some THEN TakeBytes(some, field, size) ELSE some

(* parse_option, and the field if it is Some.                              *)
TakeOption(s, raw, field, size) ==
    LET tag == TakeBytes(s, "option", 1)
        some == [tag EXCEPT !.present = @ \cup {field}]
    IN  IF tag.rc # 0 \/ ~raw.valid THEN Failed(s)
        ELSE IF field \in raw.some THEN TakeBytes(some, field, size) ELSE tag

(* parse_spl_token_multisigners: all accounts that are left.               *)
TakeSigners(s) ==
    IF s.accounts > Token_MAX_SIGNERS THEN Failed(s)
    ELSE [NextAccount(s, "signers") EXCEPT !.signers = s.accounts]

(* Mutant of TakeSign: a multisig account may come without its signers.    *)
TakeSignAlone(s) ==
    IF s.accounts < 3 THEN NextAccount(s, "signer")
    ELSE TakeSigners(NextAccount(s, "multisig"))

(* parse_spl_token_sign: one signer, or a multisig account and its signers.*)
TakeSign(s) ==
    IF s.accounts < 2 THEN NextAccount(s, "signer")
    ELSE TakeSigners(NextAccount(s, "multisig"))

Take(s, step, raw) ==
    CASE step.op = "account" -> NextAccount(s, step.field)
      [] step.op = "optional account" -> TakeOptionalAccount(s, step.field)
      [] step.op = "bytes" -> TakeBytes(s, step.field, step.size)
      [] step.op = "enumeration" ->
            IF raw.valid THEN TakeBytes(s, step.field, step.size)
            ELSE Failed(s)
      [] step.op = "option" -> TakeOption(s, raw, step.field, step.size)
      [] step.op = "sized string" ->
            LET size == TakeBytes(s, "length", step.size)
            IN  IF size.rc # 0 THEN size
                ELSE TakeBytes(size, step.field, raw.seed)
      [] step.op = "exactly" -> IF raw.accounts = step.size THEN s
                                ELSE Failed(s)
      [] step.op = "signers" -> TakeSigners(s)
      [] step.op = "sign" -> TakeSign(s)
      [] step.op = "failure" -> Failed(s)

-----------------------------------------------------------------------------
(* The parsers, as the steps they take.  Programs are told apart by their  *)
(* key, instructions by a number in front of the data.                     *)

SystemLayout(kind) ==
    CASE kind \in {"SystemTransfer", "SystemCreateAccount"} ->
            <<Account("from"), Account("to"), U64("lamports")>>
      [] kind = "SystemCreateAccountWithSeed" ->
            <<Account("from"), Account("to"), Pubkey("base"), Seed,
              U64("lamports")>>
      [] kind = "SystemAdvanceNonceAccount" ->
            <<Account("account"), SkippedAccount, Account("authority")>>
      [] kind = "SystemInitializeNonceAccount" ->
            <<Account("account"), SkippedAccount, SkippedAccount,
              Pubkey("authority")>>
      [] kind = "SystemWithdrawNonceAccount" ->
            <<Account("account"), Account("to"), SkippedAccount,
              SkippedAccount, Account("authority"), U64("lamports")>>
      [] kind = "SystemAuthorizeNonceAccount" ->
            <<Account("account"), Account("authority"),
              Pubkey("new_authority")>>
      [] kind = "SystemAllocate" -> <<Account("account"), U64("space")>>
      [] kind = "SystemAssign" -> <<Account("account"), Pubkey("program_id")>>
      [] kind = "SystemAllocateWithSeed" ->
            <<Account("account"), SkippedAccount, Pubkey("base"), Seed,
              U64("space"), Pubkey("program_id")>>

(* The first two fields of parse_stake_lockupargs, and its custodian.      *)
LockupOptions == <<Option("unix_timestamp", 8), Option("epoch", 8)>>

SetLockupLayout(kind) ==
    <<Account("account"), Account("custodian")>> \o LockupOptions
    \o (IF kind = "StakeSetLockup"
        THEN <<Option("lockup.custodian", 32)>>
        ELSE <<OptionalAccount("lockup.custodian")>>)

StakeLayout(kind) ==
    CASE kind = "StakeDelegate" ->
            <<Account("stake_pubkey"), Account("vote_pubkey"), SkippedAccount,
              SkippedAccount, SkippedAccount, Account("authorized_pubkey")>>
      [] kind = "StakeInitialize" ->
            <<Account("account"), SkippedAccount, Pubkey("stake_authority"),
              Pubkey("withdraw_authority"), U64("unix_timestamp"),
              U64("epoch"), Pubkey("lockup.custodian")>>
      [] kind = "StakeInitializeChecked" ->
            <<Account("account"), SkippedAccount, Account("stake_authority"),
              Account("withdraw_authority")>>
      [] kind = "StakeWithdraw" ->
            <<Account("account"), Account("to"), SkippedAccount,
              SkippedAccount, Account("authority"), U64("lamports")>>
      [] kind = "StakeAuthorize" ->
            <<Account("account"), SkippedAccount, Account("authority"),
              OptionalAccount("custodian"), Pubkey("new_authority"),
              Enumerated("authorize", 4)>>
      [] kind = "StakeAuthorizeChecked" ->
            <<Account("account"), SkippedAccount, Account("authority"),
              Account("new_authority"), OptionalAccount("custodian"),
              Enumerated("authorize", 4)>>
      [] kind = "StakeDeactivate" ->
            <<Account("account"), SkippedAccount, Account("authority")>>
      [] kind \in SetLockupKinds -> SetLockupLayout(kind)
      [] kind = "StakeSplit" ->
            <<Account("account"), Account("split_account"),
              Account("authority"), U64("lamports")>>
      [] kind = "StakeMerge" ->
            <<Account("destination"), Account("source"), SkippedAccount,
              SkippedAccount, Account("authority")>>

(* An update of the validator comes in two forms, told apart by the length *)
(* of the data.                                                            *)
VoteUpdateValidatorIdLayout(raw) ==
    CASE raw.data = 4 ->
            <<Account("account"), Account("new_validator_id"),
              Account("authority")>>
      [] raw.data = 4 + 32 ->
            <<Account("account"), Pubkey("new_validator_id"), SkippedAccount,
              Account("authority")>>
      [] OTHER -> <<Failure>>

VoteLayout(raw) ==
    CASE raw.kind = "VoteInitialize" ->
            <<Account("account"), SkippedAccount, SkippedAccount,
              Pubkey("validator_id"), Pubkey("vote_authority"),
              Pubkey("withdraw_authority"), U8("commission")>>
      [] raw.kind = "VoteWithdraw" ->
            <<Account("account"), Account("to"), Account("authority"),
              U64("lamports")>>
      [] raw.kind = "VoteAuthorize" ->
            <<Account("account"), SkippedAccount, Account("authority"),
              Pubkey("new_authority"), Enumerated("authorize", 4)>>
      [] raw.kind = "VoteAuthorizeChecked" ->
            <<Account("account"), SkippedAccount, Account("authority"),
              Account("new_authority"), Enumerated("authorize", 4)>>
      [] raw.kind = "VoteUpdateValidatorId" -> VoteUpdateValidatorIdLayout(raw)
      [] raw.kind = "VoteUpdateCommission" ->
            <<Account("account"), Account("authority"), U8("commission")>>

TokenAmount == <<U64("amount"), U8("decimals")>>
TokenAccount == Account("token_account")
MintAccount == Account("mint_account")

InitializeKinds == {"InitializeMint", "InitializeMultisig"}
                   \cup InitializeAccountKinds

InitializeLayout(kind) ==
    CASE kind = "InitializeMint" ->
            <<U8("decimals"), Pubkey("mint_authority"),
              Option("freeze_authority", 32), MintAccount, SkippedAccount>>
      [] kind = "InitializeAccount" ->
            <<Exactly(4), TokenAccount, MintAccount, Account("owner"),
              SkippedAccount>>
      [] kind = "InitializeAccount2" ->
            <<TokenAccount, MintAccount, SkippedAccount, Pubkey("owner")>>
      [] kind = "InitializeMultisig" ->
            <<Enumerated("m", 1), Account("multisig_account"), SkippedAccount,
              Signers>>

SplTokenLayout(kind) ==
    CASE kind \in InitializeKinds -> InitializeLayout(kind)
      [] kind = "TransferChecked" ->
            TokenAmount \o <<Account("src_account"), MintAccount,
                             Account("dest_account"), Sign>>
      [] kind = "ApproveChecked" ->
            TokenAmount \o <<TokenAccount, MintAccount, Account("delegate"),
                             Sign>>
      [] kind = "Revoke" -> <<TokenAccount, Sign>>
      [] kind = "SetAuthority" ->
            <<Account("account"), Enumerated("authority_type", 1),
              Option("new_authority", 32), Sign>>
      [] kind = "MintToChecked" ->
            TokenAmount \o <<MintAccount, TokenAccount, Sign>>
      [] kind = "BurnChecked" ->
            TokenAmount \o <<TokenAccount, MintAccount, Sign>>
      [] kind = "CloseAccount" ->
            <<TokenAccount, Account("dest_account"), Sign>>
      [] kind \in {"FreezeAccount", "ThawAccount"} ->
            <<TokenAccount, MintAccount, Sign>>
      [] kind = "SyncNative" -> <<TokenAccount>>

(* Its data is not looked at.                                              *)
AssociatedTokenLayout ==
    <<Account("funder"), Account("address"), Account("owner"),
      MintAccount, SkippedAccount, SkippedAccount,
      OptionalAccount("skipped")>>

ComputeBudgetLayout(kind) ==
    IF kind = "ChangeUnitPrice" THEN <<U64("units")>> ELSE <<U32("units")>>

(* The parser of a program: the kind, in the width this program has for    *)
(* it, and what is behind it.                                              *)
parse_system_instructions(raw) == <<U32("kind")>> \o SystemLayout(raw.kind)
parse_stake_instructions(raw) == <<U32("kind")>> \o StakeLayout(raw.kind)
parse_vote_instructions(raw) == <<U32("kind")>> \o VoteLayout(raw)
parse_spl_token_instructions(raw) ==
    <<U8("kind")>> \o SplTokenLayout(raw.kind)
parse_compute_budget_instructions(raw) ==
    <<U8("kind")>> \o ComputeBudgetLayout(raw.kind)

(* The switch over the programs; the ignored ones have no parser.          *)
Layout(raw) ==
    CASE raw.kind \in SystemKinds -> parse_system_instructions(raw)
      [] raw.kind \in StakeKinds -> parse_stake_instructions(raw)
      [] raw.kind \in VoteKinds -> parse_vote_instructions(raw)
      [] raw.kind \in SplTokenKinds -> parse_spl_token_instructions(raw)
      [] raw.kind = "AssociatedTokenCreate" -> AssociatedTokenLayout
      [] raw.kind \in ComputeBudgetKinds ->
            parse_compute_budget_instructions(raw)
      [] raw.kind \in IgnoredKinds -> <<>>
      [] OTHER -> <<Failure>>

(* A parser gives up at the first step that fails.                         *)
StepsTaken(layout, raw) ==
    After([s \in [taken : Nat, reading : Readings] |->
              IF s.taken >= Len(layout) \/ s.reading.rc # 0 THEN s
              ELSE [taken |-> s.taken + 1,
                    reading |-> Take(s.reading, layout[s.taken + 1], raw)]],
          [taken |-> 0, reading |-> Reading(raw)])

ParsedInstruction(raw) ==
    LET layout == Layout(raw)
    IN  StepsTaken(layout, raw)[Len(layout)].reading

-----------------------------------------------------------------------------
(* What the printers find in the information: a kind and its facts.        *)

(* Facts that are in the content, as far as the fields they are about are  *)
(* there; the others follow from what was parsed.                          *)
ContentFacts(kind) ==
    Facts(kind) \ ({"Custodian", "NewCustodian", "FreezeAuthority",
                    "ClearAuthority", "Multisig"}
                   \cup (IF kind \in SetLockupKinds
                         THEN {"LockupTime", "LockupEpoch"} ELSE {}))

Holds(fact, raw, p) ==
    CASE fact = "Custodian" -> "custodian" \in p.fields
      [] fact = "OtherCustodian" ->
            fact \in raw.content /\ "custodian" \in p.fields
      [] fact = "NewCustodian" -> "lockup.custodian" \in p.present
      [] fact = "LockupTime" /\ raw.kind \in SetLockupKinds ->
            "unix_timestamp" \in p.present
      [] fact = "LockupEpoch" /\ raw.kind \in SetLockupKinds ->
            "epoch" \in p.present
      [] fact = "FreezeAuthority" -> "freeze_authority" \in p.fields
      [] fact = "ClearAuthority" -> "new_authority" \notin p.fields
      [] fact = "Multisig" -> "multisig" \in p.fields
      [] fact = "OtherAuthority" ->
            fact \in raw.content /\ "multisig" \notin p.fields
      [] fact = "BadThreshold" ->
            fact \in raw.content /\ p.signers < Token_MAX_SIGNERS
      [] OTHER -> fact \in raw.content

Info(raw) ==
    LET p == ParsedInstruction(raw)
    IN  IF p.rc # 0 THEN [kind |-> "Unknown", facts |-> {}]
        ELSE [kind |-> raw.kind,
              facts |-> {f \in Facts(raw.kind) : Holds(f, raw, p)}]

-----------------------------------------------------------------------------
(* The field a printer copies into the item with this title; "Primary" is  *)
(* the primary item.                                                       *)

SystemField(kind, title) ==
    CASE title \in {"Sender", "Funded by", "Prefunder"} -> "from"
      [] title \in {"Deposit", "Funded with", "Prefund"} -> "lamports"
      [] title = "From" -> IF kind \in CreateKinds THEN "from" ELSE "account"
      [] title \in {"Recipient", "To"} -> "to"
      [] title = "Base" -> "base"
      [] title = "Seed" -> "seed"
      [] title = "Authorized by" -> "authority"
      [] title = "New authority" ->
            IF kind = "SystemInitializeNonceAccount" THEN "authority"
            ELSE "new_authority"
      [] title = "Data size" -> "space"
      [] title = "To program" -> "program_id"
      [] title = "Primary" ->
            IF kind \in CreateKinds THEN "to"
            ELSE IF kind \in {"SystemTransfer", "SystemWithdrawNonceAccount"}
            THEN "lamports" ELSE "account"

StakeField(kind, title) ==
    CASE title = "Authorized by" ->
            IF kind = "StakeDelegate" THEN "authorized_pubkey"
            ELSE IF kind \in SetLockupKinds THEN "custodian" ELSE "authority"
      [] title = "Vote account" -> "vote_pubkey"
      [] title = "From" -> "account"
      [] title = "To" -> IF kind = "StakeSplit" THEN "split_account" ELSE "to"
      [] title = "Into" -> "destination"
      [] title = "Custodian" -> "custodian"
      [] title \in {"Time", "Lockup time", "Lockup"} -> "unix_timestamp"
      [] title \in {"Epoch", "Lockup epoch"} -> "epoch"
      [] title = "Lockup authority" -> "lockup.custodian"
      [] title \in {"New authority", "New stake auth"} ->
            IF kind \in StakeInitializeKinds THEN "stake_authority"
            ELSE IF kind \in SetLockupKinds THEN "lockup.custodian"
            ELSE "new_authority"
      [] title = "New withdraw auth" ->
            IF kind \in StakeInitializeKinds THEN "withdraw_authority"
            ELSE "new_authority"
      [] title = "Primary" ->
            CASE kind = "StakeDelegate" -> "stake_pubkey"
              [] kind \in {"StakeWithdraw", "StakeSplit"} -> "lamports"
              [] kind = "StakeMerge" -> "source"
              [] OTHER -> "account"

VoteField(kind, title) ==
    CASE title = "Authorized by" -> "authority"
      [] title = "From" -> "account"
      [] title = "To" -> "to"
      [] title = "Validator ID" -> "validator_id"
      [] title = "New validator ID" -> "new_validator_id"
      [] title = "Commission" -> "commission"
      [] title = "New vote auth" ->
            IF kind = "VoteInitialize" THEN "vote_authority"
            ELSE "new_authority"
      [] title = "New withdraw auth" ->
            IF kind = "VoteInitialize" THEN "withdraw_authority"
            ELSE "new_authority"
      [] title = "Primary" ->
            IF kind = "VoteWithdraw" THEN "lamports" ELSE "account"

SplTokenField(kind, title, multisig) ==
    CASE title = "Owner" ->
            IF kind \in InitializeAccountKinds THEN "owner"
            ELSE IF multisig THEN "multisig" ELSE "signer"
      [] title \in {"Signers", "Required signers"} -> "signers"
      [] title = "Token address" -> "mint_account"
      [] title = "From (token account)" ->
            IF kind = "TransferChecked" THEN "src_account" ELSE "token_account"
      [] title = "To (token account)" ->
            IF kind = "TransferChecked" THEN "dest_account"
            ELSE "token_account"
      [] title = "Mint authority" -> "mint_authority"
      [] title = "Decimals" -> "decimals"
      [] title = "Freeze authority" -> "freeze_authority"
      [] title = "Allowance" -> "amount"
      [] title = "Type" -> "authority_type"
      [] title = "Authority" -> "new_authority"
      [] title = "Withdraw to" -> "dest_account"
      [] title = "Primary" ->
            CASE kind = "InitializeMint" -> "mint_account"
              [] kind = "InitializeMultisig" -> "multisig_account"
              [] kind = "ApproveChecked" -> "delegate"
              [] kind = "SetAuthority" -> "account"
              [] kind \in {"TransferChecked", "MintToChecked",
                           "BurnChecked"} -> "amount"
              [] OTHER -> "token_account"

AssociatedTokenField(title) ==
    CASE title = "Primary" -> "address"
      [] title = "For" -> "owner"
      [] title = "Token address" -> "mint_account"
      [] title = "Funded by" -> "funder"

FieldOf(i, title) ==
    CASE i.kind \in SystemKinds -> SystemField(i.kind, title)
      [] i.kind \in StakeKinds -> StakeField(i.kind, title)
      [] i.kind \in VoteKinds -> VoteField(i.kind, title)
      [] i.kind \in SplTokenKinds ->
            SplTokenField(i.kind, title, "Multisig" \in i.facts)
      [] i.kind = "AssociatedTokenCreate" -> AssociatedTokenField(title)
=============================================================================
