---------------------------- MODULE Instructions ----------------------------
(***************************************************************************)
(* The instructions the application understands (src/libsol/               *)
(* *_instruction.c) and what their printers put into the summary of a      *)
(* transaction (print_*_info, transaction_printers.c).                     *)
(*                                                                         *)
(* An instruction is its kind and the facts its printer branches on.  An   *)
(* item of the summary is its title: what is displayed under it is copied  *)
(* from the message.  x stands for print_config->expert_mode.              *)
(***************************************************************************)
EXTENDS Integers, Sequences

-----------------------------------------------------------------------------
(* Kinds.  An instruction whose program is unknown, whose parser fails or  *)
(* whose kind is not supported has kind Unknown.                           *)

SystemKinds ==
    {"SystemTransfer", "SystemCreateAccount", "SystemCreateAccountWithSeed",
     "SystemAdvanceNonceAccount", "SystemInitializeNonceAccount",
     "SystemWithdrawNonceAccount", "SystemAuthorizeNonceAccount",
     "SystemAllocate", "SystemAssign", "SystemAllocateWithSeed"}

StakeAuthorizeKinds == {"StakeAuthorize", "StakeAuthorizeChecked"}
StakeInitializeKinds == {"StakeInitialize", "StakeInitializeChecked"}
SetLockupKinds == {"StakeSetLockup", "StakeSetLockupChecked"}
StakeKinds ==
    {"StakeDelegate", "StakeWithdraw", "StakeDeactivate", "StakeSplit",
     "StakeMerge"}
    \cup StakeAuthorizeKinds \cup StakeInitializeKinds \cup SetLockupKinds

VoteAuthorizeKinds == {"VoteAuthorize", "VoteAuthorizeChecked"}
VoteKinds ==
    {"VoteInitialize", "VoteWithdraw", "VoteUpdateValidatorId",
     "VoteUpdateCommission"} \cup VoteAuthorizeKinds

InitializeAccountKinds == {"InitializeAccount", "InitializeAccount2"}
SignedTokenKinds ==
    {"TransferChecked", "ApproveChecked", "Revoke", "SetAuthority",
     "MintToChecked", "BurnChecked", "CloseAccount", "FreezeAccount",
     "ThawAccount"}
SplTokenKinds ==
    {"InitializeMint", "InitializeMultisig", "SyncNative"}
    \cup InitializeAccountKinds \cup SignedTokenKinds

ComputeBudgetKinds ==
    {"RequestHeapFrame", "ChangeUnitLimit", "ChangeUnitPrice",
     "SetLoadedAccountsDataSizeLimit"}

IgnoredKinds == {"SerumAssertOwner", "SplMemo"}

Kinds == SystemKinds \cup StakeKinds \cup VoteKinds \cup SplTokenKinds
         \cup ComputeBudgetKinds \cup IgnoredKinds
         \cup {"AssociatedTokenCreate", "Unknown"}

(* The facts a printer branches on: whose authority the instruction uses,  *)
(* which optional fields are there, and whether the pointers to the new    *)
(* authorities of two instructions are one ("SharedNew": only the checked  *)
(* forms point into the account list, the others into their own data).     *)
Facts(kind) ==
    LET signed == IF kind \in SystemKinds \cup StakeKinds \cup VoteKinds
                  THEN {"OtherAuthority"} ELSE {}
    IN  CASE kind \in StakeInitializeKinds ->
                {"TwoAuthorities"} \cup
                (IF kind = "StakeInitialize"
                 THEN {"LockupTime", "LockupEpoch"} ELSE {})
          [] kind \in StakeAuthorizeKinds ->
                {"OtherAuthority", "Withdrawer", "Custodian",
                 "OtherCustodian"} \cup
                (IF kind = "StakeAuthorizeChecked" THEN {"SharedNew"} ELSE {})
          [] kind \in SetLockupKinds ->
                {"OtherAuthority", "LockupTime", "LockupEpoch",
                 "NewCustodian"}
          [] kind \in VoteAuthorizeKinds ->
                {"OtherAuthority", "Withdrawer"} \cup
                (IF kind = "VoteAuthorizeChecked" THEN {"SharedNew"} ELSE {})
          [] kind \in {"VoteInitialize", "SystemInitializeNonceAccount",
                       "SystemAllocate", "SystemAssign",
                       "SystemAllocateWithSeed"} -> {}
          [] kind = "InitializeMint" -> {"FreezeAuthority"}
          [] kind = "InitializeMultisig" -> {"BadThreshold"}
          [] kind = "SetAuthority" ->
                {"OtherAuthority", "Multisig", "ClearAuthority"}
          [] kind \in SignedTokenKinds \ {"SetAuthority"} ->
                {"OtherAuthority", "Multisig"}
          [] OTHER -> signed

(* A custodian that is not the signer is a custodian; a multisig owner is  *)
(* not compared with the signer.                                           *)
InstructionInfo ==
    {i \in UNION {[kind: {k}, facts: SUBSET Facts(k)] : k \in Kinds} :
        /\ "OtherCustodian" \in i.facts => "Custodian" \in i.facts
        /\ ~({"OtherAuthority", "Multisig"} \subseteq i.facts)}

-----------------------------------------------------------------------------
(* Printers of single instructions.                                        *)

Opt(condition, item) == IF condition THEN <<item>> ELSE <<>>

(* Mutant of ShowAuthority: shown in expert mode only.                     *)
ShowAuthorityToExperts(i, x) == x /\ "OtherAuthority" \in i.facts

(* print_config_show_authority.                                            *)
ShowAuthority(i, x) == x \/ "OtherAuthority" \in i.facts

AuthorizedBy(i, x) == Opt(ShowAuthority(i, x), "Authorized by")

CreateAccountItems(i, x) ==
    <<"Deposit">> \o Opt(ShowAuthority(i, x), "From") \o
    (IF i.kind = "SystemCreateAccountWithSeed"
     THEN Opt(x, "Base") \o Opt(x, "Seed") ELSE <<>>)

SystemItems(i, x) ==
    CASE i.kind = "SystemTransfer" ->
            Opt(ShowAuthority(i, x), "Sender") \o <<"Recipient">>
      [] i.kind \in {"SystemCreateAccount", "SystemCreateAccountWithSeed"} ->
            CreateAccountItems(i, x)
      [] i.kind = "SystemAdvanceNonceAccount" -> AuthorizedBy(i, x)
      [] i.kind = "SystemInitializeNonceAccount" -> <<"New authority">>
      [] i.kind = "SystemWithdrawNonceAccount" ->
            <<"From", "To">> \o AuthorizedBy(i, x)
      [] i.kind = "SystemAuthorizeNonceAccount" ->
            <<"New authority">> \o AuthorizedBy(i, x)
      [] i.kind = "SystemAllocate" -> <<"Data size">>
      [] i.kind = "SystemAssign" -> <<"To program">>
      [] i.kind = "SystemAllocateWithSeed" ->
            <<"Data size">> \o Opt(x, "Base") \o Opt(x, "Seed")

(* Lockup: time and epoch if they are positive, and then its authority.    *)
LockupItems(i, x) ==
    LET time == Opt("LockupTime" \in i.facts, "Lockup time")
        epoch == Opt("LockupEpoch" \in i.facts, "Lockup epoch")
    IN  IF time \o epoch # <<>>
        THEN time \o epoch \o <<"Lockup authority">>
        ELSE Opt(x, "Lockup")

StakeInitializeItems(i, x) ==
    (IF "TwoAuthorities" \in i.facts
     THEN <<"New stake auth", "New withdraw auth">>
     ELSE <<"New authority">>) \o LockupItems(i, x)

NewAuthority(i, first) ==
    <<IF "Withdrawer" \in i.facts THEN "New withdraw auth" ELSE first>>

StakeItems(i, x) ==
    CASE i.kind = "StakeDelegate" ->
            AuthorizedBy(i, x) \o <<"Vote account">>
      [] i.kind \in StakeInitializeKinds -> StakeInitializeItems(i, x)
      [] i.kind = "StakeWithdraw" -> <<"From", "To">> \o AuthorizedBy(i, x)
      [] i.kind \in StakeAuthorizeKinds ->
            NewAuthority(i, "New stake auth") \o AuthorizedBy(i, x) \o
            Opt(/\ "Custodian" \in i.facts
                /\ x \/ "OtherCustodian" \in i.facts, "Custodian")
      [] i.kind = "StakeDeactivate" -> AuthorizedBy(i, x)
      [] i.kind \in SetLockupKinds ->
            Opt("LockupTime" \in i.facts, "Time") \o
            Opt("LockupEpoch" \in i.facts, "Epoch") \o
            Opt("NewCustodian" \in i.facts, "New authority") \o
            AuthorizedBy(i, x)
      [] i.kind = "StakeSplit" -> <<"From", "To">> \o AuthorizedBy(i, x)
      [] i.kind = "StakeMerge" -> <<"Into">> \o AuthorizedBy(i, x)

VoteInitializeItems ==
    <<"Validator ID", "New vote auth", "New withdraw auth", "Commission">>

VoteItems(i, x) ==
    CASE i.kind = "VoteInitialize" -> VoteInitializeItems
      [] i.kind = "VoteWithdraw" -> <<"From", "To">> \o AuthorizedBy(i, x)
      [] i.kind \in VoteAuthorizeKinds ->
            NewAuthority(i, "New vote auth") \o AuthorizedBy(i, x)
      [] i.kind = "VoteUpdateValidatorId" ->
            <<"New validator ID">> \o AuthorizedBy(i, x)
      [] i.kind = "VoteUpdateCommission" ->
            <<"Commission">> \o AuthorizedBy(i, x)

(* print_spl_token_sign.                                                   *)
SplTokenSign(i, x) ==
    IF "Multisig" \in i.facts THEN <<"Owner", "Signers">>
    ELSE Opt(ShowAuthority(i, x), "Owner")

TokenTransferItems(i, x) ==
    <<"Token address", "From (token account)", "To (token account)">>
    \o SplTokenSign(i, x)

(* A threshold above the number of signers cannot be printed, and its item *)
(* stays unset.                                                            *)
MultisigItems(i) == Opt("BadThreshold" \notin i.facts, "Required signers")

SplTokenItems(i, x) ==
    CASE i.kind = "InitializeMint" ->
            <<"Mint authority", "Decimals">> \o
            Opt("FreezeAuthority" \in i.facts, "Freeze authority")
      [] i.kind \in InitializeAccountKinds -> <<"Owner", "Token address">>
      [] i.kind = "InitializeMultisig" -> MultisigItems(i)
      [] i.kind = "TransferChecked" -> TokenTransferItems(i, x)
      [] i.kind = "ApproveChecked" ->
            <<"Allowance", "Token address", "From (token account)">>
            \o SplTokenSign(i, x)
      [] i.kind = "Revoke" -> SplTokenSign(i, x)
      [] i.kind = "SetAuthority" ->
            <<"Type">> \o Opt("ClearAuthority" \notin i.facts, "Authority")
            \o SplTokenSign(i, x)
      [] i.kind = "MintToChecked" ->
            <<"Token address", "To (token account)">> \o SplTokenSign(i, x)
      [] i.kind = "BurnChecked" ->
            <<"Token address", "From (token account)">> \o SplTokenSign(i, x)
      [] i.kind = "CloseAccount" -> <<"Withdraw to">> \o SplTokenSign(i, x)
      [] i.kind \in {"FreezeAccount", "ThawAccount"} ->
            Opt(x, "Token address") \o SplTokenSign(i, x)
      [] i.kind = "SyncNative" -> <<>>

AssociatedTokenItems == <<"For", "Token address", "Funded by">>

-----------------------------------------------------------------------------
(* What printing a list of instructions does: whether it succeeds, the     *)
(* primary item and the general items.  A printer that fails has set       *)
(* nothing.                                                                *)

NotPrinted == [printed |-> FALSE, primary |-> "Unset", general |-> <<>>]

Printed(primary, general) ==
    [printed |-> TRUE, primary |-> primary, general |-> general]

(* Each printer of a single instruction sets the primary item first; its   *)
(* title stands for the kind.                                              *)
PrintSingle(i, x) ==
    CASE i.kind \in SystemKinds -> Printed(i.kind, SystemItems(i, x))
      [] i.kind \in StakeKinds -> Printed(i.kind, StakeItems(i, x))
      [] i.kind \in VoteKinds -> Printed(i.kind, VoteItems(i, x))
      [] i.kind \in SplTokenKinds -> Printed(i.kind, SplTokenItems(i, x))
      [] i.kind = "AssociatedTokenCreate" ->
            Printed(i.kind, AssociatedTokenItems)
      [] OTHER -> NotPrinted

(* Mutant of AuthorizeBothItems: the primary item is set, then the         *)
(* instructions are checked.                                               *)
AuthorizeBothChecksLate(staker, withdrawer, primary, items) ==
    [printed |-> "Withdrawer" \notin staker.facts
                    /\ "Withdrawer" \in withdrawer.facts,
     primary |-> primary, general |-> items]

(* The two authorities must be set in the order of their enumeration.      *)
AuthorizeBothItems(staker, withdrawer, primary, items) ==
    IF "Withdrawer" \notin staker.facts /\ "Withdrawer" \in withdrawer.facts
    THEN Printed(primary, items)
    ELSE NotPrinted

NewAuthorities(first, second, title) ==
    IF "SharedNew" \in first.facts \cap second.facts
    THEN <<"New authorities">>
    ELSE <<title, "New withdraw auth">>

PrintStakeAuthorizeBoth(list, x) ==
    AuthorizeBothItems(list[1], list[2], "Set stake auth",
        NewAuthorities(list[1], list[2], "New stake auth") \o
        Opt("Custodian" \in list[2].facts, "Custodian") \o
        AuthorizedBy(list[2], x))

PrintVoteAuthorizeBoth(list, x) ==
    AuthorizeBothItems(list[1], list[2], "Set vote auth",
        NewAuthorities(list[1], list[2], "New vote auth") \o
        AuthorizedBy(list[2], x))

(* Base and Seed between the accounts of a split and its authority.        *)
StakeSplitWithSeedItems(split, x) ==
    <<"From", "To">> \o Opt(x, "Base") \o Opt(x, "Seed")
    \o AuthorizedBy(split, x)

FundedItems(create, x) ==
    Opt(ShowAuthority(create, x), "Funded by") \o <<"Funded with">>

(* Mutant of PrefundItems: for the users that are not experts.             *)
PrefundItemsForUsers(x) == IF x THEN <<>> ELSE <<"Prefund", "Prefunder">>

(* print_system_prefund_for_split: shown before the split, to experts.     *)
PrefundItems(x) == IF x THEN <<"Prefund", "Prefunder">> ELSE <<>>

CreateKinds == {"SystemCreateAccount", "SystemCreateAccountWithSeed"}

PrintPair(list, x) ==
    LET first == list[1]
        second == list[2]
        kinds == <<first.kind, second.kind>>
        created == CreateAccountItems(first, x)
    IN  CASE kinds \in CreateKinds \X StakeInitializeKinds ->
                Printed("Create stake acct",
                        created \o StakeInitializeItems(second, x))
          [] kinds \in CreateKinds \X {"SystemInitializeNonceAccount"} ->
                Printed("Create nonce acct", created \o <<"New authority">>)
          [] kinds \in CreateKinds \X {"VoteInitialize"} ->
                Printed("Create vote acct", created \o VoteInitializeItems)
          [] kinds \in {<<k, k>> : k \in StakeAuthorizeKinds} ->
                PrintStakeAuthorizeBoth(list, x)
          [] kinds \in {<<k, k>> : k \in VoteAuthorizeKinds} ->
                PrintVoteAuthorizeBoth(list, x)
          [] kinds = <<"SystemCreateAccount", "StakeSplit">> ->
                PrintSingle(second, x)
          [] kinds \in {"SystemAllocateWithSeed",
                        "SystemCreateAccountWithSeed"} \X {"StakeSplit"} ->
                Printed("Split stake", StakeSplitWithSeedItems(second, x))
          [] kinds = <<"SystemCreateAccount", "InitializeMint">> ->
                Printed("Create token mint",
                        <<"Mint authority", "Mint decimals">> \o
                        Opt("FreezeAuthority" \in second.facts,
                            "Freeze authority") \o FundedItems(first, x))
          [] kinds \in {"SystemCreateAccount"} \X InitializeAccountKinds ->
                Printed("Create token account",
                        <<"For", "Token address">> \o FundedItems(first, x))
          [] kinds = <<"SystemCreateAccount", "InitializeMultisig">> ->
                Printed("Create multisig",
                        MultisigItems(second) \o FundedItems(first, x))
          [] kinds = <<"AssociatedTokenCreate", "TransferChecked">> ->
                Printed("Create token account",
                        AssociatedTokenItems \o <<"Transfer tokens">> \o
                        TokenTransferItems(second, x))
          [] OTHER -> NotPrinted

PrintTriple(list, x) ==
    LET kinds == <<list[1].kind, list[2].kind, list[3].kind>>
    IN  CASE kinds \in CreateKinds \X {"StakeInitialize"} \X {"StakeDelegate"} ->
                Printed("Delegate from",
                        CreateAccountItems(list[1], x) \o
                        StakeInitializeItems(list[2], x) \o
                        StakeItems(list[3], x))
          [] kinds = <<"SystemAllocate", "SystemAssign", "StakeSplit">> ->
                PrintSingle(list[3], x)
          [] kinds = <<"SystemTransfer", "SystemAllocateWithSeed",
                       "StakeSplit">> ->
                Printed("Split stake", PrefundItems(x) \o
                        StakeSplitWithSeedItems(list[3], x))
          [] OTHER -> NotPrinted

PrintQuadruple(list, x) ==
    IF <<list[1].kind, list[2].kind, list[3].kind, list[4].kind>> =
            <<"SystemTransfer", "SystemAllocate", "SystemAssign",
              "StakeSplit">>
    THEN Printed("Split stake", PrefundItems(x) \o StakeItems(list[4], x))
    ELSE NotPrinted

(* print_transaction_nonce_processed.  The briefs it tries one after the   *)
(* other are different lists of kinds: at most one matches.                *)
PrintInstructions(list, x) ==
    CASE Len(list) = 1 -> PrintSingle(list[1], x)
      [] Len(list) = 2 -> PrintPair(list, x)
      [] Len(list) = 3 -> PrintTriple(list, x)
      [] Len(list) = 4 -> PrintQuadruple(list, x)
      [] OTHER -> NotPrinted
=============================================================================
