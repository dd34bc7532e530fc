----------------------------- MODULE MCLibrary ------------------------------
(***************************************************************************)
(* Instances of Message and Library, side by side: the parser takes        *)
(* messages apart, and between two messages the library is called with     *)
(* every parameter that sits at a boundary of the code, or beside one.     *)
(***************************************************************************)
EXTENDS MessageProps, LibraryProps

Init == MessageInit /\ LibraryInit

Next ==
    \/ asked = NoCall /\ call = NoCall /\ MessageNext /\ UNCHANGED library
    \/ phase = "idle" /\ LibraryNext /\ UNCHANGED message

Spec == Init /\ [][Next]_<<message, library>>

(* The parsers yield the information Summary starts from: nothing else     *)
(* and, looked at before anything was called, all of it (message.c:33).    *)
SummaryInfosAreParsed ==
    /\ Is("parse_instruction") => reply.info \in InstructionInfo
    /\ phase = "idle" /\ call = NoCall /\ asked = NoCall =>
           InstructionInfo = {Info(c) : c \in InstructionCalls}

-----------------------------------------------------------------------------
TextsOf(chars, n) == UNION {[1..k -> chars] : k \in 0..n}

MCDomain == <<255>>

MCAmounts ==
    {[amount |-> a, asset |-> s, decimals |-> d, length |-> n] :
        a \in {0, 1, 9, 10, 90, 100, 101, 1000, 1234567, 10000000,
               999999999, 1000000000, 2147483647},
        s \in {<<>>, <<"X">>, <<"S", "O", "L">>},
        d \in {0, 1, 2, 6, 9, 10, 11, 12, 13, 43, 44, 45, 255},
        n \in {2, 3, 4, 12, 13, 14, 45}}

MCNumbers ==
    {[value |-> v, length |-> n] :
        v \in -300..300 \cup {-32768, -32767, 32767, -10000, -9999, 9999,
                              10000},
        n \in {2, 3, 4, 5, 6, 7, 45}}

MCStrings ==
    {[text |-> t, length |-> n] :
        t \in TextsOf({"a", "b", NUL}, 6), n \in 2..7}

MCCompact ==
    {[length |-> n] : n \in 0..(HALF * HALF * HALF - 1)}

(* Every length of the data at which a parser of this kind may give up,    *)
(* and its neighbours; every number of accounts; every fact.               *)
MaxAccounts(kind) == IF kind \in SplTokenKinds THEN 17 ELSE 8

OptionsOf(kind) ==
    CASE kind = "StakeSetLockup" ->
            {"unix_timestamp", "epoch", "lockup.custodian"}
      [] kind = "StakeSetLockupChecked" -> {"unix_timestamp", "epoch"}
      [] kind = "InitializeMint" -> {"freeze_authority"}
      [] kind = "SetAuthority" -> {"new_authority"}
      [] OTHER -> {}

SeedsOf(kind) ==
    IF kind \in {"SystemCreateAccountWithSeed", "SystemAllocateWithSeed"}
    THEN {0, 3, 999} ELSE {0}

StepSize(step, some) ==
    CASE step.op \in {"bytes", "enumeration", "sized string"} -> step.size
      [] step.op = "option" -> 1 + (IF step.field \in some THEN step.size
                                    ELSE 0)
      [] OTHER -> 0

Ends(kind, some) ==
    IF kind = "VoteUpdateValidatorId" THEN {4, 36}
    ELSE LET layout == Layout([kind |-> kind, data |-> 0])
         IN  {FoldLeft(LAMBDA n, step : n + StepSize(step, some), 0,
                       SubSeq(layout, 1, k)) : k \in 0..Len(layout)}

DataLengths(kind, some) ==
    (UNION {{n - 1, n, n + 1} : n \in Ends(kind, some)} \ {-1})
    \cup IF kind \in {"SystemCreateAccountWithSeed", "SystemAllocateWithSeed"}
         THEN {n + 3 : n \in Ends(kind, some)} ELSE {}

MCInstructions ==
    UNION {UNION {
        {[kind |-> k, accounts |-> a, data |-> d, some |-> o, seed |-> s,
          valid |-> v, content |-> {}] :
             a \in 0..MaxAccounts(k), d \in DataLengths(k, o),
             s \in SeedsOf(k), v \in BOOLEAN} :
        o \in SUBSET OptionsOf(k)} : k \in Kinds}
    \cup UNION {UNION {
        {[kind |-> k, accounts |-> a, data |-> d, some |-> o, seed |-> 0,
          valid |-> TRUE, content |-> c] :
             a \in 2..6, d \in Ends(k, o),
             c \in SUBSET ContentFacts(k)} :
        o \in SUBSET OptionsOf(k)} : k \in Kinds}

MCFees ==
    {[info |-> [limit |-> l, price |-> p, instructions |-> n,
                signatures |-> s]] :
        l \in {Unset} \cup {Units(u) : u \in 0..(Word32 - 1)},
        p \in {Unset} \cup {Units(u) : u \in 0..(Word64 - 1)},
        n \in {1, 4}, s \in {0, 1, 5}}

MCDates ==
    {[day |-> d, second |-> s] :
        d \in UNION {DaysBeforeYear(y)..(DaysBeforeYear(y + 1) + 1) :
                        y \in {4, 100, 400, 1900, 1970, 2000, 2024, 2099,
                               2100, 9999}} \ {0},
        s \in {0}}
    \cup {[day |-> 719163, second |-> s] :
             s \in {59, 60, 599, 600, 3599, 3600, 35999, 36000, 71999, 72000,
                    86399}}

(* Bytes on both sides of every limit the scan of UTF-8 has.               *)
Utf8Bytes == {0, 31, 32, 126, 127, 128, 143, 144, 159, 160, 189, 190, 191,
              192, 193, 194, 223, 224, 237, 239, 240, 244, 245, 255}
LastBytes == {127, 128, 191, 192}

WithHeader(text) ==
    Domain \o <<0, 1, Len(text) % 256, Len(text) \div 256>> \o text

MCTexts ==
    {[bytes |-> WithHeader(t)] :
        t \in TextsOf(Utf8Bytes, 3)
              \cup {<<a, b, c, d>> :
                        a \in {240, 241, 243, 244, 245, 247, 248},
                        b \in {127, 128, 143, 144, 191, 192},
                        c \in LastBytes, d \in LastBytes}
              \cup {<<b, 194, 128, 226, 130, 172>> : b \in Utf8Bytes}}
    \cup
    {[bytes |-> d \o <<v, f, low, high>> \o [i \in 1..n |-> 65]] :
        d \in {Domain, <<>>, <<254>>},
        v \in {0, 1}, f \in {0, 1, 2}, low \in 0..7, high \in {0, 1},
        n \in 0..7}
    \cup {[bytes |-> SubSeq(Domain \o <<0, 0>>, 1, n)] : n \in 0..3}

MCKeys ==
    {[i \in 1..32 |-> b] : b \in {0, 1, 57, 58, 255}}
    \cup {[i \in 1..32 |-> IF i <= z THEN 0 ELSE b] :
             z \in {1, 2, 31}, b \in {1, 57, 58, 255}}
    \cup {[i \in 1..32 |-> IF i = 1 THEN b ELSE 0] : b \in {1, 255}}
    \cup [1..1 -> {0, 1, 57, 58, 115, 116, 255}]
    \cup [1..2 -> {0, 1, 57, 58, 255}]
    \cup [1..3 -> {0, 1, 13, 35, 255}]

Key1 == [i \in 1..32 |-> 255]
Key2 == [i \in 1..32 |-> IF i = 1 THEN 0 ELSE 7]
Address(key) == encode_base58(key, 45).text

MCDisplays ==
    {[item |-> [kind |-> k, bytes |-> b], long |-> x] :
        k \in {"Pubkey", "Hash"}, b \in MCKeys, x \in BOOLEAN}
    \cup {[item |-> [kind |-> k, text |-> [i \in 1..n |-> "x"]],
           long |-> TRUE] :
             k \in {"String", "SizedString"}, n \in {0, 1, 43, 44, 45, 100}}
    \cup {[item |-> [kind |-> "TokenAmount", value |-> v, symbol |-> s,
                     decimals |-> d], long |-> TRUE] :
             v \in {0, 1, 65535},
             s \in {<<"?", "?", "?">>,
                    <<"l", "a", "i", "n", "e", "S", "O", "L">>},
             d \in {0, 1, 9, 32, 33, 34, 37, 38, 39, 43, 44, 45, 255}}
    \cup {[item |-> [kind |-> k, value |-> v], long |-> TRUE] :
             k \in {"Amount", "U64", "I64"}, v \in {0, 1, 32767}}

MCPathKeys == "path" :> Key1 @@ "other" :> Key2

MCChecks ==
    {[coinConfiguration |-> c, path |-> p, address |-> a, extraId |-> e] :
        c \in BOOLEAN, p \in {"null", "malformed", "path", "other"},
        a \in {Address(Key1), Address(Key2), Front(Address(Key1)),
               Tail(Address(Key2)), <<>>},
        e \in ExtraId}

AmountBytes == TextsOf({0, 1, 2, 255}, 3)

MCPrintable ==
    {[coinConfiguration |-> c, amount |-> a] : c \in BOOLEAN,
                                                a \in AmountBytes}

MCPayments ==
    {[coinConfiguration |-> c, extraId |-> e, amount |-> a,
      destination |-> d] :
        c \in BOOLEAN, e \in ExtraId,
        a \in {<<>>, <<1>>, <<0, 1>>, <<1, 0>>, <<1, 1, 1>>},
        d \in {Address(Key1), Address(Key2), Front(Address(Key2)),
               Address(Key1) \o <<"1">>}}

MCPaidItems ==
    {[title |-> t, item |-> [kind |-> "Amount", value |-> v]] :
        t \in {"Transfer", "Max fees"}, v \in {0, 1, 256, 257}}
    \cup {[title |-> t, item |-> [kind |-> "Pubkey", bytes |-> k]] :
             t \in {"Recipient", "Sender"}, k \in {Key1, Key2}}
=============================================================================
