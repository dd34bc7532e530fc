----------------------------- MODULE ParserProof -----------------------------
(***************************************************************************)
(* Theorems about the parsers and printers of single instructions.  A      *)
(* parser is a loop over the steps of its layout; Parsing is the invariant *)
(* of that loop: what has been read is what the steps taken so far read.   *)
(* From it follows, layout by layout, which fields each instruction has    *)
(* when its parser succeeds, and that no printer shows another one.        *)
(***************************************************************************)
EXTENDS LibraryProof

-----------------------------------------------------------------------------
(* The parsers of instructions.                                            *)

Operations == {"account", "optional account", "bytes", "enumeration",
               "option", "sized string", "exactly", "signers", "sign",
               "failure"}

(* No step but that of the signers says "multisig".                        *)
Steps == [op : Operations, field : Fields \ {"multisig"}, size : Nat]

(* The steps that are not taken without their field.                       *)
Required == {"account", "bytes", "enumeration", "sized string"}

(* A reading in order: what is present was read, and a multisig account    *)
(* with its signers.                                                       *)
InOrder(s) ==
    /\ s.present \subseteq s.fields
    /\ "multisig" \in s.fields => "signers" \in s.fields

(* The accounts that are left where a signature was read are the signers   *)
(* behind the first one of a multisig account.                             *)
Counted(s) ==
    IF "multisig" \in s.fields
    THEN s.signers \in 1..Token_MAX_SIGNERS /\ s.accounts = s.signers - 1
    ELSE s.accounts = 0

(* What a reading has of a step.                                           *)
HasStep(s, step) ==
    /\ step.op \in Required => step.field \in s.fields
    /\ step.op = "signers" => "signers" \in s.fields
    /\ step.op = "sign" => "signer" \in s.fields \/ "multisig" \in s.fields
    /\ step.op # "failure"

LEMMA ReadingStarts ==
    ASSUME NEW raw \in Raw
    PROVE  /\ Reading(raw) \in Readings /\ Reading(raw).rc = 0
           /\ InOrder(Reading(raw)) /\ Reading(raw).fields = {}
           /\ Reading(raw).accounts = raw.accounts
  BY DEF Raw, Reading, Readings, InOrder

LEMMA FailedIsReading ==
    ASSUME NEW s \in Readings
    PROVE  Failed(s) \in Readings /\ Failed(s).rc = 1
  BY DEF Failed, Readings

(* What a step that does not fail makes of a reading.                      *)
Goes(s, next, field) ==
    /\ next \in Readings
    /\ next.rc # 0 \/ /\ s.fields \cup {field} \subseteq next.fields
                      /\ next.fields \subseteq s.fields \cup {field}
                      /\ next.present = s.present
                      /\ next.rc = s.rc

LEMMA AccountIsTaken ==
    ASSUME NEW s \in Readings, NEW field \in Fields
    PROVE  LET next == NextAccount(s, field)
           IN  /\ Goes(s, next, field)
               /\ s.accounts = 0 => next.rc = 1
               /\ s.accounts # 0 => /\ next.accounts = s.accounts - 1
                                    /\ next.fields = s.fields \cup {field}
                                    /\ next.present = s.present
                                    /\ next.rc = s.rc
                                    /\ next.signers = s.signers
  <1> DEFINE next == NextAccount(s, field)
  <1>1. CASE s.accounts = 0
    <2>1. next = Failed(s)
      BY <1>1 DEF NextAccount
    <2> QED BY <1>1, <2>1, FailedIsReading DEF Goes
  <1>2. CASE s.accounts # 0
    <2>1. next = [s EXCEPT !.accounts = @ - 1, !.fields = @ \cup {field}]
      BY <1>2 DEF NextAccount
    <2>2. s.accounts - 1 \in Nat /\ s.fields \cup {field} \in SUBSET Fields
      BY <1>2 DEF Readings
    <2> HIDE DEF next
    <2>3. /\ next.accounts = s.accounts - 1
          /\ next.fields = s.fields \cup {field}
          /\ next.present = s.present /\ next.rc = s.rc
          /\ next.signers = s.signers /\ next \in Readings
      BY <2>1, <2>2 DEF Readings
    <2> QED BY <1>2, <2>3 DEF Goes, next
  <1> QED BY <1>1, <1>2

LEMMA BytesAreTaken ==
    ASSUME NEW s \in Readings, NEW field \in Fields, NEW width \in Nat
    PROVE  /\ Goes(s, TakeBytes(s, field, width), field)
           /\ TakeBytes(s, field, width).rc \in {1, s.rc}
           /\ TakeBytes(s, field, width).rc # 1 =>
                  TakeBytes(s, field, width).accounts = s.accounts
  <1> DEFINE next == TakeBytes(s, field, width)
  <1>1. CASE s.data < width
    <2>1. next = Failed(s)
      BY <1>1 DEF TakeBytes
    <2> QED BY <2>1, FailedIsReading DEF Goes
  <1>2. CASE ~(s.data < width)
    <2>1. next = [s EXCEPT !.data = @ - width, !.fields = @ \cup {field}]
      BY <1>2 DEF TakeBytes
    <2>2. s.data - width \in Nat /\ s.fields \cup {field} \in SUBSET Fields
      BY <1>2 DEF Readings
    <2> HIDE DEF next
    <2>3. /\ next.fields = s.fields \cup {field}
          /\ next.present = s.present /\ next.rc = s.rc
          /\ next.accounts = s.accounts /\ next \in Readings
      BY <2>1, <2>2 DEF Readings
    <2> QED BY <2>3 DEF Goes, next
  <1> QED BY <1>1, <1>2

(* What a step of a parser makes of a reading.                             *)
Advances(s, next, step) ==
    /\ next \in Readings
    /\ next.rc = 0 =>
        /\ s.fields \subseteq next.fields
        /\ InOrder(s) => InOrder(next)
        /\ HasStep(next, step)
        /\ "multisig" \notin s.fields =>
               IF step.op = "sign" THEN Counted(next)
               ELSE "multisig" \notin next.fields

LEMMA FieldsOfSteps ==
    /\ "multisig" \in Fields /\ "signers" \in Fields /\ "signer" \in Fields
    /\ "length" \in Fields /\ "option" \in Fields
  BY DEF Fields

LEMMA FailureAdvances ==
    ASSUME NEW s \in Readings, NEW step
    PROVE  Advances(s, Failed(s), step)
  <1>1. Failed(s) \in Readings /\ Failed(s).rc # 0
    BY FailedIsReading
  <1> QED BY <1>1 DEF Advances

(* A field that is read, by any step but that of a signature.              *)
LEMMA FieldAdvances ==
    ASSUME NEW s \in Readings, s.rc = 0, NEW next,
           NEW step \in Steps, step.op \in Required,
           Goes(s, next, step.field)
    PROVE  Advances(s, next, step)
  <1>1. step.field # "multisig" /\ step.op # "sign" /\ step.op # "failure"
        /\ step.op # "signers"
    BY DEF Steps, Required
  <1> QED BY <1>1 DEF Goes, Advances, InOrder, HasStep

LEMMA OptionalAdvances ==
    ASSUME NEW s \in Readings, s.rc = 0, NEW step \in Steps,
           step.op = "optional account"
    PROVE  Advances(s, TakeOptionalAccount(s, step.field), step)
  <1> DEFINE field == step.field
             account == NextAccount(s, field)
             next == TakeOptionalAccount(s, field)
  <1>1. field \in Fields /\ field # "multisig" /\ step.op \notin Required
        /\ step.op # "sign" /\ step.op # "failure" /\ step.op # "signers"
    BY DEF Steps, Required
  <1>2. CASE s.accounts = 0
    <2>1. next = s
      BY <1>2 DEF TakeOptionalAccount
    <2> HIDE DEF next
    <2>2. Advances(s, next, step)
      BY <1>1, <2>1 DEF Advances, HasStep
    <2> QED BY <2>2 DEF next, field
  <1>3. CASE s.accounts # 0
    <2>1. next = [account EXCEPT !.present = @ \cup {field}]
      BY <1>3 DEF TakeOptionalAccount
    <2>2. /\ account \in Readings /\ account.fields = s.fields \cup {field}
          /\ account.present = s.present
      BY <1>1, <1>3, AccountIsTaken DEF Goes
    <2> HIDE DEF next, account
    <2>3. /\ next \in Readings /\ next.fields = s.fields \cup {field}
          /\ next.present = s.present \cup {field}
      BY <1>1, <2>1, <2>2 DEF Readings
    <2> HIDE DEF field
    <2>4. (InOrder(s) => InOrder(next)) /\ HasStep(next, step)
      BY <1>1, <2>3 DEF InOrder, HasStep
    <2>5. Advances(s, next, step)
      BY <1>1, <2>3, <2>4 DEF Advances
    <2> QED BY <2>5 DEF next, field
  <1> QED BY <1>2, <1>3 DEF field, next

LEMMA OptionAdvances ==
    ASSUME NEW s \in Readings, s.rc = 0, NEW raw \in Raw,
           NEW step \in Steps, step.op = "option"
    PROVE  Advances(s, TakeOption(s, raw, step.field, step.size), step)
  <1> DEFINE field == step.field
             tag == TakeBytes(s, "option", 1)
             some == [tag EXCEPT !.present = @ \cup {field}]
             value == TakeBytes(some, field, step.size)
             next == TakeOption(s, raw, field, step.size)
  <1>1. field \in Fields /\ field # "multisig" /\ step.op \notin Required
        /\ step.op # "sign" /\ step.op # "failure" /\ step.op # "signers"
        /\ step.size \in Nat
    BY DEF Steps, Required
  <1>2. Goes(s, tag, "option")
    <2>1. 1 \in Nat
      OBVIOUS
    <2> QED BY <2>1, BytesAreTaken, FieldsOfSteps
  <1>3. CASE tag.rc # 0 \/ ~raw.valid
    <2>1. next = Failed(s)
      BY <1>3 DEF TakeOption
    <2> QED BY <2>1, FailureAdvances
  <1>4. CASE tag.rc = 0 /\ field \notin raw.some /\ raw.valid
    <2>1. next = tag
      BY <1>4 DEF TakeOption
    <2> HIDE DEF next, tag, field
    <2>2. next \in Readings /\ next.fields = s.fields \cup {"option"}
          /\ next.present = s.present
      BY <1>2, <1>4, <2>1 DEF Goes
    <2>3. (InOrder(s) => InOrder(next)) /\ HasStep(next, step)
      BY <1>1, <2>2 DEF InOrder, HasStep
    <2>4. Advances(s, next, step)
      BY <1>1, <2>2, <2>3 DEF Advances
    <2> QED BY <2>4 DEF next, field
  <1>5. CASE tag.rc = 0 /\ field \in raw.some /\ raw.valid
    <2>1. next = value
      BY <1>5 DEF TakeOption
    <2> HIDE DEF tag
    <2>2. tag \in Readings /\ tag.fields = s.fields \cup {"option"}
          /\ tag.present = s.present
      BY <1>2, <1>5 DEF Goes
    <2>3. /\ some \in Readings /\ some.fields = s.fields \cup {"option"}
          /\ some.present = s.present \cup {field}
      BY <1>1, <2>2 DEF Readings
    <2> HIDE DEF some
    <2>4. Goes(some, value, field)
      BY <1>1, <2>3, BytesAreTaken
    <2> HIDE DEF value, next, field
    <2>5. ASSUME next.rc = 0
          PROVE  /\ next.fields = s.fields \cup {"option", field}
                 /\ next.present = s.present \cup {field}
      BY <2>1, <2>3, <2>4, <2>5 DEF Goes
    <2>6. ASSUME next.rc = 0
          PROVE  (InOrder(s) => InOrder(next)) /\ HasStep(next, step)
      BY <1>1, <2>5, <2>6 DEF InOrder, HasStep
    <2>7. next \in Readings
      BY <2>1, <2>4 DEF Goes
    <2>8. Advances(s, next, step)
      BY <1>1, <2>5, <2>6, <2>7 DEF Advances
    <2> QED BY <2>8 DEF next, field
  <1>6. raw.valid \in BOOLEAN
    BY DEF Raw
  <1> QED BY <1>3, <1>4, <1>5, <1>6 DEF next

LEMMA StringAdvances ==
    ASSUME NEW s \in Readings, s.rc = 0, NEW raw \in Raw,
           NEW step \in Steps, step.op = "sized string"
    PROVE  Advances(s, LET length == TakeBytes(s, "length", step.size)
                       IN  IF length.rc # 0 THEN length
                           ELSE TakeBytes(length, step.field, raw.seed), step)
  <1> DEFINE field == step.field
             length == TakeBytes(s, "length", step.size)
             next == IF length.rc # 0 THEN length
                     ELSE TakeBytes(length, field, raw.seed)
  <1>1. field \in Fields /\ field # "multisig" /\ step.op \in Required
        /\ step.op # "sign" /\ step.op # "failure" /\ step.op # "signers"
        /\ step.size \in Nat /\ raw.seed \in Nat
    BY DEF Steps, Required, Raw
  <1>2. Goes(s, length, "length")
    BY <1>1, BytesAreTaken, FieldsOfSteps
  <1> HIDE DEF length
  <1>3. CASE length.rc # 0
    <2>1. next = length /\ next \in Readings /\ next.rc # 0
      BY <1>2, <1>3 DEF Goes
    <2> HIDE DEF next
    <2>2. Advances(s, next, step)
      BY <2>1 DEF Advances
    <2> QED BY <2>2 DEF next, field, length
  <1>4. CASE length.rc = 0
    <2>1. /\ length \in Readings /\ length.fields = s.fields \cup {"length"}
          /\ length.present = s.present
      BY <1>2, <1>4 DEF Goes
    <2>2. Goes(length, next, field)
      BY <1>1, <1>4, <2>1, BytesAreTaken
    <2> HIDE DEF next, field
    <2>3. ASSUME next.rc = 0
          PROVE  /\ next.fields = s.fields \cup {"length", field}
                 /\ next.present = s.present
      BY <2>1, <2>2, <2>3 DEF Goes
    <2>4. ASSUME next.rc = 0
          PROVE  (InOrder(s) => InOrder(next)) /\ HasStep(next, step)
      BY <1>1, <2>3, <2>4 DEF InOrder, HasStep, field
    <2>5. next \in Readings
      BY <2>2 DEF Goes
    <2>6. Advances(s, next, step)
      BY <1>1, <2>3, <2>4, <2>5 DEF Advances, field
    <2> QED BY <2>6 DEF next, field, length
  <1> QED BY <1>3, <1>4 DEF next, field, length

LEMMA SignersAreTaken ==
    ASSUME NEW s \in Readings
    PROVE  LET next == TakeSigners(s)
           IN  /\ next \in Readings
               /\ next.rc = 0 =>
                      /\ next.fields = s.fields \cup {"signers"}
                      /\ next.present = s.present
                      /\ next.signers = s.accounts
                      /\ s.accounts \in 1..Token_MAX_SIGNERS
                      /\ next.accounts = s.accounts - 1
  <1> DEFINE account == NextAccount(s, "signers")
             next == TakeSigners(s)
  <1>1. CASE s.accounts > Token_MAX_SIGNERS
    <2>1. next = Failed(s)
      BY <1>1 DEF TakeSigners
    <2>2. Failed(s) \in Readings /\ Failed(s).rc # 0
      BY FailedIsReading
    <2> HIDE DEF next
    <2>3. next \in Readings /\ next.rc # 0
      BY <2>1, <2>2
    <2> QED BY <2>3 DEF next
  <1>2. CASE ~(s.accounts > Token_MAX_SIGNERS)
    <2>1. next = [account EXCEPT !.signers = s.accounts]
      BY <1>2 DEF TakeSigners
    <2>2. /\ account \in Readings
          /\ s.accounts = 0 => account.rc = 1
          /\ s.accounts # 0 => /\ account.accounts = s.accounts - 1
                               /\ account.fields = s.fields \cup {"signers"}
                               /\ account.present = s.present
      BY AccountIsTaken, FieldsOfSteps DEF Goes
    <2>3. s.accounts \in Nat /\ Token_MAX_SIGNERS = 11
      BY DEF Readings, Token_MAX_SIGNERS
    <2> HIDE DEF next, account
    <2>4. /\ next \in Readings /\ next.rc = account.rc
          /\ next.fields = account.fields /\ next.present = account.present
          /\ next.accounts = account.accounts /\ next.signers = s.accounts
      BY <2>1, <2>2, <2>3 DEF Readings
    <2>5. ASSUME next.rc = 0 PROVE s.accounts \in 1..Token_MAX_SIGNERS
      BY <1>2, <2>2, <2>3, <2>4, <2>5
    <2>6. ASSUME next.rc = 0 PROVE s.accounts # 0
      BY <2>2, <2>4, <2>6
    <2>7. /\ next \in Readings
          /\ next.rc = 0 =>
                 /\ next.fields = s.fields \cup {"signers"}
                 /\ next.present = s.present
                 /\ next.signers = s.accounts
                 /\ s.accounts \in 1..Token_MAX_SIGNERS
                 /\ next.accounts = s.accounts - 1
      BY <2>2, <2>4, <2>5, <2>6
    <2> QED BY <2>7 DEF next
  <1> QED BY <1>1, <1>2

LEMMA SignersAdvance ==
    ASSUME NEW s \in Readings, s.rc = 0, NEW step \in Steps,
           step.op = "signers"
    PROVE  Advances(s, TakeSigners(s), step)
  <1> DEFINE next == TakeSigners(s)
  <1>1. step.op \notin Required /\ step.op # "sign" /\ step.op # "failure"
    BY DEF Required
  <1>2. /\ next \in Readings
        /\ next.rc = 0 => /\ next.fields = s.fields \cup {"signers"}
                          /\ next.present = s.present
    BY SignersAreTaken
  <1> HIDE DEF next
  <1>3. ASSUME next.rc = 0
        PROVE  (InOrder(s) => InOrder(next)) /\ HasStep(next, step)
    BY <1>1, <1>2, <1>3 DEF InOrder, HasStep
  <1>4. Advances(s, next, step)
    BY <1>1, <1>2, <1>3 DEF Advances
  <1> QED BY <1>4 DEF next

(* What a signature makes of a reading.                                    *)
SignsAs(s, next) ==
    /\ next \in Readings
    /\ next.rc = 0 =>
        /\ next.present = s.present
        /\ \/ /\ next.fields = s.fields \cup {"signer"}
              /\ next.accounts = 0
           \/ /\ next.fields = s.fields \cup {"multisig", "signers"}
              /\ next.signers \in 1..Token_MAX_SIGNERS
              /\ next.accounts = next.signers - 1

LEMMA SignatureIsTaken ==
    ASSUME NEW s \in Readings
    PROVE  SignsAs(s, TakeSign(s))
  <1> DEFINE next == TakeSign(s)
             multisig == NextAccount(s, "multisig")
             signers == TakeSigners(multisig)
  <1>0. s.accounts \in Nat
    BY DEF Readings
  <1>1. CASE s.accounts < 2
    <2>1. next = NextAccount(s, "signer")
      BY <1>1 DEF TakeSign
    <2>2. LET account == NextAccount(s, "signer")
          IN  /\ account \in Readings
              /\ s.accounts = 0 => account.rc = 1
              /\ s.accounts # 0 => /\ account.accounts = s.accounts - 1
                                   /\ account.fields = s.fields \cup {"signer"}
                                   /\ account.present = s.present
      BY AccountIsTaken, FieldsOfSteps DEF Goes
    <2> HIDE DEF next
    <2>3. SignsAs(s, next)
      BY <1>0, <1>1, <2>1, <2>2 DEF SignsAs
    <2> QED BY <2>3 DEF next
  <1>2. CASE ~(s.accounts < 2)
    <2>1. next = signers
      BY <1>2 DEF TakeSign
    <2>2. /\ multisig \in Readings
          /\ multisig.fields = s.fields \cup {"multisig"}
          /\ multisig.present = s.present
      BY <1>0, <1>2, AccountIsTaken, FieldsOfSteps DEF Goes
    <2> HIDE DEF multisig
    <2>3. /\ signers \in Readings
          /\ signers.rc = 0 =>
                 /\ signers.fields = multisig.fields \cup {"signers"}
                 /\ signers.present = multisig.present
                 /\ signers.signers = multisig.accounts
                 /\ multisig.accounts \in 1..Token_MAX_SIGNERS
                 /\ signers.accounts = multisig.accounts - 1
      BY <2>2, SignersAreTaken
    <2> HIDE DEF next, signers
    <2>4. SignsAs(s, next)
      BY <2>1, <2>2, <2>3 DEF SignsAs
    <2> QED BY <2>4 DEF next
  <1> QED BY <1>1, <1>2

LEMMA SignatureAdvances ==
    ASSUME NEW s \in Readings, s.rc = 0, NEW step \in Steps,
           step.op = "sign"
    PROVE  Advances(s, TakeSign(s), step)
  <1> DEFINE next == TakeSign(s)
  <1>1. step.op \notin Required /\ step.op # "signers" /\ step.op # "failure"
    BY DEF Required
  <1>2. SignsAs(s, next)
    BY SignatureIsTaken
  <1> HIDE DEF next
  <1>3. ASSUME next.rc = 0
        PROVE  (InOrder(s) => InOrder(next)) /\ HasStep(next, step)
    BY <1>1, <1>2, <1>3 DEF InOrder, HasStep, SignsAs
  <1>4. ASSUME next.rc = 0, "multisig" \notin s.fields PROVE Counted(next)
    BY <1>2, <1>4 DEF SignsAs, Counted
  <1>5. next \in Readings /\ (next.rc = 0 => s.fields \subseteq next.fields)
    BY <1>2 DEF SignsAs
  <1>6. Advances(s, next, step)
    BY <1>3, <1>4, <1>5 DEF Advances
  <1> QED BY <1>6 DEF next

LEMMA StayingAdvances ==
    ASSUME NEW s \in Readings, s.rc = 0, NEW step \in Steps,
           step.op = "exactly"
    PROVE  Advances(s, s, step)
  <1>1. step.op \notin Required /\ step.op # "signers" /\ step.op # "failure"
        /\ step.op # "sign"
    BY DEF Required
  <1> QED BY <1>1 DEF Advances, HasStep

(* Any step of a parser, from any reading.                                 *)
LEMMA EveryStepAdvances ==
    ASSUME NEW s \in Readings, s.rc = 0, NEW raw \in Raw,
           NEW step \in Steps
    PROVE  Advances(s, Take(s, step, raw), step)
  <1> DEFINE field == step.field
             width == step.size
             op == step.op
  <1>1. field \in Fields /\ width \in Nat /\ op \in Operations
    BY DEF Steps
  <1>2. CASE op = "account"
    <2>1. Take(s, step, raw) = NextAccount(s, field)
      BY <1>2 DEF Take
    <2>2. Goes(s, NextAccount(s, field), field) /\ op \in Required
      BY <1>1, <1>2, AccountIsTaken DEF Required
    <2> QED BY <2>1, <2>2, FieldAdvances
  <1>3. CASE op = "optional account"
    <2>1. Take(s, step, raw) = TakeOptionalAccount(s, field)
      BY <1>3 DEF Take
    <2> QED BY <1>3, <2>1, OptionalAdvances
  <1>4. CASE op = "bytes"
    <2>1. Take(s, step, raw) = TakeBytes(s, field, width)
      BY <1>4 DEF Take
    <2>2. Goes(s, TakeBytes(s, field, width), field) /\ op \in Required
      BY <1>1, <1>4, BytesAreTaken DEF Required
    <2> QED BY <2>1, <2>2, FieldAdvances
  <1>5. CASE op = "enumeration"
    <2>1. Take(s, step, raw) = IF raw.valid THEN TakeBytes(s, field, width)
                               ELSE Failed(s)
      BY <1>5 DEF Take
    <2>2. Goes(s, TakeBytes(s, field, width), field) /\ op \in Required
      BY <1>1, <1>5, BytesAreTaken DEF Required
    <2>3. Advances(s, TakeBytes(s, field, width), step)
      BY <2>2, FieldAdvances
    <2>4. Advances(s, Failed(s), step)
      BY FailureAdvances
    <2> QED BY <2>1, <2>3, <2>4
  <1>6. CASE op = "option"
    <2>1. Take(s, step, raw) = TakeOption(s, raw, field, width)
      BY <1>6 DEF Take
    <2> QED BY <1>6, <2>1, OptionAdvances
  <1>7. CASE op = "sized string"
    <2>1. Take(s, step, raw) =
              LET length == TakeBytes(s, "length", width)
              IN  IF length.rc # 0 THEN length
                  ELSE TakeBytes(length, field, raw.seed)
      BY <1>7 DEF Take
    <2> QED BY <1>7, <2>1, StringAdvances
  <1>8. CASE op = "exactly"
    <2>1. Take(s, step, raw) = IF raw.accounts = width THEN s ELSE Failed(s)
      BY <1>8 DEF Take
    <2>2. Advances(s, s, step) /\ Advances(s, Failed(s), step)
      BY <1>8, StayingAdvances, FailureAdvances
    <2> QED BY <2>1, <2>2
  <1>9. CASE op = "signers"
    <2>1. Take(s, step, raw) = TakeSigners(s)
      BY <1>9 DEF Take
    <2> QED BY <1>9, <2>1, SignersAdvance
  <1>10. CASE op = "sign"
    <2>1. Take(s, step, raw) = TakeSign(s)
      BY <1>10 DEF Take
    <2> QED BY <1>10, <2>1, SignatureAdvances
  <1>11. CASE op = "failure"
    <2>1. Take(s, step, raw) = Failed(s)
      BY <1>11 DEF Take
    <2> QED BY <2>1, FailureAdvances
  <1> QED BY <1>1, <1>2, <1>3, <1>4, <1>5, <1>6, <1>7, <1>8, <1>9, <1>10,
             <1>11 DEF Operations

Unsigned(layout, n) == \A k \in 1..n : layout[k].op # "sign"

(* What is known of a parser when it has taken some of its steps.          *)
Parsing(s, layout) ==
    /\ s \in [taken : Nat, reading : Readings]
    /\ s.taken <= Len(layout)
    /\ s.reading.rc = 0 =>
        /\ InOrder(s.reading)
        /\ \A k \in 1..s.taken : HasStep(s.reading, layout[k])
        /\ Unsigned(layout, s.taken) => "multisig" \notin s.reading.fields
        /\ s.taken > 0 /\ Unsigned(layout, s.taken - 1) =>
               (layout[s.taken].op = "sign" => Counted(s.reading))

LEMMA StepsAreKept ==
    ASSUME NEW s, NEW next, NEW step, HasStep(s, step),
           s.fields \subseteq next.fields
    PROVE  HasStep(next, step)
  BY DEF HasStep

(* A turn of the loop that takes a step.                                   *)
LEMMA ParsingAdvances ==
    ASSUME NEW layout \in Seq(Steps), NEW s, Parsing(s, layout),
           s.taken < Len(layout), s.reading.rc = 0, NEW next,
           Advances(s.reading, next, layout[s.taken + 1])
    PROVE  Parsing([taken |-> s.taken + 1, reading |-> next], layout)
  <1> DEFINE n == s.taken + 1
             t == [taken |-> n, reading |-> next]
  <1>1. s.taken \in Nat /\ n \in Nat /\ n \in 1..Len(layout) /\ n > 0
        /\ n - 1 = s.taken /\ Len(layout) \in Nat /\ n <= Len(layout)
    BY DEF Parsing
  <1>2. t \in [taken : Nat, reading : Readings]
    BY <1>1 DEF Advances
  <1>3. ASSUME next.rc = 0
        PROVE  /\ s.reading.fields \subseteq next.fields
               /\ InOrder(next)
               /\ HasStep(next, layout[n])
               /\ "multisig" \notin s.reading.fields =>
                      IF layout[n].op = "sign" THEN Counted(next)
                      ELSE "multisig" \notin next.fields
    BY <1>3 DEF Advances, Parsing
  <1> HIDE DEF n
  <1>4. ASSUME next.rc = 0, NEW k \in 1..n PROVE HasStep(next, layout[k])
    <2>1. CASE k = n
      BY <1>3, <1>4, <2>1
    <2>2. CASE k # n
      <3>1. k \in 1..s.taken
        BY <1>1, <2>2
      <3>2. HasStep(s.reading, layout[k])
        BY <3>1 DEF Parsing
      <3> QED BY <1>3, <1>4, <3>2, StepsAreKept
    <2> QED BY <2>1, <2>2
  <1>5. ASSUME next.rc = 0, Unsigned(layout, n)
        PROVE  "multisig" \notin next.fields
    <2>1. Unsigned(layout, s.taken) /\ layout[n].op # "sign"
      BY <1>1, <1>5 DEF Unsigned
    <2>2. "multisig" \notin s.reading.fields
      BY <2>1 DEF Parsing
    <2> QED BY <1>3, <1>5, <2>1, <2>2
  <1>6. ASSUME next.rc = 0, Unsigned(layout, n - 1), layout[n].op = "sign"
        PROVE  Counted(next)
    <2>1. "multisig" \notin s.reading.fields
      BY <1>1, <1>6 DEF Parsing
    <2> QED BY <1>3, <1>6, <2>1
  <1>7. t.taken = n /\ t.reading = next
    OBVIOUS
  <1> HIDE DEF t
  <1>8. Parsing(t, layout)
    BY <1>1, <1>2, <1>3, <1>4, <1>5, <1>6, <1>7 DEF Parsing
  <1> QED BY <1>8 DEF t, n

(* A parser that succeeds took all its steps.                              *)
LEMMA StepsAreParsed ==
    ASSUME NEW raw \in Raw, NEW layout \in Seq(Steps)
    PROVE  LET end == StepsTaken(layout, raw)[Len(layout)]
           IN  /\ Parsing(end, layout)
               /\ end.reading.rc = 0 => end.taken = Len(layout)
  <1> DEFINE T == [taken : Nat, reading : Readings]
             L == Len(layout)
             start == [taken |-> 0, reading |-> Reading(raw)]
             Next(s) == [taken |-> s.taken + 1,
                         reading |-> Take(s.reading, layout[s.taken + 1], raw)]
             turn == [s \in T |-> IF s.taken >= L \/ s.reading.rc # 0 THEN s
                                  ELSE Next(s)]
             A == After(turn, start)
             Upto(n) == IF n < L THEN n ELSE L
             Good(n) == /\ Parsing(A[n], layout)
                        /\ A[n].reading.rc = 0 => A[n].taken = Upto(n)
  <1>1. L \in Nat
    OBVIOUS
  <1>2. start \in T
    BY ReadingStarts
  <1>3. ASSUME NEW s \in T, s.taken < L, s.reading.rc = 0
        PROVE
          /\ Advances(s.reading, Take(s.reading, layout[s.taken + 1], raw),
                           layout[s.taken + 1])
               /\ Next(s) \in T
    <2>1. /\ s.reading \in Readings /\ s.taken \in Nat
          /\ s.taken + 1 \in 1..Len(layout)
      BY <1>1, <1>3
    <2>2. layout[s.taken + 1] \in Steps
      BY <2>1
    <2>3. Advances(s.reading, Take(s.reading, layout[s.taken + 1], raw),
                   layout[s.taken + 1])
      BY <1>3, <2>1, <2>2, EveryStepAdvances
    <2>4. Take(s.reading, layout[s.taken + 1], raw) \in Readings
      BY <2>3 DEF Advances
    <2> QED BY <2>1, <2>3, <2>4
  <1>4. ASSUME NEW s \in T
        PROVE  /\ turn[s] \in T
               /\ turn[s] = IF s.taken >= L \/ s.reading.rc # 0 THEN s
                            ELSE Next(s)
    <2>1. s.taken \in Nat
      OBVIOUS
    <2> HIDE DEF Next
    <2>2. turn[s] = IF s.taken >= L \/ s.reading.rc # 0 THEN s ELSE Next(s)
      OBVIOUS
    <2> HIDE DEF T, L, turn
    <2> QED BY <1>1, <1>3, <2>1, <2>2
  <1>5. turn \in [T -> T]
    <2> HIDE DEF Next, T, L
    <2>1. turn = [s \in T |-> turn[s]]
      OBVIOUS
    <2> HIDE DEF turn
    <2> QED BY <1>4, <2>1
  <1> HIDE DEF T, turn, start
  <1>6. /\ A \in [Nat -> T] /\ A[0] = start
        /\ \A n \in Nat : A[n + 1] = turn[A[n]]
    BY <1>2, <1>5, LoopFollows DEF Follows
  <1> HIDE DEF A
  <1>7. Good(0)
    <2>1. start.taken = 0 /\ start.reading = Reading(raw)
      BY DEF start
    <2>2. Reading(raw).fields = {} /\ InOrder(Reading(raw))
      BY ReadingStarts
    <2>3. Parsing(start, layout)
      <3>1. start \in [taken : Nat, reading : Readings]
        BY <1>2 DEF T
      <3> QED BY <2>1, <2>2, <3>1, <1>1 DEF Parsing
    <2> QED BY <1>1, <1>6, <2>1, <2>3
  <1>8. ASSUME NEW n \in Nat, Good(n) PROVE Good(n + 1)
    <2> DEFINE s == A[n]
    <2>1. s \in T /\ A[n + 1] = turn[s] /\ Parsing(s, layout)
          /\ (s.reading.rc = 0 => s.taken = Upto(n))
      BY <1>6, <1>8
    <2> HIDE DEF s
    <2>2. s.taken \in Nat
      BY <2>1 DEF T
    <2>3. CASE s.taken >= L \/ s.reading.rc # 0
      <3>1. A[n + 1] = s
        BY <1>4, <2>1, <2>3
      <3>2. s.reading.rc = 0 => s.taken = Upto(n + 1)
        BY <1>1, <2>1, <2>2, <2>3
      <3> QED BY <2>1, <3>1, <3>2
    <2>4. CASE ~(s.taken >= L \/ s.reading.rc # 0)
      <3>1. s.taken < L /\ s.reading.rc = 0
        BY <1>1, <2>2, <2>4
      <3>2. A[n + 1] = Next(s)
        BY <1>4, <2>1, <2>4
      <3>3. Advances(s.reading, Take(s.reading, layout[s.taken + 1], raw),
                     layout[s.taken + 1])
        BY <1>3, <2>1, <3>1
      <3>4. Parsing(Next(s), layout)
        BY <2>1, <3>1, <3>3, ParsingAdvances
      <3>5. Next(s).taken = Upto(n + 1)
        BY <1>1, <2>1, <3>1
      <3> HIDE DEF Next
      <3> QED BY <3>2, <3>4, <3>5
    <2> QED BY <2>3, <2>4
  <1>9. \A n \in Nat : Good(n)
    <2> DEFINE S == {n \in Nat : Good(n)}
    <2> HIDE DEF Good
    <2>1. 0 \in S
      BY <1>7
    <2>2. ASSUME NEW n \in Nat, n \in S PROVE n + 1 \in S
      BY <1>8, <2>2
    <2> HIDE DEF S
    <2>3. Nat \subseteq S
      BY <2>1, <2>2, SetInduction
    <2> QED BY <2>3 DEF S
  <1>10. Good(L)
    BY <1>1, <1>9
  <1>11. A = StepsTaken(layout, raw)
    BY DEF A, StepsTaken, turn, start, T, L, Next
  <1> QED BY <1>1, <1>10, <1>11

-----------------------------------------------------------------------------
(* What is read of an instruction.                                         *)

Has(p, steps) == \A k \in 1..Len(steps) : HasStep(p, steps[k])

LEMMA LayoutIsRead ==
    ASSUME NEW raw \in Raw, Layout(raw) \in Seq(Steps),
           ParsedInstruction(raw).rc = 0
    PROVE  LET p == ParsedInstruction(raw)
               layout == Layout(raw)
           IN  /\ InOrder(p) /\ Has(p, layout)
               /\ Len(layout) > 0 /\ Unsigned(layout, Len(layout) - 1) =>
                      (layout[Len(layout)].op = "sign" => Counted(p))
  <1> DEFINE layout == Layout(raw)
             end == StepsTaken(layout, raw)[Len(layout)]
  <1>1. ParsedInstruction(raw) = end.reading
    BY DEF ParsedInstruction
  <1>2. Parsing(end, layout) /\ end.taken = Len(layout) /\ end.reading.rc = 0
    BY <1>1, StepsAreParsed
  <1> HIDE DEF layout, end
  <1>3. /\ InOrder(end.reading) /\ Has(end.reading, layout)
        /\ Len(layout) > 0 /\ Unsigned(layout, Len(layout) - 1) =>
               (layout[Len(layout)].op = "sign" => Counted(end.reading))
    BY <1>2 DEF Parsing, Has
  <1> QED BY <1>1, <1>3 DEF layout

(* The same of what is behind the kind.                                    *)
LEMMA BodyIsRead ==
    ASSUME NEW raw \in Raw, NEW head \in Steps, head.op # "sign",
           NEW body \in Seq(Steps), Layout(raw) = <<head>> \o body,
           ParsedInstruction(raw).rc = 0
    PROVE  LET p == ParsedInstruction(raw)
           IN  /\ InOrder(p) /\ Has(p, body)
               /\ Len(body) > 0 /\ Unsigned(body, Len(body) - 1) =>
                      (body[Len(body)].op = "sign" => Counted(p))
  <1> DEFINE p == ParsedInstruction(raw)
             layout == <<head>> \o body
             n == Len(body)
  <1>1. /\ layout \in Seq(Steps) /\ Len(layout) = n + 1 /\ n \in Nat
        /\ layout[1] = head
        /\ \A k \in 1..n : layout[k + 1] = body[k]
    OBVIOUS
  <1>2. Layout(raw) \in Seq(Steps)
    BY <1>1
  <1>3. /\ InOrder(p) /\ Has(p, Layout(raw))
        /\ Len(Layout(raw)) > 0 /\ Unsigned(Layout(raw), Len(Layout(raw)) - 1)
               => (Layout(raw)[Len(Layout(raw))].op = "sign" => Counted(p))
    BY <1>2, LayoutIsRead
  <1>4. /\ InOrder(p) /\ Has(p, layout)
        /\ Len(layout) > 0 /\ Unsigned(layout, Len(layout) - 1) =>
               (layout[Len(layout)].op = "sign" => Counted(p))
    BY <1>3
  <1> HIDE DEF p, layout, n
  <1>5. Has(p, body)
    <2>1. ASSUME NEW k \in 1..n PROVE HasStep(p, body[k])
      <3>1. k + 1 \in 1..Len(layout) /\ layout[k + 1] = body[k]
        BY <1>1
      <3> QED BY <1>4, <3>1 DEF Has
    <2> QED BY <2>1 DEF Has, n
  <1>6. ASSUME n > 0, Unsigned(body, n - 1), body[n].op = "sign"
        PROVE  Counted(p)
    <2>0. n \in 1..n
      BY <1>1, <1>6
    <2>5. Len(layout) = n + 1 /\ layout[n + 1] = body[n]
      BY <1>1, <2>0, Zenon
    <2>1. Len(layout) - 1 = n /\ layout[Len(layout)] = body[n]
      BY <1>1, <2>5
    <2>2. ASSUME NEW k \in 1..n PROVE layout[k].op # "sign"
      <3>1. CASE k = 1
        BY <1>1, <3>1
      <3>2. CASE k # 1
        <4>1. k - 1 \in 1..(n - 1) /\ k - 1 \in 1..n /\ (k - 1) + 1 = k
          BY <1>1, <3>2
        <4>2. layout[(k - 1) + 1] = body[k - 1]
          BY <1>1, <4>1
        <4>3. body[k - 1].op # "sign"
          BY <1>6, <4>1 DEF Unsigned
        <4> QED BY <4>1, <4>2, <4>3
      <3> QED BY <3>1, <3>2
    <2>3. Unsigned(layout, Len(layout) - 1)
      BY <2>1, <2>2 DEF Unsigned
    <2>4. Len(layout) > 0
      BY <1>1
    <2> QED BY <1>4, <1>6, <2>1, <2>3, <2>4
  <1> QED BY <1>4, <1>5, <1>6 DEF p, n

LEMMA StepIsStep ==
    ASSUME NEW op \in Operations, NEW field \in Fields \ {"multisig"},
           NEW width \in Nat
    PROVE  Step(op, field, width) \in Steps
  BY DEF Step, Steps

LEMMA FieldsAreSteps ==
    ASSUME NEW field \in Fields \ {"multisig"}
    PROVE  /\ Account(field) \in Steps /\ OptionalAccount(field) \in Steps
           /\ U8(field) \in Steps /\ U32(field) \in Steps
           /\ U64(field) \in Steps /\ Pubkey(field) \in Steps
           /\ \A width \in Nat : /\ Enumerated(field, width) \in Steps
                                /\ Option(field, width) \in Steps
  BY StepIsStep DEF Account, OptionalAccount, U8, U32, U64, Pubkey,
                    Enumerated, Option, Operations

LEMMA OtherSteps ==
    /\ SkippedAccount \in Steps /\ Seed \in Steps /\ Signers \in Steps
    /\ Sign \in Steps /\ Failure \in Steps
    /\ \A n \in Nat : Exactly(n) \in Steps
  <1>1. \A f \in {"skipped", "seed", "signers", "signer", "kind", "account"} :
            f \in Fields \ {"multisig"}
    BY DEF Fields
  <1> QED BY <1>1, StepIsStep DEF SkippedAccount, Account, Seed, Signers, Sign,
                            Failure, Exactly, Operations

(* The fields that steps leave in what is read.                            *)
LEMMA FieldsAreRead ==
    ASSUME NEW p, NEW field
    PROVE  /\ HasStep(p, Account(field)) => field \in p.fields
           /\ HasStep(p, U8(field)) => field \in p.fields
           /\ HasStep(p, U32(field)) => field \in p.fields
           /\ HasStep(p, U64(field)) => field \in p.fields
           /\ HasStep(p, Pubkey(field)) => field \in p.fields
  BY DEF HasStep, Account, U8, U32, U64, Pubkey, Step, Required

LEMMA OthersAreRead ==
    ASSUME NEW p
    PROVE  /\ HasStep(p, Seed) => "seed" \in p.fields
           /\ HasStep(p, Signers) => "signers" \in p.fields
           /\ HasStep(p, Sign) => \/ "signer" \in p.fields
                                  \/ "multisig" \in p.fields
           /\ ~HasStep(p, Failure)
           /\ \A field, width : HasStep(p, Enumerated(field, width)) =>
                                   field \in p.fields
  BY DEF HasStep, Seed, Signers, Sign, Failure, Enumerated, Step, Required

LEMMA HasEach1 ==
    ASSUME NEW p, NEW a, Has(p, <<a>>)
    PROVE  HasStep(p, a)
  <1> DEFINE s == <<a>>
  <1>1. Len(s) = 1 /\ s[1] = a
    OBVIOUS
  <1>2. \A k \in 1..Len(s) : HasStep(p, s[k])
    BY DEF Has
  <1> HIDE DEF s
  <1>3. 1 \in 1..Len(s)
    BY <1>1
  <1> QED BY <1>1, <1>2, <1>3

LEMMA HasEach2 ==
    ASSUME NEW p, NEW a, NEW b, Has(p, <<a, b>>)
    PROVE  HasStep(p, a) /\ HasStep(p, b)
  <1> DEFINE s == <<a, b>>
  <1>1. Len(s) = 2 /\ s[1] = a /\ s[2] = b
    OBVIOUS
  <1>2. \A k \in 1..Len(s) : HasStep(p, s[k])
    BY DEF Has
  <1> HIDE DEF s
  <1>3. 1 \in 1..Len(s) /\ 2 \in 1..Len(s)
    BY <1>1
  <1> QED BY <1>1, <1>2, <1>3

LEMMA HasEach3 ==
    ASSUME NEW p, NEW a, NEW b, NEW c, Has(p, <<a, b, c>>)
    PROVE  HasStep(p, a) /\ HasStep(p, b) /\ HasStep(p, c)
  <1> DEFINE s == <<a, b, c>>
  <1>1. Len(s) = 3 /\ s[1] = a /\ s[2] = b /\ s[3] = c
    OBVIOUS
  <1>2. \A k \in 1..Len(s) : HasStep(p, s[k])
    BY DEF Has
  <1> HIDE DEF s
  <1>3. 1 \in 1..Len(s) /\ 2 \in 1..Len(s) /\ 3 \in 1..Len(s)
    BY <1>1
  <1> QED BY <1>1, <1>2, <1>3

LEMMA HasEach4 ==
    ASSUME NEW p, NEW a, NEW b, NEW c, NEW d, Has(p, <<a, b, c, d>>)
    PROVE  HasStep(p, a) /\ HasStep(p, b) /\ HasStep(p, c) /\ HasStep(p, d)
  <1> DEFINE s == <<a, b, c, d>>
  <1>1. Len(s) = 4 /\ s[1] = a /\ s[2] = b /\ s[3] = c /\ s[4] = d
    OBVIOUS
  <1>2. \A k \in 1..Len(s) : HasStep(p, s[k])
    BY DEF Has
  <1> HIDE DEF s
  <1>3. 1 \in 1..Len(s) /\ 2 \in 1..Len(s) /\ 3 \in 1..Len(s)
        /\ 4 \in 1..Len(s)
    BY <1>1
  <1> QED BY <1>1, <1>2, <1>3

LEMMA HasEach5 ==
    ASSUME NEW p, NEW a, NEW b, NEW c, NEW d, NEW e, Has(p, <<a, b, c, d, e>>)
    PROVE  HasStep(p, a) /\ HasStep(p, b) /\ HasStep(p, c) /\ HasStep(p, d)
           /\ HasStep(p, e)
  <1> DEFINE s == <<a, b, c, d, e>>
  <1>1. Len(s) = 5 /\ s[1] = a /\ s[2] = b /\ s[3] = c /\ s[4] = d /\ s[5] = e
    OBVIOUS
  <1>2. \A k \in 1..Len(s) : HasStep(p, s[k])
    BY DEF Has
  <1> HIDE DEF s
  <1>3. 1 \in 1..Len(s) /\ 2 \in 1..Len(s) /\ 3 \in 1..Len(s)
        /\ 4 \in 1..Len(s) /\ 5 \in 1..Len(s)
    BY <1>1
  <1> QED BY <1>1, <1>2, <1>3

LEMMA HasEach6 ==
    ASSUME NEW p, NEW a, NEW b, NEW c, NEW d, NEW e, NEW f,
           Has(p, <<a, b, c, d, e, f>>)
    PROVE  HasStep(p, a) /\ HasStep(p, b) /\ HasStep(p, c) /\ HasStep(p, d)
           /\ HasStep(p, e) /\ HasStep(p, f)
  <1> DEFINE s == <<a, b, c, d, e, f>>
  <1>1. Len(s) = 6 /\ s[1] = a /\ s[2] = b /\ s[3] = c /\ s[4] = d /\ s[5] = e
        /\ s[6] = f
    OBVIOUS
  <1>2. \A k \in 1..Len(s) : HasStep(p, s[k])
    BY DEF Has
  <1> HIDE DEF s
  <1>3. 1 \in 1..Len(s) /\ 2 \in 1..Len(s) /\ 3 \in 1..Len(s)
        /\ 4 \in 1..Len(s) /\ 5 \in 1..Len(s) /\ 6 \in 1..Len(s)
    BY <1>1
  <1> QED BY <1>1, <1>2, <1>3

LEMMA HasEach7 ==
    ASSUME NEW p, NEW a, NEW b, NEW c, NEW d, NEW e, NEW f, NEW g,
           Has(p, <<a, b, c, d, e, f, g>>)
    PROVE  HasStep(p, a) /\ HasStep(p, b) /\ HasStep(p, c) /\ HasStep(p, d)
           /\ HasStep(p, e) /\ HasStep(p, f) /\ HasStep(p, g)
  <1> DEFINE s == <<a, b, c, d, e, f, g>>
  <1>1. Len(s) = 7 /\ s[1] = a /\ s[2] = b /\ s[3] = c /\ s[4] = d /\ s[5] = e
        /\ s[6] = f /\ s[7] = g
    OBVIOUS
  <1>2. \A k \in 1..Len(s) : HasStep(p, s[k])
    BY DEF Has
  <1> HIDE DEF s
  <1>3. 1 \in 1..Len(s) /\ 2 \in 1..Len(s) /\ 3 \in 1..Len(s)
        /\ 4 \in 1..Len(s) /\ 5 \in 1..Len(s) /\ 6 \in 1..Len(s)
        /\ 7 \in 1..Len(s)
    BY <1>1
  <1> QED BY <1>1, <1>2, <1>3

LEMMA KindsAreApart ==
    /\ SystemKinds \cap (StakeKinds \cup VoteKinds \cup SplTokenKinds
            \cup {"AssociatedTokenCreate"} \cup ComputeBudgetKinds
            \cup IgnoredKinds) = {}
    /\ StakeKinds \cap (VoteKinds \cup SplTokenKinds
            \cup {"AssociatedTokenCreate"} \cup ComputeBudgetKinds
            \cup IgnoredKinds) = {}
    /\ VoteKinds \cap (SplTokenKinds \cup {"AssociatedTokenCreate"}
            \cup ComputeBudgetKinds \cup IgnoredKinds) = {}
    /\ SplTokenKinds \cap ({"AssociatedTokenCreate"} \cup ComputeBudgetKinds
                           \cup IgnoredKinds) = {}
    /\ "AssociatedTokenCreate" \notin ComputeBudgetKinds \cup IgnoredKinds
  BY DEF SystemKinds, StakeKinds, VoteKinds, SplTokenKinds,
         StakeAuthorizeKinds, StakeInitializeKinds, SetLockupKinds,
         VoteAuthorizeKinds,
         InitializeAccountKinds, SignedTokenKinds, ComputeBudgetKinds,
         IgnoredKinds

LEMMA LayoutOfKind ==
    ASSUME NEW raw
    PROVE  /\ raw.kind \in SystemKinds =>
                  Layout(raw) = <<U32("kind")>> \o SystemLayout(raw.kind)
           /\ raw.kind \in StakeKinds =>
                  Layout(raw) = <<U32("kind")>> \o StakeLayout(raw.kind)
           /\ raw.kind \in VoteKinds =>
                  Layout(raw) = <<U32("kind")>> \o VoteLayout(raw)
           /\ raw.kind \in SplTokenKinds =>
                  Layout(raw) = <<U8("kind")>> \o SplTokenLayout(raw.kind)
           /\ raw.kind = "AssociatedTokenCreate" =>
                  Layout(raw) = AssociatedTokenLayout
  <1>1. ASSUME raw.kind \in SystemKinds
        PROVE  Layout(raw) = <<U32("kind")>> \o SystemLayout(raw.kind)
    <2>1. /\ raw.kind \notin StakeKinds /\ raw.kind \notin VoteKinds
          /\ raw.kind \notin SplTokenKinds
          /\ raw.kind # "AssociatedTokenCreate"
          /\ raw.kind \notin ComputeBudgetKinds /\ raw.kind \notin IgnoredKinds
      BY <1>1, KindsAreApart
    <2> QED BY <1>1, <2>1 DEF Layout, parse_system_instructions
  <1>2. ASSUME raw.kind \in StakeKinds
        PROVE  Layout(raw) = <<U32("kind")>> \o StakeLayout(raw.kind)
    <2>1. /\ raw.kind \notin SystemKinds /\ raw.kind \notin VoteKinds
          /\ raw.kind \notin SplTokenKinds
          /\ raw.kind # "AssociatedTokenCreate"
          /\ raw.kind \notin ComputeBudgetKinds /\ raw.kind \notin IgnoredKinds
      BY <1>2, KindsAreApart
    <2> QED BY <1>2, <2>1 DEF Layout, parse_stake_instructions
  <1>3. ASSUME raw.kind \in VoteKinds
        PROVE  Layout(raw) = <<U32("kind")>> \o VoteLayout(raw)
    <2>1. /\ raw.kind \notin SystemKinds /\ raw.kind \notin StakeKinds
          /\ raw.kind \notin SplTokenKinds
          /\ raw.kind # "AssociatedTokenCreate"
          /\ raw.kind \notin ComputeBudgetKinds /\ raw.kind \notin IgnoredKinds
      BY <1>3, KindsAreApart
    <2> QED BY <1>3, <2>1 DEF Layout, parse_vote_instructions
  <1>4. ASSUME raw.kind \in SplTokenKinds
        PROVE  Layout(raw) = <<U8("kind")>> \o SplTokenLayout(raw.kind)
    <2>1. /\ raw.kind \notin SystemKinds /\ raw.kind \notin StakeKinds
          /\ raw.kind \notin VoteKinds /\ raw.kind # "AssociatedTokenCreate"
          /\ raw.kind \notin ComputeBudgetKinds /\ raw.kind \notin IgnoredKinds
      BY <1>4, KindsAreApart
    <2> QED BY <1>4, <2>1 DEF Layout, parse_spl_token_instructions
  <1>5. ASSUME raw.kind = "AssociatedTokenCreate"
        PROVE  Layout(raw) = AssociatedTokenLayout
    <2>1. /\ raw.kind \notin SystemKinds /\ raw.kind \notin StakeKinds
          /\ raw.kind \notin VoteKinds /\ raw.kind \notin SplTokenKinds
          /\ raw.kind \notin ComputeBudgetKinds /\ raw.kind \notin IgnoredKinds
      BY <1>5, KindsAreApart
    <2> QED BY <1>5, <2>1 DEF Layout
  <1> QED BY <1>1, <1>2, <1>3, <1>4, <1>5

LEMMA KindsAreSteps ==
    /\ U32("kind") \in Steps /\ U32("kind").op # "sign"
    /\ U8("kind") \in Steps /\ U8("kind").op # "sign"
  <1>1. "kind" \in Fields \ {"multisig"}
    BY DEF Fields
  <1> QED BY <1>1, FieldsAreSteps DEF U32, U8, Step

LEMMA LayoutWithBody ==
    ASSUME NEW raw, NEW body
    PROVE  /\ raw.kind \in SystemKinds /\ SystemLayout(raw.kind) = body =>
                  Layout(raw) = <<U32("kind")>> \o body
           /\ raw.kind \in StakeKinds /\ StakeLayout(raw.kind) = body =>
                  Layout(raw) = <<U32("kind")>> \o body
           /\ raw.kind \in VoteKinds /\ VoteLayout(raw) = body =>
                  Layout(raw) = <<U32("kind")>> \o body
           /\ raw.kind \in SplTokenKinds /\ SplTokenLayout(raw.kind) = body =>
                  Layout(raw) = <<U8("kind")>> \o body
  <1>1. /\ raw.kind \in SystemKinds =>
               Layout(raw) = <<U32("kind")>> \o SystemLayout(raw.kind)
        /\ raw.kind \in StakeKinds =>
               Layout(raw) = <<U32("kind")>> \o StakeLayout(raw.kind)
        /\ raw.kind \in VoteKinds =>
               Layout(raw) = <<U32("kind")>> \o VoteLayout(raw)
        /\ raw.kind \in SplTokenKinds =>
               Layout(raw) = <<U8("kind")>> \o SplTokenLayout(raw.kind)
    BY LayoutOfKind, Zenon
  <1> QED BY <1>1

LEMMA SameElements ==
    ASSUME NEW S, NEW s \in Seq(S), NEW t \in Seq(S), Len(s) = Len(t),
           \A k \in 1..Len(s) : s[k] = t[k]
    PROVE  s = t
  OBVIOUS

LEMMA Joined221 ==
    ASSUME NEW a, NEW b, NEW c, NEW d, NEW e
    PROVE  <<a, b>> \o <<c, d>> \o <<e>> = <<a, b, c, d, e>>
  <1> DEFINE S == {a, b, c, d, e}
             s == <<a, b>> \o <<c, d>> \o <<e>>
             t == <<a, b, c, d, e>>
  <1>1. s \in Seq(S) /\ t \in Seq(S)
    OBVIOUS
  <1>2. Len(s) = 5 /\ Len(t) = 5 /\ s[1] = a /\ s[2] = b /\ s[3] = c
        /\ s[4] = d /\ s[5] = e
    OBVIOUS
  <1>3. t[1] = a /\ t[2] = b /\ t[3] = c /\ t[4] = d /\ t[5] = e
    OBVIOUS
  <1> HIDE DEF s, t, S
  <1>4. \A k \in 1..5 : s[k] = t[k]
    BY <1>2, <1>3
  <1>5. s = t
    BY <1>1, <1>2, <1>4, SameElements
  <1> QED BY <1>5 DEF s, t

LEMMA Joined23 ==
    ASSUME NEW a, NEW b, NEW c, NEW d, NEW e
    PROVE  <<a, b>> \o <<c, d, e>> = <<a, b, c, d, e>>
  <1> DEFINE S == {a, b, c, d, e}
             s == <<a, b>> \o <<c, d, e>>
             t == <<a, b, c, d, e>>
  <1>1. s \in Seq(S) /\ t \in Seq(S)
    OBVIOUS
  <1>2. Len(s) = 5 /\ Len(t) = 5 /\ s[1] = a /\ s[2] = b /\ s[3] = c
        /\ s[4] = d /\ s[5] = e
    OBVIOUS
  <1>3. t[1] = a /\ t[2] = b /\ t[3] = c /\ t[4] = d /\ t[5] = e
    OBVIOUS
  <1> HIDE DEF s, t, S
  <1>4. \A k \in 1..5 : s[k] = t[k]
    BY <1>2, <1>3
  <1>5. s = t
    BY <1>1, <1>2, <1>4, SameElements
  <1> QED BY <1>5 DEF s, t

LEMMA Joined24 ==
    ASSUME NEW a, NEW b, NEW c, NEW d, NEW e, NEW f
    PROVE  <<a, b>> \o <<c, d, e, f>> = <<a, b, c, d, e, f>>
  <1> DEFINE S == {a, b, c, d, e, f}
             s == <<a, b>> \o <<c, d, e, f>>
             t == <<a, b, c, d, e, f>>
  <1>1. s \in Seq(S) /\ t \in Seq(S)
    OBVIOUS
  <1>2. Len(s) = 6 /\ Len(t) = 6 /\ s[1] = a /\ s[2] = b /\ s[3] = c
        /\ s[4] = d /\ s[5] = e /\ s[6] = f
    OBVIOUS
  <1>3. t[1] = a /\ t[2] = b /\ t[3] = c /\ t[4] = d /\ t[5] = e /\ t[6] = f
    OBVIOUS
  <1> HIDE DEF s, t, S
  <1>4. \A k \in 1..6 : s[k] = t[k]
    BY <1>2, <1>3
  <1>5. s = t
    BY <1>1, <1>2, <1>4, SameElements
  <1> QED BY <1>5 DEF s, t

LEMMA SystemFieldsAreRead ==
    ASSUME NEW raw \in Raw, ParsedInstruction(raw).rc = 0
    PROVE  LET p == ParsedInstruction(raw)
           IN  /\ raw.kind \in {"SystemTransfer", "SystemCreateAccount"} =>
                     {"from", "to", "lamports"} \subseteq p.fields
               /\ raw.kind = "SystemCreateAccountWithSeed" =>
                     {"from", "to", "base", "seed", "lamports"}
                       \subseteq p.fields
               /\ raw.kind = "SystemAdvanceNonceAccount" =>
                     {"account", "authority"} \subseteq p.fields
               /\ raw.kind = "SystemInitializeNonceAccount" =>
                     {"account", "authority"} \subseteq p.fields
               /\ raw.kind = "SystemWithdrawNonceAccount" =>
                     {"account", "to", "authority", "lamports"}
                       \subseteq p.fields
               /\ raw.kind = "SystemAuthorizeNonceAccount" =>
                     {"account", "authority", "new_authority"}
                       \subseteq p.fields
               /\ raw.kind = "SystemAllocate" =>
                     {"account", "space"} \subseteq p.fields
               /\ raw.kind = "SystemAssign" =>
                     {"account", "program_id"} \subseteq p.fields
               /\ raw.kind = "SystemAllocateWithSeed" =>
                     {"account", "base", "seed", "space", "program_id"}
                       \subseteq p.fields
  <1> DEFINE p == ParsedInstruction(raw)
  <1>1. ASSUME raw.kind \in {"SystemTransfer", "SystemCreateAccount"}
        PROVE  {"from", "to", "lamports"} \subseteq p.fields
    <2> DEFINE body == <<Account("from"), Account("to"), U64("lamports")>>
    <2>1. SystemLayout(raw.kind) = body /\ raw.kind \in SystemKinds
      BY <1>1 DEF SystemLayout, SystemKinds
    <2>2. body \in Seq(Steps)
      <3>1. {"from", "to", "lamports"} \subseteq Fields \ {"multisig"}
        BY DEF Fields
      <3>2. Account("from") \in Steps /\ Account("to") \in Steps
            /\ U64("lamports") \in Steps
        BY <3>1, FieldsAreSteps, OtherSteps
      <3> QED BY <3>2
    <2> HIDE DEF body
    <2>3. Layout(raw) = <<U32("kind")>> \o body
      BY <2>1, LayoutWithBody
    <2>4. Has(p, body)
      BY <2>2, <2>3, KindsAreSteps, BodyIsRead
    <2>5. HasStep(p, Account("from")) /\ HasStep(p, Account("to"))
          /\ HasStep(p, U64("lamports"))
      BY <2>4, HasEach3 DEF body
    <2>6. "from" \in p.fields /\ "to" \in p.fields /\ "lamports" \in p.fields
      BY <2>5, FieldsAreRead, OthersAreRead
    <2> QED BY <2>6
  <1>2. ASSUME raw.kind = "SystemCreateAccountWithSeed"
        PROVE  {"from", "to", "base", "seed", "lamports"} \subseteq p.fields
    <2> DEFINE body == <<Account("from"), Account("to"), Pubkey("base"), Seed,
                         U64("lamports")>>
    <2>1. SystemLayout(raw.kind) = body /\ raw.kind \in SystemKinds
      BY <1>2 DEF SystemLayout, SystemKinds
    <2>2. body \in Seq(Steps)
      <3>1. {"from", "to", "base", "lamports"} \subseteq Fields \ {"multisig"}
        BY DEF Fields
      <3>2. Account("from") \in Steps /\ Account("to") \in Steps
            /\ Pubkey("base") \in Steps /\ Seed \in Steps
            /\ U64("lamports") \in Steps
        BY <3>1, FieldsAreSteps, OtherSteps
      <3> QED BY <3>2
    <2> HIDE DEF body
    <2>3. Layout(raw) = <<U32("kind")>> \o body
      BY <2>1, LayoutWithBody
    <2>4. Has(p, body)
      BY <2>2, <2>3, KindsAreSteps, BodyIsRead
    <2>5. HasStep(p, Account("from")) /\ HasStep(p, Account("to"))
          /\ HasStep(p, Pubkey("base")) /\ HasStep(p, Seed)
          /\ HasStep(p, U64("lamports"))
      BY <2>4, HasEach5 DEF body
    <2>6. "from" \in p.fields /\ "to" \in p.fields /\ "base" \in p.fields
          /\ "seed" \in p.fields /\ "lamports" \in p.fields
      BY <2>5, FieldsAreRead, OthersAreRead
    <2> QED BY <2>6
  <1>3. ASSUME raw.kind = "SystemAdvanceNonceAccount"
        PROVE  {"account", "authority"} \subseteq p.fields
    <2> DEFINE body == <<Account("account"), SkippedAccount,
                         Account("authority")>>
    <2>1. SystemLayout(raw.kind) = body /\ raw.kind \in SystemKinds
      BY <1>3 DEF SystemLayout, SystemKinds
    <2>2. body \in Seq(Steps)
      <3>1. {"account", "authority"} \subseteq Fields \ {"multisig"}
        BY DEF Fields
      <3>2. Account("account") \in Steps /\ SkippedAccount \in Steps
            /\ Account("authority") \in Steps
        BY <3>1, FieldsAreSteps, OtherSteps
      <3> QED BY <3>2
    <2> HIDE DEF body
    <2>3. Layout(raw) = <<U32("kind")>> \o body
      BY <2>1, LayoutWithBody
    <2>4. Has(p, body)
      BY <2>2, <2>3, KindsAreSteps, BodyIsRead
    <2>5. HasStep(p, Account("account")) /\ HasStep(p, Account("authority"))
      BY <2>4, HasEach3 DEF body
    <2>6. "account" \in p.fields /\ "authority" \in p.fields
      BY <2>5, FieldsAreRead, OthersAreRead
    <2> QED BY <2>6
  <1>4. ASSUME raw.kind = "SystemInitializeNonceAccount"
        PROVE  {"account", "authority"} \subseteq p.fields
    <2> DEFINE body == <<Account("account"), SkippedAccount, SkippedAccount,
                         Pubkey("authority")>>
    <2>1. SystemLayout(raw.kind) = body /\ raw.kind \in SystemKinds
      BY <1>4 DEF SystemLayout, SystemKinds
    <2>2. body \in Seq(Steps)
      <3>1. {"account", "authority"} \subseteq Fields \ {"multisig"}
        BY DEF Fields
      <3>2. Account("account") \in Steps /\ SkippedAccount \in Steps
            /\ Pubkey("authority") \in Steps
        BY <3>1, FieldsAreSteps, OtherSteps
      <3> QED BY <3>2
    <2> HIDE DEF body
    <2>3. Layout(raw) = <<U32("kind")>> \o body
      BY <2>1, LayoutWithBody
    <2>4. Has(p, body)
      BY <2>2, <2>3, KindsAreSteps, BodyIsRead
    <2>5. HasStep(p, Account("account")) /\ HasStep(p, Pubkey("authority"))
      BY <2>4, HasEach4 DEF body
    <2>6. "account" \in p.fields /\ "authority" \in p.fields
      BY <2>5, FieldsAreRead, OthersAreRead
    <2> QED BY <2>6
  <1>5. ASSUME raw.kind = "SystemWithdrawNonceAccount"
        PROVE  {"account", "to", "authority", "lamports"} \subseteq p.fields
    <2> DEFINE body == <<Account("account"), Account("to"), SkippedAccount,
                         SkippedAccount, Account("authority"),
                         U64("lamports")>>
    <2>1. SystemLayout(raw.kind) = body /\ raw.kind \in SystemKinds
      BY <1>5 DEF SystemLayout, SystemKinds
    <2>2. body \in Seq(Steps)
      <3>1. {"account", "to", "authority", "lamports"}
              \subseteq Fields \ {"multisig"}
        BY DEF Fields
      <3>2. Account("account") \in Steps /\ Account("to") \in Steps
            /\ SkippedAccount \in Steps /\ Account("authority") \in Steps
            /\ U64("lamports") \in Steps
        BY <3>1, FieldsAreSteps, OtherSteps
      <3> QED BY <3>2
    <2> HIDE DEF body
    <2>3. Layout(raw) = <<U32("kind")>> \o body
      BY <2>1, LayoutWithBody
    <2>4. Has(p, body)
      BY <2>2, <2>3, KindsAreSteps, BodyIsRead
    <2>5. HasStep(p, Account("account")) /\ HasStep(p, Account("to"))
          /\ HasStep(p, Account("authority")) /\ HasStep(p, U64("lamports"))
      BY <2>4, HasEach6 DEF body
    <2>6. "account" \in p.fields /\ "to" \in p.fields
          /\ "authority" \in p.fields /\ "lamports" \in p.fields
      BY <2>5, FieldsAreRead, OthersAreRead
    <2> QED BY <2>6
  <1>6. ASSUME raw.kind = "SystemAuthorizeNonceAccount"
        PROVE  {"account", "authority", "new_authority"} \subseteq p.fields
    <2> DEFINE body == <<Account("account"), Account("authority"),
                         Pubkey("new_authority")>>
    <2>1. SystemLayout(raw.kind) = body /\ raw.kind \in SystemKinds
      BY <1>6 DEF SystemLayout, SystemKinds
    <2>2. body \in Seq(Steps)
      <3>1. {"account", "authority", "new_authority"}
              \subseteq Fields \ {"multisig"}
        BY DEF Fields
      <3>2. Account("account") \in Steps /\ Account("authority") \in Steps
            /\ Pubkey("new_authority") \in Steps
        BY <3>1, FieldsAreSteps, OtherSteps
      <3> QED BY <3>2
    <2> HIDE DEF body
    <2>3. Layout(raw) = <<U32("kind")>> \o body
      BY <2>1, LayoutWithBody
    <2>4. Has(p, body)
      BY <2>2, <2>3, KindsAreSteps, BodyIsRead
    <2>5. HasStep(p, Account("account")) /\ HasStep(p, Account("authority"))
          /\ HasStep(p, Pubkey("new_authority"))
      BY <2>4, HasEach3 DEF body
    <2>6. "account" \in p.fields /\ "authority" \in p.fields
          /\ "new_authority" \in p.fields
      BY <2>5, FieldsAreRead, OthersAreRead
    <2> QED BY <2>6
  <1>7. ASSUME raw.kind = "SystemAllocate"
        PROVE  {"account", "space"} \subseteq p.fields
    <2> DEFINE body == <<Account("account"), U64("space")>>
    <2>1. SystemLayout(raw.kind) = body /\ raw.kind \in SystemKinds
      BY <1>7 DEF SystemLayout, SystemKinds
    <2>2. body \in Seq(Steps)
      <3>1. {"account", "space"} \subseteq Fields \ {"multisig"}
        BY DEF Fields
      <3>2. Account("account") \in Steps /\ U64("space") \in Steps
        BY <3>1, FieldsAreSteps, OtherSteps
      <3> QED BY <3>2
    <2> HIDE DEF body
    <2>3. Layout(raw) = <<U32("kind")>> \o body
      BY <2>1, LayoutWithBody
    <2>4. Has(p, body)
      BY <2>2, <2>3, KindsAreSteps, BodyIsRead
    <2>5. HasStep(p, Account("account")) /\ HasStep(p, U64("space"))
      BY <2>4, HasEach2 DEF body
    <2>6. "account" \in p.fields /\ "space" \in p.fields
      BY <2>5, FieldsAreRead, OthersAreRead
    <2> QED BY <2>6
  <1>8. ASSUME raw.kind = "SystemAssign"
        PROVE  {"account", "program_id"} \subseteq p.fields
    <2> DEFINE body == <<Account("account"), Pubkey("program_id")>>
    <2>1. SystemLayout(raw.kind) = body /\ raw.kind \in SystemKinds
      BY <1>8 DEF SystemLayout, SystemKinds
    <2>2. body \in Seq(Steps)
      <3>1. {"account", "program_id"} \subseteq Fields \ {"multisig"}
        BY DEF Fields
      <3>2. Account("account") \in Steps /\ Pubkey("program_id") \in Steps
        BY <3>1, FieldsAreSteps, OtherSteps
      <3> QED BY <3>2
    <2> HIDE DEF body
    <2>3. Layout(raw) = <<U32("kind")>> \o body
      BY <2>1, LayoutWithBody
    <2>4. Has(p, body)
      BY <2>2, <2>3, KindsAreSteps, BodyIsRead
    <2>5. HasStep(p, Account("account")) /\ HasStep(p, Pubkey("program_id"))
      BY <2>4, HasEach2 DEF body
    <2>6. "account" \in p.fields /\ "program_id" \in p.fields
      BY <2>5, FieldsAreRead, OthersAreRead
    <2> QED BY <2>6
  <1>9. ASSUME raw.kind = "SystemAllocateWithSeed"
        PROVE  {"account", "base", "seed", "space", "program_id"}
                 \subseteq p.fields
    <2> DEFINE body == <<Account("account"), SkippedAccount, Pubkey("base"),
                         Seed, U64("space"), Pubkey("program_id")>>
    <2>1. SystemLayout(raw.kind) = body /\ raw.kind \in SystemKinds
      BY <1>9 DEF SystemLayout, SystemKinds
    <2>2. body \in Seq(Steps)
      <3>1. {"account", "base", "space", "program_id"}
              \subseteq Fields \ {"multisig"}
        BY DEF Fields
      <3>2. Account("account") \in Steps /\ SkippedAccount \in Steps
            /\ Pubkey("base") \in Steps /\ Seed \in Steps
            /\ U64("space") \in Steps /\ Pubkey("program_id") \in Steps
        BY <3>1, FieldsAreSteps, OtherSteps
      <3> QED BY <3>2
    <2> HIDE DEF body
    <2>3. Layout(raw) = <<U32("kind")>> \o body
      BY <2>1, LayoutWithBody
    <2>4. Has(p, body)
      BY <2>2, <2>3, KindsAreSteps, BodyIsRead
    <2>5. HasStep(p, Account("account")) /\ HasStep(p, Pubkey("base"))
          /\ HasStep(p, Seed) /\ HasStep(p, U64("space"))
          /\ HasStep(p, Pubkey("program_id"))
      BY <2>4, HasEach6 DEF body
    <2>6. "account" \in p.fields /\ "base" \in p.fields /\ "seed" \in p.fields
          /\ "space" \in p.fields /\ "program_id" \in p.fields
      BY <2>5, FieldsAreRead, OthersAreRead
    <2> QED BY <2>6
  <1> HIDE DEF p
  <1> QED BY <1>1, <1>2, <1>3, <1>4, <1>5, <1>6, <1>7, <1>8, <1>9 DEF p

LEMMA StakeFieldsAreRead ==
    ASSUME NEW raw \in Raw, ParsedInstruction(raw).rc = 0
    PROVE  LET p == ParsedInstruction(raw)
           IN  /\ raw.kind = "StakeDelegate" =>
                     {"stake_pubkey", "vote_pubkey", "authorized_pubkey"}
                       \subseteq p.fields
               /\ raw.kind = "StakeInitialize" =>
                     {"account", "stake_authority", "withdraw_authority",
                      "unix_timestamp", "epoch", "lockup.custodian"}
                        \subseteq p.fields
               /\ raw.kind = "StakeInitializeChecked" =>
                     {"account", "stake_authority", "withdraw_authority"}
                       \subseteq p.fields
               /\ raw.kind = "StakeWithdraw" =>
                     {"account", "to", "authority", "lamports"}
                       \subseteq p.fields
               /\ raw.kind = "StakeAuthorize" =>
                     {"account", "authority", "new_authority", "authorize"}
                       \subseteq p.fields
               /\ raw.kind = "StakeAuthorizeChecked" =>
                     {"account", "authority", "new_authority", "authorize"}
                       \subseteq p.fields
               /\ raw.kind = "StakeDeactivate" =>
                     {"account", "authority"} \subseteq p.fields
               /\ raw.kind = "StakeSetLockup" =>
                     /\ {"account", "custodian"} \subseteq p.fields
                     /\ InOrder(p)
               /\ raw.kind = "StakeSetLockupChecked" =>
                     /\ {"account", "custodian"} \subseteq p.fields
                     /\ InOrder(p)
               /\ raw.kind = "StakeSplit" =>
                     {"account", "split_account", "authority", "lamports"}
                       \subseteq p.fields
               /\ raw.kind = "StakeMerge" =>
                     {"destination", "source", "authority"} \subseteq p.fields
  <1> DEFINE p == ParsedInstruction(raw)
  <1>1. ASSUME raw.kind = "StakeDelegate"
        PROVE  {"stake_pubkey", "vote_pubkey", "authorized_pubkey"}
                 \subseteq p.fields
    <2> DEFINE body == <<Account("stake_pubkey"), Account("vote_pubkey"),
                         SkippedAccount, SkippedAccount, SkippedAccount,
                         Account("authorized_pubkey")>>
    <2>1. StakeLayout(raw.kind) = body /\ raw.kind \in StakeKinds
      BY <1>1
        DEF StakeLayout, StakeKinds, SetLockupLayout, LockupOptions,
            SetLockupKinds, StakeInitializeKinds, StakeAuthorizeKinds
    <2>2. body \in Seq(Steps)
      <3>1. {"stake_pubkey", "vote_pubkey", "authorized_pubkey"}
              \subseteq Fields \ {"multisig"}
        BY DEF Fields
      <3>2. Account("stake_pubkey") \in Steps
            /\ Account("vote_pubkey") \in Steps /\ SkippedAccount \in Steps
            /\ Account("authorized_pubkey") \in Steps
        BY <3>1, FieldsAreSteps, OtherSteps
      <3> QED BY <3>2
    <2> HIDE DEF body
    <2>3. Layout(raw) = <<U32("kind")>> \o body
      BY <2>1, LayoutWithBody
    <2>4. Has(p, body)
      BY <2>2, <2>3, KindsAreSteps, BodyIsRead
    <2>5. HasStep(p, Account("stake_pubkey"))
          /\ HasStep(p, Account("vote_pubkey"))
          /\ HasStep(p, Account("authorized_pubkey"))
      BY <2>4, HasEach6 DEF body
    <2>6. "stake_pubkey" \in p.fields /\ "vote_pubkey" \in p.fields
          /\ "authorized_pubkey" \in p.fields
      BY <2>5, FieldsAreRead, OthersAreRead
    <2> QED BY <2>6
  <1>2. ASSUME raw.kind = "StakeInitialize"
        PROVE  {"account", "stake_authority", "withdraw_authority",
                "unix_timestamp", "epoch", "lockup.custodian"}
                  \subseteq p.fields
    <2> DEFINE body == <<Account("account"), SkippedAccount,
                         Pubkey("stake_authority"),
                         Pubkey("withdraw_authority"), U64("unix_timestamp"),
                         U64("epoch"), Pubkey("lockup.custodian")>>
    <2>1. StakeLayout(raw.kind) = body /\ raw.kind \in StakeKinds
      BY <1>2
        DEF StakeLayout, StakeKinds, SetLockupLayout, LockupOptions,
            SetLockupKinds, StakeInitializeKinds, StakeAuthorizeKinds
    <2>2. body \in Seq(Steps)
      <3>1. {"account", "stake_authority", "withdraw_authority",
             "unix_timestamp", "epoch", "lockup.custodian"}
               \subseteq Fields \ {"multisig"}
        BY DEF Fields
      <3>2. Account("account") \in Steps /\ SkippedAccount \in Steps
            /\ Pubkey("stake_authority") \in Steps
            /\ Pubkey("withdraw_authority") \in Steps
            /\ U64("unix_timestamp") \in Steps /\ U64("epoch") \in Steps
            /\ Pubkey("lockup.custodian") \in Steps
        BY <3>1, FieldsAreSteps, OtherSteps
      <3> QED BY <3>2
    <2> HIDE DEF body
    <2>3. Layout(raw) = <<U32("kind")>> \o body
      BY <2>1, LayoutWithBody
    <2>4. Has(p, body)
      BY <2>2, <2>3, KindsAreSteps, BodyIsRead
    <2>5. HasStep(p, Account("account"))
          /\ HasStep(p, Pubkey("stake_authority"))
          /\ HasStep(p, Pubkey("withdraw_authority"))
          /\ HasStep(p, U64("unix_timestamp")) /\ HasStep(p, U64("epoch"))
          /\ HasStep(p, Pubkey("lockup.custodian"))
      BY <2>4, HasEach7 DEF body
    <2>6. "account" \in p.fields /\ "stake_authority" \in p.fields
          /\ "withdraw_authority" \in p.fields /\ "unix_timestamp" \in p.fields
          /\ "epoch" \in p.fields /\ "lockup.custodian" \in p.fields
      BY <2>5, FieldsAreRead, OthersAreRead
    <2> QED BY <2>6
  <1>3. ASSUME raw.kind = "StakeInitializeChecked"
        PROVE  {"account", "stake_authority", "withdraw_authority"}
                 \subseteq p.fields
    <2> DEFINE body == <<Account("account"), SkippedAccount,
                         Account("stake_authority"),
                         Account("withdraw_authority")>>
    <2>1. StakeLayout(raw.kind) = body /\ raw.kind \in StakeKinds
      BY <1>3
        DEF StakeLayout, StakeKinds, SetLockupLayout, LockupOptions,
            SetLockupKinds, StakeInitializeKinds, StakeAuthorizeKinds
    <2>2. body \in Seq(Steps)
      <3>1. {"account", "stake_authority", "withdraw_authority"}
              \subseteq Fields \ {"multisig"}
        BY DEF Fields
      <3>2. Account("account") \in Steps /\ SkippedAccount \in Steps
            /\ Account("stake_authority") \in Steps
            /\ Account("withdraw_authority") \in Steps
        BY <3>1, FieldsAreSteps, OtherSteps
      <3> QED BY <3>2
    <2> HIDE DEF body
    <2>3. Layout(raw) = <<U32("kind")>> \o body
      BY <2>1, LayoutWithBody
    <2>4. Has(p, body)
      BY <2>2, <2>3, KindsAreSteps, BodyIsRead
    <2>5. HasStep(p, Account("account"))
          /\ HasStep(p, Account("stake_authority"))
          /\ HasStep(p, Account("withdraw_authority"))
      BY <2>4, HasEach4 DEF body
    <2>6. "account" \in p.fields /\ "stake_authority" \in p.fields
          /\ "withdraw_authority" \in p.fields
      BY <2>5, FieldsAreRead, OthersAreRead
    <2> QED BY <2>6
  <1>4. ASSUME raw.kind = "StakeWithdraw"
        PROVE  {"account", "to", "authority", "lamports"} \subseteq p.fields
    <2> DEFINE body == <<Account("account"), Account("to"), SkippedAccount,
                         SkippedAccount, Account("authority"),
                         U64("lamports")>>
    <2>1. StakeLayout(raw.kind) = body /\ raw.kind \in StakeKinds
      BY <1>4
        DEF StakeLayout, StakeKinds, SetLockupLayout, LockupOptions,
            SetLockupKinds, StakeInitializeKinds, StakeAuthorizeKinds
    <2>2. body \in Seq(Steps)
      <3>1. {"account", "to", "authority", "lamports"}
              \subseteq Fields \ {"multisig"}
        BY DEF Fields
      <3>2. Account("account") \in Steps /\ Account("to") \in Steps
            /\ SkippedAccount \in Steps /\ Account("authority") \in Steps
            /\ U64("lamports") \in Steps
        BY <3>1, FieldsAreSteps, OtherSteps
      <3> QED BY <3>2
    <2> HIDE DEF body
    <2>3. Layout(raw) = <<U32("kind")>> \o body
      BY <2>1, LayoutWithBody
    <2>4. Has(p, body)
      BY <2>2, <2>3, KindsAreSteps, BodyIsRead
    <2>5. HasStep(p, Account("account")) /\ HasStep(p, Account("to"))
          /\ HasStep(p, Account("authority")) /\ HasStep(p, U64("lamports"))
      BY <2>4, HasEach6 DEF body
    <2>6. "account" \in p.fields /\ "to" \in p.fields
          /\ "authority" \in p.fields /\ "lamports" \in p.fields
      BY <2>5, FieldsAreRead, OthersAreRead
    <2> QED BY <2>6
  <1>5. ASSUME raw.kind = "StakeAuthorize"
        PROVE  {"account", "authority", "new_authority", "authorize"}
                 \subseteq p.fields
    <2> DEFINE body == <<Account("account"), SkippedAccount,
                         Account("authority"), OptionalAccount("custodian"),
                         Pubkey("new_authority"), Enumerated("authorize", 4)>>
    <2>1. StakeLayout(raw.kind) = body /\ raw.kind \in StakeKinds
      BY <1>5
        DEF StakeLayout, StakeKinds, SetLockupLayout, LockupOptions,
            SetLockupKinds, StakeInitializeKinds, StakeAuthorizeKinds
    <2>2. body \in Seq(Steps)
      <3>1. {"account", "authority", "custodian", "new_authority",
             "authorize"} \subseteq Fields \ {"multisig"}
        BY DEF Fields
      <3>2. Account("account") \in Steps /\ SkippedAccount \in Steps
            /\ Account("authority") \in Steps
            /\ OptionalAccount("custodian") \in Steps
            /\ Pubkey("new_authority") \in Steps
            /\ Enumerated("authorize", 4) \in Steps
        BY <3>1, FieldsAreSteps, OtherSteps
      <3> QED BY <3>2
    <2> HIDE DEF body
    <2>3. Layout(raw) = <<U32("kind")>> \o body
      BY <2>1, LayoutWithBody
    <2>4. Has(p, body)
      BY <2>2, <2>3, KindsAreSteps, BodyIsRead
    <2>5. HasStep(p, Account("account")) /\ HasStep(p, Account("authority"))
          /\ HasStep(p, Pubkey("new_authority"))
          /\ HasStep(p, Enumerated("authorize", 4))
      BY <2>4, HasEach6 DEF body
    <2>6. "account" \in p.fields /\ "authority" \in p.fields
          /\ "new_authority" \in p.fields /\ "authorize" \in p.fields
      BY <2>5, FieldsAreRead, OthersAreRead
    <2> QED BY <2>6
  <1>6. ASSUME raw.kind = "StakeAuthorizeChecked"
        PROVE  {"account", "authority", "new_authority", "authorize"}
                 \subseteq p.fields
    <2> DEFINE body == <<Account("account"), SkippedAccount,
                         Account("authority"), Account("new_authority"),
                         OptionalAccount("custodian"),
                         Enumerated("authorize", 4)>>
    <2>1. StakeLayout(raw.kind) = body /\ raw.kind \in StakeKinds
      BY <1>6
        DEF StakeLayout, StakeKinds, SetLockupLayout, LockupOptions,
            SetLockupKinds, StakeInitializeKinds, StakeAuthorizeKinds
    <2>2. body \in Seq(Steps)
      <3>1. {"account", "authority", "new_authority", "custodian",
             "authorize"} \subseteq Fields \ {"multisig"}
        BY DEF Fields
      <3>2. Account("account") \in Steps /\ SkippedAccount \in Steps
            /\ Account("authority") \in Steps
            /\ Account("new_authority") \in Steps
            /\ OptionalAccount("custodian") \in Steps
            /\ Enumerated("authorize", 4) \in Steps
        BY <3>1, FieldsAreSteps, OtherSteps
      <3> QED BY <3>2
    <2> HIDE DEF body
    <2>3. Layout(raw) = <<U32("kind")>> \o body
      BY <2>1, LayoutWithBody
    <2>4. Has(p, body)
      BY <2>2, <2>3, KindsAreSteps, BodyIsRead
    <2>5. HasStep(p, Account("account")) /\ HasStep(p, Account("authority"))
          /\ HasStep(p, Account("new_authority"))
          /\ HasStep(p, Enumerated("authorize", 4))
      BY <2>4, HasEach6 DEF body
    <2>6. "account" \in p.fields /\ "authority" \in p.fields
          /\ "new_authority" \in p.fields /\ "authorize" \in p.fields
      BY <2>5, FieldsAreRead, OthersAreRead
    <2> QED BY <2>6
  <1>7. ASSUME raw.kind = "StakeDeactivate"
        PROVE  {"account", "authority"} \subseteq p.fields
    <2> DEFINE body == <<Account("account"), SkippedAccount,
                         Account("authority")>>
    <2>1. StakeLayout(raw.kind) = body /\ raw.kind \in StakeKinds
      BY <1>7
        DEF StakeLayout, StakeKinds, SetLockupLayout, LockupOptions,
            SetLockupKinds, StakeInitializeKinds, StakeAuthorizeKinds
    <2>2. body \in Seq(Steps)
      <3>1. {"account", "authority"} \subseteq Fields \ {"multisig"}
        BY DEF Fields
      <3>2. Account("account") \in Steps /\ SkippedAccount \in Steps
            /\ Account("authority") \in Steps
        BY <3>1, FieldsAreSteps, OtherSteps
      <3> QED BY <3>2
    <2> HIDE DEF body
    <2>3. Layout(raw) = <<U32("kind")>> \o body
      BY <2>1, LayoutWithBody
    <2>4. Has(p, body)
      BY <2>2, <2>3, KindsAreSteps, BodyIsRead
    <2>5. HasStep(p, Account("account")) /\ HasStep(p, Account("authority"))
      BY <2>4, HasEach3 DEF body
    <2>6. "account" \in p.fields /\ "authority" \in p.fields
      BY <2>5, FieldsAreRead, OthersAreRead
    <2> QED BY <2>6
  <1>8. ASSUME raw.kind = "StakeSetLockup"
        PROVE  /\ {"account", "custodian"} \subseteq p.fields
               /\ InOrder(p)
    <2> DEFINE body == <<Account("account"), Account("custodian"),
                         Option("unix_timestamp", 8), Option("epoch", 8),
                         Option("lockup.custodian", 32)>>
    <2>1. StakeLayout(raw.kind) = body /\ raw.kind \in StakeKinds
      <3>1. raw.kind \in SetLockupKinds /\ raw.kind \in StakeKinds
        BY <1>8 DEF SetLockupKinds, StakeKinds
      <3>2. StakeLayout(raw.kind) = SetLockupLayout(raw.kind)
        BY <1>8, <3>1 DEF StakeLayout
      <3>3. SetLockupLayout(raw.kind) = body
        BY <1>8, Joined221 DEF SetLockupLayout, LockupOptions
      <3> QED BY <3>1, <3>2, <3>3
    <2>2. body \in Seq(Steps)
      <3>1. {"account", "custodian", "unix_timestamp", "epoch",
             "lockup.custodian"} \subseteq Fields \ {"multisig"}
        BY DEF Fields
      <3>2. Account("account") \in Steps /\ Account("custodian") \in Steps
            /\ Option("unix_timestamp", 8) \in Steps
            /\ Option("epoch", 8) \in Steps
            /\ Option("lockup.custodian", 32) \in Steps
        BY <3>1, FieldsAreSteps, OtherSteps
      <3> QED BY <3>2
    <2> HIDE DEF body
    <2>3. Layout(raw) = <<U32("kind")>> \o body
      BY <2>1, LayoutWithBody
    <2>4. Has(p, body) /\ InOrder(p)
      BY <2>2, <2>3, KindsAreSteps, BodyIsRead
    <2>5. HasStep(p, Account("account")) /\ HasStep(p, Account("custodian"))
      BY <2>4, HasEach5 DEF body
    <2>6. "account" \in p.fields /\ "custodian" \in p.fields
      BY <2>5, FieldsAreRead, OthersAreRead
    <2> QED BY <2>4, <2>6
  <1>9. ASSUME raw.kind = "StakeSetLockupChecked"
        PROVE  /\ {"account", "custodian"} \subseteq p.fields
               /\ InOrder(p)
    <2> DEFINE body == <<Account("account"), Account("custodian"),
                         Option("unix_timestamp", 8), Option("epoch", 8),
                         OptionalAccount("lockup.custodian")>>
    <2>1. StakeLayout(raw.kind) = body /\ raw.kind \in StakeKinds
      <3>1. raw.kind \in SetLockupKinds /\ raw.kind \in StakeKinds
        BY <1>9 DEF SetLockupKinds, StakeKinds
      <3>2. StakeLayout(raw.kind) = SetLockupLayout(raw.kind)
        BY <1>9, <3>1 DEF StakeLayout
      <3>3. SetLockupLayout(raw.kind) = body
        BY <1>9, Joined221 DEF SetLockupLayout, LockupOptions
      <3> QED BY <3>1, <3>2, <3>3
    <2>2. body \in Seq(Steps)
      <3>1. {"account", "custodian", "unix_timestamp", "epoch",
             "lockup.custodian"} \subseteq Fields \ {"multisig"}
        BY DEF Fields
      <3>2. Account("account") \in Steps /\ Account("custodian") \in Steps
            /\ Option("unix_timestamp", 8) \in Steps
            /\ Option("epoch", 8) \in Steps
            /\ OptionalAccount("lockup.custodian") \in Steps
        BY <3>1, FieldsAreSteps, OtherSteps
      <3> QED BY <3>2
    <2> HIDE DEF body
    <2>3. Layout(raw) = <<U32("kind")>> \o body
      BY <2>1, LayoutWithBody
    <2>4. Has(p, body) /\ InOrder(p)
      BY <2>2, <2>3, KindsAreSteps, BodyIsRead
    <2>5. HasStep(p, Account("account")) /\ HasStep(p, Account("custodian"))
      BY <2>4, HasEach5 DEF body
    <2>6. "account" \in p.fields /\ "custodian" \in p.fields
      BY <2>5, FieldsAreRead, OthersAreRead
    <2> QED BY <2>4, <2>6
  <1>10. ASSUME raw.kind = "StakeSplit"
        PROVE  {"account", "split_account", "authority", "lamports"}
                 \subseteq p.fields
    <2> DEFINE body == <<Account("account"), Account("split_account"),
                         Account("authority"), U64("lamports")>>
    <2>1. StakeLayout(raw.kind) = body /\ raw.kind \in StakeKinds
      BY <1>10
        DEF StakeLayout, StakeKinds, SetLockupLayout, LockupOptions,
            SetLockupKinds, StakeInitializeKinds, StakeAuthorizeKinds
    <2>2. body \in Seq(Steps)
      <3>1. {"account", "split_account", "authority", "lamports"}
              \subseteq Fields \ {"multisig"}
        BY DEF Fields
      <3>2. Account("account") \in Steps /\ Account("split_account") \in Steps
            /\ Account("authority") \in Steps /\ U64("lamports") \in Steps
        BY <3>1, FieldsAreSteps, OtherSteps
      <3> QED BY <3>2
    <2> HIDE DEF body
    <2>3. Layout(raw) = <<U32("kind")>> \o body
      BY <2>1, LayoutWithBody
    <2>4. Has(p, body)
      BY <2>2, <2>3, KindsAreSteps, BodyIsRead
    <2>5. HasStep(p, Account("account"))
          /\ HasStep(p, Account("split_account"))
          /\ HasStep(p, Account("authority")) /\ HasStep(p, U64("lamports"))
      BY <2>4, HasEach4 DEF body
    <2>6. "account" \in p.fields /\ "split_account" \in p.fields
          /\ "authority" \in p.fields /\ "lamports" \in p.fields
      BY <2>5, FieldsAreRead, OthersAreRead
    <2> QED BY <2>6
  <1>11. ASSUME raw.kind = "StakeMerge"
        PROVE  {"destination", "source", "authority"} \subseteq p.fields
    <2> DEFINE body == <<Account("destination"), Account("source"),
                         SkippedAccount, SkippedAccount,
                         Account("authority")>>
    <2>1. StakeLayout(raw.kind) = body /\ raw.kind \in StakeKinds
      BY <1>11
        DEF StakeLayout, StakeKinds, SetLockupLayout, LockupOptions,
            SetLockupKinds, StakeInitializeKinds, StakeAuthorizeKinds
    <2>2. body \in Seq(Steps)
      <3>1. {"destination", "source", "authority"}
              \subseteq Fields \ {"multisig"}
        BY DEF Fields
      <3>2. Account("destination") \in Steps /\ Account("source") \in Steps
            /\ SkippedAccount \in Steps /\ Account("authority") \in Steps
        BY <3>1, FieldsAreSteps, OtherSteps
      <3> QED BY <3>2
    <2> HIDE DEF body
    <2>3. Layout(raw) = <<U32("kind")>> \o body
      BY <2>1, LayoutWithBody
    <2>4. Has(p, body)
      BY <2>2, <2>3, KindsAreSteps, BodyIsRead
    <2>5. HasStep(p, Account("destination")) /\ HasStep(p, Account("source"))
          /\ HasStep(p, Account("authority"))
      BY <2>4, HasEach5 DEF body
    <2>6. "destination" \in p.fields /\ "source" \in p.fields
          /\ "authority" \in p.fields
      BY <2>5, FieldsAreRead, OthersAreRead
    <2> QED BY <2>6
  <1> HIDE DEF p
  <1> QED BY <1>1, <1>2, <1>3, <1>4, <1>5, <1>6, <1>7, <1>8, <1>9, <1>10,
             <1>11 DEF p

LEMMA VoteFieldsAreRead ==
    ASSUME NEW raw \in Raw, ParsedInstruction(raw).rc = 0
    PROVE  LET p == ParsedInstruction(raw)
           IN  /\ raw.kind = "VoteInitialize" =>
                     {"account", "validator_id", "vote_authority",
                      "withdraw_authority", "commission"} \subseteq p.fields
               /\ raw.kind = "VoteWithdraw" =>
                     {"account", "to", "authority", "lamports"}
                       \subseteq p.fields
               /\ raw.kind = "VoteAuthorize" =>
                     {"account", "authority", "new_authority", "authorize"}
                       \subseteq p.fields
               /\ raw.kind = "VoteAuthorizeChecked" =>
                     {"account", "authority", "new_authority", "authorize"}
                       \subseteq p.fields
               /\ raw.kind = "VoteUpdateCommission" =>
                     {"account", "authority", "commission"} \subseteq p.fields
  <1> DEFINE p == ParsedInstruction(raw)
  <1>1. ASSUME raw.kind = "VoteInitialize"
        PROVE  {"account", "validator_id", "vote_authority",
                "withdraw_authority", "commission"} \subseteq p.fields
    <2> DEFINE body == <<Account("account"), SkippedAccount, SkippedAccount,
                         Pubkey("validator_id"), Pubkey("vote_authority"),
                         Pubkey("withdraw_authority"), U8("commission")>>
    <2>1. VoteLayout(raw) = body /\ raw.kind \in VoteKinds
      BY <1>1 DEF VoteLayout, VoteKinds, VoteAuthorizeKinds
    <2>2. body \in Seq(Steps)
      <3>1. {"account", "validator_id", "vote_authority", "withdraw_authority",
             "commission"} \subseteq Fields \ {"multisig"}
        BY DEF Fields
      <3>2. Account("account") \in Steps /\ SkippedAccount \in Steps
            /\ Pubkey("validator_id") \in Steps
            /\ Pubkey("vote_authority") \in Steps
            /\ Pubkey("withdraw_authority") \in Steps
            /\ U8("commission") \in Steps
        BY <3>1, FieldsAreSteps, OtherSteps
      <3> QED BY <3>2
    <2> HIDE DEF body
    <2>3. Layout(raw) = <<U32("kind")>> \o body
      BY <2>1, LayoutWithBody
    <2>4. Has(p, body)
      BY <2>2, <2>3, KindsAreSteps, BodyIsRead
    <2>5. HasStep(p, Account("account")) /\ HasStep(p, Pubkey("validator_id"))
          /\ HasStep(p, Pubkey("vote_authority"))
          /\ HasStep(p, Pubkey("withdraw_authority"))
          /\ HasStep(p, U8("commission"))
      BY <2>4, HasEach7 DEF body
    <2>6. "account" \in p.fields /\ "validator_id" \in p.fields
          /\ "vote_authority" \in p.fields /\ "withdraw_authority" \in p.fields
          /\ "commission" \in p.fields
      BY <2>5, FieldsAreRead, OthersAreRead
    <2> QED BY <2>6
  <1>2. ASSUME raw.kind = "VoteWithdraw"
        PROVE  {"account", "to", "authority", "lamports"} \subseteq p.fields
    <2> DEFINE body == <<Account("account"), Account("to"),
                         Account("authority"), U64("lamports")>>
    <2>1. VoteLayout(raw) = body /\ raw.kind \in VoteKinds
      BY <1>2 DEF VoteLayout, VoteKinds, VoteAuthorizeKinds
    <2>2. body \in Seq(Steps)
      <3>1. {"account", "to", "authority", "lamports"}
              \subseteq Fields \ {"multisig"}
        BY DEF Fields
      <3>2. Account("account") \in Steps /\ Account("to") \in Steps
            /\ Account("authority") \in Steps /\ U64("lamports") \in Steps
        BY <3>1, FieldsAreSteps, OtherSteps
      <3> QED BY <3>2
    <2> HIDE DEF body
    <2>3. Layout(raw) = <<U32("kind")>> \o body
      BY <2>1, LayoutWithBody
    <2>4. Has(p, body)
      BY <2>2, <2>3, KindsAreSteps, BodyIsRead
    <2>5. HasStep(p, Account("account")) /\ HasStep(p, Account("to"))
          /\ HasStep(p, Account("authority")) /\ HasStep(p, U64("lamports"))
      BY <2>4, HasEach4 DEF body
    <2>6. "account" \in p.fields /\ "to" \in p.fields
          /\ "authority" \in p.fields /\ "lamports" \in p.fields
      BY <2>5, FieldsAreRead, OthersAreRead
    <2> QED BY <2>6
  <1>3. ASSUME raw.kind = "VoteAuthorize"
        PROVE  {"account", "authority", "new_authority", "authorize"}
                 \subseteq p.fields
    <2> DEFINE body == <<Account("account"), SkippedAccount,
                         Account("authority"), Pubkey("new_authority"),
                         Enumerated("authorize", 4)>>
    <2>1. VoteLayout(raw) = body /\ raw.kind \in VoteKinds
      BY <1>3 DEF VoteLayout, VoteKinds, VoteAuthorizeKinds
    <2>2. body \in Seq(Steps)
      <3>1. {"account", "authority", "new_authority", "authorize"}
              \subseteq Fields \ {"multisig"}
        BY DEF Fields
      <3>2. Account("account") \in Steps /\ SkippedAccount \in Steps
            /\ Account("authority") \in Steps
            /\ Pubkey("new_authority") \in Steps
            /\ Enumerated("authorize", 4) \in Steps
        BY <3>1, FieldsAreSteps, OtherSteps
      <3> QED BY <3>2
    <2> HIDE DEF body
    <2>3. Layout(raw) = <<U32("kind")>> \o body
      BY <2>1, LayoutWithBody
    <2>4. Has(p, body)
      BY <2>2, <2>3, KindsAreSteps, BodyIsRead
    <2>5. HasStep(p, Account("account")) /\ HasStep(p, Account("authority"))
          /\ HasStep(p, Pubkey("new_authority"))
          /\ HasStep(p, Enumerated("authorize", 4))
      BY <2>4, HasEach5 DEF body
    <2>6. "account" \in p.fields /\ "authority" \in p.fields
          /\ "new_authority" \in p.fields /\ "authorize" \in p.fields
      BY <2>5, FieldsAreRead, OthersAreRead
    <2> QED BY <2>6
  <1>4. ASSUME raw.kind = "VoteAuthorizeChecked"
        PROVE  {"account", "authority", "new_authority", "authorize"}
                 \subseteq p.fields
    <2> DEFINE body == <<Account("account"), SkippedAccount,
                         Account("authority"), Account("new_authority"),
                         Enumerated("authorize", 4)>>
    <2>1. VoteLayout(raw) = body /\ raw.kind \in VoteKinds
      BY <1>4 DEF VoteLayout, VoteKinds, VoteAuthorizeKinds
    <2>2. body \in Seq(Steps)
      <3>1. {"account", "authority", "new_authority", "authorize"}
              \subseteq Fields \ {"multisig"}
        BY DEF Fields
      <3>2. Account("account") \in Steps /\ SkippedAccount \in Steps
            /\ Account("authority") \in Steps
            /\ Account("new_authority") \in Steps
            /\ Enumerated("authorize", 4) \in Steps
        BY <3>1, FieldsAreSteps, OtherSteps
      <3> QED BY <3>2
    <2> HIDE DEF body
    <2>3. Layout(raw) = <<U32("kind")>> \o body
      BY <2>1, LayoutWithBody
    <2>4. Has(p, body)
      BY <2>2, <2>3, KindsAreSteps, BodyIsRead
    <2>5. HasStep(p, Account("account")) /\ HasStep(p, Account("authority"))
          /\ HasStep(p, Account("new_authority"))
          /\ HasStep(p, Enumerated("authorize", 4))
      BY <2>4, HasEach5 DEF body
    <2>6. "account" \in p.fields /\ "authority" \in p.fields
          /\ "new_authority" \in p.fields /\ "authorize" \in p.fields
      BY <2>5, FieldsAreRead, OthersAreRead
    <2> QED BY <2>6
  <1>5. ASSUME raw.kind = "VoteUpdateCommission"
        PROVE  {"account", "authority", "commission"} \subseteq p.fields
    <2> DEFINE body == <<Account("account"), Account("authority"),
                         U8("commission")>>
    <2>1. VoteLayout(raw) = body /\ raw.kind \in VoteKinds
      BY <1>5 DEF VoteLayout, VoteKinds, VoteAuthorizeKinds
    <2>2. body \in Seq(Steps)
      <3>1. {"account", "authority", "commission"}
              \subseteq Fields \ {"multisig"}
        BY DEF Fields
      <3>2. Account("account") \in Steps /\ Account("authority") \in Steps
            /\ U8("commission") \in Steps
        BY <3>1, FieldsAreSteps, OtherSteps
      <3> QED BY <3>2
    <2> HIDE DEF body
    <2>3. Layout(raw) = <<U32("kind")>> \o body
      BY <2>1, LayoutWithBody
    <2>4. Has(p, body)
      BY <2>2, <2>3, KindsAreSteps, BodyIsRead
    <2>5. HasStep(p, Account("account")) /\ HasStep(p, Account("authority"))
          /\ HasStep(p, U8("commission"))
      BY <2>4, HasEach3 DEF body
    <2>6. "account" \in p.fields /\ "authority" \in p.fields
          /\ "commission" \in p.fields
      BY <2>5, FieldsAreRead, OthersAreRead
    <2> QED BY <2>6
  <1> HIDE DEF p
  <1> QED BY <1>1, <1>2, <1>3, <1>4, <1>5 DEF p

LEMMA TokenFieldsAreRead ==
    ASSUME NEW raw \in Raw, ParsedInstruction(raw).rc = 0
    PROVE  LET p == ParsedInstruction(raw)
           IN  /\ raw.kind = "InitializeMint" =>
                     {"decimals", "mint_authority", "mint_account"}
                       \subseteq p.fields
               /\ raw.kind = "InitializeAccount" =>
                     {"token_account", "mint_account", "owner"}
                       \subseteq p.fields
               /\ raw.kind = "InitializeAccount2" =>
                     {"token_account", "mint_account", "owner"}
                       \subseteq p.fields
               /\ raw.kind = "InitializeMultisig" =>
                     {"m", "multisig_account", "signers"} \subseteq p.fields
               /\ raw.kind = "SyncNative" =>
                     {"token_account"} \subseteq p.fields
  <1> DEFINE p == ParsedInstruction(raw)
  <1>1. ASSUME raw.kind = "InitializeMint"
        PROVE  {"decimals", "mint_authority", "mint_account"}
                 \subseteq p.fields
    <2> DEFINE body == <<U8("decimals"), Pubkey("mint_authority"),
                         Option("freeze_authority", 32), MintAccount,
                         SkippedAccount>>
    <2>1. SplTokenLayout(raw.kind) = body /\ raw.kind \in SplTokenKinds
      BY <1>1
        DEF SplTokenLayout, InitializeLayout, InitializeKinds,
            SplTokenKinds, InitializeAccountKinds, SignedTokenKinds
    <2>2. body \in Seq(Steps)
      <3>1. {"decimals", "mint_authority", "freeze_authority",
             "mint_account"} \subseteq Fields \ {"multisig"}
        BY DEF Fields
      <3>2. U8("decimals") \in Steps /\ Pubkey("mint_authority") \in Steps
            /\ Option("freeze_authority", 32) \in Steps
            /\ MintAccount \in Steps /\ SkippedAccount \in Steps
        BY <3>1, FieldsAreSteps, OtherSteps DEF TokenAccount, MintAccount
      <3> QED BY <3>2
    <2> HIDE DEF body
    <2>3. Layout(raw) = <<U8("kind")>> \o body
      BY <2>1, LayoutWithBody
    <2>4. Has(p, body)
      BY <2>2, <2>3, KindsAreSteps, BodyIsRead
    <2>5. HasStep(p, U8("decimals")) /\ HasStep(p, Pubkey("mint_authority"))
          /\ HasStep(p, MintAccount)
      BY <2>4, HasEach5 DEF body
    <2>6. "decimals" \in p.fields /\ "mint_authority" \in p.fields
          /\ "mint_account" \in p.fields
      BY <2>5, FieldsAreRead, OthersAreRead DEF TokenAccount, MintAccount
    <2> QED BY <2>6
  <1>2. ASSUME raw.kind = "InitializeAccount"
        PROVE  {"token_account", "mint_account", "owner"} \subseteq p.fields
    <2> DEFINE body == <<Exactly(4), TokenAccount, MintAccount,
                         Account("owner"), SkippedAccount>>
    <2>1. SplTokenLayout(raw.kind) = body /\ raw.kind \in SplTokenKinds
      BY <1>2
        DEF SplTokenLayout, InitializeLayout, InitializeKinds,
            SplTokenKinds, InitializeAccountKinds, SignedTokenKinds
    <2>2. body \in Seq(Steps)
      <3>1. {"token_account", "mint_account", "owner"}
              \subseteq Fields \ {"multisig"}
        BY DEF Fields
      <3>2. Exactly(4) \in Steps /\ TokenAccount \in Steps
            /\ MintAccount \in Steps /\ Account("owner") \in Steps
            /\ SkippedAccount \in Steps
        BY <3>1, FieldsAreSteps, OtherSteps DEF TokenAccount, MintAccount
      <3> QED BY <3>2
    <2> HIDE DEF body
    <2>3. Layout(raw) = <<U8("kind")>> \o body
      BY <2>1, LayoutWithBody
    <2>4. Has(p, body)
      BY <2>2, <2>3, KindsAreSteps, BodyIsRead
    <2>5. HasStep(p, TokenAccount) /\ HasStep(p, MintAccount)
          /\ HasStep(p, Account("owner"))
      BY <2>4, HasEach5 DEF body
    <2>6. "token_account" \in p.fields /\ "mint_account" \in p.fields
          /\ "owner" \in p.fields
      BY <2>5, FieldsAreRead, OthersAreRead DEF TokenAccount, MintAccount
    <2> QED BY <2>6
  <1>3. ASSUME raw.kind = "InitializeAccount2"
        PROVE  {"token_account", "mint_account", "owner"} \subseteq p.fields
    <2> DEFINE body == <<TokenAccount, MintAccount, SkippedAccount,
                         Pubkey("owner")>>
    <2>1. SplTokenLayout(raw.kind) = body /\ raw.kind \in SplTokenKinds
      BY <1>3
        DEF SplTokenLayout, InitializeLayout, InitializeKinds,
            SplTokenKinds, InitializeAccountKinds, SignedTokenKinds
    <2>2. body \in Seq(Steps)
      <3>1. {"token_account", "mint_account", "owner"}
              \subseteq Fields \ {"multisig"}
        BY DEF Fields
      <3>2. TokenAccount \in Steps /\ MintAccount \in Steps
            /\ SkippedAccount \in Steps /\ Pubkey("owner") \in Steps
        BY <3>1, FieldsAreSteps, OtherSteps DEF TokenAccount, MintAccount
      <3> QED BY <3>2
    <2> HIDE DEF body
    <2>3. Layout(raw) = <<U8("kind")>> \o body
      BY <2>1, LayoutWithBody
    <2>4. Has(p, body)
      BY <2>2, <2>3, KindsAreSteps, BodyIsRead
    <2>5. HasStep(p, TokenAccount) /\ HasStep(p, MintAccount)
          /\ HasStep(p, Pubkey("owner"))
      BY <2>4, HasEach4 DEF body
    <2>6. "token_account" \in p.fields /\ "mint_account" \in p.fields
          /\ "owner" \in p.fields
      BY <2>5, FieldsAreRead, OthersAreRead DEF TokenAccount, MintAccount
    <2> QED BY <2>6
  <1>4. ASSUME raw.kind = "InitializeMultisig"
        PROVE  {"m", "multisig_account", "signers"} \subseteq p.fields
    <2> DEFINE body == <<Enumerated("m", 1), Account("multisig_account"),
                         SkippedAccount, Signers>>
    <2>1. SplTokenLayout(raw.kind) = body /\ raw.kind \in SplTokenKinds
      BY <1>4
        DEF SplTokenLayout, InitializeLayout, InitializeKinds,
            SplTokenKinds, InitializeAccountKinds, SignedTokenKinds
    <2>2. body \in Seq(Steps)
      <3>1. {"m", "multisig_account"} \subseteq Fields \ {"multisig"}
        BY DEF Fields
      <3>2. Enumerated("m", 1) \in Steps
            /\ Account("multisig_account") \in Steps
            /\ SkippedAccount \in Steps /\ Signers \in Steps
        BY <3>1, FieldsAreSteps, OtherSteps
      <3> QED BY <3>2
    <2> HIDE DEF body
    <2>3. Layout(raw) = <<U8("kind")>> \o body
      BY <2>1, LayoutWithBody
    <2>4. Has(p, body)
      BY <2>2, <2>3, KindsAreSteps, BodyIsRead
    <2>5. HasStep(p, Enumerated("m", 1))
          /\ HasStep(p, Account("multisig_account")) /\ HasStep(p, Signers)
      BY <2>4, HasEach4 DEF body
    <2>6. "m" \in p.fields /\ "multisig_account" \in p.fields
          /\ "signers" \in p.fields
      BY <2>5, FieldsAreRead, OthersAreRead
    <2> QED BY <2>6
  <1>5. ASSUME raw.kind = "SyncNative"
        PROVE  {"token_account"} \subseteq p.fields
    <2> DEFINE body == <<TokenAccount>>
    <2>1. SplTokenLayout(raw.kind) = body /\ raw.kind \in SplTokenKinds
      BY <1>5
        DEF SplTokenLayout, InitializeLayout, InitializeKinds,
            SplTokenKinds, InitializeAccountKinds, SignedTokenKinds
    <2>2. body \in Seq(Steps)
      <3>1. {"token_account"} \subseteq Fields \ {"multisig"}
        BY DEF Fields
      <3>2. TokenAccount \in Steps
        BY <3>1, FieldsAreSteps, OtherSteps DEF TokenAccount, MintAccount
      <3> QED BY <3>2
    <2> HIDE DEF body
    <2>3. Layout(raw) = <<U8("kind")>> \o body
      BY <2>1, LayoutWithBody
    <2>4. Has(p, body)
      BY <2>2, <2>3, KindsAreSteps, BodyIsRead
    <2>5. HasStep(p, TokenAccount)
      BY <2>4, HasEach1 DEF body
    <2>6. "token_account" \in p.fields
      BY <2>5, FieldsAreRead, OthersAreRead DEF TokenAccount, MintAccount
    <2> QED BY <2>6
  <1> HIDE DEF p
  <1> QED BY <1>1, <1>2, <1>3, <1>4, <1>5 DEF p

(* A signature that was read: whose it is, and who is left.                *)
Signed(p) == HasStep(p, Sign) /\ Counted(p) /\ InOrder(p)

LEMMA OpsAreUnsigned ==
    ASSUME NEW field
    PROVE  /\ Account(field).op # "sign" /\ U8(field).op # "sign"
           /\ U64(field).op # "sign"
           /\ \A width : /\ Enumerated(field, width).op # "sign"
                        /\ Option(field, width).op # "sign"
  BY DEF Account, U8, U64, Enumerated, Option, Step

LEMMA SignedLast2 ==
    ASSUME NEW a, a.op # "sign"
    PROVE  LET s == <<a, Sign>>
           IN  Len(s) > 0 /\ Unsigned(s, Len(s) - 1) /\ s[Len(s)].op = "sign"
  <1> DEFINE s == <<a, Sign>>
  <1>1. Len(s) = 2 /\ s[1] = a /\ s[2] = Sign
    OBVIOUS
  <1> HIDE DEF s
  <1>2. Unsigned(s, 1)
    BY <1>1 DEF Unsigned
  <1>3. s[2].op = "sign"
    BY <1>1 DEF Sign, Step
  <1>4. Len(s) > 0 /\ Unsigned(s, Len(s) - 1) /\ s[Len(s)].op = "sign"
    BY <1>1, <1>2, <1>3
  <1> QED BY <1>4 DEF s

LEMMA SignedLast3 ==
    ASSUME NEW a, NEW b, a.op # "sign", b.op # "sign"
    PROVE  LET s == <<a, b, Sign>>
           IN  Len(s) > 0 /\ Unsigned(s, Len(s) - 1) /\ s[Len(s)].op = "sign"
  <1> DEFINE s == <<a, b, Sign>>
  <1>1. Len(s) = 3 /\ s[1] = a /\ s[2] = b /\ s[3] = Sign
    OBVIOUS
  <1> HIDE DEF s
  <1>2. Unsigned(s, 2)
    BY <1>1 DEF Unsigned
  <1>3. s[3].op = "sign"
    BY <1>1 DEF Sign, Step
  <1>4. Len(s) > 0 /\ Unsigned(s, Len(s) - 1) /\ s[Len(s)].op = "sign"
    BY <1>1, <1>2, <1>3
  <1> QED BY <1>4 DEF s

LEMMA SignedLast4 ==
    ASSUME NEW a, NEW b, NEW c, a.op # "sign", b.op # "sign", c.op # "sign"
    PROVE  LET s == <<a, b, c, Sign>>
           IN  Len(s) > 0 /\ Unsigned(s, Len(s) - 1) /\ s[Len(s)].op = "sign"
  <1> DEFINE s == <<a, b, c, Sign>>
  <1>1. Len(s) = 4 /\ s[1] = a /\ s[2] = b /\ s[3] = c /\ s[4] = Sign
    OBVIOUS
  <1> HIDE DEF s
  <1>2. Unsigned(s, 3)
    BY <1>1 DEF Unsigned
  <1>3. s[4].op = "sign"
    BY <1>1 DEF Sign, Step
  <1>4. Len(s) > 0 /\ Unsigned(s, Len(s) - 1) /\ s[Len(s)].op = "sign"
    BY <1>1, <1>2, <1>3
  <1> QED BY <1>4 DEF s

LEMMA SignedLast5 ==
    ASSUME NEW a, NEW b, NEW c, NEW d, a.op # "sign", b.op # "sign",
           c.op # "sign", d.op # "sign"
    PROVE  LET s == <<a, b, c, d, Sign>>
           IN  Len(s) > 0 /\ Unsigned(s, Len(s) - 1) /\ s[Len(s)].op = "sign"
  <1> DEFINE s == <<a, b, c, d, Sign>>
  <1>1. Len(s) = 5 /\ s[1] = a /\ s[2] = b /\ s[3] = c /\ s[4] = d
        /\ s[5] = Sign
    OBVIOUS
  <1> HIDE DEF s
  <1>2. Unsigned(s, 4)
    BY <1>1 DEF Unsigned
  <1>3. s[5].op = "sign"
    BY <1>1 DEF Sign, Step
  <1>4. Len(s) > 0 /\ Unsigned(s, Len(s) - 1) /\ s[Len(s)].op = "sign"
    BY <1>1, <1>2, <1>3
  <1> QED BY <1>4 DEF s

LEMMA SignedLast6 ==
    ASSUME NEW a, NEW b, NEW c, NEW d, NEW e, a.op # "sign", b.op # "sign",
           c.op # "sign", d.op # "sign", e.op # "sign"
    PROVE  LET s == <<a, b, c, d, e, Sign>>
           IN  Len(s) > 0 /\ Unsigned(s, Len(s) - 1) /\ s[Len(s)].op = "sign"
  <1> DEFINE s == <<a, b, c, d, e, Sign>>
  <1>1. Len(s) = 6 /\ s[1] = a /\ s[2] = b /\ s[3] = c /\ s[4] = d /\ s[5] = e
        /\ s[6] = Sign
    OBVIOUS
  <1> HIDE DEF s
  <1>2. Unsigned(s, 5)
    BY <1>1 DEF Unsigned
  <1>3. s[6].op = "sign"
    BY <1>1 DEF Sign, Step
  <1>4. Len(s) > 0 /\ Unsigned(s, Len(s) - 1) /\ s[Len(s)].op = "sign"
    BY <1>1, <1>2, <1>3
  <1> QED BY <1>4 DEF s

LEMMA SignedFieldsAreRead ==
    ASSUME NEW raw \in Raw, ParsedInstruction(raw).rc = 0
    PROVE  LET p == ParsedInstruction(raw)
           IN  /\ raw.kind = "TransferChecked" =>
                     /\ {"amount", "decimals", "src_account", "mint_account",
                         "dest_account"} \subseteq p.fields
                     /\ Signed(p)
               /\ raw.kind = "ApproveChecked" =>
                     /\ {"amount", "decimals", "token_account", "mint_account",
                         "delegate"} \subseteq p.fields
                     /\ Signed(p)
               /\ raw.kind = "Revoke" =>
                     /\ {"token_account"} \subseteq p.fields
                     /\ Signed(p)
               /\ raw.kind = "SetAuthority" =>
                     /\ {"account", "authority_type"} \subseteq p.fields
                     /\ Signed(p)
               /\ raw.kind = "MintToChecked" =>
                     /\ {"amount", "decimals", "mint_account",
                         "token_account"} \subseteq p.fields
                     /\ Signed(p)
               /\ raw.kind = "BurnChecked" =>
                     /\ {"amount", "decimals", "token_account",
                         "mint_account"} \subseteq p.fields
                     /\ Signed(p)
               /\ raw.kind = "CloseAccount" =>
                     /\ {"token_account", "dest_account"} \subseteq p.fields
                     /\ Signed(p)
               /\ raw.kind \in {"FreezeAccount", "ThawAccount"} =>
                     /\ {"token_account", "mint_account"} \subseteq p.fields
                     /\ Signed(p)
  <1> DEFINE p == ParsedInstruction(raw)
  <1>1. ASSUME raw.kind = "TransferChecked"
        PROVE  /\ {"amount", "decimals", "src_account", "mint_account",
                   "dest_account"} \subseteq p.fields
               /\ Signed(p)
    <2> DEFINE body == <<U64("amount"), U8("decimals"), Account("src_account"),
                         MintAccount, Account("dest_account"), Sign>>
    <2>1. SplTokenLayout(raw.kind) = body /\ raw.kind \in SplTokenKinds
      <3>1. /\ SplTokenLayout(raw.kind) =
                   TokenAmount \o <<Account("src_account"), MintAccount,
                               Account("dest_account"), Sign>>
            /\ raw.kind \in SplTokenKinds
        BY <1>1
          DEF SplTokenLayout, InitializeLayout, InitializeKinds,
              SplTokenKinds, InitializeAccountKinds, SignedTokenKinds
      <3>2. TokenAmount \o <<Account("src_account"), MintAccount,
                               Account("dest_account"), Sign>> = body
        BY Joined24 DEF TokenAmount
      <3> QED BY <3>1, <3>2
    <2>2. body \in Seq(Steps)
      <3>1. {"amount", "decimals", "src_account", "mint_account",
             "dest_account"} \subseteq Fields \ {"multisig"}
        BY DEF Fields
      <3>2. U64("amount") \in Steps /\ U8("decimals") \in Steps
            /\ Account("src_account") \in Steps /\ MintAccount \in Steps
            /\ Account("dest_account") \in Steps /\ Sign \in Steps
        BY <3>1, FieldsAreSteps, OtherSteps DEF TokenAccount, MintAccount
      <3> QED BY <3>2
    <2> HIDE DEF body
    <2>3. Layout(raw) = <<U8("kind")>> \o body
      BY <2>1, LayoutWithBody
    <2>4. Has(p, body)
      BY <2>2, <2>3, KindsAreSteps, BodyIsRead
    <2>5. HasStep(p, U64("amount")) /\ HasStep(p, U8("decimals"))
          /\ HasStep(p, Account("src_account")) /\ HasStep(p, MintAccount)
          /\ HasStep(p, Account("dest_account")) /\ HasStep(p, Sign)
      BY <2>4, HasEach6 DEF body
    <2>6. "amount" \in p.fields /\ "decimals" \in p.fields
          /\ "src_account" \in p.fields /\ "mint_account" \in p.fields
          /\ "dest_account" \in p.fields
      BY <2>5, FieldsAreRead, OthersAreRead DEF TokenAccount, MintAccount
    <2>7. Signed(p)
      <3>1. Len(body) > 0 /\ Unsigned(body, Len(body) - 1)
            /\ body[Len(body)].op = "sign"
        BY SignedLast6, OpsAreUnsigned DEF body, TokenAccount, MintAccount
      <3>2. Counted(p) /\ InOrder(p)
        BY <2>2, <2>3, <3>1, KindsAreSteps, BodyIsRead
      <3> QED BY <2>5, <3>2 DEF Signed
    <2> QED BY <2>6, <2>7
  <1>2. ASSUME raw.kind = "ApproveChecked"
        PROVE  /\ {"amount", "decimals", "token_account", "mint_account",
                   "delegate"} \subseteq p.fields
               /\ Signed(p)
    <2> DEFINE body == <<U64("amount"), U8("decimals"), TokenAccount,
                         MintAccount, Account("delegate"), Sign>>
    <2>1. SplTokenLayout(raw.kind) = body /\ raw.kind \in SplTokenKinds
      <3>1. /\ SplTokenLayout(raw.kind) =
                   TokenAmount \o <<TokenAccount, MintAccount,
                       Account("delegate"),
                               Sign>>
            /\ raw.kind \in SplTokenKinds
        BY <1>2
          DEF SplTokenLayout, InitializeLayout, InitializeKinds,
              SplTokenKinds, InitializeAccountKinds, SignedTokenKinds
      <3>2. TokenAmount \o <<TokenAccount, MintAccount, Account("delegate"),
                               Sign>> = body
        BY Joined24 DEF TokenAmount
      <3> QED BY <3>1, <3>2
    <2>2. body \in Seq(Steps)
      <3>1. {"amount", "decimals", "token_account", "mint_account",
             "delegate"} \subseteq Fields \ {"multisig"}
        BY DEF Fields
      <3>2. U64("amount") \in Steps /\ U8("decimals") \in Steps
            /\ TokenAccount \in Steps /\ MintAccount \in Steps
            /\ Account("delegate") \in Steps /\ Sign \in Steps
        BY <3>1, FieldsAreSteps, OtherSteps DEF TokenAccount, MintAccount
      <3> QED BY <3>2
    <2> HIDE DEF body
    <2>3. Layout(raw) = <<U8("kind")>> \o body
      BY <2>1, LayoutWithBody
    <2>4. Has(p, body)
      BY <2>2, <2>3, KindsAreSteps, BodyIsRead
    <2>5. HasStep(p, U64("amount")) /\ HasStep(p, U8("decimals"))
          /\ HasStep(p, TokenAccount) /\ HasStep(p, MintAccount)
          /\ HasStep(p, Account("delegate")) /\ HasStep(p, Sign)
      BY <2>4, HasEach6 DEF body
    <2>6. "amount" \in p.fields /\ "decimals" \in p.fields
          /\ "token_account" \in p.fields /\ "mint_account" \in p.fields
          /\ "delegate" \in p.fields
      BY <2>5, FieldsAreRead, OthersAreRead DEF TokenAccount, MintAccount
    <2>7. Signed(p)
      <3>1. Len(body) > 0 /\ Unsigned(body, Len(body) - 1)
            /\ body[Len(body)].op = "sign"
        BY SignedLast6, OpsAreUnsigned DEF body, TokenAccount, MintAccount
      <3>2. Counted(p) /\ InOrder(p)
        BY <2>2, <2>3, <3>1, KindsAreSteps, BodyIsRead
      <3> QED BY <2>5, <3>2 DEF Signed
    <2> QED BY <2>6, <2>7
  <1>3. ASSUME raw.kind = "Revoke"
        PROVE  /\ {"token_account"} \subseteq p.fields
               /\ Signed(p)
    <2> DEFINE body == <<TokenAccount, Sign>>
    <2>1. SplTokenLayout(raw.kind) = body /\ raw.kind \in SplTokenKinds
      BY <1>3
        DEF SplTokenLayout, InitializeLayout, InitializeKinds,
            SplTokenKinds, InitializeAccountKinds, SignedTokenKinds
    <2>2. body \in Seq(Steps)
      <3>1. {"token_account"} \subseteq Fields \ {"multisig"}
        BY DEF Fields
      <3>2. TokenAccount \in Steps /\ Sign \in Steps
        BY <3>1, FieldsAreSteps, OtherSteps DEF TokenAccount, MintAccount
      <3> QED BY <3>2
    <2> HIDE DEF body
    <2>3. Layout(raw) = <<U8("kind")>> \o body
      BY <2>1, LayoutWithBody
    <2>4. Has(p, body)
      BY <2>2, <2>3, KindsAreSteps, BodyIsRead
    <2>5. HasStep(p, TokenAccount) /\ HasStep(p, Sign)
      BY <2>4, HasEach2 DEF body
    <2>6. "token_account" \in p.fields
      BY <2>5, FieldsAreRead, OthersAreRead DEF TokenAccount, MintAccount
    <2>7. Signed(p)
      <3>1. Len(body) > 0 /\ Unsigned(body, Len(body) - 1)
            /\ body[Len(body)].op = "sign"
        BY SignedLast2, OpsAreUnsigned DEF body, TokenAccount, MintAccount
      <3>2. Counted(p) /\ InOrder(p)
        BY <2>2, <2>3, <3>1, KindsAreSteps, BodyIsRead
      <3> QED BY <2>5, <3>2 DEF Signed
    <2> QED BY <2>6, <2>7
  <1>4. ASSUME raw.kind = "SetAuthority"
        PROVE  /\ {"account", "authority_type"} \subseteq p.fields
               /\ Signed(p)
    <2> DEFINE body == <<Account("account"), Enumerated("authority_type", 1),
                         Option("new_authority", 32), Sign>>
    <2>1. SplTokenLayout(raw.kind) = body /\ raw.kind \in SplTokenKinds
      BY <1>4
        DEF SplTokenLayout, InitializeLayout, InitializeKinds,
            SplTokenKinds, InitializeAccountKinds, SignedTokenKinds
    <2>2. body \in Seq(Steps)
      <3>1. {"account", "authority_type", "new_authority"}
              \subseteq Fields \ {"multisig"}
        BY DEF Fields
      <3>2. Account("account") \in Steps
            /\ Enumerated("authority_type", 1) \in Steps
            /\ Option("new_authority", 32) \in Steps /\ Sign \in Steps
        BY <3>1, FieldsAreSteps, OtherSteps
      <3> QED BY <3>2
    <2> HIDE DEF body
    <2>3. Layout(raw) = <<U8("kind")>> \o body
      BY <2>1, LayoutWithBody
    <2>4. Has(p, body)
      BY <2>2, <2>3, KindsAreSteps, BodyIsRead
    <2>5. HasStep(p, Account("account"))
          /\ HasStep(p, Enumerated("authority_type", 1)) /\ HasStep(p, Sign)
      BY <2>4, HasEach4 DEF body
    <2>6. "account" \in p.fields /\ "authority_type" \in p.fields
      BY <2>5, FieldsAreRead, OthersAreRead
    <2>7. Signed(p)
      <3>1. Len(body) > 0 /\ Unsigned(body, Len(body) - 1)
            /\ body[Len(body)].op = "sign"
        BY SignedLast4, OpsAreUnsigned DEF body
      <3>2. Counted(p) /\ InOrder(p)
        BY <2>2, <2>3, <3>1, KindsAreSteps, BodyIsRead
      <3> QED BY <2>5, <3>2 DEF Signed
    <2> QED BY <2>6, <2>7
  <1>5. ASSUME raw.kind = "MintToChecked"
        PROVE  /\ {"amount", "decimals", "mint_account", "token_account"}
                    \subseteq p.fields
               /\ Signed(p)
    <2> DEFINE body == <<U64("amount"), U8("decimals"), MintAccount,
                         TokenAccount, Sign>>
    <2>1. SplTokenLayout(raw.kind) = body /\ raw.kind \in SplTokenKinds
      <3>1. /\ SplTokenLayout(raw.kind) =
                   TokenAmount \o <<MintAccount, TokenAccount, Sign>>
            /\ raw.kind \in SplTokenKinds
        BY <1>5
          DEF SplTokenLayout, InitializeLayout, InitializeKinds,
              SplTokenKinds, InitializeAccountKinds, SignedTokenKinds
      <3>2. TokenAmount \o <<MintAccount, TokenAccount, Sign>> = body
        BY Joined23 DEF TokenAmount
      <3> QED BY <3>1, <3>2
    <2>2. body \in Seq(Steps)
      <3>1. {"amount", "decimals", "mint_account", "token_account"}
              \subseteq Fields \ {"multisig"}
        BY DEF Fields
      <3>2. U64("amount") \in Steps /\ U8("decimals") \in Steps
            /\ MintAccount \in Steps /\ TokenAccount \in Steps
            /\ Sign \in Steps
        BY <3>1, FieldsAreSteps, OtherSteps DEF TokenAccount, MintAccount
      <3> QED BY <3>2
    <2> HIDE DEF body
    <2>3. Layout(raw) = <<U8("kind")>> \o body
      BY <2>1, LayoutWithBody
    <2>4. Has(p, body)
      BY <2>2, <2>3, KindsAreSteps, BodyIsRead
    <2>5. HasStep(p, U64("amount")) /\ HasStep(p, U8("decimals"))
          /\ HasStep(p, MintAccount) /\ HasStep(p, TokenAccount)
          /\ HasStep(p, Sign)
      BY <2>4, HasEach5 DEF body
    <2>6. "amount" \in p.fields /\ "decimals" \in p.fields
          /\ "mint_account" \in p.fields /\ "token_account" \in p.fields
      BY <2>5, FieldsAreRead, OthersAreRead DEF TokenAccount, MintAccount
    <2>7. Signed(p)
      <3>1. Len(body) > 0 /\ Unsigned(body, Len(body) - 1)
            /\ body[Len(body)].op = "sign"
        BY SignedLast5, OpsAreUnsigned DEF body, TokenAccount, MintAccount
      <3>2. Counted(p) /\ InOrder(p)
        BY <2>2, <2>3, <3>1, KindsAreSteps, BodyIsRead
      <3> QED BY <2>5, <3>2 DEF Signed
    <2> QED BY <2>6, <2>7
  <1>6. ASSUME raw.kind = "BurnChecked"
        PROVE  /\ {"amount", "decimals", "token_account", "mint_account"}
                    \subseteq p.fields
               /\ Signed(p)
    <2> DEFINE body == <<U64("amount"), U8("decimals"), TokenAccount,
                         MintAccount, Sign>>
    <2>1. SplTokenLayout(raw.kind) = body /\ raw.kind \in SplTokenKinds
      <3>1. /\ SplTokenLayout(raw.kind) =
                   TokenAmount \o <<TokenAccount, MintAccount, Sign>>
            /\ raw.kind \in SplTokenKinds
        BY <1>6
          DEF SplTokenLayout, InitializeLayout, InitializeKinds,
              SplTokenKinds, InitializeAccountKinds, SignedTokenKinds
      <3>2. TokenAmount \o <<TokenAccount, MintAccount, Sign>> = body
        BY Joined23 DEF TokenAmount
      <3> QED BY <3>1, <3>2
    <2>2. body \in Seq(Steps)
      <3>1. {"amount", "decimals", "token_account", "mint_account"}
              \subseteq Fields \ {"multisig"}
        BY DEF Fields
      <3>2. U64("amount") \in Steps /\ U8("decimals") \in Steps
            /\ TokenAccount \in Steps /\ MintAccount \in Steps
            /\ Sign \in Steps
        BY <3>1, FieldsAreSteps, OtherSteps DEF TokenAccount, MintAccount
      <3> QED BY <3>2
    <2> HIDE DEF body
    <2>3. Layout(raw) = <<U8("kind")>> \o body
      BY <2>1, LayoutWithBody
    <2>4. Has(p, body)
      BY <2>2, <2>3, KindsAreSteps, BodyIsRead
    <2>5. HasStep(p, U64("amount")) /\ HasStep(p, U8("decimals"))
          /\ HasStep(p, TokenAccount) /\ HasStep(p, MintAccount)
          /\ HasStep(p, Sign)
      BY <2>4, HasEach5 DEF body
    <2>6. "amount" \in p.fields /\ "decimals" \in p.fields
          /\ "token_account" \in p.fields /\ "mint_account" \in p.fields
      BY <2>5, FieldsAreRead, OthersAreRead DEF TokenAccount, MintAccount
    <2>7. Signed(p)
      <3>1. Len(body) > 0 /\ Unsigned(body, Len(body) - 1)
            /\ body[Len(body)].op = "sign"
        BY SignedLast5, OpsAreUnsigned DEF body, TokenAccount, MintAccount
      <3>2. Counted(p) /\ InOrder(p)
        BY <2>2, <2>3, <3>1, KindsAreSteps, BodyIsRead
      <3> QED BY <2>5, <3>2 DEF Signed
    <2> QED BY <2>6, <2>7
  <1>7. ASSUME raw.kind = "CloseAccount"
        PROVE  /\ {"token_account", "dest_account"} \subseteq p.fields
               /\ Signed(p)
    <2> DEFINE body == <<TokenAccount, Account("dest_account"), Sign>>
    <2>1. SplTokenLayout(raw.kind) = body /\ raw.kind \in SplTokenKinds
      BY <1>7
        DEF SplTokenLayout, InitializeLayout, InitializeKinds,
            SplTokenKinds, InitializeAccountKinds, SignedTokenKinds
    <2>2. body \in Seq(Steps)
      <3>1. {"token_account", "dest_account"} \subseteq Fields \ {"multisig"}
        BY DEF Fields
      <3>2. TokenAccount \in Steps /\ Account("dest_account") \in Steps
            /\ Sign \in Steps
        BY <3>1, FieldsAreSteps, OtherSteps DEF TokenAccount, MintAccount
      <3> QED BY <3>2
    <2> HIDE DEF body
    <2>3. Layout(raw) = <<U8("kind")>> \o body
      BY <2>1, LayoutWithBody
    <2>4. Has(p, body)
      BY <2>2, <2>3, KindsAreSteps, BodyIsRead
    <2>5. HasStep(p, TokenAccount) /\ HasStep(p, Account("dest_account"))
          /\ HasStep(p, Sign)
      BY <2>4, HasEach3 DEF body
    <2>6. "token_account" \in p.fields /\ "dest_account" \in p.fields
      BY <2>5, FieldsAreRead, OthersAreRead DEF TokenAccount, MintAccount
    <2>7. Signed(p)
      <3>1. Len(body) > 0 /\ Unsigned(body, Len(body) - 1)
            /\ body[Len(body)].op = "sign"
        BY SignedLast3, OpsAreUnsigned DEF body, TokenAccount, MintAccount
      <3>2. Counted(p) /\ InOrder(p)
        BY <2>2, <2>3, <3>1, KindsAreSteps, BodyIsRead
      <3> QED BY <2>5, <3>2 DEF Signed
    <2> QED BY <2>6, <2>7
  <1>8. ASSUME raw.kind \in {"FreezeAccount", "ThawAccount"}
        PROVE  /\ {"token_account", "mint_account"} \subseteq p.fields
               /\ Signed(p)
    <2> DEFINE body == <<TokenAccount, MintAccount, Sign>>
    <2>1. SplTokenLayout(raw.kind) = body /\ raw.kind \in SplTokenKinds
      BY <1>8
        DEF SplTokenLayout, InitializeLayout, InitializeKinds,
            SplTokenKinds, InitializeAccountKinds, SignedTokenKinds
    <2>2. body \in Seq(Steps)
      <3>1. {"token_account", "mint_account"} \subseteq Fields \ {"multisig"}
        BY DEF Fields
      <3>2. TokenAccount \in Steps /\ MintAccount \in Steps /\ Sign \in Steps
        BY <3>1, FieldsAreSteps, OtherSteps DEF TokenAccount, MintAccount
      <3> QED BY <3>2
    <2> HIDE DEF body
    <2>3. Layout(raw) = <<U8("kind")>> \o body
      BY <2>1, LayoutWithBody
    <2>4. Has(p, body)
      BY <2>2, <2>3, KindsAreSteps, BodyIsRead
    <2>5. HasStep(p, TokenAccount) /\ HasStep(p, MintAccount)
          /\ HasStep(p, Sign)
      BY <2>4, HasEach3 DEF body
    <2>6. "token_account" \in p.fields /\ "mint_account" \in p.fields
      BY <2>5, FieldsAreRead, OthersAreRead DEF TokenAccount, MintAccount
    <2>7. Signed(p)
      <3>1. Len(body) > 0 /\ Unsigned(body, Len(body) - 1)
            /\ body[Len(body)].op = "sign"
        BY SignedLast3, OpsAreUnsigned DEF body, TokenAccount, MintAccount
      <3>2. Counted(p) /\ InOrder(p)
        BY <2>2, <2>3, <3>1, KindsAreSteps, BodyIsRead
      <3> QED BY <2>5, <3>2 DEF Signed
    <2> QED BY <2>6, <2>7
  <1> HIDE DEF p
  <1> QED BY <1>1, <1>2, <1>3, <1>4, <1>5, <1>6, <1>7, <1>8 DEF p

LEMMA AssociatedFieldsAreRead ==
    ASSUME NEW raw \in Raw, ParsedInstruction(raw).rc = 0,
           raw.kind = "AssociatedTokenCreate"
    PROVE  LET p == ParsedInstruction(raw)
           IN  {"funder", "address", "owner", "mint_account"}
                   \subseteq p.fields
  <1> DEFINE p == ParsedInstruction(raw)
             body == <<Account("funder"), Account("address"),
                       Account("owner"), MintAccount, SkippedAccount,
                       SkippedAccount, OptionalAccount("skipped")>>
  <1>1. Layout(raw) = body
    BY LayoutOfKind DEF AssociatedTokenLayout
  <1>2. body \in Seq(Steps)
    <2>1. {"funder", "address", "owner", "mint_account", "skipped"}
              \subseteq Fields \ {"multisig"}
      BY DEF Fields
    <2>2. /\ Account("funder") \in Steps /\ Account("address") \in Steps
          /\ Account("owner") \in Steps /\ MintAccount \in Steps
          /\ SkippedAccount \in Steps /\ OptionalAccount("skipped") \in Steps
      BY <2>1, FieldsAreSteps, OtherSteps DEF MintAccount
    <2> QED BY <2>2
  <1> HIDE DEF body
  <1>3. Has(p, body)
    BY <1>1, <1>2, LayoutIsRead
  <1>4. HasStep(p, Account("funder")) /\ HasStep(p, Account("address"))
        /\ HasStep(p, Account("owner")) /\ HasStep(p, MintAccount)
    BY <1>3, HasEach7 DEF body
  <1>5. "funder" \in p.fields /\ "address" \in p.fields
        /\ "owner" \in p.fields /\ "mint_account" \in p.fields
    BY <1>4, FieldsAreRead DEF MintAccount
  <1> QED BY <1>5

(* Both forms of an update of the validator.                               *)
LEMMA ValidatorFieldsAreRead ==
    ASSUME NEW raw \in Raw, ParsedInstruction(raw).rc = 0,
           raw.kind = "VoteUpdateValidatorId"
    PROVE  LET p == ParsedInstruction(raw)
           IN  {"account", "new_validator_id", "authority"} \subseteq p.fields
  <1> DEFINE p == ParsedInstruction(raw)
             short == <<Account("account"), Account("new_validator_id"),
                        Account("authority")>>
             long == <<Account("account"), Pubkey("new_validator_id"),
                       SkippedAccount, Account("authority")>>
             none == <<Failure>>
             body == VoteLayout(raw)
  <1>1. raw.kind \in VoteKinds /\ body = VoteUpdateValidatorIdLayout(raw)
    BY DEF VoteKinds, VoteLayout, VoteAuthorizeKinds
  <1>2. body \in {short, long, none}
    BY <1>1 DEF VoteUpdateValidatorIdLayout
  <1>3. short \in Seq(Steps) /\ long \in Seq(Steps) /\ none \in Seq(Steps)
    <2>1. {"account", "new_validator_id", "authority"}
              \subseteq Fields \ {"multisig"}
      BY DEF Fields
    <2>2. /\ Account("account") \in Steps /\ Account("authority") \in Steps
          /\ Account("new_validator_id") \in Steps
          /\ Pubkey("new_validator_id") \in Steps
          /\ SkippedAccount \in Steps /\ Failure \in Steps
      BY <2>1, FieldsAreSteps, OtherSteps
    <2> QED BY <2>2
  <1>4. Layout(raw) = <<U32("kind")>> \o body
    BY <1>1, LayoutOfKind
  <1> HIDE DEF short, long, none, body, p
  <1>5. body \in Seq(Steps)
    BY <1>2, <1>3
  <1>6. Has(p, body)
    BY <1>4, <1>5, KindsAreSteps, BodyIsRead DEF p
  <1>7. CASE body = short
    <2>1. HasStep(p, Account("account")) /\ HasStep(p, Account("authority"))
          /\ HasStep(p, Account("new_validator_id"))
      BY <1>6, <1>7, HasEach3 DEF short
    <2>2. "account" \in p.fields /\ "authority" \in p.fields
          /\ "new_validator_id" \in p.fields
      BY <2>1, FieldsAreRead
    <2> QED BY <2>2 DEF p
  <1>8. CASE body = long
    <2>1. HasStep(p, Account("account")) /\ HasStep(p, Account("authority"))
          /\ HasStep(p, Pubkey("new_validator_id"))
      BY <1>6, <1>8, HasEach4 DEF long
    <2>2. "account" \in p.fields /\ "authority" \in p.fields
          /\ "new_validator_id" \in p.fields
      BY <2>1, FieldsAreRead
    <2> QED BY <2>2 DEF p
  <1>9. CASE body = none
    <2>1. HasStep(p, Failure)
      BY <1>6, <1>9, HasEach1 DEF none
    <2> QED BY <2>1, OthersAreRead
  <1> QED BY <1>2, <1>7, <1>8, <1>9

-----------------------------------------------------------------------------
(* The information an instruction is turned into, and who signs it.        *)

LEMMA InfoTells ==
    ASSUME NEW raw, ParsedInstruction(raw).rc = 0
    PROVE  LET i == Info(raw)
           IN  /\ i.kind = raw.kind
               /\ i.facts = {f \in Facts(raw.kind) :
                                 Holds(f, raw, ParsedInstruction(raw))}
  BY DEF Info

LEMMA MultisigIsFact ==
    ASSUME NEW raw, ParsedInstruction(raw).rc = 0,
           raw.kind \in SignedTokenKinds
    PROVE  "Multisig" \in Info(raw).facts <=>
               "multisig" \in ParsedInstruction(raw).fields
  <1>1. "Multisig" \in Facts(raw.kind)
    BY DEF Facts, SignedTokenKinds, StakeInitializeKinds, StakeAuthorizeKinds,
           SetLockupKinds, VoteAuthorizeKinds
  <1>2. Holds("Multisig", raw, ParsedInstruction(raw)) <=>
            "multisig" \in ParsedInstruction(raw).fields
    BY DEF Holds
  <1> QED BY <1>1, <1>2, InfoTells

(* Whoever signs a token instruction is shown or counted, whatever its     *)
(* accounts (spl_token_instruction.c:126).                                 *)
THEOREM EverySignerIsCounted == LibrarySpec => []SignersAreCounted
  <1>1. LibraryInit => SignersAreCounted
    BY DEF LibraryInit, NoCall, SignersAreCounted, Is
  <1>2. SignersAreCounted /\ [LibraryNext]_library => SignersAreCounted'
    <2> SUFFICES ASSUME SignersAreCounted, [LibraryNext]_library
                 PROVE  SignersAreCounted'
      OBVIOUS
    <2>1. CASE UNCHANGED library
      BY <2>1 DEF library, SignersAreCounted, Is, given
    <2>2. CASE LibraryNext
      <3>1. SUFFICES ASSUME Is("parse_instruction")', reply'.rc = 0,
                            given'.kind \in SignedTokenKinds
                     PROVE  LET multisig == "Multisig" \in reply'.info.facts
                            IN  /\ reply'.left = IF multisig
                                                 THEN reply'.signers - 1 ELSE 0
                                /\ multisig =>
                                       reply'.signers \in 1..Token_MAX_SIGNERS
        BY <3>1 DEF SignersAreCounted
      <3>2. PICK c \in InstructionCalls : ParseInstructionData(c)
        BY <2>2, <3>1, NameTellsCall DEF Is
      <3> DEFINE p == ParsedInstruction(c)
      <3>3. /\ c \in Raw /\ given' = c /\ reply'.rc = p.rc
            /\ reply'.left = p.accounts /\ reply'.signers = p.signers
            /\ reply'.info = Info(c)
        BY <3>2, LibraryAssumption DEF ParseInstructionData, Called, given
      <3>4. p.rc = 0 /\ c.kind \in SignedTokenKinds
        BY <3>1, <3>3
      <3>5. Counted(p)
        BY <3>3, <3>4, SignedFieldsAreRead DEF SignedTokenKinds, Signed
      <3>6. "Multisig" \in Info(c).facts <=> "multisig" \in p.fields
        BY <3>4, MultisigIsFact
      <3> HIDE DEF p
      <3> QED BY <3>3, <3>5, <3>6 DEF Counted
    <2> QED BY <2>1, <2>2
  <1> QED BY <1>1, <1>2, PTL DEF LibrarySpec

-----------------------------------------------------------------------------
(* What the printers are given.                                            *)

(* What a fact that holds says of the others.                              *)
LEMMA FactsExclude ==
    ASSUME NEW raw, NEW p
    PROVE  /\ Holds("OtherCustodian", raw, p) => Holds("Custodian", raw, p)
           /\ ~(Holds("OtherAuthority", raw, p) /\ Holds("Multisig", raw, p))
  BY DEF Holds

LEMMA CustodiansGoTogether ==
    ASSUME NEW kind, "OtherCustodian" \in Facts(kind)
    PROVE  "Custodian" \in Facts(kind)
  BY DEF Facts, SystemKinds, StakeKinds, VoteKinds, SplTokenKinds,
         StakeInitializeKinds, StakeAuthorizeKinds, SetLockupKinds,
         VoteAuthorizeKinds, SignedTokenKinds, InitializeAccountKinds

LEMMA InfoIsOfSummary ==
    ASSUME NEW raw \in Raw
    PROVE  Info(raw) \in InstructionInfo
  <1> DEFINE p == ParsedInstruction(raw)
             facts == {f \in Facts(raw.kind) : Holds(f, raw, p)}
  <1>1. CASE p.rc # 0
    <2>1. Info(raw) = [kind |-> "Unknown", facts |-> {}]
      BY <1>1 DEF Info
    <2>2. "Unknown" \in Kinds
      BY DEF Kinds
    <2>3. Info(raw) \in UNION {[kind : {k}, facts : SUBSET Facts(k)] :
                                   k \in Kinds}
      <3>1. Info(raw) \in [kind : {"Unknown"}, facts : SUBSET Facts("Unknown")]
        BY <2>1
      <3> QED BY <2>2, <3>1
    <2> QED BY <2>1, <2>3 DEF InstructionInfo
  <1>2. CASE ~(p.rc # 0)
    <2>1. Info(raw) = [kind |-> raw.kind, facts |-> facts]
      BY <1>2 DEF Info
    <2>2. raw.kind \in Kinds
      BY DEF Raw
    <2>3. facts \in SUBSET Facts(raw.kind)
      OBVIOUS
    <2>4. "OtherCustodian" \in facts => "Custodian" \in facts
      BY FactsExclude, CustodiansGoTogether
    <2>5. ~({"OtherAuthority", "Multisig"} \subseteq facts)
      BY FactsExclude
    <2> HIDE DEF facts
    <2>6. Info(raw) \in UNION {[kind : {k}, facts : SUBSET Facts(k)] :
                                   k \in Kinds}
      <3>1. Info(raw) \in [kind : {raw.kind}, facts : SUBSET Facts(raw.kind)]
        BY <2>1, <2>3
      <3> QED BY <2>2, <3>1
    <2> QED BY <2>1, <2>4, <2>5, <2>6 DEF InstructionInfo
  <1> QED BY <1>1, <1>2

(* What the parsers yield is information Summary is ready for, whatever    *)
(* the instruction (message.c:33).                                         *)
THEOREM EveryInfoIsOfSummary ==
    LibrarySpec => [](Is("parse_instruction") => reply.info \in InstructionInfo)
  <1> DEFINE OfSummary ==
                 Is("parse_instruction") => reply.info \in InstructionInfo
  <1>1. LibraryInit => OfSummary
    BY DEF LibraryInit, NoCall, Is
  <1>2. OfSummary /\ [LibraryNext]_library => OfSummary'
    <2> SUFFICES ASSUME OfSummary, [LibraryNext]_library,
                        Is("parse_instruction")'
                 PROVE  reply'.info \in InstructionInfo
      OBVIOUS
    <2>1. CASE UNCHANGED library
      BY <2>1 DEF library, Is
    <2>2. CASE LibraryNext
      <3>1. PICK c \in InstructionCalls : ParseInstructionData(c)
        BY <2>2, NameTellsCall DEF Is
      <3>2. c \in Raw /\ reply'.info = Info(c)
        BY <3>1, LibraryAssumption DEF ParseInstructionData, Called
      <3> QED BY <3>2, InfoIsOfSummary
    <2> QED BY <2>1, <2>2
  <1> HIDE DEF OfSummary
  <1>3. LibrarySpec => []OfSummary
    BY <1>1, <1>2, PTL DEF LibrarySpec
  <1> QED BY <1>3 DEF OfSummary

-----------------------------------------------------------------------------
(* What is shown of an instruction.                                        *)

Titles ==
    {"Sender", "Funded by", "Deposit", "From", "Recipient", "To", "Base",
     "Seed", "Authorized by", "New authority", "Data size", "To program",
     "Vote account", "Into", "Custodian", "Time", "Lockup time", "Lockup",
     "Epoch", "Lockup epoch", "Lockup authority", "New stake auth",
     "New withdraw auth", "Validator ID", "New validator ID", "Commission",
     "New vote auth", "Owner", "Signers", "Required signers",
     "Token address", "From (token account)", "To (token account)",
     "Mint authority", "Decimals", "Freeze authority", "Allowance", "Type",
     "Authority", "Withdraw to", "For", "Primary"}

(* The titles under which nothing is shown that was not parsed.            *)
Known(i, fields) ==
    {t \in Titles : \/ FieldOf(i, t) \in fields
                    \/ i.kind = "StakeInitializeChecked" /\ t = "Lockup"}

LEMMA TitlesAreOf ==
    ASSUME NEW T, NEW s \in Seq(T), NEW u \in Seq(T)
    PROVE  s \o u \in Seq(T)
  OBVIOUS

LEMMA OptIsOf ==
    ASSUME NEW T, NEW condition, NEW t, condition => t \in T
    PROVE  Opt(condition, t) \in Seq(T)
  BY DEF Opt

LEMMA TuplesAreOf ==
    ASSUME NEW T
    PROVE  /\ <<>> \in Seq(T)
           /\ \A a \in T : <<a>> \in Seq(T)
           /\ \A a, b \in T : <<a, b>> \in Seq(T)
           /\ \A a, b, c \in T : <<a, b, c>> \in Seq(T)
           /\ \A a, b, c, d \in T : <<a, b, c, d>> \in Seq(T)
  OBVIOUS

(* What is shown as the items of an instruction, and as its primary one.   *)
ItemsAreKnown(raw, items) ==
    LET known == Known(Info(raw), ParsedInstruction(raw).fields)
    IN  "Primary" \in known /\ items \in Seq(known)

LEMMA SystemTitleIsKnown ==
    ASSUME NEW i, i.kind \in SystemKinds, NEW fields, NEW t \in Titles,
           SystemField(i.kind, t) \in fields
    PROVE  t \in Known(i, fields)
  <1>1. FieldOf(i, t) = SystemField(i.kind, t)
    BY KindsAreApart DEF FieldOf
  <1> QED BY <1>1 DEF Known

LEMMA StakeTitleIsKnown ==
    ASSUME NEW i, i.kind \in StakeKinds, NEW fields, NEW t \in Titles,
           StakeField(i.kind, t) \in fields
    PROVE  t \in Known(i, fields)
  <1>1. FieldOf(i, t) = StakeField(i.kind, t)
    BY KindsAreApart DEF FieldOf
  <1> QED BY <1>1 DEF Known

LEMMA VoteTitleIsKnown ==
    ASSUME NEW i, i.kind \in VoteKinds, NEW fields, NEW t \in Titles,
           VoteField(i.kind, t) \in fields
    PROVE  t \in Known(i, fields)
  <1>1. FieldOf(i, t) = VoteField(i.kind, t)
    BY KindsAreApart DEF FieldOf
  <1> QED BY <1>1 DEF Known

LEMMA SplTokenTitleIsKnown ==
    ASSUME NEW i, i.kind \in SplTokenKinds, NEW fields, NEW t \in Titles,
           SplTokenField(i.kind, t, "Multisig" \in i.facts) \in fields
    PROVE  t \in Known(i, fields)
  <1>1. FieldOf(i, t) = SplTokenField(i.kind, t, "Multisig" \in i.facts)
    BY KindsAreApart DEF FieldOf
  <1> QED BY <1>1 DEF Known


(* What the facts a printer branches on say of what was parsed.            *)
LEMMA FactsAreParsed ==
    ASSUME NEW raw, ParsedInstruction(raw).rc = 0
    PROVE  LET i == Info(raw)
               p == ParsedInstruction(raw)
           IN  /\ "Custodian" \in i.facts => "custodian" \in p.fields
               /\ "NewCustodian" \in i.facts =>
                       "lockup.custodian" \in p.present
               /\ "FreezeAuthority" \in i.facts =>
                      "freeze_authority" \in p.fields
               /\ raw.kind \in SetLockupKinds =>
                      /\ "LockupTime" \in i.facts =>
                             "unix_timestamp" \in p.present
                      /\ "LockupEpoch" \in i.facts => "epoch" \in p.present
               /\ raw.kind = "StakeInitializeChecked" =>
                      /\ "LockupTime" \notin i.facts
                      /\ "LockupEpoch" \notin i.facts
               /\ raw.kind = "SetAuthority" /\ "ClearAuthority" \notin i.facts
                      => "new_authority" \in p.fields
  <1> DEFINE i == Info(raw)
             p == ParsedInstruction(raw)
  <1>1. i.facts = {f \in Facts(raw.kind) : Holds(f, raw, p)}
    BY InfoTells
  <1>2. /\ Holds("Custodian", raw, p) <=> "custodian" \in p.fields
        /\ Holds("NewCustodian", raw, p) <=> "lockup.custodian" \in p.present
        /\ Holds("FreezeAuthority", raw, p) <=>
               "freeze_authority" \in p.fields
        /\ Holds("ClearAuthority", raw, p) <=>
               "new_authority" \notin p.fields
    BY DEF Holds
  <1>3. ASSUME raw.kind \in SetLockupKinds
        PROVE  /\ Holds("LockupTime", raw, p) <=>
                      "unix_timestamp" \in p.present
               /\ Holds("LockupEpoch", raw, p) <=> "epoch" \in p.present
    BY <1>3 DEF Holds
  <1>4. ASSUME raw.kind = "StakeInitializeChecked"
        PROVE  Facts(raw.kind) = {"TwoAuthorities"}
    BY <1>4 DEF Facts, StakeInitializeKinds, StakeAuthorizeKinds,
                SetLockupKinds, VoteAuthorizeKinds, SignedTokenKinds
  <1>5. ASSUME raw.kind = "SetAuthority"
        PROVE  "ClearAuthority" \in Facts(raw.kind)
    BY <1>5 DEF Facts, StakeInitializeKinds, StakeAuthorizeKinds,
                SetLockupKinds, VoteAuthorizeKinds, SignedTokenKinds
  <1> HIDE DEF i, p
  <1>6. ASSUME raw.kind = "StakeInitializeChecked"
        PROVE  "LockupTime" \notin i.facts /\ "LockupEpoch" \notin i.facts
    BY <1>1, <1>4, <1>6
  <1>7. ASSUME raw.kind = "SetAuthority", "ClearAuthority" \notin i.facts
        PROVE  "new_authority" \in p.fields
    BY <1>1, <1>2, <1>5, <1>7
  <1> QED BY <1>1, <1>2, <1>3, <1>6, <1>7 DEF i, p

LEMMA NewAuthorityIsOf ==
    ASSUME NEW T, NEW i, NEW first \in T, "New withdraw auth" \in T
    PROVE  NewAuthority(i, first) \in Seq(T)
  <1>1. NewAuthority(i, first) =
            <<IF "Withdrawer" \in i.facts THEN "New withdraw auth" ELSE first>>
    BY DEF NewAuthority
  <1>2. (IF "Withdrawer" \in i.facts THEN "New withdraw auth" ELSE first) \in T
    OBVIOUS
  <1> QED BY <1>1, <1>2, TuplesAreOf

LEMMA NothingIsJoined ==
    ASSUME NEW T, NEW s \in Seq(T), NEW u \in Seq(T), Len(s) = 0, Len(u) = 0
    PROVE  s \o u = <<>>
  <1>1. s \o u \in Seq(T) /\ Len(s \o u) = 0
    OBVIOUS
  <1> QED BY <1>1

LEMMA LockupIsOf ==
    ASSUME NEW T, NEW i, NEW x, "Lockup" \in T,
           "LockupTime" \in i.facts =>
               "Lockup time" \in T /\ "Lockup authority" \in T,
           "LockupEpoch" \in i.facts =>
               "Lockup epoch" \in T /\ "Lockup authority" \in T
    PROVE  LockupItems(i, x) \in Seq(T)
  <1> DEFINE time == Opt("LockupTime" \in i.facts, "Lockup time")
             epoch == Opt("LockupEpoch" \in i.facts, "Lockup epoch")
  <1>1. time \in Seq(T) /\ epoch \in Seq(T) /\ Opt(x, "Lockup") \in Seq(T)
    BY OptIsOf
  <1>2. LockupItems(i, x) = IF time \o epoch # <<>>
                            THEN time \o epoch \o <<"Lockup authority">>
                            ELSE Opt(x, "Lockup")
    BY DEF LockupItems
  <1>3. CASE "LockupTime" \notin i.facts /\ "LockupEpoch" \notin i.facts
    <2>1. time = <<>> /\ epoch = <<>>
      BY <1>3 DEF Opt
    <2> HIDE DEF time, epoch
    <2>2. time \o epoch = <<>>
      <3>1. Len(time) = 0 /\ Len(epoch) = 0
        BY <2>1
      <3> QED BY <1>1, <3>1, NothingIsJoined
    <2> QED BY <1>1, <1>2, <2>2
  <1>4. CASE "LockupTime" \in i.facts \/ "LockupEpoch" \in i.facts
    <2>1. <<"Lockup authority">> \in Seq(T)
      BY <1>4, TuplesAreOf
    <2> HIDE DEF time, epoch
    <2>2. time \o epoch \in Seq(T)
      BY <1>1, TitlesAreOf
    <2>3. time \o epoch \o <<"Lockup authority">> \in Seq(T)
      BY <2>1, <2>2, TitlesAreOf
    <2> QED BY <1>1, <1>2, <2>3
  <1> QED BY <1>3, <1>4

LEMMA SystemItemsAreKnown ==
    ASSUME NEW raw \in Raw, ParsedInstruction(raw).rc = 0, NEW x,
           raw.kind \in SystemKinds
    PROVE  ItemsAreKnown(raw, SystemItems(Info(raw), x))
  <1> DEFINE i == Info(raw)
             F == ParsedInstruction(raw).fields
             T == Known(i, F)
             Shows(items) == "Primary" \in T /\ items \in Seq(T)
  <1>0. i.kind = raw.kind
    BY InfoTells
  <1> HIDE DEF i, F, T
  <1>1. ASSUME raw.kind = "SystemTransfer" PROVE Shows(SystemItems(i, x))
    <2>1. i.kind = "SystemTransfer" /\ i.kind \in SystemKinds
      BY <1>1, <1>0 DEF SystemKinds
    <2>2. "lamports" \in F /\ "from" \in F /\ "to" \in F
      BY <1>1, SystemFieldsAreRead DEF F
    <2>3. /\ SystemField(i.kind, "Primary") = "lamports"
          /\ SystemField(i.kind, "Sender") = "from"
          /\ SystemField(i.kind, "Recipient") = "to"
      BY <2>1 DEF SystemField, CreateKinds
    <2>4. "Primary" \in Titles /\ "Sender" \in Titles /\ "Recipient" \in Titles
      BY DEF Titles
    <2>5. "Primary" \in T /\ "Sender" \in T /\ "Recipient" \in T
      BY <2>1, <2>2, <2>3, <2>4, SystemTitleIsKnown DEF T
    <2>6. SystemItems(i, x) =
              Opt(ShowAuthority(i, x), "Sender") \o <<"Recipient">>
      BY <2>1 DEF SystemItems, CreateAccountItems
    <2>7. Opt(ShowAuthority(i, x), "Sender") \in Seq(T)
          /\ <<"Recipient">> \in Seq(T)
      BY <2>5, OptIsOf, TuplesAreOf
    <2>8. SystemItems(i, x) \in Seq(T)
      BY <2>6, <2>7, TitlesAreOf
    <2> QED BY <2>5, <2>8
  <1>2. ASSUME raw.kind = "SystemCreateAccount" PROVE Shows(SystemItems(i, x))
    <2>1. i.kind = "SystemCreateAccount" /\ i.kind \in SystemKinds
      BY <1>2, <1>0 DEF SystemKinds
    <2>2. "to" \in F /\ "lamports" \in F /\ "from" \in F
      BY <1>2, SystemFieldsAreRead DEF F
    <2>3. /\ SystemField(i.kind, "Primary") = "to"
          /\ SystemField(i.kind, "Deposit") = "lamports"
          /\ SystemField(i.kind, "From") = "from"
      BY <2>1 DEF SystemField, CreateKinds
    <2>4. "Primary" \in Titles /\ "Deposit" \in Titles /\ "From" \in Titles
      BY DEF Titles
    <2>5. "Primary" \in T /\ "Deposit" \in T /\ "From" \in T
      BY <2>1, <2>2, <2>3, <2>4, SystemTitleIsKnown DEF T
    <2>6. SystemItems(i, x) =
              <<"Deposit">> \o Opt(ShowAuthority(i, x), "From")
      BY <2>1 DEF SystemItems, CreateAccountItems
    <2>7. <<"Deposit">> \in Seq(T)
          /\ Opt(ShowAuthority(i, x), "From") \in Seq(T)
      BY <2>5, OptIsOf, TuplesAreOf
    <2>8. SystemItems(i, x) \in Seq(T)
      BY <2>6, <2>7, TitlesAreOf
    <2> QED BY <2>5, <2>8
  <1>3. ASSUME raw.kind = "SystemCreateAccountWithSeed"
        PROVE  Shows(SystemItems(i, x))
    <2>1. i.kind = "SystemCreateAccountWithSeed" /\ i.kind \in SystemKinds
      BY <1>3, <1>0 DEF SystemKinds
    <2>2. "to" \in F /\ "lamports" \in F /\ "from" \in F /\ "base" \in F
          /\ "seed" \in F
      BY <1>3, SystemFieldsAreRead DEF F
    <2>3. /\ SystemField(i.kind, "Primary") = "to"
          /\ SystemField(i.kind, "Deposit") = "lamports"
          /\ SystemField(i.kind, "From") = "from"
          /\ SystemField(i.kind, "Base") = "base"
          /\ SystemField(i.kind, "Seed") = "seed"
      BY <2>1 DEF SystemField, CreateKinds
    <2>4. "Primary" \in Titles /\ "Deposit" \in Titles /\ "From" \in Titles
          /\ "Base" \in Titles /\ "Seed" \in Titles
      BY DEF Titles
    <2>5. "Primary" \in T /\ "Deposit" \in T /\ "From" \in T /\ "Base" \in T
          /\ "Seed" \in T
      BY <2>1, <2>2, <2>3, <2>4, SystemTitleIsKnown DEF T
    <2>6. SystemItems(i, x) =
              <<"Deposit">> \o Opt(ShowAuthority(i, x), "From")
              \o Opt(x, "Base") \o Opt(x, "Seed")
      BY <2>1 DEF SystemItems, CreateAccountItems
    <2>7. <<"Deposit">> \in Seq(T)
          /\ Opt(ShowAuthority(i, x), "From") \in Seq(T)
          /\ Opt(x, "Base") \in Seq(T) /\ Opt(x, "Seed") \in Seq(T)
      BY <2>5, OptIsOf, TuplesAreOf
    <2>8. SystemItems(i, x) \in Seq(T)
      BY <2>6, <2>7, TitlesAreOf
    <2> QED BY <2>5, <2>8
  <1>4. ASSUME raw.kind = "SystemAdvanceNonceAccount"
        PROVE  Shows(SystemItems(i, x))
    <2>1. i.kind = "SystemAdvanceNonceAccount" /\ i.kind \in SystemKinds
      BY <1>4, <1>0 DEF SystemKinds
    <2>2. "account" \in F /\ "authority" \in F
      BY <1>4, SystemFieldsAreRead DEF F
    <2>3. /\ SystemField(i.kind, "Primary") = "account"
          /\ SystemField(i.kind, "Authorized by") = "authority"
      BY <2>1 DEF SystemField, CreateKinds
    <2>4. "Primary" \in Titles /\ "Authorized by" \in Titles
      BY DEF Titles
    <2>5. "Primary" \in T /\ "Authorized by" \in T
      BY <2>1, <2>2, <2>3, <2>4, SystemTitleIsKnown DEF T
    <2>6. SystemItems(i, x) =
              AuthorizedBy(i, x)
      BY <2>1 DEF SystemItems, CreateAccountItems
    <2>7. AuthorizedBy(i, x) \in Seq(T)
      BY <2>5, OptIsOf, TuplesAreOf DEF AuthorizedBy
    <2>8. SystemItems(i, x) \in Seq(T)
      BY <2>6, <2>7
    <2> QED BY <2>5, <2>8
  <1>5. ASSUME raw.kind = "SystemInitializeNonceAccount"
        PROVE  Shows(SystemItems(i, x))
    <2>1. i.kind = "SystemInitializeNonceAccount" /\ i.kind \in SystemKinds
      BY <1>5, <1>0 DEF SystemKinds
    <2>2. "account" \in F /\ "authority" \in F
      BY <1>5, SystemFieldsAreRead DEF F
    <2>3. /\ SystemField(i.kind, "Primary") = "account"
          /\ SystemField(i.kind, "New authority") = "authority"
      BY <2>1 DEF SystemField, CreateKinds
    <2>4. "Primary" \in Titles /\ "New authority" \in Titles
      BY DEF Titles
    <2>5. "Primary" \in T /\ "New authority" \in T
      BY <2>1, <2>2, <2>3, <2>4, SystemTitleIsKnown DEF T
    <2>6. SystemItems(i, x) = <<"New authority">>
      BY <2>1 DEF SystemItems, CreateAccountItems
    <2>7. <<"New authority">> \in Seq(T)
      BY <2>5, OptIsOf, TuplesAreOf
    <2>8. SystemItems(i, x) \in Seq(T)
      BY <2>6, <2>7
    <2> QED BY <2>5, <2>8
  <1>6. ASSUME raw.kind = "SystemWithdrawNonceAccount"
        PROVE  Shows(SystemItems(i, x))
    <2>1. i.kind = "SystemWithdrawNonceAccount" /\ i.kind \in SystemKinds
      BY <1>6, <1>0 DEF SystemKinds
    <2>2. "lamports" \in F /\ "account" \in F /\ "to" \in F
          /\ "authority" \in F
      BY <1>6, SystemFieldsAreRead DEF F
    <2>3. /\ SystemField(i.kind, "Primary") = "lamports"
          /\ SystemField(i.kind, "From") = "account"
          /\ SystemField(i.kind, "To") = "to"
          /\ SystemField(i.kind, "Authorized by") = "authority"
      BY <2>1 DEF SystemField, CreateKinds
    <2>4. "Primary" \in Titles /\ "From" \in Titles /\ "To" \in Titles
          /\ "Authorized by" \in Titles
      BY DEF Titles
    <2>5. "Primary" \in T /\ "From" \in T /\ "To" \in T
          /\ "Authorized by" \in T
      BY <2>1, <2>2, <2>3, <2>4, SystemTitleIsKnown DEF T
    <2>6. SystemItems(i, x) = <<"From", "To">> \o AuthorizedBy(i, x)
      BY <2>1 DEF SystemItems, CreateAccountItems
    <2>7. <<"From", "To">> \in Seq(T) /\ AuthorizedBy(i, x) \in Seq(T)
      BY <2>5, OptIsOf, TuplesAreOf DEF AuthorizedBy
    <2>8. SystemItems(i, x) \in Seq(T)
      BY <2>6, <2>7, TitlesAreOf
    <2> QED BY <2>5, <2>8
  <1>7. ASSUME raw.kind = "SystemAuthorizeNonceAccount"
        PROVE  Shows(SystemItems(i, x))
    <2>1. i.kind = "SystemAuthorizeNonceAccount" /\ i.kind \in SystemKinds
      BY <1>7, <1>0 DEF SystemKinds
    <2>2. "account" \in F /\ "new_authority" \in F /\ "authority" \in F
      BY <1>7, SystemFieldsAreRead DEF F
    <2>3. /\ SystemField(i.kind, "Primary") = "account"
          /\ SystemField(i.kind, "New authority") = "new_authority"
          /\ SystemField(i.kind, "Authorized by") = "authority"
      BY <2>1 DEF SystemField, CreateKinds
    <2>4. "Primary" \in Titles /\ "New authority" \in Titles
          /\ "Authorized by" \in Titles
      BY DEF Titles
    <2>5. "Primary" \in T /\ "New authority" \in T /\ "Authorized by" \in T
      BY <2>1, <2>2, <2>3, <2>4, SystemTitleIsKnown DEF T
    <2>6. SystemItems(i, x) = <<"New authority">> \o AuthorizedBy(i, x)
      BY <2>1 DEF SystemItems, CreateAccountItems
    <2>7. <<"New authority">> \in Seq(T) /\ AuthorizedBy(i, x) \in Seq(T)
      BY <2>5, OptIsOf, TuplesAreOf DEF AuthorizedBy
    <2>8. SystemItems(i, x) \in Seq(T)
      BY <2>6, <2>7, TitlesAreOf
    <2> QED BY <2>5, <2>8
  <1>8. ASSUME raw.kind = "SystemAllocate" PROVE Shows(SystemItems(i, x))
    <2>1. i.kind = "SystemAllocate" /\ i.kind \in SystemKinds
      BY <1>8, <1>0 DEF SystemKinds
    <2>2. "account" \in F /\ "space" \in F
      BY <1>8, SystemFieldsAreRead DEF F
    <2>3. /\ SystemField(i.kind, "Primary") = "account"
          /\ SystemField(i.kind, "Data size") = "space"
      BY <2>1 DEF SystemField, CreateKinds
    <2>4. "Primary" \in Titles /\ "Data size" \in Titles
      BY DEF Titles
    <2>5. "Primary" \in T /\ "Data size" \in T
      BY <2>1, <2>2, <2>3, <2>4, SystemTitleIsKnown DEF T
    <2>6. SystemItems(i, x) = <<"Data size">>
      BY <2>1 DEF SystemItems, CreateAccountItems
    <2>7. <<"Data size">> \in Seq(T)
      BY <2>5, OptIsOf, TuplesAreOf
    <2>8. SystemItems(i, x) \in Seq(T)
      BY <2>6, <2>7
    <2> QED BY <2>5, <2>8
  <1>9. ASSUME raw.kind = "SystemAssign" PROVE Shows(SystemItems(i, x))
    <2>1. i.kind = "SystemAssign" /\ i.kind \in SystemKinds
      BY <1>9, <1>0 DEF SystemKinds
    <2>2. "account" \in F /\ "program_id" \in F
      BY <1>9, SystemFieldsAreRead DEF F
    <2>3. /\ SystemField(i.kind, "Primary") = "account"
          /\ SystemField(i.kind, "To program") = "program_id"
      BY <2>1 DEF SystemField, CreateKinds
    <2>4. "Primary" \in Titles /\ "To program" \in Titles
      BY DEF Titles
    <2>5. "Primary" \in T /\ "To program" \in T
      BY <2>1, <2>2, <2>3, <2>4, SystemTitleIsKnown DEF T
    <2>6. SystemItems(i, x) = <<"To program">>
      BY <2>1 DEF SystemItems, CreateAccountItems
    <2>7. <<"To program">> \in Seq(T)
      BY <2>5, OptIsOf, TuplesAreOf
    <2>8. SystemItems(i, x) \in Seq(T)
      BY <2>6, <2>7
    <2> QED BY <2>5, <2>8
  <1>10. ASSUME raw.kind = "SystemAllocateWithSeed"
         PROVE  Shows(SystemItems(i, x))
    <2>1. i.kind = "SystemAllocateWithSeed" /\ i.kind \in SystemKinds
      BY <1>10, <1>0 DEF SystemKinds
    <2>2. "account" \in F /\ "space" \in F /\ "base" \in F /\ "seed" \in F
      BY <1>10, SystemFieldsAreRead DEF F
    <2>3. /\ SystemField(i.kind, "Primary") = "account"
          /\ SystemField(i.kind, "Data size") = "space"
          /\ SystemField(i.kind, "Base") = "base"
          /\ SystemField(i.kind, "Seed") = "seed"
      BY <2>1 DEF SystemField, CreateKinds
    <2>4. "Primary" \in Titles /\ "Data size" \in Titles /\ "Base" \in Titles
          /\ "Seed" \in Titles
      BY DEF Titles
    <2>5. "Primary" \in T /\ "Data size" \in T /\ "Base" \in T /\ "Seed" \in T
      BY <2>1, <2>2, <2>3, <2>4, SystemTitleIsKnown DEF T
    <2>6. SystemItems(i, x) =
              <<"Data size">> \o Opt(x, "Base") \o Opt(x, "Seed")
      BY <2>1 DEF SystemItems, CreateAccountItems
    <2>7. <<"Data size">> \in Seq(T) /\ Opt(x, "Base") \in Seq(T)
          /\ Opt(x, "Seed") \in Seq(T)
      BY <2>5, OptIsOf, TuplesAreOf
    <2>8. SystemItems(i, x) \in Seq(T)
      BY <2>6, <2>7, TitlesAreOf
    <2> QED BY <2>5, <2>8
  <1>q. Shows(SystemItems(i, x))
    BY <1>1, <1>2, <1>3, <1>4, <1>5, <1>6, <1>7, <1>8, <1>9, <1>10
      DEF SystemKinds
  <1> QED BY <1>q DEF ItemsAreKnown, T, i, F

LEMMA VoteItemsAreKnown ==
    ASSUME NEW raw \in Raw, ParsedInstruction(raw).rc = 0, NEW x,
           raw.kind \in VoteKinds
    PROVE  ItemsAreKnown(raw, VoteItems(Info(raw), x))
  <1> DEFINE i == Info(raw)
             F == ParsedInstruction(raw).fields
             T == Known(i, F)
             Shows(items) == "Primary" \in T /\ items \in Seq(T)
  <1>0. i.kind = raw.kind
    BY InfoTells
  <1> HIDE DEF i, F, T
  <1>1. ASSUME raw.kind = "VoteInitialize" PROVE Shows(VoteItems(i, x))
    <2>1. i.kind = "VoteInitialize" /\ i.kind \in VoteKinds
      BY <1>1, <1>0 DEF VoteKinds, VoteAuthorizeKinds
    <2>2. "account" \in F /\ "validator_id" \in F /\ "vote_authority" \in F
          /\ "withdraw_authority" \in F /\ "commission" \in F
      BY <1>1, VoteFieldsAreRead DEF F
    <2>3. /\ VoteField(i.kind, "Primary") = "account"
          /\ VoteField(i.kind, "Validator ID") = "validator_id"
          /\ VoteField(i.kind, "New vote auth") = "vote_authority"
          /\ VoteField(i.kind, "New withdraw auth") = "withdraw_authority"
          /\ VoteField(i.kind, "Commission") = "commission"
      BY <2>1 DEF VoteField
    <2>4. "Primary" \in Titles /\ "Validator ID" \in Titles
          /\ "New vote auth" \in Titles /\ "New withdraw auth" \in Titles
          /\ "Commission" \in Titles
      BY DEF Titles
    <2>5. "Primary" \in T /\ "Validator ID" \in T /\ "New vote auth" \in T
          /\ "New withdraw auth" \in T /\ "Commission" \in T
      BY <2>1, <2>2, <2>3, <2>4, VoteTitleIsKnown DEF T
    <2>6. VoteItems(i, x) =
              <<"Validator ID", "New vote auth", "New withdraw auth",
                  "Commission">>
      BY <2>1 DEF VoteItems, VoteInitializeItems, VoteAuthorizeKinds
    <2>7. <<"Validator ID", "New vote auth", "New withdraw auth",
        "Commission">> \in Seq(T)
      BY <2>5, OptIsOf, TuplesAreOf
    <2>8. VoteItems(i, x) \in Seq(T)
      BY <2>6, <2>7
    <2> QED BY <2>5, <2>8
  <1>2. ASSUME raw.kind = "VoteWithdraw" PROVE Shows(VoteItems(i, x))
    <2>1. i.kind = "VoteWithdraw" /\ i.kind \in VoteKinds
      BY <1>2, <1>0 DEF VoteKinds, VoteAuthorizeKinds
    <2>2. "lamports" \in F /\ "account" \in F /\ "to" \in F
          /\ "authority" \in F
      BY <1>2, VoteFieldsAreRead DEF F
    <2>3. /\ VoteField(i.kind, "Primary") = "lamports"
          /\ VoteField(i.kind, "From") = "account"
          /\ VoteField(i.kind, "To") = "to"
          /\ VoteField(i.kind, "Authorized by") = "authority"
      BY <2>1 DEF VoteField
    <2>4. "Primary" \in Titles /\ "From" \in Titles /\ "To" \in Titles
          /\ "Authorized by" \in Titles
      BY DEF Titles
    <2>5. "Primary" \in T /\ "From" \in T /\ "To" \in T
          /\ "Authorized by" \in T
      BY <2>1, <2>2, <2>3, <2>4, VoteTitleIsKnown DEF T
    <2>6. VoteItems(i, x) = <<"From", "To">> \o AuthorizedBy(i, x)
      BY <2>1 DEF VoteItems, VoteInitializeItems, VoteAuthorizeKinds
    <2>7. <<"From", "To">> \in Seq(T) /\ AuthorizedBy(i, x) \in Seq(T)
      BY <2>5, OptIsOf, TuplesAreOf DEF AuthorizedBy
    <2>8. VoteItems(i, x) \in Seq(T)
      BY <2>6, <2>7, TitlesAreOf
    <2> QED BY <2>5, <2>8
  <1>3. ASSUME raw.kind = "VoteUpdateValidatorId" PROVE Shows(VoteItems(i, x))
    <2>1. i.kind = "VoteUpdateValidatorId" /\ i.kind \in VoteKinds
      BY <1>3, <1>0 DEF VoteKinds, VoteAuthorizeKinds
    <2>2. "account" \in F /\ "new_validator_id" \in F /\ "authority" \in F
      BY <1>3, ValidatorFieldsAreRead DEF F
    <2>3. /\ VoteField(i.kind, "Primary") = "account"
          /\ VoteField(i.kind, "New validator ID") = "new_validator_id"
          /\ VoteField(i.kind, "Authorized by") = "authority"
      BY <2>1 DEF VoteField
    <2>4. "Primary" \in Titles /\ "New validator ID" \in Titles
          /\ "Authorized by" \in Titles
      BY DEF Titles
    <2>5. "Primary" \in T /\ "New validator ID" \in T /\ "Authorized by" \in T
      BY <2>1, <2>2, <2>3, <2>4, VoteTitleIsKnown DEF T
    <2>6. VoteItems(i, x) = <<"New validator ID">> \o AuthorizedBy(i, x)
      BY <2>1 DEF VoteItems, VoteInitializeItems, VoteAuthorizeKinds
    <2>7. <<"New validator ID">> \in Seq(T) /\ AuthorizedBy(i, x) \in Seq(T)
      BY <2>5, OptIsOf, TuplesAreOf DEF AuthorizedBy
    <2>8. VoteItems(i, x) \in Seq(T)
      BY <2>6, <2>7, TitlesAreOf
    <2> QED BY <2>5, <2>8
  <1>4. ASSUME raw.kind = "VoteUpdateCommission" PROVE Shows(VoteItems(i, x))
    <2>1. i.kind = "VoteUpdateCommission" /\ i.kind \in VoteKinds
      BY <1>4, <1>0 DEF VoteKinds, VoteAuthorizeKinds
    <2>2. "account" \in F /\ "commission" \in F /\ "authority" \in F
      BY <1>4, VoteFieldsAreRead DEF F
    <2>3. /\ VoteField(i.kind, "Primary") = "account"
          /\ VoteField(i.kind, "Commission") = "commission"
          /\ VoteField(i.kind, "Authorized by") = "authority"
      BY <2>1 DEF VoteField
    <2>4. "Primary" \in Titles /\ "Commission" \in Titles
          /\ "Authorized by" \in Titles
      BY DEF Titles
    <2>5. "Primary" \in T /\ "Commission" \in T /\ "Authorized by" \in T
      BY <2>1, <2>2, <2>3, <2>4, VoteTitleIsKnown DEF T
    <2>6. VoteItems(i, x) = <<"Commission">> \o AuthorizedBy(i, x)
      BY <2>1 DEF VoteItems, VoteInitializeItems, VoteAuthorizeKinds
    <2>7. <<"Commission">> \in Seq(T) /\ AuthorizedBy(i, x) \in Seq(T)
      BY <2>5, OptIsOf, TuplesAreOf DEF AuthorizedBy
    <2>8. VoteItems(i, x) \in Seq(T)
      BY <2>6, <2>7, TitlesAreOf
    <2> QED BY <2>5, <2>8
  <1>5. ASSUME raw.kind \in VoteAuthorizeKinds PROVE Shows(VoteItems(i, x))
    <2>1. i.kind \in VoteAuthorizeKinds /\ i.kind \in VoteKinds
      BY <1>5, <1>0 DEF VoteKinds
    <2>2. "account" \in F /\ "authority" \in F /\ "new_authority" \in F
      BY <1>5, VoteFieldsAreRead DEF F, VoteAuthorizeKinds
    <2>3. /\ VoteField(i.kind, "Primary") = "account"
          /\ VoteField(i.kind, "New vote auth") = "new_authority"
          /\ VoteField(i.kind, "New withdraw auth") = "new_authority"
          /\ VoteField(i.kind, "Authorized by") = "authority"
      BY <2>1 DEF VoteField, VoteAuthorizeKinds
    <2>4. "Primary" \in Titles /\ "New vote auth" \in Titles
          /\ "New withdraw auth" \in Titles /\ "Authorized by" \in Titles
      BY DEF Titles
    <2>5. "Primary" \in T /\ "New vote auth" \in T
          /\ "New withdraw auth" \in T /\ "Authorized by" \in T
      BY <2>1, <2>2, <2>3, <2>4, VoteTitleIsKnown DEF T
    <2>6. VoteItems(i, x) =
              NewAuthority(i, "New vote auth") \o AuthorizedBy(i, x)
      BY <2>1 DEF VoteItems, VoteAuthorizeKinds
    <2>7. NewAuthority(i, "New vote auth") \in Seq(T)
          /\ AuthorizedBy(i, x) \in Seq(T)
      BY <2>5, NewAuthorityIsOf, OptIsOf DEF AuthorizedBy
    <2>8. VoteItems(i, x) \in Seq(T)
      BY <2>6, <2>7, TitlesAreOf
    <2> QED BY <2>5, <2>8
  <1>q. Shows(VoteItems(i, x))
    BY <1>1, <1>2, <1>3, <1>4, <1>5 DEF VoteKinds
  <1> QED BY <1>q DEF ItemsAreKnown, T, i, F

LEMMA StakeItemsAreKnown ==
    ASSUME NEW raw \in Raw, ParsedInstruction(raw).rc = 0, NEW x,
           raw.kind \in StakeKinds
    PROVE  ItemsAreKnown(raw, StakeItems(Info(raw), x))
  <1> DEFINE i == Info(raw)
             F == ParsedInstruction(raw).fields
             T == Known(i, F)
             Shows(items) == "Primary" \in T /\ items \in Seq(T)
  <1>0. i.kind = raw.kind
    BY InfoTells
  <1> HIDE DEF i, F, T
  <1>1. ASSUME raw.kind = "StakeDelegate" PROVE Shows(StakeItems(i, x))
    <2>1. i.kind = "StakeDelegate" /\ i.kind \in StakeKinds
      BY <1>1, <1>0 DEF StakeKinds
    <2>2. "stake_pubkey" \in F /\ "authorized_pubkey" \in F
          /\ "vote_pubkey" \in F
      BY <1>1, StakeFieldsAreRead DEF F
    <2>3. /\ StakeField(i.kind, "Primary") = "stake_pubkey"
          /\ StakeField(i.kind, "Authorized by") = "authorized_pubkey"
          /\ StakeField(i.kind, "Vote account") = "vote_pubkey"
      BY <2>1 DEF StakeField, StakeInitializeKinds, SetLockupKinds
    <2>4. "Primary" \in Titles /\ "Authorized by" \in Titles
          /\ "Vote account" \in Titles
      BY DEF Titles
    <2>5. "Primary" \in T /\ "Authorized by" \in T /\ "Vote account" \in T
      BY <2>1, <2>2, <2>3, <2>4, StakeTitleIsKnown DEF T
    <2>6. StakeItems(i, x) =
              AuthorizedBy(i, x) \o <<"Vote account">>
      BY <2>1
        DEF StakeItems, StakeInitializeKinds, StakeAuthorizeKinds,
            SetLockupKinds
    <2>7. AuthorizedBy(i, x) \in Seq(T) /\ <<"Vote account">> \in Seq(T)
      BY <2>5, OptIsOf, TuplesAreOf DEF AuthorizedBy
    <2>8. StakeItems(i, x) \in Seq(T)
      BY <2>6, <2>7, TitlesAreOf
    <2> QED BY <2>5, <2>8
  <1>2. ASSUME raw.kind = "StakeWithdraw" PROVE Shows(StakeItems(i, x))
    <2>1. i.kind = "StakeWithdraw" /\ i.kind \in StakeKinds
      BY <1>2, <1>0 DEF StakeKinds
    <2>2. "lamports" \in F /\ "account" \in F /\ "to" \in F
          /\ "authority" \in F
      BY <1>2, StakeFieldsAreRead DEF F
    <2>3. /\ StakeField(i.kind, "Primary") = "lamports"
          /\ StakeField(i.kind, "From") = "account"
          /\ StakeField(i.kind, "To") = "to"
          /\ StakeField(i.kind, "Authorized by") = "authority"
      BY <2>1 DEF StakeField, StakeInitializeKinds, SetLockupKinds
    <2>4. "Primary" \in Titles /\ "From" \in Titles /\ "To" \in Titles
          /\ "Authorized by" \in Titles
      BY DEF Titles
    <2>5. "Primary" \in T /\ "From" \in T /\ "To" \in T
          /\ "Authorized by" \in T
      BY <2>1, <2>2, <2>3, <2>4, StakeTitleIsKnown DEF T
    <2>6. StakeItems(i, x) = <<"From", "To">> \o AuthorizedBy(i, x)
      BY <2>1
        DEF StakeItems, StakeInitializeKinds, StakeAuthorizeKinds,
            SetLockupKinds
    <2>7. <<"From", "To">> \in Seq(T) /\ AuthorizedBy(i, x) \in Seq(T)
      BY <2>5, OptIsOf, TuplesAreOf DEF AuthorizedBy
    <2>8. StakeItems(i, x) \in Seq(T)
      BY <2>6, <2>7, TitlesAreOf
    <2> QED BY <2>5, <2>8
  <1>3. ASSUME raw.kind = "StakeDeactivate" PROVE Shows(StakeItems(i, x))
    <2>1. i.kind = "StakeDeactivate" /\ i.kind \in StakeKinds
      BY <1>3, <1>0 DEF StakeKinds
    <2>2. "account" \in F /\ "authority" \in F
      BY <1>3, StakeFieldsAreRead DEF F
    <2>3. /\ StakeField(i.kind, "Primary") = "account"
          /\ StakeField(i.kind, "Authorized by") = "authority"
      BY <2>1 DEF StakeField, StakeInitializeKinds, SetLockupKinds
    <2>4. "Primary" \in Titles /\ "Authorized by" \in Titles
      BY DEF Titles
    <2>5. "Primary" \in T /\ "Authorized by" \in T
      BY <2>1, <2>2, <2>3, <2>4, StakeTitleIsKnown DEF T
    <2>6. StakeItems(i, x) =
              AuthorizedBy(i, x)
      BY <2>1
        DEF StakeItems, StakeInitializeKinds, StakeAuthorizeKinds,
            SetLockupKinds
    <2>7. AuthorizedBy(i, x) \in Seq(T)
      BY <2>5, OptIsOf, TuplesAreOf DEF AuthorizedBy
    <2>8. StakeItems(i, x) \in Seq(T)
      BY <2>6, <2>7
    <2> QED BY <2>5, <2>8
  <1>4. ASSUME raw.kind = "StakeSplit" PROVE Shows(StakeItems(i, x))
    <2>1. i.kind = "StakeSplit" /\ i.kind \in StakeKinds
      BY <1>4, <1>0 DEF StakeKinds
    <2>2. "lamports" \in F /\ "account" \in F /\ "split_account" \in F
          /\ "authority" \in F
      BY <1>4, StakeFieldsAreRead DEF F
    <2>3. /\ StakeField(i.kind, "Primary") = "lamports"
          /\ StakeField(i.kind, "From") = "account"
          /\ StakeField(i.kind, "To") = "split_account"
          /\ StakeField(i.kind, "Authorized by") = "authority"
      BY <2>1 DEF StakeField, StakeInitializeKinds, SetLockupKinds
    <2>4. "Primary" \in Titles /\ "From" \in Titles /\ "To" \in Titles
          /\ "Authorized by" \in Titles
      BY DEF Titles
    <2>5. "Primary" \in T /\ "From" \in T /\ "To" \in T
          /\ "Authorized by" \in T
      BY <2>1, <2>2, <2>3, <2>4, StakeTitleIsKnown DEF T
    <2>6. StakeItems(i, x) = <<"From", "To">> \o AuthorizedBy(i, x)
      BY <2>1
        DEF StakeItems, StakeInitializeKinds, StakeAuthorizeKinds,
            SetLockupKinds
    <2>7. <<"From", "To">> \in Seq(T) /\ AuthorizedBy(i, x) \in Seq(T)
      BY <2>5, OptIsOf, TuplesAreOf DEF AuthorizedBy
    <2>8. StakeItems(i, x) \in Seq(T)
      BY <2>6, <2>7, TitlesAreOf
    <2> QED BY <2>5, <2>8
  <1>5. ASSUME raw.kind = "StakeMerge" PROVE Shows(StakeItems(i, x))
    <2>1. i.kind = "StakeMerge" /\ i.kind \in StakeKinds
      BY <1>5, <1>0 DEF StakeKinds
    <2>2. "source" \in F /\ "destination" \in F /\ "authority" \in F
      BY <1>5, StakeFieldsAreRead DEF F
    <2>3. /\ StakeField(i.kind, "Primary") = "source"
          /\ StakeField(i.kind, "Into") = "destination"
          /\ StakeField(i.kind, "Authorized by") = "authority"
      BY <2>1 DEF StakeField, StakeInitializeKinds, SetLockupKinds
    <2>4. "Primary" \in Titles /\ "Into" \in Titles
          /\ "Authorized by" \in Titles
      BY DEF Titles
    <2>5. "Primary" \in T /\ "Into" \in T /\ "Authorized by" \in T
      BY <2>1, <2>2, <2>3, <2>4, StakeTitleIsKnown DEF T
    <2>6. StakeItems(i, x) = <<"Into">> \o AuthorizedBy(i, x)
      BY <2>1
        DEF StakeItems, StakeInitializeKinds, StakeAuthorizeKinds,
            SetLockupKinds
    <2>7. <<"Into">> \in Seq(T) /\ AuthorizedBy(i, x) \in Seq(T)
      BY <2>5, OptIsOf, TuplesAreOf DEF AuthorizedBy
    <2>8. StakeItems(i, x) \in Seq(T)
      BY <2>6, <2>7, TitlesAreOf
    <2> QED BY <2>5, <2>8
  <1>6. ASSUME raw.kind \in StakeAuthorizeKinds PROVE Shows(StakeItems(i, x))
    <2>1. i.kind \in StakeAuthorizeKinds /\ i.kind \in StakeKinds
      BY <1>6, <1>0 DEF StakeKinds
    <2>2. "account" \in F /\ "authority" \in F /\ "new_authority" \in F
      BY <1>6, StakeFieldsAreRead DEF F, StakeAuthorizeKinds
    <2>3. /\ StakeField(i.kind, "Primary") = "account"
          /\ StakeField(i.kind, "New stake auth") = "new_authority"
          /\ StakeField(i.kind, "New withdraw auth") = "new_authority"
          /\ StakeField(i.kind, "Authorized by") = "authority"
          /\ StakeField(i.kind, "Custodian") = "custodian"
      BY <2>1 DEF StakeField, StakeAuthorizeKinds, StakeInitializeKinds,
                  SetLockupKinds
    <2>4. "Primary" \in Titles /\ "New stake auth" \in Titles
          /\ "New withdraw auth" \in Titles /\ "Authorized by" \in Titles
          /\ "Custodian" \in Titles
      BY DEF Titles
    <2>5. "Primary" \in T /\ "New stake auth" \in T
          /\ "New withdraw auth" \in T /\ "Authorized by" \in T
      BY <2>1, <2>2, <2>3, <2>4, StakeTitleIsKnown DEF T
    <2>6. "Custodian" \in i.facts => "Custodian" \in T
      <3>1. "Custodian" \in i.facts => "custodian" \in F
        BY FactsAreParsed DEF i, F
      <3> QED BY <2>1, <2>3, <2>4, <3>1, StakeTitleIsKnown DEF T
    <2> DEFINE shown == /\ "Custodian" \in i.facts
                        /\ x \/ "OtherCustodian" \in i.facts
    <2>7. StakeItems(i, x) = NewAuthority(i, "New stake auth")
              \o AuthorizedBy(i, x) \o Opt(shown, "Custodian")
      BY <2>1 DEF StakeItems, StakeAuthorizeKinds, StakeInitializeKinds,
                  SetLockupKinds
    <2>8. NewAuthority(i, "New stake auth") \in Seq(T)
          /\ AuthorizedBy(i, x) \in Seq(T)
      BY <2>5, NewAuthorityIsOf, OptIsOf DEF AuthorizedBy
    <2>9. Opt(shown, "Custodian") \in Seq(T)
      BY <2>6, OptIsOf
    <2> HIDE DEF shown
    <2>10. StakeItems(i, x) \in Seq(T)
      BY <2>7, <2>8, <2>9, TitlesAreOf
    <2> QED BY <2>5, <2>10
  <1>7. ASSUME raw.kind \in StakeInitializeKinds PROVE Shows(StakeItems(i, x))
    <2>1. i.kind \in StakeInitializeKinds /\ i.kind \in StakeKinds
      BY <1>7, <1>0 DEF StakeKinds
    <2>2. "account" \in F /\ "stake_authority" \in F
          /\ "withdraw_authority" \in F
      BY <1>7, StakeFieldsAreRead DEF F, StakeInitializeKinds
    <2>3. /\ StakeField(i.kind, "Primary") = "account"
          /\ StakeField(i.kind, "New stake auth") = "stake_authority"
          /\ StakeField(i.kind, "New authority") = "stake_authority"
          /\ StakeField(i.kind, "New withdraw auth") = "withdraw_authority"
          /\ StakeField(i.kind, "Lockup") = "unix_timestamp"
          /\ StakeField(i.kind, "Lockup time") = "unix_timestamp"
          /\ StakeField(i.kind, "Lockup epoch") = "epoch"
          /\ StakeField(i.kind, "Lockup authority") = "lockup.custodian"
      BY <2>1 DEF StakeField, StakeInitializeKinds, SetLockupKinds
    <2>4. "Primary" \in Titles /\ "New stake auth" \in Titles
          /\ "New authority" \in Titles /\ "New withdraw auth" \in Titles
          /\ "Lockup" \in Titles /\ "Lockup time" \in Titles
          /\ "Lockup epoch" \in Titles /\ "Lockup authority" \in Titles
      BY DEF Titles
    <2>5. "Primary" \in T /\ "New stake auth" \in T
          /\ "New authority" \in T /\ "New withdraw auth" \in T
      BY <2>1, <2>2, <2>3, <2>4, StakeTitleIsKnown DEF T
    <2>6. /\ "Lockup" \in T
          /\ "LockupTime" \in i.facts =>
                 "Lockup time" \in T /\ "Lockup authority" \in T
          /\ "LockupEpoch" \in i.facts =>
                 "Lockup epoch" \in T /\ "Lockup authority" \in T
      <3>1. CASE raw.kind = "StakeInitialize"
        <4>1. "unix_timestamp" \in F /\ "epoch" \in F
              /\ "lockup.custodian" \in F
          BY <3>1, StakeFieldsAreRead DEF F
        <4>2. "Lockup" \in T /\ "Lockup time" \in T /\ "Lockup epoch" \in T
              /\ "Lockup authority" \in T
          BY <2>1, <2>3, <2>4, <4>1, StakeTitleIsKnown DEF T
        <4> QED BY <4>2
      <3>2. CASE raw.kind = "StakeInitializeChecked"
        <4>1. "LockupTime" \notin i.facts /\ "LockupEpoch" \notin i.facts
          BY <3>2, FactsAreParsed DEF i
        <4>2. "Lockup" \in T
          BY <1>0, <2>4, <3>2 DEF T, Known
        <4> QED BY <4>1, <4>2
      <3> QED BY <1>7, <3>1, <3>2 DEF StakeInitializeKinds
    <2> DEFINE new == IF "TwoAuthorities" \in i.facts
                      THEN <<"New stake auth", "New withdraw auth">>
                      ELSE <<"New authority">>
    <2>7. StakeItems(i, x) = new \o LockupItems(i, x)
      BY <2>1 DEF StakeItems, StakeInitializeItems, StakeInitializeKinds,
                  StakeAuthorizeKinds, SetLockupKinds
    <2>8. new \in Seq(T)
      BY <2>5, TuplesAreOf
    <2>9. LockupItems(i, x) \in Seq(T)
      BY <2>6, LockupIsOf
    <2> HIDE DEF new
    <2>10. StakeItems(i, x) \in Seq(T)
      BY <2>7, <2>8, <2>9, TitlesAreOf
    <2> QED BY <2>5, <2>10
  <1>8. ASSUME raw.kind \in SetLockupKinds PROVE Shows(StakeItems(i, x))
    <2>1. i.kind \in SetLockupKinds /\ i.kind \in StakeKinds
      BY <1>8, <1>0 DEF StakeKinds
    <2>2. /\ {"account", "custodian"} \subseteq ParsedInstruction(raw).fields
          /\ InOrder(ParsedInstruction(raw))
      BY <1>8, StakeFieldsAreRead DEF SetLockupKinds
    <2>3. "account" \in F /\ "custodian" \in F
      BY <2>2 DEF F
    <2>4. /\ "LockupTime" \in i.facts => "unix_timestamp" \in F
          /\ "LockupEpoch" \in i.facts => "epoch" \in F
          /\ "NewCustodian" \in i.facts => "lockup.custodian" \in F
      BY <1>8, <2>2, FactsAreParsed DEF F, i, InOrder
    <2>5. /\ StakeField(i.kind, "Primary") = "account"
          /\ StakeField(i.kind, "Time") = "unix_timestamp"
          /\ StakeField(i.kind, "Epoch") = "epoch"
          /\ StakeField(i.kind, "New authority") = "lockup.custodian"
          /\ StakeField(i.kind, "Authorized by") = "custodian"
      BY <2>1 DEF StakeField, StakeInitializeKinds, SetLockupKinds
    <2>6. "Primary" \in Titles /\ "Time" \in Titles /\ "Epoch" \in Titles
          /\ "New authority" \in Titles /\ "Authorized by" \in Titles
      BY DEF Titles
    <2>7. /\ "Primary" \in T /\ "Authorized by" \in T
          /\ "LockupTime" \in i.facts => "Time" \in T
          /\ "LockupEpoch" \in i.facts => "Epoch" \in T
          /\ "NewCustodian" \in i.facts => "New authority" \in T
      BY <2>1, <2>3, <2>4, <2>5, <2>6, StakeTitleIsKnown DEF T
    <2>8. StakeItems(i, x) =
              Opt("LockupTime" \in i.facts, "Time")
              \o Opt("LockupEpoch" \in i.facts, "Epoch")
              \o Opt("NewCustodian" \in i.facts, "New authority")
              \o AuthorizedBy(i, x)
      BY <2>1 DEF StakeItems, StakeInitializeKinds, StakeAuthorizeKinds,
                  SetLockupKinds
    <2>9. Opt("LockupTime" \in i.facts, "Time") \in Seq(T)
          /\ Opt("LockupEpoch" \in i.facts, "Epoch") \in Seq(T)
          /\ Opt("NewCustodian" \in i.facts, "New authority") \in Seq(T)
          /\ AuthorizedBy(i, x) \in Seq(T)
      BY <2>7, OptIsOf DEF AuthorizedBy
    <2>10. StakeItems(i, x) \in Seq(T)
      BY <2>8, <2>9, TitlesAreOf, ZenonT(60)
    <2> QED BY <2>7, <2>10
  <1>q. Shows(StakeItems(i, x))
    BY <1>1, <1>2, <1>3, <1>4, <1>5, <1>6, <1>7, <1>8 DEF StakeKinds
  <1> QED BY <1>q DEF ItemsAreKnown, T, i, F

(* The owner of what a token instruction is about, and who signs for it.   *)
LEMMA SignIsOf ==
    ASSUME NEW raw \in Raw, ParsedInstruction(raw).rc = 0, NEW x,
           raw.kind \in SignedTokenKinds, Signed(ParsedInstruction(raw))
    PROVE  LET i == Info(raw)
           IN  SplTokenSign(i, x) \in
                   Seq(Known(i, ParsedInstruction(raw).fields))
  <1> DEFINE i == Info(raw)
             p == ParsedInstruction(raw)
             F == p.fields
             T == Known(i, F)
             multisig == "Multisig" \in i.facts
  <1>1. i.kind \in SignedTokenKinds /\ i.kind \in SplTokenKinds
    BY InfoTells DEF SplTokenKinds
  <1>2. multisig <=> "multisig" \in F
    BY MultisigIsFact
  <1>3. /\ "signer" \in F \/ "multisig" \in F
        /\ "multisig" \in F => "signers" \in F
    BY OthersAreRead DEF Signed, InOrder
  <1>4. SplTokenField(i.kind, "Owner", multisig) =
            IF multisig THEN "multisig" ELSE "signer"
    <2>1. i.kind \notin InitializeAccountKinds
      BY <1>1 DEF InitializeAccountKinds, SignedTokenKinds
    <2> HIDE DEF multisig, i
    <2> QED BY <2>1 DEF SplTokenField
  <1>5. SplTokenField(i.kind, "Signers", multisig) = "signers"
    BY DEF SplTokenField
  <1>6. "Owner" \in Titles /\ "Signers" \in Titles
    BY DEF Titles
  <1>7. SplTokenSign(i, x) = IF multisig THEN <<"Owner", "Signers">>
                             ELSE Opt(ShowAuthority(i, x), "Owner")
    BY DEF SplTokenSign
  <1> HIDE DEF F, i, p
  <1>8. SplTokenField(i.kind, "Owner", multisig) \in F
    BY <1>2, <1>3, <1>4
  <1>9. "Owner" \in T
    BY <1>1, <1>6, <1>8, SplTokenTitleIsKnown
  <1>10. multisig => "Signers" \in T
    BY <1>1, <1>2, <1>3, <1>5, <1>6, SplTokenTitleIsKnown
  <1> HIDE DEF T, multisig
  <1>11. Opt(ShowAuthority(i, x), "Owner") \in Seq(T)
    BY <1>9, OptIsOf
  <1>12. multisig => <<"Owner", "Signers">> \in Seq(T)
    BY <1>9, <1>10, TuplesAreOf
  <1>13. SplTokenSign(i, x) \in Seq(T)
    BY <1>7, <1>11, <1>12
  <1> QED BY <1>13 DEF T, F, i, p

LEMMA TokenItemsAreKnown ==
    ASSUME NEW raw \in Raw, ParsedInstruction(raw).rc = 0, NEW x,
           raw.kind \in SplTokenKinds, raw.kind \notin SignedTokenKinds
    PROVE  ItemsAreKnown(raw, SplTokenItems(Info(raw), x))
  <1> DEFINE i == Info(raw)
             F == ParsedInstruction(raw).fields
             T == Known(i, F)
             Shows(items) == "Primary" \in T /\ items \in Seq(T)
  <1>0. i.kind = raw.kind
    BY InfoTells
  <1> HIDE DEF i, F, T
  <1>1. ASSUME raw.kind = "InitializeMint" PROVE Shows(SplTokenItems(i, x))
    <2>1. i.kind = "InitializeMint" /\ i.kind \in SplTokenKinds
      BY <1>1, <1>0 DEF SplTokenKinds
    <2>2. "mint_account" \in F /\ "mint_authority" \in F /\ "decimals" \in F
      BY <1>1, TokenFieldsAreRead DEF F
    <2>3. "FreezeAuthority" \in i.facts => "freeze_authority" \in F
      BY FactsAreParsed DEF i, F
    <2> DEFINE multisig == "Multisig" \in i.facts
    <2>4. /\ SplTokenField(i.kind, "Primary", multisig) = "mint_account"
          /\ SplTokenField(i.kind, "Mint authority", multisig) =
                 "mint_authority"
          /\ SplTokenField(i.kind, "Decimals", multisig) = "decimals"
          /\ SplTokenField(i.kind, "Freeze authority", multisig) =
                 "freeze_authority"
      BY <2>1 DEF SplTokenField
    <2>5. "Primary" \in Titles /\ "Mint authority" \in Titles
          /\ "Decimals" \in Titles /\ "Freeze authority" \in Titles
      BY DEF Titles
    <2>6. /\ "Primary" \in T /\ "Mint authority" \in T /\ "Decimals" \in T
          /\ "FreezeAuthority" \in i.facts => "Freeze authority" \in T
      BY <2>1, <2>2, <2>3, <2>4, <2>5, SplTokenTitleIsKnown DEF T
    <2>7. SplTokenItems(i, x) = <<"Mint authority", "Decimals">> \o
              Opt("FreezeAuthority" \in i.facts, "Freeze authority")
      BY <2>1 DEF SplTokenItems, InitializeAccountKinds
    <2>8. <<"Mint authority", "Decimals">> \in Seq(T)
          /\ Opt("FreezeAuthority" \in i.facts, "Freeze authority") \in Seq(T)
      BY <2>6, OptIsOf, TuplesAreOf
    <2>9. SplTokenItems(i, x) \in Seq(T)
      BY <2>7, <2>8, TitlesAreOf
    <2> QED BY <2>6, <2>9
  <1>2. ASSUME raw.kind \in {"InitializeAccount", "InitializeAccount2"}
        PROVE  Shows(SplTokenItems(i, x))
    <2>1. /\ i.kind \in {"InitializeAccount", "InitializeAccount2"}
          /\ i.kind \in SplTokenKinds
      BY <1>2, <1>0 DEF SplTokenKinds, InitializeAccountKinds, SignedTokenKinds
    <2>2. "token_account" \in F /\ "owner" \in F /\ "mint_account" \in F
      BY <1>2, TokenFieldsAreRead DEF F
    <2>3. /\ SplTokenField(i.kind, "Primary", "Multisig" \in i.facts)
               = "token_account"
          /\ SplTokenField(i.kind, "Owner", "Multisig" \in i.facts) = "owner"
          /\ SplTokenField(i.kind, "Token address", "Multisig" \in i.facts)
               = "mint_account"
      BY <2>1 DEF SplTokenField, InitializeAccountKinds
    <2>4. "Primary" \in Titles /\ "Owner" \in Titles
          /\ "Token address" \in Titles
      BY DEF Titles
    <2>5. "Primary" \in T /\ "Owner" \in T /\ "Token address" \in T
      BY <2>1, <2>2, <2>3, <2>4, SplTokenTitleIsKnown DEF T
    <2>6. SplTokenItems(i, x) = <<"Owner", "Token address">>
      BY <2>1
        DEF SplTokenItems, TokenTransferItems, MultisigItems,
            InitializeAccountKinds
    <2>7. <<"Owner", "Token address">> \in Seq(T)
      BY <2>5, OptIsOf, TuplesAreOf
    <2>8. SplTokenItems(i, x) \in Seq(T)
      BY <2>6, <2>7
    <2> QED BY <2>5, <2>8
  <1>3. ASSUME raw.kind = "InitializeMultisig" PROVE Shows(SplTokenItems(i, x))
    <2>1. i.kind = "InitializeMultisig" /\ i.kind \in SplTokenKinds
      BY <1>3, <1>0 DEF SplTokenKinds, InitializeAccountKinds, SignedTokenKinds
    <2>2. "multisig_account" \in F /\ "signers" \in F
      BY <1>3, TokenFieldsAreRead DEF F
    <2>3. /\ SplTokenField(i.kind, "Primary", "Multisig" \in i.facts)
               = "multisig_account"
          /\ SplTokenField(i.kind, "Required signers", "Multisig" \in i.facts)
               = "signers"
      BY <2>1 DEF SplTokenField, InitializeAccountKinds
    <2>4. "Primary" \in Titles /\ "Required signers" \in Titles
      BY DEF Titles
    <2>5. "Primary" \in T /\ "Required signers" \in T
      BY <2>1, <2>2, <2>3, <2>4, SplTokenTitleIsKnown DEF T
    <2>6. SplTokenItems(i, x) =
              Opt("BadThreshold" \notin i.facts, "Required signers")
      BY <2>1
        DEF SplTokenItems, TokenTransferItems, MultisigItems,
            InitializeAccountKinds
    <2>7. Opt("BadThreshold" \notin i.facts, "Required signers") \in Seq(T)
      BY <2>5, OptIsOf, TuplesAreOf
    <2>8. SplTokenItems(i, x) \in Seq(T)
      BY <2>6, <2>7
    <2> QED BY <2>5, <2>8
  <1>4. ASSUME raw.kind = "SyncNative" PROVE Shows(SplTokenItems(i, x))
    <2>1. i.kind = "SyncNative" /\ i.kind \in SplTokenKinds
      BY <1>4, <1>0 DEF SplTokenKinds, InitializeAccountKinds, SignedTokenKinds
    <2>2. "token_account" \in F
      BY <1>4, TokenFieldsAreRead DEF F
    <2>3. /\ SplTokenField(i.kind, "Primary", "Multisig" \in i.facts)
               = "token_account"
      BY <2>1 DEF SplTokenField, InitializeAccountKinds
    <2>4. "Primary" \in Titles
      BY DEF Titles
    <2>5. "Primary" \in T
      BY <2>1, <2>2, <2>3, <2>4, SplTokenTitleIsKnown DEF T
    <2>6. SplTokenItems(i, x) = <<>>
      BY <2>1
        DEF SplTokenItems, TokenTransferItems, MultisigItems,
            InitializeAccountKinds
    <2>7. <<>> \in Seq(T)
      BY <2>5, OptIsOf, TuplesAreOf
    <2>8. SplTokenItems(i, x) \in Seq(T)
      BY <2>6, <2>7
    <2> QED BY <2>5, <2>8
  <1>q. Shows(SplTokenItems(i, x))
    BY <1>1, <1>2, <1>3, <1>4 DEF SplTokenKinds, InitializeAccountKinds
  <1> QED BY <1>q DEF ItemsAreKnown, T, i, F

LEMMA SignedItemsAreKnown ==
    ASSUME NEW raw \in Raw, ParsedInstruction(raw).rc = 0, NEW x,
           raw.kind \in SignedTokenKinds
    PROVE  ItemsAreKnown(raw, SplTokenItems(Info(raw), x))
  <1> DEFINE i == Info(raw)
             F == ParsedInstruction(raw).fields
             T == Known(i, F)
             Shows(items) == "Primary" \in T /\ items \in Seq(T)
  <1>0. i.kind = raw.kind
    BY InfoTells
  <1>s. SplTokenSign(i, x) \in Seq(T)
    <2>1. Signed(ParsedInstruction(raw))
      BY SignedFieldsAreRead DEF SignedTokenKinds
    <2> QED BY <2>1, SignIsOf
  <1> HIDE DEF i, F, T
  <1>1. ASSUME raw.kind = "TransferChecked" PROVE Shows(SplTokenItems(i, x))
    <2>1. i.kind = "TransferChecked" /\ i.kind \in SplTokenKinds
      BY <1>1, <1>0 DEF SplTokenKinds, InitializeAccountKinds, SignedTokenKinds
    <2>2. "amount" \in F /\ "mint_account" \in F /\ "src_account" \in F
          /\ "dest_account" \in F
      BY <1>1, SignedFieldsAreRead DEF F
    <2>3. /\ SplTokenField(i.kind, "Primary", "Multisig" \in i.facts)
               = "amount"
          /\ SplTokenField(i.kind, "Token address", "Multisig" \in i.facts)
               = "mint_account"
          /\ SplTokenField(i.kind, "From (token account)", "Multisig" \in i.facts)
               = "src_account"
          /\ SplTokenField(i.kind, "To (token account)", "Multisig" \in i.facts)
               = "dest_account"
      BY <2>1 DEF SplTokenField
    <2>4. "Primary" \in Titles /\ "Token address" \in Titles
          /\ "From (token account)" \in Titles
          /\ "To (token account)" \in Titles
      BY DEF Titles
    <2>5. "Primary" \in T /\ "Token address" \in T
          /\ "From (token account)" \in T /\ "To (token account)" \in T
      BY <2>1, <2>2, <2>3, <2>4, SplTokenTitleIsKnown DEF T
    <2>6. SplTokenItems(i, x) =
              <<"Token address", "From (token account)", "To (token account)">>
              \o SplTokenSign(i, x)
      BY <2>1
        DEF SplTokenItems, TokenTransferItems, MultisigItems,
            InitializeAccountKinds
    <2>7. <<"Token address", "From (token account)", "To (token account)">>
            \in Seq(T)
          /\ SplTokenSign(i, x) \in Seq(T)
      BY <2>5, OptIsOf, TuplesAreOf, <1>s
    <2>8. SplTokenItems(i, x) \in Seq(T)
      BY <2>6, <2>7, TitlesAreOf
    <2> QED BY <2>5, <2>8
  <1>2. ASSUME raw.kind = "ApproveChecked" PROVE Shows(SplTokenItems(i, x))
    <2>1. i.kind = "ApproveChecked" /\ i.kind \in SplTokenKinds
      BY <1>2, <1>0 DEF SplTokenKinds, InitializeAccountKinds, SignedTokenKinds
    <2>2. "delegate" \in F /\ "amount" \in F /\ "mint_account" \in F
          /\ "token_account" \in F
      BY <1>2, SignedFieldsAreRead DEF F
    <2>3. /\ SplTokenField(i.kind, "Primary", "Multisig" \in i.facts)
               = "delegate"
          /\ SplTokenField(i.kind, "Allowance", "Multisig" \in i.facts)
               = "amount"
          /\ SplTokenField(i.kind, "Token address", "Multisig" \in i.facts)
               = "mint_account"
          /\ SplTokenField(i.kind, "From (token account)", "Multisig" \in i.facts)
               = "token_account"
      BY <2>1 DEF SplTokenField
    <2>4. "Primary" \in Titles /\ "Allowance" \in Titles
          /\ "Token address" \in Titles /\ "From (token account)" \in Titles
      BY DEF Titles
    <2>5. "Primary" \in T /\ "Allowance" \in T /\ "Token address" \in T
          /\ "From (token account)" \in T
      BY <2>1, <2>2, <2>3, <2>4, SplTokenTitleIsKnown DEF T
    <2>6. SplTokenItems(i, x) =
              <<"Allowance", "Token address", "From (token account)">>
              \o SplTokenSign(i, x)
      BY <2>1
        DEF SplTokenItems, TokenTransferItems, MultisigItems,
            InitializeAccountKinds
    <2>7. <<"Allowance", "Token address", "From (token account)">> \in Seq(T)
          /\ SplTokenSign(i, x) \in Seq(T)
      BY <2>5, OptIsOf, TuplesAreOf, <1>s
    <2>8. SplTokenItems(i, x) \in Seq(T)
      BY <2>6, <2>7, TitlesAreOf
    <2> QED BY <2>5, <2>8
  <1>3. ASSUME raw.kind = "Revoke" PROVE Shows(SplTokenItems(i, x))
    <2>1. i.kind = "Revoke" /\ i.kind \in SplTokenKinds
      BY <1>3, <1>0 DEF SplTokenKinds, InitializeAccountKinds, SignedTokenKinds
    <2>2. "token_account" \in F
      BY <1>3, SignedFieldsAreRead DEF F
    <2>3. /\ SplTokenField(i.kind, "Primary", "Multisig" \in i.facts)
               = "token_account"
      BY <2>1 DEF SplTokenField
    <2>4. "Primary" \in Titles
      BY DEF Titles
    <2>5. "Primary" \in T
      BY <2>1, <2>2, <2>3, <2>4, SplTokenTitleIsKnown DEF T
    <2>6. SplTokenItems(i, x) =
              SplTokenSign(i, x)
      BY <2>1
        DEF SplTokenItems, TokenTransferItems, MultisigItems,
            InitializeAccountKinds
    <2>7. SplTokenSign(i, x) \in Seq(T)
      BY <2>5, OptIsOf, TuplesAreOf, <1>s
    <2>8. SplTokenItems(i, x) \in Seq(T)
      BY <2>6, <2>7
    <2> QED BY <2>5, <2>8
  <1>4. ASSUME raw.kind = "MintToChecked" PROVE Shows(SplTokenItems(i, x))
    <2>1. i.kind = "MintToChecked" /\ i.kind \in SplTokenKinds
      BY <1>4, <1>0 DEF SplTokenKinds, InitializeAccountKinds, SignedTokenKinds
    <2>2. "amount" \in F /\ "mint_account" \in F /\ "token_account" \in F
      BY <1>4, SignedFieldsAreRead DEF F
    <2>3. /\ SplTokenField(i.kind, "Primary", "Multisig" \in i.facts)
               = "amount"
          /\ SplTokenField(i.kind, "Token address", "Multisig" \in i.facts)
               = "mint_account"
          /\ SplTokenField(i.kind, "To (token account)", "Multisig" \in i.facts)
               = "token_account"
      BY <2>1 DEF SplTokenField
    <2>4. "Primary" \in Titles /\ "Token address" \in Titles
          /\ "To (token account)" \in Titles
      BY DEF Titles
    <2>5. "Primary" \in T /\ "Token address" \in T
          /\ "To (token account)" \in T
      BY <2>1, <2>2, <2>3, <2>4, SplTokenTitleIsKnown DEF T
    <2>6. SplTokenItems(i, x) =
              <<"Token address", "To (token account)">> \o SplTokenSign(i, x)
      BY <2>1
        DEF SplTokenItems, TokenTransferItems, MultisigItems,
            InitializeAccountKinds
    <2>7. <<"Token address", "To (token account)">> \in Seq(T)
          /\ SplTokenSign(i, x) \in Seq(T)
      BY <2>5, OptIsOf, TuplesAreOf, <1>s
    <2>8. SplTokenItems(i, x) \in Seq(T)
      BY <2>6, <2>7, TitlesAreOf
    <2> QED BY <2>5, <2>8
  <1>5. ASSUME raw.kind = "BurnChecked" PROVE Shows(SplTokenItems(i, x))
    <2>1. i.kind = "BurnChecked" /\ i.kind \in SplTokenKinds
      BY <1>5, <1>0 DEF SplTokenKinds, InitializeAccountKinds, SignedTokenKinds
    <2>2. "amount" \in F /\ "mint_account" \in F /\ "token_account" \in F
      BY <1>5, SignedFieldsAreRead DEF F
    <2>3. /\ SplTokenField(i.kind, "Primary", "Multisig" \in i.facts)
               = "amount"
          /\ SplTokenField(i.kind, "Token address", "Multisig" \in i.facts)
               = "mint_account"
          /\ SplTokenField(i.kind, "From (token account)", "Multisig" \in i.facts)
               = "token_account"
      BY <2>1 DEF SplTokenField
    <2>4. "Primary" \in Titles /\ "Token address" \in Titles
          /\ "From (token account)" \in Titles
      BY DEF Titles
    <2>5. "Primary" \in T /\ "Token address" \in T
          /\ "From (token account)" \in T
      BY <2>1, <2>2, <2>3, <2>4, SplTokenTitleIsKnown DEF T
    <2>6. SplTokenItems(i, x) =
              <<"Token address", "From (token account)">> \o SplTokenSign(i, x)
      BY <2>1
        DEF SplTokenItems, TokenTransferItems, MultisigItems,
            InitializeAccountKinds
    <2>7. <<"Token address", "From (token account)">> \in Seq(T)
          /\ SplTokenSign(i, x) \in Seq(T)
      BY <2>5, OptIsOf, TuplesAreOf, <1>s
    <2>8. SplTokenItems(i, x) \in Seq(T)
      BY <2>6, <2>7, TitlesAreOf
    <2> QED BY <2>5, <2>8
  <1>6. ASSUME raw.kind = "CloseAccount" PROVE Shows(SplTokenItems(i, x))
    <2>1. i.kind = "CloseAccount" /\ i.kind \in SplTokenKinds
      BY <1>6, <1>0 DEF SplTokenKinds, InitializeAccountKinds, SignedTokenKinds
    <2>2. "token_account" \in F /\ "dest_account" \in F
      BY <1>6, SignedFieldsAreRead DEF F
    <2>3. /\ SplTokenField(i.kind, "Primary", "Multisig" \in i.facts)
               = "token_account"
          /\ SplTokenField(i.kind, "Withdraw to", "Multisig" \in i.facts)
               = "dest_account"
      BY <2>1 DEF SplTokenField
    <2>4. "Primary" \in Titles /\ "Withdraw to" \in Titles
      BY DEF Titles
    <2>5. "Primary" \in T /\ "Withdraw to" \in T
      BY <2>1, <2>2, <2>3, <2>4, SplTokenTitleIsKnown DEF T
    <2>6. SplTokenItems(i, x) = <<"Withdraw to">> \o SplTokenSign(i, x)
      BY <2>1
        DEF SplTokenItems, TokenTransferItems, MultisigItems,
            InitializeAccountKinds
    <2>7. <<"Withdraw to">> \in Seq(T) /\ SplTokenSign(i, x) \in Seq(T)
      BY <2>5, OptIsOf, TuplesAreOf, <1>s
    <2>8. SplTokenItems(i, x) \in Seq(T)
      BY <2>6, <2>7, TitlesAreOf
    <2> QED BY <2>5, <2>8
  <1>7. ASSUME raw.kind \in {"FreezeAccount", "ThawAccount"}
        PROVE  Shows(SplTokenItems(i, x))
    <2>1. /\ i.kind \in {"FreezeAccount", "ThawAccount"}
          /\ i.kind \in SplTokenKinds
      BY <1>7, <1>0 DEF SplTokenKinds, InitializeAccountKinds, SignedTokenKinds
    <2>2. "token_account" \in F /\ "mint_account" \in F
      BY <1>7, SignedFieldsAreRead DEF F
    <2>3. /\ SplTokenField(i.kind, "Primary", "Multisig" \in i.facts)
               = "token_account"
          /\ SplTokenField(i.kind, "Token address", "Multisig" \in i.facts)
               = "mint_account"
      BY <2>1 DEF SplTokenField
    <2>4. "Primary" \in Titles /\ "Token address" \in Titles
      BY DEF Titles
    <2>5. "Primary" \in T /\ "Token address" \in T
      BY <2>1, <2>2, <2>3, <2>4, SplTokenTitleIsKnown DEF T
    <2>6. SplTokenItems(i, x) =
              Opt(x, "Token address") \o SplTokenSign(i, x)
      BY <2>1
        DEF SplTokenItems, TokenTransferItems, MultisigItems,
            InitializeAccountKinds
    <2>7. Opt(x, "Token address") \in Seq(T) /\ SplTokenSign(i, x) \in Seq(T)
      BY <2>5, OptIsOf, TuplesAreOf, <1>s
    <2>8. SplTokenItems(i, x) \in Seq(T)
      BY <2>6, <2>7, TitlesAreOf
    <2> QED BY <2>5, <2>8
  <1>8. ASSUME raw.kind = "SetAuthority" PROVE Shows(SplTokenItems(i, x))
    <2>1. i.kind = "SetAuthority" /\ i.kind \in SplTokenKinds
      BY <1>8, <1>0 DEF SplTokenKinds, SignedTokenKinds
    <2>2. "account" \in F /\ "authority_type" \in F
      BY <1>8, SignedFieldsAreRead DEF F
    <2>3. "ClearAuthority" \notin i.facts => "new_authority" \in F
      BY <1>8, FactsAreParsed DEF i, F
    <2> DEFINE multisig == "Multisig" \in i.facts
    <2>4. /\ SplTokenField(i.kind, "Primary", multisig) = "account"
          /\ SplTokenField(i.kind, "Type", multisig) = "authority_type"
          /\ SplTokenField(i.kind, "Authority", multisig) = "new_authority"
      BY <2>1 DEF SplTokenField
    <2>5. "Primary" \in Titles /\ "Type" \in Titles /\ "Authority" \in Titles
      BY DEF Titles
    <2>6. /\ "Primary" \in T /\ "Type" \in T
          /\ "ClearAuthority" \notin i.facts => "Authority" \in T
      BY <2>1, <2>2, <2>3, <2>4, <2>5, SplTokenTitleIsKnown DEF T
    <2>7. SplTokenItems(i, x) =
              <<"Type">> \o Opt("ClearAuthority" \notin i.facts, "Authority")
              \o SplTokenSign(i, x)
      BY <2>1 DEF SplTokenItems, InitializeAccountKinds
    <2>8. <<"Type">> \in Seq(T)
          /\ Opt("ClearAuthority" \notin i.facts, "Authority") \in Seq(T)
          /\ SplTokenSign(i, x) \in Seq(T)
      BY <1>s, <2>6, OptIsOf, TuplesAreOf
    <2>9. SplTokenItems(i, x) \in Seq(T)
      BY <2>7, <2>8, TitlesAreOf
    <2> QED BY <2>6, <2>9
  <1>q. Shows(SplTokenItems(i, x))
    BY <1>1, <1>2, <1>3, <1>4, <1>5, <1>6, <1>7, <1>8
      DEF SplTokenKinds, InitializeAccountKinds, SignedTokenKinds
  <1> QED BY <1>q DEF ItemsAreKnown, T, i, F

LEMMA AssociatedItemsAreKnown ==
    ASSUME NEW raw \in Raw, ParsedInstruction(raw).rc = 0,
           raw.kind = "AssociatedTokenCreate"
    PROVE  ItemsAreKnown(raw, AssociatedTokenItems)
  <1> DEFINE i == Info(raw)
             F == ParsedInstruction(raw).fields
             T == Known(i, F)
  <1>1. i.kind = "AssociatedTokenCreate"
    BY InfoTells
  <1>2. "funder" \in F /\ "address" \in F /\ "owner" \in F
        /\ "mint_account" \in F
    BY AssociatedFieldsAreRead
  <1> HIDE DEF i, F
  <1>3. ASSUME NEW t PROVE FieldOf(i, t) = AssociatedTokenField(t)
    BY <1>1, KindsAreApart DEF FieldOf
  <1>4. /\ FieldOf(i, "Primary") = "address"
        /\ FieldOf(i, "For") = "owner"
        /\ FieldOf(i, "Token address") = "mint_account"
        /\ FieldOf(i, "Funded by") = "funder"
    BY <1>3 DEF AssociatedTokenField
  <1>5. "Primary" \in Titles /\ "For" \in Titles
        /\ "Token address" \in Titles /\ "Funded by" \in Titles
    BY DEF Titles
  <1>6. "Primary" \in T /\ "For" \in T /\ "Token address" \in T
        /\ "Funded by" \in T
    BY <1>2, <1>4, <1>5 DEF Known
  <1>7. AssociatedTokenItems \in Seq(T)
    BY <1>6, TuplesAreOf DEF AssociatedTokenItems
  <1> QED BY <1>6, <1>7 DEF ItemsAreKnown, i, F

(* Whatever the program of an instruction that is parsed.                  *)
LEMMA EveryItemIsKnown ==
    ASSUME NEW raw \in Raw, ParsedInstruction(raw).rc = 0, NEW x,
           raw.kind \notin ComputeBudgetKinds \cup IgnoredKinds
    PROVE  ItemsAreKnown(raw, PrintSingle(Info(raw), x).general)
  <1> DEFINE i == Info(raw)
  <1>0. i.kind = raw.kind
    BY InfoTells
  <1>1. CASE raw.kind \in SystemKinds
    <2>1. PrintSingle(i, x) = Printed(i.kind, SystemItems(i, x))
      BY <1>0, <1>1, KindsAreApart DEF PrintSingle
    <2>2. PrintSingle(i, x).general = SystemItems(i, x)
      BY <2>1 DEF Printed
    <2> QED BY <1>1, <2>2, SystemItemsAreKnown
  <1>2. CASE raw.kind \in StakeKinds
    <2>1. PrintSingle(i, x) = Printed(i.kind, StakeItems(i, x))
      BY <1>0, <1>2, KindsAreApart DEF PrintSingle
    <2>2. PrintSingle(i, x).general = StakeItems(i, x)
      BY <2>1 DEF Printed
    <2> QED BY <1>2, <2>2, StakeItemsAreKnown
  <1>3. CASE raw.kind \in VoteKinds
    <2>1. PrintSingle(i, x) = Printed(i.kind, VoteItems(i, x))
      BY <1>0, <1>3, KindsAreApart DEF PrintSingle
    <2>2. PrintSingle(i, x).general = VoteItems(i, x)
      BY <2>1 DEF Printed
    <2> QED BY <1>3, <2>2, VoteItemsAreKnown
  <1>4. CASE raw.kind \in SplTokenKinds
    <2>1. PrintSingle(i, x) = Printed(i.kind, SplTokenItems(i, x))
      BY <1>0, <1>4, KindsAreApart DEF PrintSingle
    <2>2. PrintSingle(i, x).general = SplTokenItems(i, x)
      BY <2>1 DEF Printed
    <2>3. CASE raw.kind \in SignedTokenKinds
      BY <2>2, <2>3, SignedItemsAreKnown
    <2>4. CASE raw.kind \notin SignedTokenKinds
      BY <1>4, <2>2, <2>4, TokenItemsAreKnown
    <2> QED BY <2>3, <2>4
  <1>5. CASE raw.kind = "AssociatedTokenCreate"
    <2>1. PrintSingle(i, x) = Printed(i.kind, AssociatedTokenItems)
      BY <1>0, <1>5, KindsAreApart DEF PrintSingle
    <2>2. PrintSingle(i, x).general = AssociatedTokenItems
      BY <2>1 DEF Printed
    <2> QED BY <1>5, <2>2, AssociatedItemsAreKnown
  <1>6. raw.kind # "Unknown"
    <2>1. ASSUME raw.kind = "Unknown" PROVE FALSE
      <3>1. Layout(raw) = <<Failure>>
        <4>1. "Unknown" \notin SystemKinds \cup StakeKinds \cup VoteKinds
                  \cup SplTokenKinds \cup ComputeBudgetKinds
                  \cup IgnoredKinds
          BY DEF SystemKinds, StakeKinds, VoteKinds, SplTokenKinds,
                 StakeAuthorizeKinds, StakeInitializeKinds, SetLockupKinds,
                 VoteAuthorizeKinds, InitializeAccountKinds,
                 SignedTokenKinds, ComputeBudgetKinds, IgnoredKinds
        <4> QED BY <2>1, <4>1 DEF Layout
      <3>2. <<Failure>> \in Seq(Steps)
        BY OtherSteps
      <3>3. Has(ParsedInstruction(raw), <<Failure>>)
        BY <3>1, <3>2, LayoutIsRead
      <3> QED BY <3>3, HasEach1, OthersAreRead
    <2> QED BY <2>1
  <1>7. raw.kind \in Kinds
    BY DEF Raw
  <1> QED BY <1>1, <1>2, <1>3, <1>4, <1>5, <1>6, <1>7 DEF Kinds

(* No printer shows what its parser did not set, whatever the instruction  *)
(* (stake_instruction.c:514 excepted; transaction_printers.c:60).          *)
THEOREM EveryShownFieldIsParsed == LibrarySpec => []ShownFieldsAreParsed
  <1>1. LibraryInit => ShownFieldsAreParsed
    BY DEF LibraryInit, NoCall, ShownFieldsAreParsed, Is
  <1>2. ShownFieldsAreParsed /\ [LibraryNext]_library => ShownFieldsAreParsed'
    <2> SUFFICES ASSUME ShownFieldsAreParsed, [LibraryNext]_library
                 PROVE  ShownFieldsAreParsed'
      OBVIOUS
    <2>1. CASE UNCHANGED library
      BY <2>1 DEF library, ShownFieldsAreParsed, Is, given
    <2>2. CASE LibraryNext
      <3>1. SUFFICES ASSUME Is("parse_instruction")', reply'.rc = 0,
                            given'.kind \notin ComputeBudgetKinds
                                               \cup IgnoredKinds,
                            NEW expert \in BOOLEAN,
                            NEW title \in {"Primary"} \cup
                                ToSet(PrintSingle(reply'.info, expert).general)
                     PROVE  \/ FieldOf(reply'.info, title) \in reply'.fields
                            \/ /\ given'.kind = "StakeInitializeChecked"
                               /\ title = "Lockup"
        BY <3>1 DEF ShownFieldsAreParsed
      <3>2. PICK c \in InstructionCalls : ParseInstructionData(c)
        BY <2>2, <3>1, NameTellsCall DEF Is
      <3> DEFINE p == ParsedInstruction(c)
                 items == PrintSingle(Info(c), expert).general
                 T == Known(Info(c), p.fields)
      <3>3. /\ c \in Raw /\ given' = c /\ reply'.rc = p.rc
            /\ reply'.fields = p.fields /\ reply'.info = Info(c)
        BY <3>2, LibraryAssumption DEF ParseInstructionData, Called, given
      <3>4. p.rc = 0 /\ c.kind \notin ComputeBudgetKinds \cup IgnoredKinds
        BY <3>1, <3>3
      <3>5. "Primary" \in T /\ items \in Seq(T)
        BY <3>3, <3>4, EveryItemIsKnown DEF ItemsAreKnown
      <3>6. title \in {"Primary"} \cup ToSet(items)
        BY <3>3
      <3>7. Info(c).kind = c.kind
        BY <3>4, InfoTells
      <3> HIDE DEF p, items, T
      <3>8. ToSet(items) \subseteq T
        BY <3>5 DEF ToSet
      <3>9. title \in T
        BY <3>5, <3>6, <3>8
      <3> QED BY <3>3, <3>7, <3>9 DEF T, Known
    <2> QED BY <2>1, <2>2
  <1> QED BY <1>1, <1>2, PTL DEF LibrarySpec
=============================================================================
