---------------------------- MODULE SummaryProof ----------------------------
(***************************************************************************)
(* For all instructions and any number of messages: the slots blind        *)
(* signing writes to are free (BlindSlotsFree), as a printer that fails    *)
(* has printed nothing and one that succeeds has set the primary item;     *)
(* experts see all that users see (ExpertSeesMore); and the general slots  *)
(* suffice but behind the maximum fee (SlotsSuffice).                      *)
(***************************************************************************)
EXTENDS SummaryProps, SequenceTheorems, TLAPS

(* What a printer may do.                                                  *)
Outcome(p) ==
    \/ p = NotPrinted
    \/ p.printed = TRUE /\ p.primary # "Unset"

(* Setting the primary item to a title is an outcome.                      *)
LEMMA PrintedOutcome ==
    ASSUME NEW primary, NEW general, primary # "Unset"
    PROVE  Outcome(Printed(primary, general))
BY DEF Outcome, Printed

(* A single instruction's primary item is titled by its kind.              *)
LEMMA SingleOutcome ==
    ASSUME NEW i, NEW x
    PROVE  Outcome(PrintSingle(i, x))
<1> DEFINE Supported == SystemKinds \cup StakeKinds \cup VoteKinds
                        \cup SplTokenKinds \cup {"AssociatedTokenCreate"}
<1>1. "Unset" \notin Supported
  BY DEF SystemKinds, StakeKinds, VoteKinds, SplTokenKinds,
         StakeAuthorizeKinds, StakeInitializeKinds, SetLockupKinds,
         VoteAuthorizeKinds, InitializeAccountKinds, SignedTokenKinds
<1>2. CASE i.kind \in Supported
  <2>1. Outcome(Printed(i.kind, SystemItems(i, x)))
    BY <1>1, <1>2, PrintedOutcome
  <2>2. Outcome(Printed(i.kind, StakeItems(i, x)))
    BY <1>1, <1>2, PrintedOutcome
  <2>3. Outcome(Printed(i.kind, VoteItems(i, x)))
    BY <1>1, <1>2, PrintedOutcome
  <2>4. Outcome(Printed(i.kind, SplTokenItems(i, x)))
    BY <1>1, <1>2, PrintedOutcome
  <2>5. Outcome(Printed(i.kind, AssociatedTokenItems))
    BY <1>1, <1>2, PrintedOutcome
  <2> QED
    BY <2>1, <2>2, <2>3, <2>4, <2>5, <1>2 DEF PrintSingle
<1>3. CASE i.kind \notin Supported
  BY <1>3 DEF PrintSingle, Outcome
<1> QED
  BY <1>2, <1>3

(* Two authorizations are printed as one or not at all.                    *)
LEMMA AuthorizeBothOutcome ==
    ASSUME NEW group, NEW x
    PROVE  /\ Outcome(PrintStakeAuthorizeBoth(group, x))
           /\ Outcome(PrintVoteAuthorizeBoth(group, x))
BY DEF PrintStakeAuthorizeBoth, PrintVoteAuthorizeBoth, AuthorizeBothItems,
       Outcome, Printed

(* Two instructions.                                                       *)
LEMMA PairOutcome ==
    ASSUME NEW group, NEW x
    PROVE  Outcome(PrintPair(group, x))
<1>1. \A general :
        /\ Outcome(Printed("Create stake acct", general))
        /\ Outcome(Printed("Create nonce acct", general))
        /\ Outcome(Printed("Create vote acct", general))
        /\ Outcome(Printed("Split stake", general))
        /\ Outcome(Printed("Create token mint", general))
        /\ Outcome(Printed("Create token account", general))
        /\ Outcome(Printed("Create multisig", general))
  BY DEF Outcome, Printed
<1>2. Outcome(NotPrinted)
  BY DEF Outcome
<1>3. Outcome(PrintSingle(group[2], x))
  BY SingleOutcome
<1> QED
  BY <1>1, <1>2, <1>3, AuthorizeBothOutcome DEF PrintPair

(* Three.                                                                  *)
LEMMA TripleOutcome ==
    ASSUME NEW group, NEW x
    PROVE  Outcome(PrintTriple(group, x))
<1>1. \A general : /\ Outcome(Printed("Delegate from", general))
                   /\ Outcome(Printed("Split stake", general))
  BY DEF Outcome, Printed
<1>2. Outcome(NotPrinted)
  BY DEF Outcome
<1>3. Outcome(PrintSingle(group[3], x))
  BY SingleOutcome
<1> QED
  BY <1>1, <1>2, <1>3 DEF PrintTriple

(* Four.                                                                   *)
LEMMA QuadrupleOutcome ==
    ASSUME NEW group, NEW x
    PROVE  Outcome(PrintQuadruple(group, x))
<1>1. \A general : Outcome(Printed("Split stake", general))
  BY DEF Outcome, Printed
<1>2. Outcome(NotPrinted)
  BY DEF Outcome
<1> QED
  BY <1>1, <1>2 DEF PrintQuadruple

(* Any number: a printer that fails has set no item, one that succeeds has *)
(* set the primary item.                                                   *)
THEOREM PrinterOutcome ==
    ASSUME NEW group, NEW x
    PROVE  Outcome(PrintInstructions(group, x))
<1>1. Outcome(NotPrinted)
  BY DEF Outcome
<1> QED
  BY <1>1, SingleOutcome, PairOutcome, TripleOutcome, QuadrupleOutcome
  DEF PrintInstructions

-----------------------------------------------------------------------------
(* The invariant: what the summary holds in front of each phase.           *)

(* A summary without a primary item whose general items are g.             *)
Bare(s, g) ==
    \E nonce : s = [primary |-> "Unset", general |-> g, nonce |-> nonce,
                   feePayer |-> <<>>]

(* The general items there are before the instructions are printed.        *)
Fees == {<<>>, <<"Max fees">>}

SlotsInv ==
    /\ pc \in {"instructions", "nonce"} => Bare(summary, <<>>)
    /\ pc = "budget" => Bare(summary, <<>>)
    /\ pc = "print" => \E g \in Fees : Bare(summary, g)
    /\ BlindSlotsFree

(* A sequence of one element.                                              *)
LEMMA Singleton == ASSUME NEW S, NEW x \in S PROVE <<x>> \in Seq(S)
  OBVIOUS

(* There is at most one of the fees.                                       *)
LEMMA FeesAreShort ==
    ASSUME NEW g \in Fees
    PROVE  /\ g \in Seq({"Max fees"})
           /\ Len(g) \in {0, 1}
           /\ \A n \in DOMAIN g : g[n] = "Max fees"
<1>1. CASE g = <<>>
  <2>1. g \in Seq({"Max fees"}) /\ Len(g) = 0 /\ DOMAIN g = {}
    BY <1>1
  <2> QED
    BY <2>1
<1>2. CASE g = <<"Max fees">>
  <2>1. g \in Seq({"Max fees"})
    BY <1>2, Singleton
  <2>2. Len(g) = 1 /\ g[1] = "Max fees"
    BY <1>2
  <2>3. DOMAIN g = {1}
    <3>1. DOMAIN g = 1..1
      BY <2>1, <2>2, LenProperties
    <3>2. 1..1 = {1}
      OBVIOUS
    <3> QED
      BY <3>1, <3>2
  <2>4. \A n \in DOMAIN g : g[n] = "Max fees"
    BY <2>2, <2>3
  <2> QED
    BY <2>1, <2>2, <2>4
<1> QED
  BY <1>1, <1>2 DEF Fees

(* The slots of the items there are, and no other.                         *)
LEMMA SlotsFor ==
    ASSUME NEW s, NEW g, NEW new, NEW h \in Fees,
           Bare(s, g), g \o new = h
    PROVE  Bare(WithGeneral(s, new), h)
<1>1. PICK nonce : s = [primary |-> "Unset", general |-> g,
                        nonce |-> nonce, feePayer |-> <<>>]
  BY DEF Bare
<1>2. ~(Len(h) > NUM_GENERAL_ITEMS)
  <2>1. Len(h) \in {0, 1}
    BY FeesAreShort
  <2> QED
    BY <2>1 DEF NUM_GENERAL_ITEMS
<1>3. SubSeq(h, 1, Len(h)) = h
  BY FeesAreShort, SubSeqFull
<1>4. s.general \o new = h
  BY <1>1
<1>5. WithGeneral(s, new) = [s EXCEPT !.general = h]
  BY <1>2, <1>3, <1>4 DEF WithGeneral
<1>6. WithGeneral(s, new) = [primary |-> "Unset", general |-> h,
                             nonce |-> nonce, feePayer |-> <<>>]
  BY <1>1, <1>5
<1> QED
  BY <1>6 DEF Bare

(* The first general item.                                                 *)
LEMMA FirstGeneral ==
    ASSUME NEW s, Bare(s, <<>>)
    PROVE  Bare(WithGeneral(s, <<"Max fees">>), <<"Max fees">>)
<1>1. <<"Max fees">> \in Fees
  BY DEF Fees
<1>2. <<>> \o <<"Max fees">> = <<"Max fees">>
  BY <1>1, FeesAreShort, ConcatEmptySeq
<1> QED
  BY <1>1, <1>2, SlotsFor

(* A printer that failed leaves the summary as it was.                     *)
LEMMA NothingWritten ==
    ASSUME NEW s, NEW g \in Fees, Bare(s, g)
    PROVE  Bare(Write(s, NotPrinted), g)
<1>1. NotPrinted.primary = "Unset" /\ NotPrinted.general = <<>>
  BY DEF NotPrinted
<1>2. g \o <<>> = g
  BY FeesAreShort, ConcatEmptySeq
<1>3. [s EXCEPT !.primary = IF @ = "Unset" THEN NotPrinted.primary ELSE @] = s
  BY <1>1 DEF Bare
<1>4. Write(s, NotPrinted) = WithGeneral(s, <<>>)
  BY <1>1, <1>3 DEF Write
<1> QED
  BY <1>2, <1>4, SlotsFor

(* A printer that succeeded has set the primary item.                      *)
LEMMA PrimaryWritten ==
    ASSUME NEW s, NEW g, NEW p, Bare(s, g), p.primary # "Unset"
    PROVE  Write(s, p).primary # "Unset"
BY DEF Bare, Write, WithGeneral

(* The summary the blind signing branch finds.                             *)
LEMMA BareTitles ==
    ASSUME NEW s, NEW g \in Fees, Bare(s, g)
    PROVE  s.primary = "Unset" /\ Titles(s.general) \subseteq {"Max fees"}
<1>1. s.primary = "Unset" /\ s.general = g
  BY DEF Bare
<1>2. \A n \in DOMAIN g : g[n] = "Max fees"
  BY FeesAreShort
<1> QED
  BY <1>1, <1>2 DEF Titles

(* The blind signing branch finds the summary of a failure in order.       *)
LEMMA FailedSlots ==
    ASSUME NEW g \in Fees, Bare(summary', g),
           pc' = "handler", result' = 1
    PROVE  SlotsInv'
<1>1. /\ summary'.primary = "Unset"
      /\ Titles(summary'.general) \subseteq {"Max fees"}
  BY BareTitles
<1>2. BlindSlotsFree'
  <2>1. result' # 0
    OBVIOUS
  <2> QED
    BY <1>1, <2>1, Zenon DEF BlindSlotsFree, Titles
<1> QED
  BY <1>2 DEF SlotsInv

LEMMA SlotsInvariant == Spec => []SlotsInv
<1>1. Init => SlotsInv
  BY DEF Init, SlotsInv, BlindSlotsFree
<1>2. SlotsInv /\ [Next]_vars => SlotsInv'
  <2> SUFFICES ASSUME SlotsInv, [Next]_vars
               PROVE  SlotsInv'
    OBVIOUS
  <2>1. ASSUME Fail, pc = "instructions" PROVE SlotsInv'
    <3>1. Bare(summary', <<>>) /\ <<>> \in Fees
      BY <2>1 DEF Fail, SlotsInv, Fees
    <3> QED
      BY <2>1, <3>1, FailedSlots DEF Fail
  <2>2. ASSUME NEW n \in Lengths, NEW x \in BOOLEAN, Begin(n, x)
        PROVE  SlotsInv'
    <3>1. Bare(summary', <<>>) /\ <<>> \in Fees
      BY <2>2 DEF Begin, ResetSummary, EmptySummary, Bare, Fees
    <3>2. CASE pc' = "instructions"
      BY <3>1, <3>2 DEF SlotsInv, BlindSlotsFree
    <3>3. CASE pc' = "handler" /\ result' = 1
      BY <3>1, <3>3, FailedSlots
    <3> QED
      BY <2>2, <3>2, <3>3 DEF Begin
  <2>3. CASE MalformedInstruction
    BY <2>1, <2>3 DEF MalformedInstruction
  <2>4. CASE ParseInstruction
    BY <2>4 DEF ParseInstruction, SlotsInv, BlindSlotsFree, Bare, Titles
  <2>5. ASSUME NEW wellFormed \in BOOLEAN, EndOfBody(wellFormed)
        PROVE  SlotsInv'
    <3>1. CASE wellFormed /\ Understood
      BY <2>5, <3>1 DEF EndOfBody, SlotsInv, BlindSlotsFree, Bare
    <3>2. CASE ~(wellFormed /\ Understood)
      BY <2>1, <2>5, <3>2 DEF EndOfBody
    <3> QED
      BY <3>1, <3>2
  <2>6. CASE PrintNonce
    <3>1. PICK nonce : summary = [primary |-> "Unset", general |-> <<>>,
                                  nonce |-> nonce, feePayer |-> <<>>]
      BY <2>6 DEF PrintNonce, SlotsInv, Bare
    <3>2. \E new : summary' = [primary |-> "Unset", general |-> <<>>,
                              nonce |-> new, feePayer |-> <<>>]
      <4>1. CASE IsNonced /\ expert
        <5>1. summary' = [summary EXCEPT !.nonce =
                            <<"Nonce account", "Nonce authority">>]
          BY <2>6, <4>1 DEF PrintNonce
        <5> QED
          BY <3>1, <5>1
      <4>2. CASE ~(IsNonced /\ expert)
        BY <2>6, <3>1, <4>2 DEF PrintNonce
      <4> QED
        BY <4>1, <4>2
    <3>3. Bare(summary', <<>>)
      BY <3>2 DEF Bare
    <3> QED
      BY <2>6, <3>3 DEF PrintNonce, SlotsInv, BlindSlotsFree
  <2>7. CASE PrintComputeBudget
    <3>1. Bare(summary, <<>>)
      BY <2>7 DEF PrintComputeBudget, SlotsInv
    <3>2. \E g \in Fees : Bare(summary', g)
      BY <2>7, <3>1, FirstGeneral DEF PrintComputeBudget, Fees
    <3> QED
      BY <2>7, <3>2 DEF PrintComputeBudget, SlotsInv, BlindSlotsFree, Bare
  <2>8. CASE PrintTransaction
    <3> DEFINE p == PrintInstructions(list, expert)
    <3>1. PICK g \in Fees : Bare(summary, g)
      BY <2>8 DEF PrintTransaction, SlotsInv
    <3>2. /\ pc' \in {"handler", "fault"}
          /\ result' = IF p.printed THEN 0 ELSE 1
          /\ summary' = Write(summary, p)
      BY <2>8 DEF PrintTransaction
    <3>3. Outcome(p)
      BY PrinterOutcome
    <3> HIDE DEF p
    <3>4. CASE p = NotPrinted
      <4>1. Bare(summary', g)
        BY <3>1, <3>2, <3>4, NothingWritten
      <4>2. result' = 1
        BY <3>2, <3>4 DEF NotPrinted
      <4> QED
        <5>1. CASE pc' = "handler"
          BY <3>1, <4>1, <4>2, <5>1, FailedSlots
        <5>2. CASE pc' = "fault"
          BY <5>2 DEF SlotsInv, BlindSlotsFree
        <5> QED
          BY <3>2, <5>1, <5>2
    <3>5. CASE p.printed = TRUE /\ p.primary # "Unset"
      <4>1. summary'.primary # "Unset" /\ result' = 0
        BY <3>1, <3>2, <3>5, PrimaryWritten
      <4> QED
        BY <3>2, <4>1 DEF SlotsInv, BlindSlotsFree
    <3> QED
      BY <3>3, <3>4, <3>5 DEF Outcome
  <2>9. CASE BlindSign \/ RefuseBlindSign \/ Processed
             \/ (\E other \in BOOLEAN : SetFeePayer(other)) \/ Finalize
    <3>1. pc' \in {"feePayer", "fault", "idle", "finalize"}
      BY <2>9 DEF BlindSign, RefuseBlindSign, Processed, SetFeePayer, Finalize
    <3> QED
      BY <3>1 DEF SlotsInv, BlindSlotsFree
  <2>10. CASE UNCHANGED vars
    BY <2>10 DEF vars, message, SlotsInv, BlindSlotsFree, Bare, Titles
  <2> QED
    BY <2>2, <2>3, <2>4, <2>5, <2>6, <2>7, <2>8, <2>9, <2>10 DEF Next
<1> QED
  BY <1>1, <1>2, PTL DEF Spec

(* Whenever handle_sign_message_parse_message gets the result of           *)
(* process_message_body, a failure has left the primary slot and all but   *)
(* one general slot free, and a success has set the primary item.          *)
THEOREM BlindSlots == Spec => []BlindSlotsFree
<1>1. SlotsInv => BlindSlotsFree
  BY DEF SlotsInv
<1> QED
  BY <1>1, SlotsInvariant, PTL
-----------------------------------------------------------------------------
(* How many items the printers ask for, in the normal mode and in the      *)
(* expert mode, and that experts see what users see.                       *)

(* (Titles are strings with spaces, which only Zenon takes: the steps with  *)
(* titles are apart from those with arithmetic.)                           *)

IsList(s) == \E S : s \in Seq(S)

FeeTitle == "Max fees"

(* Items of the normal mode, u, beside those of the expert mode, e; none   *)
(* of them is the maximum fee.                                             *)
Beside(u, e, m, n) ==
    /\ IsList(u) /\ Len(u) <= m
    /\ IsList(e) /\ Len(e) <= n
    /\ Titles(u) \subseteq Titles(e)
    /\ FeeTitle \notin Titles(e)

LEMMA SeqMonotone ==
    ASSUME NEW S, NEW T, S \subseteq T, NEW s \in Seq(S)
    PROVE  s \in Seq(T)
<1>1. /\ Len(s) \in Nat
      /\ s \in [1..Len(s) -> S]
  BY LenProperties
<1>2. s \in [1..Len(s) -> T]
  BY <1>1
<1> QED
  BY <1>1, <1>2

(* One list behind another.                                                *)
LEMMA ListsTogether ==
    ASSUME NEW a, NEW b, IsList(a), IsList(b)
    PROVE  /\ IsList(a \o b)
           /\ Len(a) \in Nat /\ Len(b) \in Nat
           /\ Len(a \o b) = Len(a) + Len(b)
           /\ \A n \in 1..(Len(a) + Len(b)) :
                (a \o b)[n] = IF n <= Len(a) THEN a[n] ELSE b[n - Len(a)]
           /\ DOMAIN a = 1..Len(a) /\ DOMAIN b = 1..Len(b)
           /\ DOMAIN (a \o b) = 1..(Len(a) + Len(b))
<1>1. PICK S : a \in Seq(S)
  BY DEF IsList
<1>2. PICK T : b \in Seq(T)
  BY DEF IsList
<1>3. a \in Seq(S \cup T) /\ b \in Seq(S \cup T)
  <2>1. S \subseteq S \cup T /\ T \subseteq S \cup T
    OBVIOUS
  <2> QED
    BY <1>1, <1>2, <2>1, SeqMonotone
<1>4. a \o b \in Seq(S \cup T)
  BY <1>3, ConcatProperties
<1>5. IsList(a \o b)
  BY <1>4 DEF IsList
<1> QED
  BY <1>3, <1>4, <1>5, ConcatProperties, LenProperties

LEMMA TitlesOfBoth ==
    ASSUME NEW a, NEW b, IsList(a), IsList(b)
    PROVE  Titles(a \o b) = Titles(a) \cup Titles(b)
<1> DEFINE both == a \o b
<1>1. /\ Len(a) \in Nat /\ Len(b) \in Nat
      /\ \A n \in 1..(Len(a) + Len(b)) :
            both[n] = IF n <= Len(a) THEN a[n] ELSE b[n - Len(a)]
      /\ DOMAIN a = 1..Len(a) /\ DOMAIN b = 1..Len(b)
      /\ DOMAIN both = 1..(Len(a) + Len(b))
  BY ListsTogether
<1> HIDE DEF both
<1>3. ASSUME NEW n \in DOMAIN both
      PROVE  both[n] \in Titles(a) \cup Titles(b)
  <2>1. CASE n <= Len(a)
    <3>1. n \in DOMAIN a /\ both[n] = a[n]
      BY <1>1, <1>3, <2>1
    <3> QED
      BY <3>1 DEF Titles
  <2>2. CASE ~(n <= Len(a))
    <3>1. n - Len(a) \in DOMAIN b /\ both[n] = b[n - Len(a)]
      BY <1>1, <1>3, <2>2
    <3> QED
      BY <3>1 DEF Titles
  <2> QED
    BY <2>1, <2>2
<1>4. ASSUME NEW n \in DOMAIN a
      PROVE  a[n] \in Titles(both)
  <2>1. n \in DOMAIN both /\ both[n] = a[n]
    BY <1>1, <1>4
  <2> QED
    BY <2>1 DEF Titles
<1>5. ASSUME NEW n \in DOMAIN b
      PROVE  b[n] \in Titles(both)
  <2>1. n + Len(a) \in DOMAIN both /\ both[n + Len(a)] = b[n]
    BY <1>1, <1>5
  <2> QED
    BY <2>1 DEF Titles
<1>6. Titles(both) = Titles(a) \cup Titles(b)
  BY <1>3, <1>4, <1>5, Zenon DEF Titles
<1> QED
  BY <1>6 DEF both

(* One list of items behind the other.                                     *)
LEMMA BesideBoth ==
    ASSUME NEW m \in Nat, NEW n \in Nat, NEW k \in Nat, NEW l \in Nat,
           NEW a, NEW b, NEW c, NEW d,
           Beside(a, b, m, n), Beside(c, d, k, l)
    PROVE  \A p, q : p = m + k /\ q = n + l =>
                Beside(a \o c, b \o d, p, q)
<1>1. /\ IsList(a \o c) /\ Len(a \o c) = Len(a) + Len(c)
      /\ IsList(b \o d) /\ Len(b \o d) = Len(b) + Len(d)
      /\ Len(a) \in Nat /\ Len(b) \in Nat
      /\ Len(c) \in Nat /\ Len(d) \in Nat
  <2>1. IsList(a) /\ IsList(b) /\ IsList(c) /\ IsList(d)
    BY DEF Beside
  <2> QED
    <3>1. IsList(a \o c) /\ Len(a \o c) = Len(a) + Len(c)
          /\ Len(a) \in Nat /\ Len(c) \in Nat
      BY <2>1, ListsTogether, Zenon
    <3>2. IsList(b \o d) /\ Len(b \o d) = Len(b) + Len(d)
          /\ Len(b) \in Nat /\ Len(d) \in Nat
      BY <2>1, ListsTogether, Zenon
    <3> QED
      BY <3>1, <3>2
<1>2. /\ Titles(a \o c) \subseteq Titles(b \o d)
      /\ FeeTitle \notin Titles(b \o d)
  <2>1. /\ Titles(a \o c) = Titles(a) \cup Titles(c)
        /\ Titles(b \o d) = Titles(b) \cup Titles(d)
    BY TitlesOfBoth, Zenon DEF Beside
  <2> QED
    BY <2>1 DEF Beside
<1> QED
  BY <1>1, <1>2 DEF Beside

(* The bounds may be larger.                                               *)
LEMMA BesideMore ==
    ASSUME NEW m \in Nat, NEW n \in Nat, NEW k \in Nat, NEW l \in Nat,
           m <= k, n <= l, NEW a, NEW b, Beside(a, b, m, n)
    PROVE  Beside(a, b, k, l)
<1>1. Len(a) \in Nat /\ Len(b) \in Nat
  BY LenProperties DEF Beside, IsList
<1> QED
  BY <1>1 DEF Beside

LEMMA Tuples ==
    ASSUME NEW a, NEW b, NEW c, NEW d
    PROVE  /\ IsList(<<>>) /\ Len(<<>>) = 0
           /\ IsList(<<a>>) /\ Len(<<a>>) = 1
           /\ IsList(<<a, b>>) /\ Len(<<a, b>>) = 2
           /\ IsList(<<a, b, c>>) /\ Len(<<a, b, c>>) = 3
           /\ IsList(<<a, b, c, d>>) /\ Len(<<a, b, c, d>>) = 4
<1> DEFINE S == {a, b, c, d}
<1>1. /\ <<>> \in Seq(S) /\ Len(<<>>) = 0
      /\ <<a>> \in Seq(S) /\ Len(<<a>>) = 1
      /\ <<a, b>> \in Seq(S) /\ Len(<<a, b>>) = 2
      /\ <<a, b, c>> \in Seq(S) /\ Len(<<a, b, c>>) = 3
      /\ <<a, b, c, d>> \in Seq(S) /\ Len(<<a, b, c, d>>) = 4
  OBVIOUS
<1> HIDE DEF S
<1> QED
  BY <1>1, Zenon DEF IsList

LEMMA TitlesOfTuples ==
    ASSUME NEW a, NEW b, NEW c, NEW d
    PROVE  /\ Titles(<<>>) = {}
           /\ Titles(<<a>>) = {a}
           /\ Titles(<<a, b>>) = {a, b}
           /\ Titles(<<a, b, c>>) = {a, b, c}
           /\ Titles(<<a, b, c, d>>) = {a, b, c, d}
<1>1. Titles(<<>>) = {} /\ Titles(<<a>>) = {a}
  BY DEF Titles
<1>2. Titles(<<a, b>>) = {a, b}
  BY DEF Titles
<1>3. Titles(<<a, b, c>>) = {a, b, c}
  BY DEF Titles
<1>4. Titles(<<a, b, c, d>>) = {a, b, c, d}
  BY DEF Titles
<1> QED
  BY <1>1, <1>2, <1>3, <1>4

(* A few items that do not depend on the mode.                             *)
LEMMA FewTitles ==
    LET Fee(t) == t = "Max fees"
    IN  /\ Beside(<<>>, <<>>, 0, 0)
        /\ \A a : ~Fee(a) => Beside(<<a>>, <<a>>, 1, 1)
        /\ \A a, b : ~Fee(a) /\ ~Fee(b) => Beside(<<a, b>>, <<a, b>>, 2, 2)
        /\ \A a, b, c :
                ~Fee(a) /\ ~Fee(b) /\ ~Fee(c) =>
                    Beside(<<a, b, c>>, <<a, b, c>>, 3, 3)
        /\ \A a, b, c, d :
                ~Fee(a) /\ ~Fee(b) /\ ~Fee(c) /\ ~Fee(d) =>
                    Beside(<<a, b, c, d>>, <<a, b, c, d>>, 4, 4)
<1>1. 0 <= 0 /\ 1 <= 1 /\ 2 <= 2 /\ 3 <= 3 /\ 4 <= 4
  OBVIOUS
<1>2. Beside(<<>>, <<>>, 0, 0)
  <2>1. FeeTitle \notin Titles(<<>>)
    BY TitlesOfTuples
  <2> QED
    BY <1>1, <2>1, Tuples, Zenon DEF Beside
<1>3. ASSUME NEW a, a # FeeTitle
      PROVE  Beside(<<a>>, <<a>>, 1, 1)
  <2>1. FeeTitle \notin Titles(<<a>>)
    <3>1. Titles(<<a>>) = {a}
      BY TitlesOfTuples, Zenon
    <3> QED
      BY <1>3, <3>1
  <2> QED
    BY <1>1, <2>1, Tuples, Zenon DEF Beside
<1>4. ASSUME NEW a, NEW b, a # FeeTitle, b # FeeTitle
      PROVE  Beside(<<a, b>>, <<a, b>>, 2, 2)
  <2>1. FeeTitle \notin Titles(<<a, b>>)
    <3>1. Titles(<<a, b>>) = {a, b}
      BY TitlesOfTuples, Zenon
    <3> QED
      BY <1>4, <3>1
  <2> QED
    BY <1>1, <2>1, Tuples, Zenon DEF Beside
<1>5. ASSUME NEW a, NEW b, NEW c,
             a # FeeTitle, b # FeeTitle, c # FeeTitle
      PROVE  Beside(<<a, b, c>>, <<a, b, c>>, 3, 3)
  <2>1. FeeTitle \notin Titles(<<a, b, c>>)
    <3>1. Titles(<<a, b, c>>) = {a, b, c}
      BY DEF Titles
    <3>2. FeeTitle \notin {a, b, c}
      BY <1>5
    <3> QED
      BY <3>1, <3>2, Zenon
  <2> QED
    BY <1>1, <2>1, Tuples, Zenon DEF Beside
<1>6. ASSUME NEW a, NEW b, NEW c, NEW d, a # FeeTitle, b # FeeTitle,
             c # FeeTitle, d # FeeTitle
      PROVE  Beside(<<a, b, c, d>>, <<a, b, c, d>>, 4, 4)
  <2>1. FeeTitle \notin Titles(<<a, b, c, d>>)
    <3>1. Titles(<<a, b, c, d>>) = {a, b, c, d}
      BY DEF Titles
    <3>2. FeeTitle \notin {a, b, c, d}
      BY <1>6
    <3> QED
      BY <3>1, <3>2, Zenon
  <2> QED
    BY <1>1, <2>1, Tuples, Zenon DEF Beside
<1> QED
  BY <1>2, <1>3, <1>4, <1>5, <1>6, Zenon DEF FeeTitle

(* An item experts are shown whenever users are, and one for experts.      *)
LEMMA OptionalTitles ==
    ASSUME NEW t
    PROVE  t # "Max fees" =>
                /\ \A c, d \in BOOLEAN :
                        (c => d) => Beside(Opt(c, t), Opt(d, t), 1, 1)
                /\ Beside(Opt(FALSE, t), Opt(TRUE, t), 0, 1)
<1> SUFFICES ASSUME t # FeeTitle
             PROVE  /\ \A c, d \in BOOLEAN :
                          (c => d) => Beside(Opt(c, t), Opt(d, t), 1, 1)
                    /\ Beside(Opt(FALSE, t), Opt(TRUE, t), 0, 1)
  BY Zenon DEF FeeTitle
<1> DEFINE one == <<t>>
           none == <<>>
<1>1. IsList(one) /\ Len(one) = 1 /\ IsList(none) /\ Len(none) = 0
  BY Tuples, Zenon
<1>2. /\ \A c \in BOOLEAN : Opt(c, t) = IF c THEN one ELSE none
      /\ Opt(FALSE, t) = none
      /\ Opt(TRUE, t) = one
  BY DEF Opt
<1>3. /\ Titles(none) = {}
      /\ FeeTitle \notin Titles(none) /\ FeeTitle \notin Titles(one)
  <2>2. Titles(none) = {} /\ Titles(one) = {t}
    BY TitlesOfTuples, Zenon
  <2> HIDE DEF one, none
  <2> QED
    BY <2>2
<1> HIDE DEF one, none
<1>4. /\ Beside(none, none, 1, 1) /\ Beside(none, one, 1, 1)
      /\ Beside(one, one, 1, 1) /\ Beside(none, one, 0, 1)
  BY <1>1, <1>3 DEF Beside
<1>5. ASSUME NEW c \in BOOLEAN, NEW d \in BOOLEAN, c => d
      PROVE  Beside(Opt(c, t), Opt(d, t), 1, 1)
  <2>1. CASE c /\ d
    BY <1>2, <1>4, <2>1, Zenon
  <2>2. CASE ~c /\ d
    BY <1>2, <1>4, <2>2, Zenon
  <2>3. CASE ~c /\ ~d
    BY <1>2, <1>4, <2>3, Zenon
  <2> QED
    BY <1>5, <2>1, <2>2, <2>3
<1> QED
  BY <1>2, <1>4, <1>5, Zenon

-----------------------------------------------------------------------------
(* The printers' pieces.                                                   *)

LEMMA AuthorityTitle ==
    ASSUME NEW i, NEW t, t # "Max fees"
    PROVE  Beside(Opt(ShowAuthority(i, FALSE), t),
                  Opt(ShowAuthority(i, TRUE), t), 1, 1)
<1>1. /\ ShowAuthority(i, FALSE) \in BOOLEAN /\ ShowAuthority(i, TRUE) = TRUE
      /\ TRUE \in BOOLEAN
  BY DEF ShowAuthority
<1> QED
  BY <1>1, OptionalTitles, Zenon

LEMMA AuthorizedTitle ==
    ASSUME NEW i
    PROVE  Beside(AuthorizedBy(i, FALSE), AuthorizedBy(i, TRUE), 1, 1)
BY AuthorityTitle, Zenon DEF AuthorizedBy

LEMMA CreateAccountTitles ==
    ASSUME NEW i
    PROVE  Beside(CreateAccountItems(i, FALSE), CreateAccountItems(i, TRUE),
                  2, 4)
<1> DEFINE u == <<"Deposit">> \o Opt(ShowAuthority(i, FALSE), "From")
           e == <<"Deposit">> \o Opt(ShowAuthority(i, TRUE), "From")
           bu == Opt(FALSE, "Base") \o Opt(FALSE, "Seed")
           be == Opt(TRUE, "Base") \o Opt(TRUE, "Seed")
<1>1. Beside(u, e, 2, 2)
  <2>1. Beside(<<"Deposit">>, <<"Deposit">>, 1, 1)
    BY FewTitles, Zenon
  <2>2. Beside(Opt(ShowAuthority(i, FALSE), "From"),
               Opt(ShowAuthority(i, TRUE), "From"), 1, 1)
    BY AuthorityTitle, Zenon
  <2>3. 1 \in Nat /\ 2 = 1 + 1
    OBVIOUS
  <2> QED
    BY <2>1, <2>2, <2>3, BesideBoth, Zenon
<1>2. Beside(bu, be, 0, 2)
  <2>1. 0 \in Nat /\ 1 \in Nat /\ 0 = 0 + 0 /\ 2 = 1 + 1
    OBVIOUS
  <2> QED
    BY <2>1, OptionalTitles, BesideBoth, Zenon
<1>3. Beside(<<>>, <<>>, 0, 0)
  BY FewTitles
<1>4. /\ CreateAccountItems(i, FALSE)
            = u \o (IF i.kind = "SystemCreateAccountWithSeed" THEN bu
                    ELSE <<>>)
      /\ CreateAccountItems(i, TRUE)
            = e \o (IF i.kind = "SystemCreateAccountWithSeed" THEN be
                    ELSE <<>>)
  BY Zenon DEF CreateAccountItems
<1> HIDE DEF u, e, bu, be
<1>5. CASE i.kind = "SystemCreateAccountWithSeed"
  <2>1. Beside(u \o bu, e \o be, 2, 4)
    BY <1>1, <1>2, BesideBoth
  <2> QED
    BY <1>4, <1>5, <2>1
<1>6. CASE i.kind # "SystemCreateAccountWithSeed"
  <2>1. Beside(u \o <<>>, e \o <<>>, 2, 2)
    BY <1>1, <1>3, BesideBoth
  <2>2. Beside(u \o <<>>, e \o <<>>, 2, 4)
    BY <2>1, BesideMore
  <2> QED
    BY <1>4, <1>6, <2>2
<1> QED
  BY <1>5, <1>6
(* A few items and then the authority.                                     *)
LEMMA ThenAuthorized ==
    ASSUME NEW i
    PROVE  /\ \A t : t # "Max fees" =>
                Beside(<<t>> \o AuthorizedBy(i, FALSE),
                       <<t>> \o AuthorizedBy(i, TRUE), 2, 2)
           /\ \A t, v : t # "Max fees" /\ v # "Max fees" =>
                Beside(<<t, v>> \o AuthorizedBy(i, FALSE),
                       <<t, v>> \o AuthorizedBy(i, TRUE), 3, 3)
           /\ \A t : t # "Max fees" =>
                Beside(AuthorizedBy(i, FALSE) \o <<t>>,
                       AuthorizedBy(i, TRUE) \o <<t>>, 2, 2)
<1>1. 1 \in Nat /\ 2 \in Nat /\ 2 = 1 + 1 /\ 3 = 2 + 1
  OBVIOUS
<1>2. Beside(AuthorizedBy(i, FALSE), AuthorizedBy(i, TRUE), 1, 1)
  BY AuthorizedTitle
<1>3. ASSUME NEW t, t # FeeTitle
      PROVE  /\ Beside(<<t>> \o AuthorizedBy(i, FALSE),
                       <<t>> \o AuthorizedBy(i, TRUE), 2, 2)
             /\ Beside(AuthorizedBy(i, FALSE) \o <<t>>,
                       AuthorizedBy(i, TRUE) \o <<t>>, 2, 2)
  <2>1. Beside(<<t>>, <<t>>, 1, 1)
    BY <1>3, FewTitles, Zenon DEF FeeTitle
  <2>2. Beside(<<t>> \o AuthorizedBy(i, FALSE),
               <<t>> \o AuthorizedBy(i, TRUE), 2, 2)
    BY <1>1, <1>2, <2>1, BesideBoth, Zenon
  <2>3. Beside(AuthorizedBy(i, FALSE) \o <<t>>,
               AuthorizedBy(i, TRUE) \o <<t>>, 2, 2)
    BY <1>1, <1>2, <2>1, BesideBoth, Zenon
  <2> QED
    BY <2>2, <2>3
<1>4. ASSUME NEW t, NEW v, t # FeeTitle, v # FeeTitle
      PROVE  Beside(<<t, v>> \o AuthorizedBy(i, FALSE),
                    <<t, v>> \o AuthorizedBy(i, TRUE), 3, 3)
  <2>1. Beside(<<t, v>>, <<t, v>>, 2, 2)
    BY <1>4, FewTitles, Zenon DEF FeeTitle
  <2> QED
    BY <1>1, <1>2, <2>1, BesideBoth, Zenon
<1> QED
  BY <1>3, <1>4, Zenon DEF FeeTitle

LEMMA SystemTitles ==
    ASSUME NEW i, i.kind \in SystemKinds
    PROVE  Beside(SystemItems(i, FALSE), SystemItems(i, TRUE), 3, 4)
<1> DEFINE within(u, e) == Beside(u, e, 3, 4)
<1>0. \A u, e :
        /\ Beside(u, e, 1, 1) => within(u, e)
        /\ Beside(u, e, 2, 2) => within(u, e)
        /\ Beside(u, e, 3, 3) => within(u, e)
        /\ Beside(u, e, 1, 3) => within(u, e)
        /\ Beside(u, e, 2, 4) => within(u, e)
  BY BesideMore
<1> SUFFICES within(SystemItems(i, FALSE), SystemItems(i, TRUE))
  OBVIOUS
<1> HIDE DEF within
<1>1. CASE i.kind = "SystemTransfer"
  <2>1. Beside(Opt(ShowAuthority(i, FALSE), "Sender"),
               Opt(ShowAuthority(i, TRUE), "Sender"), 1, 1)
    BY AuthorityTitle, Zenon
  <2>2. Beside(<<"Recipient">>, <<"Recipient">>, 1, 1)
    BY FewTitles, Zenon
  <2>3. 1 \in Nat /\ 2 = 1 + 1
    OBVIOUS
  <2>4. Beside(Opt(ShowAuthority(i, FALSE), "Sender") \o <<"Recipient">>,
               Opt(ShowAuthority(i, TRUE), "Sender") \o <<"Recipient">>, 2, 2)
    BY <2>1, <2>2, <2>3, BesideBoth, Zenon
  <2> QED
    BY <1>0, <1>1, <2>4, Zenon DEF SystemItems
<1>2. CASE i.kind \in {"SystemCreateAccount", "SystemCreateAccountWithSeed"}
  <2>1. /\ SystemItems(i, FALSE) = CreateAccountItems(i, FALSE)
        /\ SystemItems(i, TRUE) = CreateAccountItems(i, TRUE)
    BY <1>2, Zenon DEF SystemItems
  <2> QED
    BY <1>0, <2>1, CreateAccountTitles, Zenon
<1>3. CASE i.kind = "SystemAdvanceNonceAccount"
  BY <1>0, <1>3, AuthorizedTitle, Zenon DEF SystemItems
<1>4. CASE i.kind = "SystemInitializeNonceAccount"
  BY <1>0, <1>4, FewTitles, Zenon DEF SystemItems
<1>5. CASE i.kind = "SystemWithdrawNonceAccount"
  BY <1>0, <1>5, ThenAuthorized, Zenon DEF SystemItems
<1>6. CASE i.kind = "SystemAuthorizeNonceAccount"
  BY <1>0, <1>6, ThenAuthorized, Zenon DEF SystemItems
<1>7. CASE i.kind = "SystemAllocate"
  BY <1>0, <1>7, FewTitles, Zenon DEF SystemItems
<1>8. CASE i.kind = "SystemAssign"
  BY <1>0, <1>8, FewTitles, Zenon DEF SystemItems
<1>9. CASE i.kind = "SystemAllocateWithSeed"
  <2>1. Beside(<<"Data size">>, <<"Data size">>, 1, 1)
    BY FewTitles, Zenon
  <2>2. Beside(Opt(FALSE, "Base"), Opt(TRUE, "Base"), 0, 1)
    BY OptionalTitles, Zenon
  <2>3. Beside(Opt(FALSE, "Seed"), Opt(TRUE, "Seed"), 0, 1)
    BY OptionalTitles, Zenon
  <2>4. 0 \in Nat /\ 1 \in Nat /\ 2 \in Nat /\ 1 = 1 + 0 /\ 2 = 1 + 1
        /\ 3 = 2 + 1
    OBVIOUS
  <2>5. Beside(<<"Data size">> \o Opt(FALSE, "Base"),
               <<"Data size">> \o Opt(TRUE, "Base"), 1, 2)
    BY <2>1, <2>2, <2>4, BesideBoth, Zenon
  <2>6. Beside((<<"Data size">> \o Opt(FALSE, "Base")) \o Opt(FALSE, "Seed"),
               (<<"Data size">> \o Opt(TRUE, "Base")) \o Opt(TRUE, "Seed"),
               1, 3)
    BY <2>5, <2>3, <2>4, BesideBoth, ZenonT(60)
  <2> QED
    BY <1>0, <1>9, <2>6, Zenon DEF SystemItems
<1> QED
  BY <1>1, <1>2, <1>3, <1>4, <1>5, <1>6, <1>7, <1>8, <1>9, Zenon
  DEF SystemKinds
(* An item whether there is one or not, in both modes.                     *)
LEMMA MaybeTitle ==
    ASSUME NEW c \in BOOLEAN, NEW t, t # "Max fees"
    PROVE  Beside(Opt(c, t), Opt(c, t), 1, 1)
BY OptionalTitles, Zenon

LEMMA LockupTitles ==
    ASSUME NEW i
    PROVE  Beside(LockupItems(i, FALSE), LockupItems(i, TRUE), 3, 3)
<1> DEFINE time == Opt("LockupTime" \in i.facts, "Lockup time")
           epoch == Opt("LockupEpoch" \in i.facts, "Lockup epoch")
           last == <<"Lockup authority">>
<1>1. /\ LockupItems(i, FALSE) = IF time \o epoch # <<>>
                                 THEN time \o epoch \o last
                                 ELSE Opt(FALSE, "Lockup")
      /\ LockupItems(i, TRUE) = IF time \o epoch # <<>>
                                THEN time \o epoch \o last
                                ELSE Opt(TRUE, "Lockup")
  BY Zenon DEF LockupItems
<1>2. Beside(time, time, 1, 1) /\ Beside(epoch, epoch, 1, 1)
  <2>1. /\ ("LockupTime" \in i.facts) \in BOOLEAN
        /\ ("LockupEpoch" \in i.facts) \in BOOLEAN
    OBVIOUS
  <2> QED
    BY <2>1, MaybeTitle, Zenon
<1>3. Beside(last, last, 1, 1)
  BY FewTitles, Zenon
<1>4. Beside(Opt(FALSE, "Lockup"), Opt(TRUE, "Lockup"), 0, 1)
  BY OptionalTitles, Zenon
<1> HIDE DEF time, epoch, last
<1>5. Beside(time \o epoch, time \o epoch, 2, 2)
  <2>1. 1 \in Nat /\ 2 = 1 + 1
    OBVIOUS
  <2> QED
    BY <1>2, <2>1, BesideBoth, Zenon
<1>6. Beside((time \o epoch) \o last, (time \o epoch) \o last, 3, 3)
  <2>1. 1 \in Nat /\ 2 \in Nat /\ 3 = 2 + 1
    OBVIOUS
  <2> QED
    BY <1>3, <1>5, <2>1, BesideBoth, Zenon
<1>7. Beside(Opt(FALSE, "Lockup"), Opt(TRUE, "Lockup"), 3, 3)
  <2>1. \A u, e : Beside(u, e, 0, 1) => Beside(u, e, 3, 3)
    BY BesideMore
  <2> QED
    BY <1>4, <2>1, Zenon
<1> QED
  BY <1>1, <1>6, <1>7, Zenon

LEMMA StakeInitializeTitles ==
    ASSUME NEW i
    PROVE  Beside(StakeInitializeItems(i, FALSE),
                  StakeInitializeItems(i, TRUE), 5, 5)
<1> DEFINE new == IF "TwoAuthorities" \in i.facts
                  THEN <<"New stake auth", "New withdraw auth">>
                  ELSE <<"New authority">>
<1>1. Beside(new, new, 2, 2)
  <2>1. /\ Beside(<<"New stake auth", "New withdraw auth">>,
                  <<"New stake auth", "New withdraw auth">>, 2, 2)
        /\ Beside(<<"New authority">>, <<"New authority">>, 1, 1)
    BY FewTitles, Zenon
  <2>2. \A u, e : Beside(u, e, 1, 1) => Beside(u, e, 2, 2)
    BY BesideMore
  <2> QED
    BY <2>1, <2>2, Zenon
<1>2. /\ StakeInitializeItems(i, FALSE) = new \o LockupItems(i, FALSE)
      /\ StakeInitializeItems(i, TRUE) = new \o LockupItems(i, TRUE)
  BY Zenon DEF StakeInitializeItems
<1>3. 2 \in Nat /\ 3 \in Nat /\ 5 = 2 + 3
  OBVIOUS
<1> HIDE DEF new
<1>4. Beside(new \o LockupItems(i, FALSE), new \o LockupItems(i, TRUE), 5, 5)
  BY <1>1, <1>3, LockupTitles, BesideBoth, Zenon
<1> QED
  BY <1>2, <1>4, Zenon

LEMMA NewAuthorityTitle ==
    ASSUME NEW i, NEW first, first # "Max fees"
    PROVE  Beside(NewAuthority(i, first), NewAuthority(i, first), 1, 1)
<1>1. PICK t : t # "Max fees" /\ NewAuthority(i, first) = <<t>>
  BY Zenon DEF NewAuthority
<1> QED
  BY <1>1, FewTitles, Zenon

LEMMA AuthorizeTitles ==
    ASSUME NEW i, NEW first
    PROVE  first # "Max fees" =>
             Beside(NewAuthority(i, first) \o AuthorizedBy(i, FALSE),
                    NewAuthority(i, first) \o AuthorizedBy(i, TRUE), 2, 2)
<1>1. 1 \in Nat /\ 2 = 1 + 1
  OBVIOUS
<1> QED
  BY <1>1, NewAuthorityTitle, AuthorizedTitle, BesideBoth, Zenon

LEMMA StakeAuthorizeTitles ==
    ASSUME NEW i, i.kind \in StakeAuthorizeKinds
    PROVE  Beside(StakeItems(i, FALSE), StakeItems(i, TRUE), 3, 3)
<1> DEFINE u == Opt(/\ "Custodian" \in i.facts
                    /\ FALSE \/ "OtherCustodian" \in i.facts, "Custodian")
           e == Opt(/\ "Custodian" \in i.facts
                    /\ TRUE \/ "OtherCustodian" \in i.facts, "Custodian")
           au == NewAuthority(i, "New stake auth") \o AuthorizedBy(i, FALSE)
           ae == NewAuthority(i, "New stake auth") \o AuthorizedBy(i, TRUE)
<1>1. Beside(u, e, 1, 1)
  <2>1. /\ (/\ "Custodian" \in i.facts
            /\ FALSE \/ "OtherCustodian" \in i.facts) \in BOOLEAN
        /\ (/\ "Custodian" \in i.facts
            /\ TRUE \/ "OtherCustodian" \in i.facts) \in BOOLEAN
    OBVIOUS
  <2>2. (/\ "Custodian" \in i.facts
         /\ FALSE \/ "OtherCustodian" \in i.facts)
        => (/\ "Custodian" \in i.facts
            /\ TRUE \/ "OtherCustodian" \in i.facts)
    OBVIOUS
  <2> QED
    BY <2>1, <2>2, OptionalTitles, Zenon
<1>2. Beside(au, ae, 2, 2)
  BY AuthorizeTitles, Zenon
<1>3. /\ StakeItems(i, FALSE) = au \o u
      /\ StakeItems(i, TRUE) = ae \o e
  BY Zenon
  DEF StakeItems, StakeInitializeKinds, StakeAuthorizeKinds, SetLockupKinds
<1> HIDE DEF u, e, au, ae
<1>4. Beside(au \o u, ae \o e, 3, 3)
  <2>1. 1 \in Nat /\ 2 \in Nat /\ 3 = 2 + 1
    OBVIOUS
  <2> QED
    BY <1>1, <1>2, <2>1, BesideBoth, Zenon
<1> QED
  BY <1>3, <1>4, Zenon

LEMMA SetLockupTitles ==
    ASSUME NEW i, i.kind \in SetLockupKinds
    PROVE  Beside(StakeItems(i, FALSE), StakeItems(i, TRUE), 4, 4)
<1> DEFINE time == Opt("LockupTime" \in i.facts, "Time")
           epoch == Opt("LockupEpoch" \in i.facts, "Epoch")
           new == Opt("NewCustodian" \in i.facts, "New authority")
<1>1. /\ Beside(time, time, 1, 1) /\ Beside(epoch, epoch, 1, 1)
      /\ Beside(new, new, 1, 1)
  <2>1. /\ ("LockupTime" \in i.facts) \in BOOLEAN
        /\ ("LockupEpoch" \in i.facts) \in BOOLEAN
        /\ ("NewCustodian" \in i.facts) \in BOOLEAN
    OBVIOUS
  <2> QED
    BY <2>1, MaybeTitle, Zenon
<1>2. /\ StakeItems(i, FALSE)
            = ((time \o epoch) \o new) \o AuthorizedBy(i, FALSE)
      /\ StakeItems(i, TRUE)
            = ((time \o epoch) \o new) \o AuthorizedBy(i, TRUE)
  BY Zenon DEF StakeItems, SetLockupKinds, StakeAuthorizeKinds,
               StakeInitializeKinds
<1> HIDE DEF time, epoch, new
<1>3. /\ 1 \in Nat /\ 2 \in Nat /\ 3 \in Nat
      /\ 2 = 1 + 1 /\ 3 = 2 + 1 /\ 4 = 3 + 1
  OBVIOUS
<1>4. Beside(time \o epoch, time \o epoch, 2, 2)
  BY <1>1, <1>3, BesideBoth, Zenon
<1>5. Beside((time \o epoch) \o new, (time \o epoch) \o new, 3, 3)
  BY <1>1, <1>3, <1>4, BesideBoth, Zenon
<1>6. Beside(((time \o epoch) \o new) \o AuthorizedBy(i, FALSE),
             ((time \o epoch) \o new) \o AuthorizedBy(i, TRUE), 4, 4)
  BY <1>3, <1>5, AuthorizedTitle, BesideBoth, Zenon
<1> QED
  BY <1>2, <1>6, Zenon

LEMMA StakeTitles ==
    ASSUME NEW i, i.kind \in StakeKinds
    PROVE  Beside(StakeItems(i, FALSE), StakeItems(i, TRUE), 5, 5)
<1> DEFINE within(u, e) == Beside(u, e, 5, 5)
<1>0. \A u, e :
        /\ Beside(u, e, 1, 1) => within(u, e)
        /\ Beside(u, e, 2, 2) => within(u, e)
        /\ Beside(u, e, 3, 3) => within(u, e)
        /\ Beside(u, e, 4, 4) => within(u, e)
        /\ Beside(u, e, 5, 5) => within(u, e)
  BY BesideMore
<1> SUFFICES within(StakeItems(i, FALSE), StakeItems(i, TRUE))
  OBVIOUS
<1> HIDE DEF within
<1>1. CASE i.kind = "StakeDelegate"
  BY <1>0, <1>1, ThenAuthorized, Zenon
  DEF StakeItems, StakeInitializeKinds, StakeAuthorizeKinds, SetLockupKinds
<1>2. CASE i.kind \in StakeInitializeKinds
  BY <1>0, <1>2, StakeInitializeTitles, Zenon
  DEF StakeItems, StakeInitializeKinds, StakeAuthorizeKinds, SetLockupKinds
<1>3. CASE i.kind = "StakeWithdraw"
  BY <1>0, <1>3, ThenAuthorized, Zenon
  DEF StakeItems, StakeInitializeKinds, StakeAuthorizeKinds, SetLockupKinds
<1>4. CASE i.kind \in StakeAuthorizeKinds
  BY <1>0, <1>4, StakeAuthorizeTitles, Zenon
<1>5. CASE i.kind = "StakeDeactivate"
  BY <1>0, <1>5, AuthorizedTitle, Zenon
  DEF StakeItems, StakeInitializeKinds, StakeAuthorizeKinds, SetLockupKinds
<1>6. CASE i.kind \in SetLockupKinds
  BY <1>0, <1>6, SetLockupTitles, Zenon
<1>7. CASE i.kind = "StakeSplit"
  BY <1>0, <1>7, ThenAuthorized, Zenon
  DEF StakeItems, StakeInitializeKinds, StakeAuthorizeKinds, SetLockupKinds
<1>8. CASE i.kind = "StakeMerge"
  BY <1>0, <1>8, ThenAuthorized, Zenon
  DEF StakeItems, StakeInitializeKinds, StakeAuthorizeKinds, SetLockupKinds
<1> QED
  BY <1>1, <1>2, <1>3, <1>4, <1>5, <1>6, <1>7, <1>8, Zenon DEF StakeKinds
LEMMA VoteTitles ==
    ASSUME NEW i, i.kind \in VoteKinds
    PROVE  Beside(VoteItems(i, FALSE), VoteItems(i, TRUE), 5, 5)
<1> DEFINE within(u, e) == Beside(u, e, 5, 5)
<1>0. \A u, e :
        /\ Beside(u, e, 2, 2) => within(u, e)
        /\ Beside(u, e, 3, 3) => within(u, e)
        /\ Beside(u, e, 4, 4) => within(u, e)
  BY BesideMore
<1> SUFFICES within(VoteItems(i, FALSE), VoteItems(i, TRUE))
  OBVIOUS
<1> HIDE DEF within
<1>1. CASE i.kind = "VoteInitialize"
  BY <1>0, <1>1, FewTitles, Zenon
  DEF VoteItems, VoteInitializeItems, VoteAuthorizeKinds
<1>2. CASE i.kind = "VoteWithdraw"
  BY <1>0, <1>2, ThenAuthorized, Zenon DEF VoteItems, VoteAuthorizeKinds
<1>3. CASE i.kind \in VoteAuthorizeKinds
  BY <1>0, <1>3, AuthorizeTitles, Zenon DEF VoteItems, VoteAuthorizeKinds
<1>4. CASE i.kind \in {"VoteUpdateValidatorId", "VoteUpdateCommission"}
  BY <1>0, <1>4, ThenAuthorized, Zenon DEF VoteItems, VoteAuthorizeKinds
<1> QED
  BY <1>1, <1>2, <1>3, <1>4, Zenon DEF VoteKinds

LEMMA TokenSignTitles ==
    ASSUME NEW i
    PROVE  Beside(SplTokenSign(i, FALSE), SplTokenSign(i, TRUE), 2, 2)
<1>1. Beside(<<"Owner", "Signers">>, <<"Owner", "Signers">>, 2, 2)
  BY FewTitles, Zenon
<1>2. Beside(Opt(ShowAuthority(i, FALSE), "Owner"),
             Opt(ShowAuthority(i, TRUE), "Owner"), 2, 2)
  <2>1. Beside(Opt(ShowAuthority(i, FALSE), "Owner"),
               Opt(ShowAuthority(i, TRUE), "Owner"), 1, 1)
    BY AuthorityTitle, Zenon
  <2>2. \A u, e : Beside(u, e, 1, 1) => Beside(u, e, 2, 2)
    BY BesideMore
  <2> QED
    BY <2>1, <2>2, Zenon
<1> QED
  BY <1>1, <1>2, Zenon DEF SplTokenSign

(* A few items and then the owner.                                         *)
LEMMA ThenSigned ==
    ASSUME NEW i, NEW a, NEW b, NEW m \in 0..3, NEW n \in 0..3,
           Beside(a, b, m, n)
    PROVE  Beside(a \o SplTokenSign(i, FALSE), b \o SplTokenSign(i, TRUE),
                  5, 5)
<1>1. /\ m \in Nat /\ n \in Nat /\ 2 \in Nat /\ m + 2 = m + 2
      /\ n + 2 = n + 2
  OBVIOUS
<1>2. Beside(a \o SplTokenSign(i, FALSE), b \o SplTokenSign(i, TRUE),
             m + 2, n + 2)
  BY <1>1, TokenSignTitles, BesideBoth, Zenon
<1>3. \A u, e : Beside(u, e, m + 2, n + 2) => Beside(u, e, 5, 5)
  <2>1. /\ m + 2 \in Nat /\ n + 2 \in Nat /\ 5 \in Nat
        /\ m + 2 <= 5 /\ n + 2 <= 5
    OBVIOUS
  <2> QED
    BY <2>1, BesideMore
<1> QED
  BY <1>2, <1>3, Zenon

LEMMA TransferTitles ==
    ASSUME NEW i
    PROVE  Beside(TokenTransferItems(i, FALSE), TokenTransferItems(i, TRUE),
                  5, 5)
<1>1. 3 \in 0..3
  OBVIOUS
<1> DEFINE first == <<"Token address", "From (token account)",
                      "To (token account)">>
<1>2. Beside(first, first, 3, 3)
  BY FewTitles, Zenon
<1>3. /\ TokenTransferItems(i, FALSE) = first \o SplTokenSign(i, FALSE)
      /\ TokenTransferItems(i, TRUE) = first \o SplTokenSign(i, TRUE)
  BY Zenon DEF TokenTransferItems
<1> HIDE DEF first
<1> QED
  BY <1>1, <1>2, <1>3, ThenSigned, Zenon

LEMMA TokenTitles ==
    ASSUME NEW i, i.kind \in SplTokenKinds
    PROVE  Beside(SplTokenItems(i, FALSE), SplTokenItems(i, TRUE), 5, 5)
<1> DEFINE within(u, e) == Beside(u, e, 5, 5)
<1>0. \A u, e :
        /\ Beside(u, e, 0, 0) => within(u, e)
        /\ Beside(u, e, 1, 1) => within(u, e)
        /\ Beside(u, e, 2, 2) => within(u, e)
        /\ Beside(u, e, 3, 3) => within(u, e)
        /\ Beside(u, e, 5, 5) => within(u, e)
  BY BesideMore
<1>a. /\ 0 \in 0..3 /\ 1 \in 0..3 /\ 2 \in 0..3 /\ 3 \in 0..3
      /\ 1 \in Nat /\ 2 \in Nat /\ 2 = 1 + 1 /\ 3 = 2 + 1
  OBVIOUS
<1> SUFFICES within(SplTokenItems(i, FALSE), SplTokenItems(i, TRUE))
  OBVIOUS
<1> HIDE DEF within
<1>b. \A a, b, m, n : m \in 0..3 /\ n \in 0..3 /\ Beside(a, b, m, n) =>
            within(a \o SplTokenSign(i, FALSE), b \o SplTokenSign(i, TRUE))
  BY <1>0, ThenSigned, Zenon
<1>1. CASE i.kind = "InitializeMint"
  <2> DEFINE first == <<"Mint authority", "Decimals">>
             freeze == Opt("FreezeAuthority" \in i.facts, "Freeze authority")
  <2>1. Beside(first, first, 2, 2)
    BY FewTitles, Zenon
  <2>2. Beside(freeze, freeze, 1, 1)
    <3>1. ("FreezeAuthority" \in i.facts) \in BOOLEAN
      OBVIOUS
    <3> QED
      BY <3>1, MaybeTitle, Zenon
  <2>3. /\ SplTokenItems(i, FALSE) = first \o freeze
        /\ SplTokenItems(i, TRUE) = first \o freeze
    BY <1>1, Zenon DEF SplTokenItems, InitializeAccountKinds
  <2> HIDE DEF first, freeze
  <2>4. Beside(first \o freeze, first \o freeze, 3, 3)
    BY <1>a, <2>1, <2>2, BesideBoth, Zenon
  <2> QED
    BY <1>0, <2>3, <2>4, Zenon
<1>2. CASE i.kind \in InitializeAccountKinds
  BY <1>0, <1>2, FewTitles, Zenon DEF SplTokenItems, InitializeAccountKinds
<1>3. CASE i.kind = "InitializeMultisig"
  <2>1. ("BadThreshold" \notin i.facts) \in BOOLEAN
    OBVIOUS
  <2>2. Beside(MultisigItems(i), MultisigItems(i), 1, 1)
    BY <2>1, MaybeTitle, Zenon DEF MultisigItems
  <2> QED
    BY <1>0, <1>3, <2>2, Zenon DEF SplTokenItems, InitializeAccountKinds
<1>4. CASE i.kind = "TransferChecked"
  BY <1>0, <1>4, TransferTitles, Zenon
  DEF SplTokenItems, InitializeAccountKinds
<1>5. CASE i.kind = "ApproveChecked"
  BY <1>a, <1>b, <1>5, FewTitles, Zenon
  DEF SplTokenItems, InitializeAccountKinds
<1>6. CASE i.kind = "Revoke"
  BY <1>0, <1>6, TokenSignTitles, Zenon
  DEF SplTokenItems, InitializeAccountKinds
<1>7. CASE i.kind = "SetAuthority"
  <2> DEFINE type == <<"Type">>
             new == Opt("ClearAuthority" \notin i.facts, "Authority")
  <2>1. Beside(type, type, 1, 1)
    BY FewTitles, Zenon
  <2>2. Beside(new, new, 1, 1)
    <3>1. ("ClearAuthority" \notin i.facts) \in BOOLEAN
      OBVIOUS
    <3> QED
      BY <3>1, MaybeTitle, Zenon
  <2>3. /\ SplTokenItems(i, FALSE) = (type \o new) \o SplTokenSign(i, FALSE)
        /\ SplTokenItems(i, TRUE) = (type \o new) \o SplTokenSign(i, TRUE)
    BY <1>7, Zenon DEF SplTokenItems, InitializeAccountKinds
  <2> HIDE DEF type, new
  <2>4. Beside(type \o new, type \o new, 2, 2)
    BY <1>a, <2>1, <2>2, BesideBoth, Zenon
  <2> QED
    BY <1>a, <1>b, <2>3, <2>4, Zenon
<1>8. CASE i.kind \in {"MintToChecked", "BurnChecked", "CloseAccount"}
  BY <1>a, <1>b, <1>8, FewTitles, Zenon
  DEF SplTokenItems, InitializeAccountKinds
<1>9. CASE i.kind \in {"FreezeAccount", "ThawAccount"}
  <2>1. Beside(Opt(FALSE, "Token address"), Opt(TRUE, "Token address"), 0, 1)
    BY OptionalTitles, Zenon
  <2>2. within(Opt(FALSE, "Token address") \o SplTokenSign(i, FALSE),
               Opt(TRUE, "Token address") \o SplTokenSign(i, TRUE))
    BY <1>a, <1>b, <2>1, Zenon
  <2> QED
    BY <1>9, <2>2, Zenon DEF SplTokenItems, InitializeAccountKinds
<1>10. CASE i.kind = "SyncNative"
  BY <1>0, <1>10, FewTitles, Zenon DEF SplTokenItems, InitializeAccountKinds
<1> QED
  BY <1>1, <1>2, <1>3, <1>4, <1>5, <1>6, <1>7, <1>8, <1>9, <1>10, Zenon
  DEF SplTokenKinds, SignedTokenKinds
-----------------------------------------------------------------------------
(* What is printed in the normal mode and in the expert mode.              *)

Compare(u, e, m, n) ==
    /\ u.printed = e.printed
    /\ u.primary = e.primary
    /\ Beside(u.general, e.general, m, n)

LEMMA NothingCompares ==
    ASSUME NEW m \in Nat, NEW n \in Nat
    PROVE  Compare(NotPrinted, NotPrinted, m, n)
<1>1. Beside(<<>>, <<>>, 0, 0)
  BY FewTitles, Zenon
<1>2. Beside(<<>>, <<>>, m, n)
  BY <1>1, BesideMore
<1> QED
  BY <1>2 DEF Compare, NotPrinted

LEMMA PrintedCompares ==
    ASSUME NEW primary, NEW u, NEW e, NEW m, NEW n, Beside(u, e, m, n)
    PROVE  Compare(Printed(primary, u), Printed(primary, e), m, n)
BY DEF Compare, Printed

LEMMA CompareMore ==
    ASSUME NEW m \in Nat, NEW n \in Nat, NEW k \in Nat, NEW l \in Nat,
           m <= k, n <= l, NEW u, NEW e, Compare(u, e, m, n)
    PROVE  Compare(u, e, k, l)
BY BesideMore DEF Compare

(* The printer of a program prints the instructions of this program.       *)
LEMMA SingleIsOfProgram ==
    ASSUME NEW i, NEW x
    PROVE  /\ i.kind \in SystemKinds =>
                PrintSingle(i, x) = Printed(i.kind, SystemItems(i, x))
           /\ i.kind \in StakeKinds =>
                PrintSingle(i, x) = Printed(i.kind, StakeItems(i, x))
           /\ i.kind \in VoteKinds =>
                PrintSingle(i, x) = Printed(i.kind, VoteItems(i, x))
           /\ i.kind \in SplTokenKinds =>
                PrintSingle(i, x) = Printed(i.kind, SplTokenItems(i, x))
<1>1. /\ SystemKinds \cap StakeKinds = {}
      /\ SystemKinds \cap VoteKinds = {}
      /\ SystemKinds \cap SplTokenKinds = {}
      /\ StakeKinds \cap VoteKinds = {}
      /\ StakeKinds \cap SplTokenKinds = {}
      /\ VoteKinds \cap SplTokenKinds = {}
      /\ "AssociatedTokenCreate"
            \notin SystemKinds \cup StakeKinds \cup VoteKinds
                   \cup SplTokenKinds
  BY Zenon
  DEF SystemKinds, StakeKinds, VoteKinds, SplTokenKinds,
      StakeAuthorizeKinds, StakeInitializeKinds, SetLockupKinds,
      VoteAuthorizeKinds, InitializeAccountKinds, SignedTokenKinds
<1> QED
  BY <1>1, Zenon DEF PrintSingle

LEMMA SingleCompares ==
    ASSUME NEW i
    PROVE  Compare(PrintSingle(i, FALSE), PrintSingle(i, TRUE), 5, 5)
<1> DEFINE kinds == SystemKinds \cup StakeKinds \cup VoteKinds
                    \cup SplTokenKinds
<1>1. CASE i.kind \in SystemKinds
  <2>1. \A u, e : Beside(u, e, 3, 4) => Beside(u, e, 5, 5)
    BY BesideMore
  <2>2. Beside(SystemItems(i, FALSE), SystemItems(i, TRUE), 5, 5)
    BY <1>1, <2>1, SystemTitles, Zenon
  <2> QED
    BY <1>1, <2>2, SingleIsOfProgram, PrintedCompares, Zenon
<1>2. CASE i.kind \in StakeKinds
  BY <1>2, StakeTitles, SingleIsOfProgram, PrintedCompares, Zenon
<1>3. CASE i.kind \in VoteKinds
  BY <1>3, VoteTitles, SingleIsOfProgram, PrintedCompares, Zenon
<1>4. CASE i.kind \in SplTokenKinds
  BY <1>4, TokenTitles, SingleIsOfProgram, PrintedCompares, Zenon
<1>5. CASE i.kind \notin kinds
  <2>1. /\ PrintSingle(i, FALSE) = PrintSingle(i, TRUE)
        /\ \/ PrintSingle(i, TRUE) = NotPrinted
           \/ PrintSingle(i, TRUE) = Printed(i.kind, AssociatedTokenItems)
    BY <1>5, Zenon DEF PrintSingle
  <2>2. Beside(AssociatedTokenItems, AssociatedTokenItems, 3, 3)
    BY FewTitles, Zenon DEF AssociatedTokenItems
  <2>3. Compare(Printed(i.kind, AssociatedTokenItems),
                Printed(i.kind, AssociatedTokenItems), 3, 3)
    BY <2>2, PrintedCompares, Zenon
  <2>4. \A u, e : Compare(u, e, 3, 3) => Compare(u, e, 5, 5)
    BY CompareMore
  <2>5. Compare(NotPrinted, NotPrinted, 5, 5)
    BY NothingCompares
  <2> QED
    BY <2>1, <2>3, <2>4, <2>5, Zenon
<1> QED
  BY <1>1, <1>2, <1>3, <1>4, <1>5, Zenon

(* Pieces of the printers of several instructions.                         *)

LEMMA AuthorizeBothCompares ==
    ASSUME NEW group
    PROVE  /\ Compare(PrintStakeAuthorizeBoth(group, FALSE),
                      PrintStakeAuthorizeBoth(group, TRUE), 9, 9)
           /\ Compare(PrintVoteAuthorizeBoth(group, FALSE),
                      PrintVoteAuthorizeBoth(group, TRUE), 9, 9)
<1> DEFINE stake == NewAuthorities(group[1], group[2], "New stake auth")
           vote == NewAuthorities(group[1], group[2], "New vote auth")
           custodian == Opt("Custodian" \in group[2].facts, "Custodian")
           u == AuthorizedBy(group[2], FALSE)
           e == AuthorizedBy(group[2], TRUE)
           inOrder == /\ "Withdrawer" \notin group[1].facts
                      /\ "Withdrawer" \in group[2].facts
<1>1. \A t : t # "Max fees" =>
                Beside(NewAuthorities(group[1], group[2], t),
                       NewAuthorities(group[1], group[2], t), 2, 2)
  <2>1. \A v, w : Beside(v, w, 1, 1) => Beside(v, w, 2, 2)
    BY BesideMore
  <2> QED
    BY <2>1, FewTitles, Zenon DEF NewAuthorities
<1>2. Beside(custodian, custodian, 1, 1)
  <2>1. ("Custodian" \in group[2].facts) \in BOOLEAN
    OBVIOUS
  <2> QED
    BY <2>1, MaybeTitle, Zenon
<1>3. Beside(u, e, 1, 1)
  BY AuthorizedTitle
<1>4. /\ PrintStakeAuthorizeBoth(group, FALSE)
            = IF inOrder THEN Printed("Set stake auth",
                                      (stake \o custodian) \o u)
              ELSE NotPrinted
      /\ PrintStakeAuthorizeBoth(group, TRUE)
            = IF inOrder THEN Printed("Set stake auth",
                                      (stake \o custodian) \o e)
              ELSE NotPrinted
      /\ PrintVoteAuthorizeBoth(group, FALSE)
            = IF inOrder THEN Printed("Set vote auth", vote \o u)
              ELSE NotPrinted
      /\ PrintVoteAuthorizeBoth(group, TRUE)
            = IF inOrder THEN Printed("Set vote auth", vote \o e)
              ELSE NotPrinted
  BY Zenon DEF PrintStakeAuthorizeBoth, PrintVoteAuthorizeBoth,
               AuthorizeBothItems
<1>5. Beside(stake, stake, 2, 2) /\ Beside(vote, vote, 2, 2)
  BY <1>1
<1>6. /\ 1 \in Nat /\ 2 \in Nat /\ 3 \in Nat /\ 3 = 2 + 1 /\ 4 = 3 + 1
  OBVIOUS
<1> HIDE DEF stake, vote, custodian, u, e, inOrder
<1>7. Beside(stake \o custodian, stake \o custodian, 3, 3)
  BY <1>2, <1>5, <1>6, BesideBoth, Zenon
<1>8. Beside((stake \o custodian) \o u, (stake \o custodian) \o e, 4, 4)
  BY <1>3, <1>6, <1>7, BesideBoth, Zenon
<1>9. Beside(vote \o u, vote \o e, 3, 3)
  BY <1>3, <1>5, <1>6, BesideBoth, Zenon
<1>10. \A v, w : /\ Beside(v, w, 3, 3) => Beside(v, w, 9, 9)
                 /\ Beside(v, w, 4, 4) => Beside(v, w, 9, 9)
  BY BesideMore
<1>11. Compare(NotPrinted, NotPrinted, 9, 9)
  BY NothingCompares
<1> QED
  BY <1>4, <1>8, <1>9, <1>10, <1>11, PrintedCompares, Zenon

LEMMA SplitWithSeedTitles ==
    ASSUME NEW i
    PROVE  Beside(StakeSplitWithSeedItems(i, FALSE),
                  StakeSplitWithSeedItems(i, TRUE), 3, 5)
<1> DEFINE accounts == <<"From", "To">>
           bu == Opt(FALSE, "Base")
           be == Opt(TRUE, "Base")
           su == Opt(FALSE, "Seed")
           se == Opt(TRUE, "Seed")
<1>1. Beside(accounts, accounts, 2, 2)
  BY FewTitles, Zenon
<1>2. Beside(bu, be, 0, 1) /\ Beside(su, se, 0, 1)
  BY OptionalTitles, Zenon
<1>3. /\ StakeSplitWithSeedItems(i, FALSE)
            = ((accounts \o bu) \o su) \o AuthorizedBy(i, FALSE)
      /\ StakeSplitWithSeedItems(i, TRUE)
            = ((accounts \o be) \o se) \o AuthorizedBy(i, TRUE)
  BY Zenon DEF StakeSplitWithSeedItems
<1> HIDE DEF accounts, bu, be, su, se
<1>4. /\ 0 \in Nat /\ 1 \in Nat /\ 2 \in Nat /\ 3 \in Nat /\ 4 \in Nat
      /\ 2 = 2 + 0 /\ 3 = 2 + 1 /\ 4 = 3 + 1 /\ 5 = 4 + 1
  OBVIOUS
<1>5. Beside(accounts \o bu, accounts \o be, 2, 3)
  BY <1>1, <1>2, <1>4, BesideBoth, Zenon
<1>6. Beside((accounts \o bu) \o su, (accounts \o be) \o se, 2, 4)
  BY <1>2, <1>4, <1>5, BesideBoth, Zenon
<1>7. Beside(((accounts \o bu) \o su) \o AuthorizedBy(i, FALSE),
             ((accounts \o be) \o se) \o AuthorizedBy(i, TRUE), 3, 5)
  BY <1>4, <1>6, AuthorizedTitle, BesideBoth, Zenon
<1> QED
  BY <1>3, <1>7, Zenon

LEMMA FundedTitles ==
    ASSUME NEW i
    PROVE  Beside(FundedItems(i, FALSE), FundedItems(i, TRUE), 2, 2)
<1>1. Beside(Opt(ShowAuthority(i, FALSE), "Funded by"),
             Opt(ShowAuthority(i, TRUE), "Funded by"), 1, 1)
  BY AuthorityTitle, Zenon
<1>2. Beside(<<"Funded with">>, <<"Funded with">>, 1, 1)
  BY FewTitles, Zenon
<1>3. 1 \in Nat /\ 2 = 1 + 1
  OBVIOUS
<1> QED
  BY <1>1, <1>2, <1>3, BesideBoth, Zenon DEF FundedItems

LEMMA PrefundTitles ==
    /\ Beside(PrefundItems(FALSE), PrefundItems(TRUE), 0, 2)
<1> DEFINE two == <<"Prefund", "Prefunder">>
<1>1. Beside(two, two, 2, 2) /\ Beside(<<>>, <<>>, 0, 0)
  BY FewTitles, Zenon
<1>2. PrefundItems(FALSE) = <<>> /\ PrefundItems(TRUE) = two
  BY Zenon DEF PrefundItems
<1>3. DOMAIN <<>> = {}
  OBVIOUS
<1> HIDE DEF two
<1>4. Beside(<<>>, two, 0, 2)
  BY <1>1, <1>3 DEF Beside, Titles
<1> QED
  BY <1>2, <1>4, Zenon
(* The briefs of two instructions are different pairs of kinds.            *)
LEMMA PairsDiffer ==
    ASSUME NEW a, NEW b
    PROVE  LET kinds == <<a, b>>
           IN  /\ kinds \in CreateKinds \X StakeInitializeKinds
                    => b \in StakeInitializeKinds
               /\ kinds \in CreateKinds \X {"SystemInitializeNonceAccount"}
                    => b = "SystemInitializeNonceAccount"
               /\ kinds \in CreateKinds \X {"VoteInitialize"}
                    => b = "VoteInitialize"
               /\ kinds \in {<<k, k>> : k \in StakeAuthorizeKinds}
                    => b \in StakeAuthorizeKinds
               /\ kinds \in {<<k, k>> : k \in VoteAuthorizeKinds}
                    => b \in VoteAuthorizeKinds
               /\ kinds = <<"SystemCreateAccount", "StakeSplit">>
                    => a = "SystemCreateAccount" /\ b = "StakeSplit"
               /\ kinds \in {"SystemAllocateWithSeed",
                             "SystemCreateAccountWithSeed"} \X {"StakeSplit"}
                    => a # "SystemCreateAccount" /\ b = "StakeSplit"
               /\ kinds = <<"SystemCreateAccount", "InitializeMint">>
                    => b = "InitializeMint"
               /\ kinds \in {"SystemCreateAccount"} \X InitializeAccountKinds
                    => b \in InitializeAccountKinds
               /\ kinds = <<"SystemCreateAccount", "InitializeMultisig">>
                    => b = "InitializeMultisig"
               /\ kinds = <<"AssociatedTokenCreate", "TransferChecked">>
                    => b = "TransferChecked"
  OBVIOUS

(* Any two lists that are printed, with the titles they have.              *)
LEMMA PairCompares ==
    ASSUME NEW group
    PROVE  Compare(PrintPair(group, FALSE), PrintPair(group, TRUE), 9, 9)
<1> DEFINE first == group[1]
           second == group[2]
           kinds == <<first.kind, second.kind>>
           P(x) == PrintPair(group, x)
           g1 == kinds \in CreateKinds \X StakeInitializeKinds
           g2 == kinds \in CreateKinds \X {"SystemInitializeNonceAccount"}
           g3 == kinds \in CreateKinds \X {"VoteInitialize"}
           g4 == kinds \in {<<k, k>> : k \in StakeAuthorizeKinds}
           g5 == kinds \in {<<k, k>> : k \in VoteAuthorizeKinds}
           g6 == kinds = <<"SystemCreateAccount", "StakeSplit">>
           g7 == kinds \in {"SystemAllocateWithSeed",
                            "SystemCreateAccountWithSeed"} \X {"StakeSplit"}
           g8 == kinds = <<"SystemCreateAccount", "InitializeMint">>
           g9 == kinds \in {"SystemCreateAccount"} \X InitializeAccountKinds
           g10 == kinds = <<"SystemCreateAccount", "InitializeMultisig">>
           g11 == kinds = <<"AssociatedTokenCreate", "TransferChecked">>
           k == second.kind
           create(x) == CreateAccountItems(first, x)
           funded(x) == FundedItems(first, x)
           frozen == Opt("FreezeAuthority" \in second.facts,
                         "Freeze authority")
           r1(x) == Printed("Create stake acct",
                            create(x) \o StakeInitializeItems(second, x))
           r2(x) == Printed("Create nonce acct",
                            create(x) \o <<"New authority">>)
           r3(x) == Printed("Create vote acct",
                            create(x) \o VoteInitializeItems)
           r7(x) == Printed("Split stake", StakeSplitWithSeedItems(second, x))
           r8(x) == Printed("Create token mint",
                            ((<<"Mint authority", "Mint decimals">>
                              \o frozen) \o funded(x)))
           r9(x) == Printed("Create token account",
                            <<"For", "Token address">> \o funded(x))
           r10(x) == Printed("Create multisig",
                             MultisigItems(second) \o funded(x))
           r11(x) == Printed("Create token account",
                             (AssociatedTokenItems \o <<"Transfer tokens">>)
                             \o TokenTransferItems(second, x))
<1>1. ASSUME NEW x
      PROVE  P(x) = CASE g1 -> r1(x)
                      [] g2 -> r2(x)
                      [] g3 -> r3(x)
                      [] g4 -> PrintStakeAuthorizeBoth(group, x)
                      [] g5 -> PrintVoteAuthorizeBoth(group, x)
                      [] g6 -> PrintSingle(second, x)
                      [] g7 -> r7(x)
                      [] g8 -> r8(x)
                      [] g9 -> r9(x)
                      [] g10 -> r10(x)
                      [] g11 -> r11(x)
                      [] OTHER -> NotPrinted
  BY Zenon DEF PrintPair
<1>2. /\ g1 => k \in StakeInitializeKinds
      /\ g2 => k = "SystemInitializeNonceAccount"
      /\ g3 => k = "VoteInitialize"
      /\ g4 => k \in StakeAuthorizeKinds
      /\ g5 => k \in VoteAuthorizeKinds
      /\ g6 => first.kind = "SystemCreateAccount" /\ k = "StakeSplit"
      /\ g7 => first.kind # "SystemCreateAccount" /\ k = "StakeSplit"
      /\ g8 => k = "InitializeMint"
      /\ g9 => k \in InitializeAccountKinds
      /\ g10 => k = "InitializeMultisig"
      /\ g11 => k = "TransferChecked"
  BY PairsDiffer, Zenon
<1> HIDE DEF P, g1, g2, g3, g4, g5, g6, g7, g8, g9, g10, g11
<1>3. /\ g1 => ~g2 /\ ~g3 /\ ~g4 /\ ~g5 /\ ~g6 /\ ~g7 /\ ~g8 /\ ~g9
               /\ ~g10 /\ ~g11
      /\ g2 => ~g3 /\ ~g4 /\ ~g5 /\ ~g6 /\ ~g7 /\ ~g8 /\ ~g9 /\ ~g10 /\ ~g11
      /\ g3 => ~g4 /\ ~g5 /\ ~g6 /\ ~g7 /\ ~g8 /\ ~g9 /\ ~g10 /\ ~g11
      /\ g4 => ~g5 /\ ~g6 /\ ~g7 /\ ~g8 /\ ~g9 /\ ~g10 /\ ~g11
      /\ g5 => ~g6 /\ ~g7 /\ ~g8 /\ ~g9 /\ ~g10 /\ ~g11
      /\ g6 => ~g7 /\ ~g8 /\ ~g9 /\ ~g10 /\ ~g11
      /\ g7 => ~g8 /\ ~g9 /\ ~g10 /\ ~g11
      /\ g8 => ~g9 /\ ~g10 /\ ~g11
      /\ g9 => ~g10 /\ ~g11
      /\ g10 => ~g11
  BY <1>2, Zenon
  DEF StakeInitializeKinds, StakeAuthorizeKinds, VoteAuthorizeKinds,
      InitializeAccountKinds
<1>4. /\ 1 \in Nat /\ 2 \in Nat /\ 3 \in Nat /\ 4 \in Nat /\ 5 \in Nat
      /\ 3 = 2 + 1 /\ 5 = 4 + 1 /\ 7 = 2 + 5 /\ 9 = 4 + 5 /\ 6 = 2 + 4
      /\ 8 = 4 + 4 /\ 5 = 3 + 2 /\ 4 = 2 + 2 /\ 3 = 1 + 2 /\ 4 = 3 + 1
  OBVIOUS
<1>5. \A u, e :
        /\ Beside(u, e, 7, 9) => Beside(u, e, 9, 9)
        /\ Beside(u, e, 6, 8) => Beside(u, e, 9, 9)
        /\ Beside(u, e, 3, 5) => Beside(u, e, 9, 9)
        /\ Beside(u, e, 3, 3) => Beside(u, e, 9, 9)
        /\ Beside(u, e, 4, 4) => Beside(u, e, 9, 9)
        /\ Beside(u, e, 5, 5) => Beside(u, e, 9, 9)
  BY BesideMore
<1>6. Beside(create(FALSE), create(TRUE), 2, 4)
  BY CreateAccountTitles
<1>7. Beside(funded(FALSE), funded(TRUE), 2, 2)
  BY FundedTitles
<1> HIDE DEF create, funded
<1>8. Compare(r1(FALSE), r1(TRUE), 9, 9)
  <2>1. Beside(create(FALSE) \o StakeInitializeItems(second, FALSE),
               create(TRUE) \o StakeInitializeItems(second, TRUE), 7, 9)
    BY <1>4, <1>6, StakeInitializeTitles, BesideBoth, ZenonT(60)
  <2> QED
    BY <1>5, <2>1, PrintedCompares, Zenon
<1>9. Compare(r2(FALSE), r2(TRUE), 9, 9)
  <2>1. Beside(<<"New authority">>, <<"New authority">>, 1, 1)
    BY FewTitles, Zenon
  <2>2. Beside(create(FALSE) \o <<"New authority">>,
               create(TRUE) \o <<"New authority">>, 3, 5)
    BY <1>4, <1>6, <2>1, BesideBoth, Zenon
  <2> QED
    BY <1>5, <2>2, PrintedCompares, Zenon
<1>10. Compare(r3(FALSE), r3(TRUE), 9, 9)
  <2>1. Beside(VoteInitializeItems, VoteInitializeItems, 4, 4)
    BY FewTitles, Zenon DEF VoteInitializeItems
  <2>2. Beside(create(FALSE) \o VoteInitializeItems,
               create(TRUE) \o VoteInitializeItems, 6, 8)
    BY <1>4, <1>6, <2>1, BesideBoth, Zenon
  <2> QED
    BY <1>5, <2>2, PrintedCompares, Zenon
<1>11. Compare(PrintSingle(second, FALSE), PrintSingle(second, TRUE), 9, 9)
  <2>1. \A u, e : Compare(u, e, 5, 5) => Compare(u, e, 9, 9)
    BY CompareMore
  <2> QED
    BY <2>1, SingleCompares, Zenon
<1>12. Compare(r7(FALSE), r7(TRUE), 9, 9)
  BY <1>5, SplitWithSeedTitles, PrintedCompares, Zenon
<1>13. Compare(r8(FALSE), r8(TRUE), 9, 9)
  <2> DEFINE mint == <<"Mint authority", "Mint decimals">>
  <2>1. Beside(mint, mint, 2, 2)
    BY FewTitles, Zenon
  <2>2. Beside(frozen, frozen, 1, 1)
    <3>1. ("FreezeAuthority" \in second.facts) \in BOOLEAN
      OBVIOUS
    <3> QED
      BY <3>1, MaybeTitle, Zenon
  <2> HIDE DEF mint, frozen
  <2>3. Beside(mint \o frozen, mint \o frozen, 3, 3)
    <3>1. 1 \in Nat /\ 2 \in Nat /\ 3 = 2 + 1
      OBVIOUS
    <3> QED
      BY <2>1, <2>2, <3>1, BesideBoth, Zenon
  <2>4. Beside((mint \o frozen) \o funded(FALSE),
               (mint \o frozen) \o funded(TRUE), 5, 5)
    <3>1. 2 \in Nat /\ 3 \in Nat /\ 5 = 3 + 2
      OBVIOUS
    <3> QED
      BY <1>7, <2>3, <3>1, BesideBoth, Zenon
  <2> QED
    BY <1>5, <2>4, PrintedCompares, Zenon DEF mint
<1>14. Compare(r9(FALSE), r9(TRUE), 9, 9)
  <2> DEFINE for == <<"For", "Token address">>
  <2>1. Beside(for, for, 2, 2)
    BY FewTitles, Zenon
  <2>2. Beside(for \o funded(FALSE), for \o funded(TRUE), 4, 4)
    BY <1>4, <1>7, <2>1, BesideBoth, Zenon
  <2> QED
    BY <1>5, <2>2, PrintedCompares, Zenon
<1>15. Compare(r10(FALSE), r10(TRUE), 9, 9)
  <2>1. Beside(MultisigItems(second), MultisigItems(second), 1, 1)
    <3>1. ("BadThreshold" \notin second.facts) \in BOOLEAN
      OBVIOUS
    <3> QED
      BY <3>1, MaybeTitle, Zenon DEF MultisigItems
  <2>2. Beside(MultisigItems(second) \o funded(FALSE),
               MultisigItems(second) \o funded(TRUE), 3, 3)
    BY <1>4, <1>7, <2>1, BesideBoth, Zenon
  <2> QED
    BY <1>5, <2>2, PrintedCompares, Zenon
<1>16. Compare(r11(FALSE), r11(TRUE), 9, 9)
  <2> DEFINE then == <<"Transfer tokens">>
  <2>1. Beside(AssociatedTokenItems, AssociatedTokenItems, 3, 3)
    BY FewTitles, Zenon DEF AssociatedTokenItems
  <2>2. Beside(then, then, 1, 1)
    BY FewTitles, Zenon
  <2>3. Beside(AssociatedTokenItems \o then, AssociatedTokenItems \o then,
               4, 4)
    BY <1>4, <2>1, <2>2, BesideBoth, Zenon
  <2>4. Beside((AssociatedTokenItems \o then)
                    \o TokenTransferItems(second, FALSE),
               (AssociatedTokenItems \o then)
                    \o TokenTransferItems(second, TRUE), 9, 9)
    <3>1. 4 \in Nat /\ 5 \in Nat /\ 9 = 4 + 5
      OBVIOUS
    <3> HIDE DEF then
    <3> QED
      BY <2>3, <3>1, TransferTitles, BesideBoth, Zenon
  <2> QED
    BY <2>4, PrintedCompares, Zenon
<1>17. Compare(NotPrinted, NotPrinted, 9, 9)
  BY NothingCompares
<1> HIDE DEF first, second, r1, r2, r3, r7, r8, r9, r10, r11
<1>18. Compare(P(FALSE), P(TRUE), 9, 9)
  <2>1. CASE g1
    BY <1>1, <1>3, <1>8, <2>1, Zenon
  <2>2. CASE g2
    BY <1>1, <1>3, <1>9, <2>2, Zenon
  <2>3. CASE g3
    BY <1>1, <1>3, <1>10, <2>3, Zenon
  <2>4. CASE g4
    BY <1>1, <1>3, <2>4, AuthorizeBothCompares, Zenon
  <2>5. CASE g5
    BY <1>1, <1>3, <2>5, AuthorizeBothCompares, Zenon
  <2>6. CASE g6
    BY <1>1, <1>3, <1>11, <2>6, Zenon
  <2>7. CASE g7
    BY <1>1, <1>3, <1>12, <2>7, Zenon
  <2>8. CASE g8
    BY <1>1, <1>3, <1>13, <2>8, Zenon
  <2>9. CASE g9
    BY <1>1, <1>3, <1>14, <2>9, Zenon
  <2>10. CASE g10
    BY <1>1, <1>3, <1>15, <2>10, Zenon
  <2>11. CASE g11
    BY <1>1, <1>3, <1>16, <2>11, Zenon
  <2>12. CASE ~(g1 \/ g2 \/ g3 \/ g4 \/ g5 \/ g6 \/ g7 \/ g8 \/ g9 \/ g10
                \/ g11)
    BY <1>1, <1>17, <2>12, Zenon
  <2> QED
    BY <2>1, <2>2, <2>3, <2>4, <2>5, <2>6, <2>7, <2>8, <2>9, <2>10, <2>11,
       <2>12, Zenon
<1> QED
  BY <1>18 DEF P
LEMMA TripleCompares ==
    ASSUME NEW group
    PROVE  Compare(PrintTriple(group, FALSE), PrintTriple(group, TRUE), 9, 11)
<1> DEFINE kinds == <<group[1].kind, group[2].kind, group[3].kind>>
           P(x) == PrintTriple(group, x)
           g1 == kinds \in CreateKinds \X {"StakeInitialize"}
                           \X {"StakeDelegate"}
           g2 == kinds = <<"SystemAllocate", "SystemAssign", "StakeSplit">>
           g3 == kinds = <<"SystemTransfer", "SystemAllocateWithSeed",
                           "StakeSplit">>
           create(x) == CreateAccountItems(group[1], x)
           stake(x) == StakeInitializeItems(group[2], x)
           delegate(x) == StakeItems(group[3], x)
           r1(x) == Printed("Delegate from",
                            (create(x) \o stake(x)) \o delegate(x))
           r3(x) == Printed("Split stake", PrefundItems(x) \o
                            StakeSplitWithSeedItems(group[3], x))
<1>1. ASSUME NEW x
      PROVE  P(x) = CASE g1 -> r1(x)
                      [] g2 -> PrintSingle(group[3], x)
                      [] g3 -> r3(x)
                      [] OTHER -> NotPrinted
  BY Zenon DEF PrintTriple
<1>2. /\ g1 => group[3].kind = "StakeDelegate"
      /\ g2 => group[1].kind = "SystemAllocate"
                /\ group[3].kind = "StakeSplit"
      /\ g3 => group[1].kind = "SystemTransfer"
                /\ group[3].kind = "StakeSplit"
  OBVIOUS
<1> HIDE DEF P, g1, g2, g3
<1>3. /\ g1 => ~g2 /\ ~g3
      /\ g2 => ~g3
  BY <1>2, Zenon
<1>4. Compare(r1(FALSE), r1(TRUE), 9, 11) \/ ~g1
  <2> SUFFICES ASSUME g1 PROVE Compare(r1(FALSE), r1(TRUE), 9, 11)
    OBVIOUS
  <2>1. Beside(create(FALSE), create(TRUE), 2, 4)
    BY CreateAccountTitles
  <2>2. Beside(stake(FALSE), stake(TRUE), 5, 5)
    BY StakeInitializeTitles
  <2>3. Beside(delegate(FALSE), delegate(TRUE), 2, 2)
    BY <1>2, ThenAuthorized, Zenon
    DEF StakeItems, StakeInitializeKinds, StakeAuthorizeKinds, SetLockupKinds
  <2> HIDE DEF create, stake, delegate
  <2>4. Beside(create(FALSE) \o stake(FALSE), create(TRUE) \o stake(TRUE),
               7, 9)
    <3>1. 2 \in Nat /\ 4 \in Nat /\ 5 \in Nat /\ 7 = 2 + 5 /\ 9 = 4 + 5
      OBVIOUS
    <3> QED
      BY <2>1, <2>2, <3>1, BesideBoth, Zenon
  <2>5. Beside((create(FALSE) \o stake(FALSE)) \o delegate(FALSE),
               (create(TRUE) \o stake(TRUE)) \o delegate(TRUE), 9, 11)
    <3>1. 7 \in Nat /\ 9 \in Nat /\ 2 \in Nat /\ 9 = 7 + 2 /\ 11 = 9 + 2
      OBVIOUS
    <3> QED
      BY <2>3, <2>4, <3>1, BesideBoth, Zenon
  <2> QED
    BY <2>5, PrintedCompares, Zenon
<1>5. Compare(PrintSingle(group[3], FALSE), PrintSingle(group[3], TRUE),
              9, 11)
  <2>1. \A u, e : Compare(u, e, 5, 5) => Compare(u, e, 9, 11)
    BY CompareMore
  <2> QED
    BY <2>1, SingleCompares, Zenon
<1>6. Compare(r3(FALSE), r3(TRUE), 9, 11)
  <2>1. 0 \in Nat /\ 2 \in Nat /\ 3 \in Nat /\ 5 \in Nat /\ 3 = 0 + 3
        /\ 7 = 2 + 5
    OBVIOUS
  <2>2. Beside(PrefundItems(FALSE) \o StakeSplitWithSeedItems(group[3], FALSE),
               PrefundItems(TRUE) \o StakeSplitWithSeedItems(group[3], TRUE),
               3, 7)
    BY <2>1, PrefundTitles, SplitWithSeedTitles, BesideBoth, Zenon
  <2>3. \A u, e : Beside(u, e, 3, 7) => Beside(u, e, 9, 11)
    BY BesideMore
  <2> QED
    BY <2>2, <2>3, PrintedCompares, Zenon
<1>7. Compare(NotPrinted, NotPrinted, 9, 11)
  BY NothingCompares
<1> HIDE DEF r1, r3
<1>8. Compare(P(FALSE), P(TRUE), 9, 11)
  BY <1>1, <1>3, <1>4, <1>5, <1>6, <1>7, Zenon
<1> QED
  BY <1>8 DEF P

LEMMA QuadrupleCompares ==
    ASSUME NEW group
    PROVE  Compare(PrintQuadruple(group, FALSE), PrintQuadruple(group, TRUE),
                   9, 11)
<1> DEFINE four == <<group[1].kind, group[2].kind, group[3].kind,
                     group[4].kind>>
                    = <<"SystemTransfer", "SystemAllocate", "SystemAssign",
                        "StakeSplit">>
           r(x) == Printed("Split stake",
                           PrefundItems(x) \o StakeItems(group[4], x))
<1>1. ASSUME NEW x
      PROVE  PrintQuadruple(group, x) = IF four THEN r(x) ELSE NotPrinted
  BY Zenon DEF PrintQuadruple
<1> HIDE DEF r
<1>2. four => group[4].kind = "StakeSplit"
  OBVIOUS
<1> HIDE DEF four
<1> USE DEF r
<1>3. four => Compare(r(FALSE), r(TRUE), 9, 11)
  <2> SUFFICES ASSUME four PROVE Compare(r(FALSE), r(TRUE), 9, 11)
    OBVIOUS
  <2>1. Beside(StakeItems(group[4], FALSE), StakeItems(group[4], TRUE), 5, 5)
    BY <1>2, StakeTitles, Zenon DEF StakeKinds
  <2>2. 0 \in Nat /\ 2 \in Nat /\ 5 \in Nat /\ 5 = 0 + 5 /\ 7 = 2 + 5
    OBVIOUS
  <2>3. Beside(PrefundItems(FALSE) \o StakeItems(group[4], FALSE),
               PrefundItems(TRUE) \o StakeItems(group[4], TRUE), 5, 7)
    BY <2>1, <2>2, PrefundTitles, BesideBoth, Zenon
  <2>4. \A u, e : Beside(u, e, 5, 7) => Beside(u, e, 9, 11)
    BY BesideMore
  <2> QED
    BY <2>3, <2>4, PrintedCompares, Zenon
<1>4. Compare(NotPrinted, NotPrinted, 9, 11)
  BY NothingCompares
<1> HIDE DEF r
<1>5. CASE four
  <2>1. /\ PrintQuadruple(group, FALSE) = r(FALSE)
        /\ PrintQuadruple(group, TRUE) = r(TRUE)
    BY <1>1, <1>5, Zenon
  <2> QED
    BY <1>3, <1>5, <2>1, Zenon
<1>6. CASE ~four
  <2>1. /\ PrintQuadruple(group, FALSE) = NotPrinted
        /\ PrintQuadruple(group, TRUE) = NotPrinted
    BY <1>1, <1>6, Zenon
  <2> QED
    BY <1>4, <2>1, Zenon
<1> QED
  BY <1>5, <1>6

(* Any list of instructions is recognized in both modes or in none, has    *)
(* the same primary item, at most nine general items for users and eleven  *)
(* for experts, and experts see all that users see.                        *)
THEOREM ModesCompare ==
    ASSUME NEW group
    PROVE  Compare(PrintInstructions(group, FALSE),
                   PrintInstructions(group, TRUE), 9, 11)
<1> DEFINE P(x) == PrintInstructions(group, x)
<1>1. ASSUME NEW x
      PROVE  P(x) = CASE Len(group) = 1 -> PrintSingle(group[1], x)
                      [] Len(group) = 2 -> PrintPair(group, x)
                      [] Len(group) = 3 -> PrintTriple(group, x)
                      [] Len(group) = 4 -> PrintQuadruple(group, x)
                      [] OTHER -> NotPrinted
  BY Zenon DEF PrintInstructions
<1>2. \A u, e : /\ Compare(u, e, 5, 5) => Compare(u, e, 9, 11)
                /\ Compare(u, e, 9, 9) => Compare(u, e, 9, 11)
  BY CompareMore
<1>3. Compare(NotPrinted, NotPrinted, 9, 11)
  BY NothingCompares
<1>4. /\ 1 # 2 /\ 1 # 3 /\ 1 # 4 /\ 2 # 3 /\ 2 # 4 /\ 3 # 4
  OBVIOUS
<1> HIDE DEF P
<1>5. Compare(P(FALSE), P(TRUE), 9, 11)
  <2>1. CASE Len(group) = 1
    <3>1. P(FALSE) = PrintSingle(group[1], FALSE)
          /\ P(TRUE) = PrintSingle(group[1], TRUE)
      BY <1>1, <1>4, <2>1, Zenon
    <3> QED
      BY <1>2, <3>1, SingleCompares, Zenon
  <2>2. CASE Len(group) = 2
    <3>1. P(FALSE) = PrintPair(group, FALSE) /\ P(TRUE) = PrintPair(group, TRUE)
      BY <1>1, <1>4, <2>2, Zenon
    <3> QED
      BY <1>2, <3>1, PairCompares, Zenon
  <2>3. CASE Len(group) = 3
    <3>1. /\ P(FALSE) = PrintTriple(group, FALSE)
          /\ P(TRUE) = PrintTriple(group, TRUE)
      BY <1>1, <1>4, <2>3, Zenon
    <3> QED
      BY <3>1, TripleCompares, Zenon
  <2>4. CASE Len(group) = 4
    <3>1. /\ P(FALSE) = PrintQuadruple(group, FALSE)
          /\ P(TRUE) = PrintQuadruple(group, TRUE)
      BY <1>1, <1>4, <2>4, Zenon
    <3> QED
      BY <3>1, QuadrupleCompares, Zenon
  <2>5. CASE Len(group) \notin {1, 2, 3, 4}
    <3>1. P(FALSE) = NotPrinted /\ P(TRUE) = NotPrinted
      BY <1>1, <2>5
    <3> QED
      BY <1>3, <3>1, Zenon
  <2> QED
    BY <2>1, <2>2, <2>3, <2>4, <2>5, Zenon
<1> QED
  BY <1>5 DEF P

(* Experts see all that users see, of every transaction that gets so far.  *)
THEOREM ExpertsSeeMore == Spec => []ExpertSeesMore
<1>1. ExpertSeesMore
  BY ModesCompare, Zenon DEF ExpertSeesMore, Compare, Beside
<1> QED
  BY <1>1, PTL

-----------------------------------------------------------------------------
(* When the general slots do not suffice.                                  *)

(* The summary that is not the work of a printer, and the expert mode.     *)
RoomInv ==
    /\ expert \in BOOLEAN
    /\ pc = "handler" /\ result = 1 => \E g \in Fees : Bare(summary, g)
    /\ SlotsSuffice

LEMMA BareFields ==
    ASSUME NEW s, NEW g, Bare(s, g)
    PROVE  s.primary = "Unset" /\ s.general = g
BY DEF Bare

LEMMA RoomFor ==
    ASSUME NEW s, NEW new, NEW k \in Nat, NEW l \in Nat,
           Len(s.general \o new) = k + l
    PROVE  HasRoom(s, new) <=> k + l <= 11
BY DEF HasRoom, NUM_GENERAL_ITEMS

LEMMA FullSlots ==
    ASSUME NEW s, NEW g, Bare(s, g), NEW p,
           Len(s.general \o p.general) > 11
    PROVE  Write(s, p).general = SubSeq(s.general \o p.general, 1, 11)
BY DEF Write, WithGeneral, NUM_GENERAL_ITEMS, Bare

(* Items behind the maximum fee.                                           *)
LEMMA BehindFees ==
    ASSUME NEW s, NEW g \in Fees, Bare(s, g), NEW new, IsList(new)
    PROVE  /\ Len(s.general \o new) = Len(g) + Len(new)
           /\ Len(g) \in {0, 1} /\ Len(new) \in Nat
           /\ Len(g) = 1 => (s.general \o new)[1] = "Max fees"
<1>1. s.general = g
  BY DEF Bare
<1>2. IsList(g)
  BY FeesAreShort, Zenon DEF IsList
<1>3. /\ Len(new) \in Nat
      /\ Len(g \o new) = Len(g) + Len(new)
      /\ \A n \in 1..(Len(g) + Len(new)) :
            (g \o new)[n] = IF n <= Len(g) THEN g[n] ELSE new[n - Len(g)]
      /\ DOMAIN g = 1..Len(g)
  BY <1>2, ListsTogether, Zenon
<1>4. Len(g) \in {0, 1} /\ \A n \in DOMAIN g : g[n] = "Max fees"
  BY FeesAreShort, Zenon
<1>5. ASSUME Len(g) = 1 PROVE (g \o new)[1] = "Max fees"
  <2>1. 1 \in 1..(Len(g) + Len(new)) /\ 1 <= Len(g) /\ 1 \in DOMAIN g
    BY <1>3, <1>5
  <2>2. (g \o new)[1] = g[1]
    BY <1>3, <2>1
  <2> QED
    BY <1>4, <2>1, <2>2, Zenon
<1> QED
  BY <1>1, <1>3, <1>4, <1>5, Zenon

(* A blind signing branch that finds at most one item has its two slots.   *)
LEMMA BlindWritable ==
    ASSUME NEW s, NEW g \in Fees, Bare(s, g)
    PROVE  Writable(s, BlindItems)
<1> DEFINE hash == <<"Message Hash">>
<1>1. s.primary = "Unset"
  BY BareFields, Zenon
<1>2. IsList(hash) /\ Len(hash) = 1
  BY Tuples, Zenon
<1>3. BlindItems.general = hash
  BY Zenon DEF BlindItems, Printed
<1> HIDE DEF hash
<1>4. /\ Len(s.general \o hash) = Len(g) + Len(hash)
      /\ Len(g) \in {0, 1}
  BY <1>2, BehindFees, Zenon
<1>5. HasRoom(s, hash)
  <2>1. /\ 0 \in Nat /\ 1 \in Nat
        /\ 0 + 1 <= 11 /\ 1 + 1 <= 11
    OBVIOUS
  <2>2. CASE Len(g) = 0
    BY <1>2, <1>4, <2>1, <2>2, RoomFor, Zenon
  <2>3. CASE Len(g) = 1
    BY <1>2, <1>4, <2>1, <2>3, RoomFor, Zenon
  <2> QED
    BY <1>4, <2>2, <2>3, Zenon
<1> QED
  BY <1>1, <1>3, <1>5, Zenon DEF Writable

(* A printer that finds no slot is one for experts, behind the fee.        *)
LEMMA OnlyBehindTheFee ==
    ASSUME NEW s, NEW g \in Fees, Bare(s, g), NEW group, NEW x \in BOOLEAN,
           ~Writable(s, PrintInstructions(group, x))
    PROVE  /\ x
           /\ "Max fees" \in Titles(Write(s, PrintInstructions(group, x))
                                        .general)
<1> DEFINE P(m) == PrintInstructions(group, m)
           all == s.general \o P(x).general
<1>1. /\ IsList(P(FALSE).general) /\ Len(P(FALSE).general) <= 9
      /\ IsList(P(TRUE).general) /\ Len(P(TRUE).general) <= 11
  BY ModesCompare, Zenon DEF Compare, Beside
<1> HIDE DEF P
<1>2. s.primary = "Unset"
  BY BareFields, Zenon
<1>3. ~HasRoom(s, P(x).general)
  BY <1>2, Zenon DEF Writable, P
<1>4. IsList(P(x).general)
  BY <1>1
<1>5. /\ Len(all) = Len(g) + Len(P(x).general)
      /\ Len(g) \in {0, 1} /\ Len(P(x).general) \in Nat
  BY <1>4, BehindFees, Zenon
<1>6. Len(g) = 1 => all[1] = "Max fees"
  BY <1>4, BehindFees, Zenon
<1>7. Len(all) > 11 /\ x = TRUE /\ Len(g) = 1
  <2>1. Len(g) \in Nat
    BY <1>5
  <2>2. ~(Len(g) + Len(P(x).general) <= 11)
    BY <1>3, <1>5, <2>1, RoomFor
  <2> DEFINE k == Len(P(x).general)
  <2>3. (x = FALSE => k <= 9) /\ (x = TRUE => k <= 11)
    BY <1>1, Zenon
  <2>4. k \in Nat /\ Len(g) \in {0, 1} /\ ~(Len(g) + k <= 11)
        /\ Len(all) = Len(g) + k
    BY <1>5, <2>2, Zenon
  <2> HIDE DEF k, all
  <2>5. \A a \in {0, 1}, b \in Nat :
            ~(a + b <= 11) =>
                ~(b <= 9) /\ (b <= 11 => a = 1) /\ a + b > 11
    OBVIOUS
  <2>6. ~(k <= 9) /\ (k <= 11 => Len(g) = 1) /\ Len(all) > 11
    BY <2>4, <2>5, Zenon
  <2>7. x = TRUE
    BY <2>3, <2>6, Zenon
  <2> QED
    BY <2>3, <2>6, <2>7, Zenon
<1>8. Write(s, P(x)).general = SubSeq(all, 1, 11)
  BY <1>7, FullSlots
<1>9. IsList(all)
  <2>1. IsList(s.general)
    BY FeesAreShort, BareFields, Zenon DEF IsList
  <2> QED
    BY <1>4, <2>1, ListsTogether, Zenon
<1>10. "Max fees" \in Titles(SubSeq(all, 1, 11))
  <2> HIDE DEF all
  <2>1. PICK S : all \in Seq(S)
    BY <1>9 DEF IsList
  <2>2. SubSeq(all, 1, 11) \in Seq(S) /\ SubSeq(all, 1, 11)[1] = all[1]
        /\ Len(SubSeq(all, 1, 11)) = 11
    BY <1>7, <2>1, SubSeqProperties
  <2>3. 1 \in DOMAIN SubSeq(all, 1, 11)
    BY <2>2
  <2> QED
    BY <1>6, <1>7, <2>2, <2>3, Zenon DEF Titles
<1> QED
  BY <1>7, <1>8, <1>10, Zenon DEF P

(* The general slots suffice for every list of instructions, but in expert *)
(* mode behind the maximum fee, and there the transaction is recognized.   *)
THEOREM SlotsAreEnough == Spec => []SlotsSuffice
<1>1. Init => RoomInv
  BY DEF Init, RoomInv, SlotsSuffice
<1>2. SlotsInv /\ RoomInv /\ [Next]_vars => RoomInv'
  <2> SUFFICES ASSUME SlotsInv, RoomInv, [Next]_vars
               PROVE  RoomInv'
    OBVIOUS
  <2>1. ASSUME Fail, pc = "instructions", expert' = expert PROVE RoomInv'
    <3>1. Bare(summary', <<>>) /\ <<>> \in Fees
      BY <2>1 DEF Fail, SlotsInv, Fees
    <3> QED
      BY <2>1, <3>1 DEF Fail, RoomInv, SlotsSuffice
  <2>2. ASSUME NEW n \in Lengths, NEW x \in BOOLEAN, Begin(n, x)
        PROVE  RoomInv'
    <3>1. Bare(summary', <<>>) /\ <<>> \in Fees
      BY <2>2 DEF Begin, ResetSummary, EmptySummary, Bare, Fees
    <3>2. pc' # "fault" /\ expert' \in BOOLEAN
      BY <2>2 DEF Begin
    <3> QED
      BY <3>1, <3>2 DEF RoomInv, SlotsSuffice
  <2>3. CASE MalformedInstruction
    BY <2>1, <2>3 DEF MalformedInstruction, message
  <2>4. ASSUME NEW wellFormed \in BOOLEAN, EndOfBody(wellFormed)
        PROVE  RoomInv'
    <3>1. CASE wellFormed /\ Understood
      <4>1. pc' = "nonce" /\ expert' = expert
        BY <2>4, <3>1 DEF EndOfBody, message
      <4> QED
        BY <4>1 DEF RoomInv, SlotsSuffice
    <3>2. CASE ~(wellFormed /\ Understood)
      BY <2>1, <2>4, <3>2 DEF EndOfBody, message
    <3> QED
      BY <3>1, <3>2
  <2>5. CASE PrintTransaction
    <3> DEFINE p == PrintInstructions(list, expert)
    <3>1. PICK g \in Fees : Bare(summary, g)
      BY <2>5 DEF PrintTransaction, SlotsInv
    <3>2. /\ pc' = IF Writable(summary, p) THEN "handler" ELSE "fault"
          /\ result' = IF p.printed THEN 0 ELSE 1
          /\ summary' = Write(summary, p)
          /\ expert' = expert
      BY <2>5 DEF PrintTransaction, message
    <3>3. Outcome(p)
      BY PrinterOutcome
    <3>4. ~Writable(summary, p) =>
            expert /\ "Max fees" \in Titles(Write(summary, p).general)
      BY <3>1, OnlyBehindTheFee DEF RoomInv
    <3> HIDE DEF p
    <3>5. CASE p = NotPrinted
      <4>1. Bare(summary', g)
        BY <3>1, <3>2, <3>5, NothingWritten
      <4>2. Writable(summary, p)
        <5>1. p.general = <<>> /\ p.primary = "Unset"
          BY <3>5 DEF NotPrinted
        <5>2. summary.general = g
          BY <3>1 DEF Bare
        <5>3. g \o <<>> = g /\ Len(g) \in {0, 1}
          BY FeesAreShort, ConcatEmptySeq
        <5>4. HasRoom(summary, <<>>)
          BY <5>2, <5>3 DEF HasRoom, NUM_GENERAL_ITEMS
        <5> QED
          BY <5>1, <5>4, Zenon DEF Writable
      <4> QED
        BY <3>1, <3>2, <4>1, <4>2 DEF RoomInv, SlotsSuffice
    <3>6. CASE p.printed = TRUE /\ p.primary # "Unset"
      <4>1. result' = 0
        BY <3>2, <3>6
      <4>2. pc' = "fault" =>
                expert' /\ "Max fees" \in Titles(summary'.general)
        BY <3>2, <3>4, Zenon
      <4>3. SlotsSuffice'
        BY <4>1, <4>2, Zenon DEF SlotsSuffice, Titles
      <4> QED
        BY <3>2, <4>1, <4>3 DEF RoomInv
    <3> QED
      BY <3>3, <3>5, <3>6 DEF Outcome
  <2>6. CASE BlindSign
    <3>1. PICK g \in Fees : Bare(summary, g)
      BY <2>6 DEF BlindSign, RoomInv
    <3>2. Writable(summary, BlindItems)
      BY <3>1, BlindWritable
    <3>3. pc' = "feePayer" /\ expert' = expert
      BY <2>6, <3>2 DEF BlindSign, message
    <3> QED
      BY <3>3 DEF RoomInv, SlotsSuffice
  <2>7. CASE ParseInstruction \/ PrintNonce \/ PrintComputeBudget
             \/ RefuseBlindSign \/ Processed
             \/ (\E other \in BOOLEAN : SetFeePayer(other)) \/ Finalize
    <3>1. /\ pc' \in {"instructions", "budget", "print", "idle", "feePayer",
                      "finalize"}
          /\ expert' = expert
      BY <2>7 DEF ParseInstruction, PrintNonce, PrintComputeBudget,
                  RefuseBlindSign, Processed, SetFeePayer, Finalize, message
    <3> QED
      BY <3>1 DEF RoomInv, SlotsSuffice
  <2>8. CASE UNCHANGED vars
    BY <2>8 DEF vars, message, RoomInv, SlotsSuffice, Bare, Titles
  <2> QED
    BY <2>2, <2>3, <2>4, <2>5, <2>6, <2>7, <2>8 DEF Next
<1>3. RoomInv => SlotsSuffice
  BY DEF RoomInv
<1> QED
  BY <1>1, <1>2, <1>3, SlotsInvariant, PTL DEF Spec
=============================================================================
