------------------------- MODULE SummaryReviewProof -------------------------
(***************************************************************************)
(* Theorems about what the summary of a message shows, for any numbers of  *)
(* instructions and any instructions: the list the printers work on, the   *)
(* compute budget and the nonce in front of it, the authorities.           *)
(***************************************************************************)
EXTENDS SummaryProof

-----------------------------------------------------------------------------
(* The end of a list.                                                      *)

IsEnd(l, s) ==
    /\ Len(l) <= Len(s)
    /\ l = SubSeq(s, Len(s) - Len(l) + 1, Len(s))

(* What is left of a list behind its first k elements.                     *)
LEMMA Behind ==
    ASSUME NEW S, NEW s \in Seq(S), NEW k \in 0..Len(s)
    PROVE  LET e == SubSeq(s, k + 1, Len(s))
           IN  /\ e \in Seq(S)
               /\ Len(e) = Len(s) - k
               /\ \A n \in 1..(Len(s) - k) : e[n] = s[n + k]
<1>1. Len(s) \in Nat /\ \A n \in 1..Len(s) : s[n] \in S
  OBVIOUS
<1>2. /\ k + 1 \in Int /\ Len(s) \in Int
      /\ \A n \in (k + 1)..Len(s) : s[n] \in S
  BY <1>1
<1> DEFINE e == SubSeq(s, k + 1, Len(s))
<1>3. /\ e \in Seq(S)
      /\ Len(e) = IF k + 1 <= Len(s) THEN Len(s) - (k + 1) + 1 ELSE 0
      /\ \A n \in 1..(Len(s) - (k + 1) + 1) : e[n] = s[(k + 1) + n - 1]
  BY <1>2, SubSeqProperties
<1> HIDE DEF e
<1>4. Len(e) = Len(s) - k
  BY <1>1, <1>3
<1>5. \A n \in 1..(Len(s) - k) : e[n] = s[n + k]
  BY <1>1, <1>3
<1> QED
  BY <1>3, <1>4, <1>5 DEF e

(* The end of a list is what is left of it behind its front.               *)
LEMMA EndElements ==
    ASSUME NEW S, NEW s \in Seq(S), NEW l, IsEnd(l, s), Len(l) \in Nat
    PROVE  /\ l \in Seq(S)
           /\ \A n \in 1..Len(l) : l[n] = s[n + (Len(s) - Len(l))]
<1> DEFINE k == Len(s) - Len(l)
<1>1. k \in 0..Len(s) /\ Len(s) - k = Len(l)
  BY DEF IsEnd
<1>2. l = SubSeq(s, k + 1, Len(s))
  BY DEF IsEnd
<1> HIDE DEF k
<1>3. l \in Seq(S) /\ \A n \in 1..(Len(s) - k) : l[n] = s[n + k]
  BY <1>1, <1>2, Behind
<1> QED
  BY <1>1, <1>3 DEF k

(* The end of the end of a list is its end.                                *)
LEMMA EndOfEnd ==
    ASSUME NEW S, NEW s \in Seq(S), NEW l \in Seq(S), IsEnd(l, s),
           NEW k \in 0..Len(l)
    PROVE  IsEnd(SubSeq(l, k + 1, Len(l)), s)
<1> DEFINE e == SubSeq(l, k + 1, Len(l))
           j == Len(s) - Len(l) + k
           d == SubSeq(s, j + 1, Len(s))
<1>1. /\ e \in Seq(S)
      /\ Len(e) = Len(l) - k
      /\ \A n \in 1..(Len(l) - k) : e[n] = l[n + k]
  BY Behind
<1>2. Len(s) \in Nat /\ Len(l) \in Nat /\ Len(l) <= Len(s)
  BY DEF IsEnd
<1>3. j \in 0..Len(s)
  BY <1>2
<1>4. /\ d \in Seq(S)
      /\ Len(d) = Len(s) - j
      /\ \A n \in 1..(Len(s) - j) : d[n] = s[n + j]
  BY <1>3, Behind
<1>5. \A n \in 1..Len(l) : l[n] = s[n + (Len(s) - Len(l))]
  BY <1>2, EndElements
<1>6. Len(e) = Len(d)
  BY <1>1, <1>2, <1>4
<1>7. ASSUME NEW n \in 1..Len(e) PROVE e[n] = d[n]
  <2>1. /\ n \in 1..(Len(l) - k) /\ n + k \in 1..Len(l)
        /\ n \in 1..(Len(s) - j) /\ (n + k) + (Len(s) - Len(l)) = n + j
    BY <1>1, <1>2, <1>7
  <2> QED
    BY <1>1, <1>4, <1>5, <2>1
<1>8. e = d
  BY <1>1, <1>4, <1>6, <1>7, SeqEqual
<1>9. /\ Len(e) <= Len(s)
      /\ d = SubSeq(s, Len(s) - Len(e) + 1, Len(s))
  <2>1. j = Len(s) - Len(e) /\ Len(e) <= Len(s)
    <3> HIDE DEF e
    <3> QED
      BY <1>1, <1>2
  <2> HIDE DEF e, j
  <2> QED
    BY <2>1
<1> HIDE DEF e, d
<1> QED
  BY <1>8, <1>9 DEF IsEnd, e

(* The whole list and the empty one are ends of a list.                    *)
LEMMA TrivialEnds ==
    ASSUME NEW S, NEW s \in Seq(S)
    PROVE  IsEnd(s, s) /\ IsEnd(<<>>, s)
<1>1. Len(s) \in Nat /\ Len(<<>>) = 0 /\ Len(s) - Len(s) + 1 = 1
      /\ Len(s) - 0 + 1 > Len(s)
  OBVIOUS
<1>2. SubSeq(s, 1, Len(s)) = s
  BY SubSeqFull
<1>3. SubSeq(s, Len(s) - 0 + 1, Len(s)) = <<>>
  BY <1>1, SubSeqEmpty
<1> QED
  BY <1>1, <1>2, <1>3 DEF IsEnd

-----------------------------------------------------------------------------
(* The compute budget instructions in front of the list.                   *)

(* The loop over them is bounded by the number of instructions there are.  *)
LEMMA BudgetFront ==
    ASSUME Len(list) \in 0..MAX_INSTRUCTIONS
    PROVE  /\ BudgetLength \in 0..Len(list)
           /\ \A n \in 1..BudgetLength : list[n].kind \in ComputeBudgetKinds
           /\ Len(list) <= 1 => BudgetLength = 0
<1> DEFINE budget(n) == list[n].kind \in ComputeBudgetKinds
           AllBudget(k) == /\ \A n \in 1..k : budget(n)
                           /\ k = Len(list) \/ ~budget(k + 1)
<1>1. CASE Len(list) <= 1
  BY <1>1 DEF BudgetLength
<1>2. CASE ~(Len(list) <= 1)
  <2>1. BudgetLength = CHOOSE k \in 0..Len(list) : AllBudget(k)
    BY <1>2 DEF BudgetLength
  <2>2. Len(list) \in 2..4
    BY <1>2 DEF MAX_INSTRUCTIONS
  <2> HIDE DEF budget
  <2>3. \E k \in 0..Len(list) : AllBudget(k)
    <3>1. CASE ~budget(1)
      <4>1. 0 \in 0..Len(list) /\ AllBudget(0)
        BY <2>2, <3>1
      <4> QED
        BY <4>1
    <3>2. CASE budget(1) /\ ~budget(2)
      <4>1. 1 \in 0..Len(list) /\ AllBudget(1)
        BY <2>2, <3>2
      <4> QED
        BY <4>1
    <3>3. CASE budget(1) /\ budget(2) /\ (Len(list) = 2 \/ ~budget(3))
      <4>1. 2 \in 0..Len(list) /\ AllBudget(2)
        BY <2>2, <3>3
      <4> QED
        BY <4>1
    <3>4. CASE /\ budget(1) /\ budget(2) /\ budget(3) /\ Len(list) # 2
               /\ Len(list) = 3 \/ ~budget(4)
      <4>1. 3 \in 0..Len(list) /\ AllBudget(3)
        BY <2>2, <3>4
      <4> QED
        BY <4>1
    <3>5. CASE /\ budget(1) /\ budget(2) /\ budget(3) /\ budget(4)
               /\ Len(list) # 2 /\ Len(list) # 3
      <4>1. 4 \in 0..Len(list) /\ AllBudget(4)
        BY <2>2, <3>5
      <4> QED
        BY <4>1
    <3> QED
      BY <3>1, <3>2, <3>3, <3>4, <3>5
  <2>4. BudgetLength \in 0..Len(list) /\ AllBudget(BudgetLength)
    BY <2>1, <2>3
  <2> QED
    BY <1>2, <2>4 DEF budget
<1> QED
  BY <1>1, <1>2

(* Of a few positions one is the last.                                     *)
LEMMA Largest ==
    ASSUME NEW found \in SUBSET (1..MAX_INSTRUCTIONS), found # {}
    PROVE  \E n \in found : \A m \in found : m <= n
<1>1. \A n \in found : n \in {1, 2, 3, 4}
  BY DEF MAX_INSTRUCTIONS
<1>2. CASE 4 \in found
  BY <1>1, <1>2
<1>3. CASE 4 \notin found /\ 3 \in found
  BY <1>1, <1>3
<1>4. CASE 4 \notin found /\ 3 \notin found /\ 2 \in found
  BY <1>1, <1>4
<1>5. CASE 4 \notin found /\ 3 \notin found /\ 2 \notin found
  <2>1. \A m \in found : m = 1
    BY <1>1, <1>5
  <2>2. 1 \in found
    BY <2>1
  <2> QED
    BY <2>1, <2>2
<1> QED
  BY <1>2, <1>3, <1>4, <1>5

(* Where the pointer to the last instruction of a kind points.             *)
LEMMA LastBudgetPosition ==
    ASSUME NEW kind, Len(list) \in 0..MAX_INSTRUCTIONS
    PROVE  \/ /\ LastBudget(kind) = 0
              /\ \A n \in 1..BudgetLength : list[n].kind # kind
           \/ \E n \in 1..BudgetLength :
                /\ LastBudget(kind) = n + Len(infos) - Len(list)
                /\ list[n].kind = kind
                /\ \A m \in 1..BudgetLength : list[m].kind = kind => m <= n
<1> DEFINE found == {n \in 1..BudgetLength : list[n].kind = kind}
           last == CHOOSE n \in found : \A m \in found : m <= n
<1>1. LastBudget(kind) = IF found = {} THEN 0
                         ELSE last + Len(infos) - Len(list)
  BY DEF LastBudget
<1>2. CASE found = {}
  BY <1>1, <1>2
<1>3. CASE found # {}
  <2>1. found \subseteq 1..MAX_INSTRUCTIONS
    <3>1. BudgetLength \in 0..Len(list) /\ Len(list) \in 0..4
      BY BudgetFront DEF MAX_INSTRUCTIONS
    <3>2. \A a, b : a \in 0..b /\ b \in 0..4 => 1..a \subseteq 1..4
      OBVIOUS
    <3>3. 1..BudgetLength \subseteq 1..4
      BY <3>1, <3>2, Zenon
    <3> QED
      BY <3>3 DEF MAX_INSTRUCTIONS
  <2>2. \E n \in found : \A m \in found : m <= n
    BY <1>3, <2>1, Largest
  <2>3. last \in found /\ \A m \in found : m <= last
    BY <2>2
  <2> QED
    BY <1>1, <1>3, <2>3
<1> QED
  BY <1>2, <1>3

-----------------------------------------------------------------------------
(* The type invariant: the lists, and the summary of each phase.           *)

(* A summary whose slots are no more than there are.                       *)
Shaped(s) ==
    \E p, g, n, f :
        /\ s = [primary |-> p, general |-> g, nonce |-> n, feePayer |-> f]
        /\ IsList(g) /\ Len(g) <= NUM_GENERAL_ITEMS
        /\ IsList(n) /\ Len(n) <= 2
        /\ IsList(f) /\ Len(f) <= 1

(* The instructions of a message: parsed one after the other, then an end  *)
(* of the list is printed.                                                 *)
ListInv ==
    /\ pc \in Phases
    /\ expert \in BOOLEAN
    /\ length \in Lengths \cup {0}
    /\ count \in 0..MAX_INSTRUCTIONS
    /\ infos \in Seq(InstructionInfo) /\ Len(infos) <= count
    /\ list \in Seq(InstructionInfo) /\ IsEnd(list, infos)
    /\ pc = "instructions" =>
            /\ length \in Lengths \cap (1..MAX_INSTRUCTIONS)
            /\ count <= length
            /\ list = <<>>
    /\ pc = "nonce" => list = infos
    /\ pc \in {"instructions", "nonce", "budget"} => fee = NoFee
    /\ fee \in [limit : 0..Len(infos), price : 0..Len(infos)]
    /\ result \in {0, 1}

SlotsTyped ==
    /\ Shaped(summary)
    /\ Len(items) <= NUM_GENERAL_ITEMS + 4

(* A message of as many instructions as there is room for.                 *)
LEMMA ListIsShort ==
    ASSUME ListInv
    PROVE  /\ Len(infos) \in 0..MAX_INSTRUCTIONS
           /\ Len(list) \in 0..MAX_INSTRUCTIONS
           /\ Len(list) <= Len(infos)
<1>1. Len(infos) \in Nat /\ Len(list) \in Nat /\ count \in 0..4
      /\ Len(infos) <= count /\ Len(list) <= Len(infos)
  <2>1. /\ infos \in Seq(InstructionInfo) /\ list \in Seq(InstructionInfo)
        /\ count \in 0..4 /\ Len(infos) <= count
    BY DEF ListInv, MAX_INSTRUCTIONS
  <2>2. Len(infos) \in Nat /\ Len(list) \in Nat
    BY <2>1
  <2>3. Len(list) <= Len(infos)
    BY DEF ListInv, IsEnd
  <2> QED
    BY <2>1, <2>2, <2>3
<1>2. \A a, b \in Nat, c \in 0..4 : a <= c /\ b <= a => a \in 0..4 /\ b \in 0..4
  OBVIOUS
<1> QED
  BY <1>1, <1>2, Zenon DEF MAX_INSTRUCTIONS

LEMMA ListInitially == Init => ListInv
<1> SUFFICES ASSUME Init PROVE ListInv
  OBVIOUS
<1>1. <<>> \in Seq(InstructionInfo) /\ Len(<<>>) = 0
  OBVIOUS
<1>2. IsEnd(<<>>, <<>>)
  BY <1>1, TrivialEnds
<1>3. NoFee \in [limit : 0..0, price : 0..0]
  <2>1. 0 \in 0..0
    OBVIOUS
  <2> QED
    BY <2>1 DEF NoFee
<1>4. /\ infos = <<>> /\ list = <<>> /\ fee = NoFee /\ pc = "idle"
      /\ expert = FALSE /\ length = 0 /\ count = 0 /\ result = 0
  BY DEF Init
<1>5. /\ pc \in Phases /\ expert \in BOOLEAN /\ length \in Lengths \cup {0}
      /\ count \in 0..MAX_INSTRUCTIONS /\ result \in {0, 1}
  <2>1. 0 \in 0..MAX_INSTRUCTIONS
    BY DEF MAX_INSTRUCTIONS
  <2> QED
    BY <1>4, <2>1, Zenon DEF Phases
<1>6. /\ infos \in Seq(InstructionInfo) /\ Len(infos) <= count
      /\ list \in Seq(InstructionInfo) /\ IsEnd(list, infos)
      /\ fee \in [limit : 0..Len(infos), price : 0..Len(infos)]
  <2>1. 0 <= 0
    OBVIOUS
  <2> QED
    BY <1>1, <1>2, <1>3, <1>4, <2>1, Zenon
<1>7. pc \notin {"instructions", "nonce", "budget"}
  BY <1>4
<1> QED
  BY <1>4, <1>5, <1>6, <1>7 DEF ListInv

(* One step of the phases that parse.                                      *)
LEMMA ListParsed ==
    ASSUME ListInv, ParseInstruction
    PROVE  ListInv'
<1>1. /\ pc = "instructions" /\ pc' = pc /\ count < length
      /\ count' = count + 1 /\ length' = length
      /\ list' = list /\ fee' = fee /\ expert' = expert /\ result' = result
  BY DEF ParseInstruction
<1>2. /\ length \in Lengths /\ length \in 1..MAX_INSTRUCTIONS
      /\ count \in 0..MAX_INSTRUCTIONS /\ list = <<>> /\ fee = NoFee
  BY <1>1 DEF ListInv
<1>3. PICK i \in Infos[length] :
        infos' = IF i.kind \in IgnoredKinds THEN infos ELSE Append(infos, i)
  BY DEF ParseInstruction
<1>4. i \in InstructionInfo
  BY <1>2, <1>3, SummaryAssumption
<1>5. /\ infos' \in Seq(InstructionInfo)
      /\ Len(infos') \in {Len(infos), Len(infos) + 1}
      /\ Len(infos) \in Nat /\ Len(infos) <= count
  BY <1>3, <1>4, AppendProperties DEF ListInv
<1>6. Len(infos') <= count' /\ count' \in 0..MAX_INSTRUCTIONS
      /\ count' <= length'
  BY <1>1, <1>2, <1>5 DEF MAX_INSTRUCTIONS
<1>7. list' \in Seq(InstructionInfo) /\ IsEnd(list', infos')
  BY <1>1, <1>2, <1>5, TrivialEnds
<1>8. fee' \in [limit : 0..Len(infos'), price : 0..Len(infos')]
  <2>1. Len(infos') \in Nat
    BY <1>5
  <2> QED
    BY <1>1, <1>2, <2>1 DEF NoFee
<1> QED
  BY <1>1, <1>2, <1>5, <1>6, <1>7, <1>8 DEF ListInv

LEMMA ListNonced ==
    ASSUME ListInv, PrintNonce
    PROVE  /\ ListInv'
           /\ Len(infos) - Len(list') = IF IsNonced THEN 1 ELSE 0
<1>1. /\ pc' = "budget" /\ list = infos /\ infos' = infos /\ fee' = fee
      /\ fee = NoFee /\ result' = result /\ count' = count
      /\ length' = length /\ expert' = expert
      /\ list' = IF IsNonced THEN Tail(infos) ELSE infos
  BY DEF PrintNonce, ListInv, message
<1>2. infos \in Seq(InstructionInfo) /\ Len(infos) \in Nat
  BY DEF ListInv
<1>3. /\ list' \in Seq(InstructionInfo) /\ IsEnd(list', infos)
      /\ Len(infos) - Len(list') = IF IsNonced THEN 1 ELSE 0
  <2>1. CASE IsNonced
    <3>1. Len(infos) > 1 /\ 1 \in 0..Len(infos) /\ infos # <<>>
      BY <1>2, <2>1 DEF IsNonced
    <3>2. list' = SubSeq(infos, 1 + 1, Len(infos))
      BY <1>1, <1>2, <2>1, <3>1, TailIsSubSeq
    <3>3. list' \in Seq(InstructionInfo) /\ Len(list') = Len(infos) - 1
      BY <1>2, <3>1, <3>2, Behind
    <3>4. IsEnd(list', infos)
      BY <1>2, <3>1, <3>2, TrivialEnds, EndOfEnd
    <3> QED
      BY <1>2, <2>1, <3>3, <3>4
  <2>2. CASE ~IsNonced
    BY <1>1, <1>2, <2>2, TrivialEnds
  <2> QED
    BY <2>1, <2>2
<1>4. pc' \in Phases
  BY <1>1 DEF Phases
<1> QED
  BY <1>1, <1>2, <1>3, <1>4 DEF ListInv

(* The positions the pointers point at are positions of the list.          *)
LEMMA FeePositions ==
    ASSUME ListInv, NEW kind
    PROVE  LastBudget(kind) \in 0..Len(infos)
<1>1. /\ Len(infos) \in 0..MAX_INSTRUCTIONS
      /\ Len(list) \in 0..MAX_INSTRUCTIONS
      /\ Len(list) <= Len(infos)
  BY ListIsShort
<1>2. BudgetLength \in 0..Len(list)
  BY <1>1, BudgetFront
<1>3. \A a, b \in 0..4 : \A k \in 0..b : \A n \in 1..k :
        b <= a => n + a - b \in 0..a
  OBVIOUS
<1>4. CASE LastBudget(kind) = 0
  BY <1>1, <1>4 DEF MAX_INSTRUCTIONS
<1>5. CASE \E n \in 1..BudgetLength :
                LastBudget(kind) = n + Len(infos) - Len(list)
  BY <1>1, <1>2, <1>3, <1>5, Zenon DEF MAX_INSTRUCTIONS
<1> QED
  BY <1>1, <1>4, <1>5, LastBudgetPosition, Zenon

LEMMA ListBudgeted ==
    ASSUME ListInv, PrintComputeBudget
    PROVE  ListInv'
<1>1. /\ pc = "budget" /\ pc' = "print" /\ expert' = expert
      /\ list' = SubSeq(list, BudgetLength + 1, Len(list))
      /\ fee' = [limit |-> LastBudget("ChangeUnitLimit"),
                 price |-> LastBudget("ChangeUnitPrice")]
      /\ length' = length /\ count' = count /\ infos' = infos
      /\ result' = result
  BY DEF PrintComputeBudget, message
<1>2. /\ infos \in Seq(InstructionInfo) /\ list \in Seq(InstructionInfo)
      /\ IsEnd(list, infos)
  BY DEF ListInv
<1>3. BudgetLength \in 0..Len(list)
  BY ListIsShort, BudgetFront
<1>4. list' \in Seq(InstructionInfo) /\ IsEnd(list', infos')
  BY <1>1, <1>2, <1>3, Behind, EndOfEnd
<1>5. fee' \in [limit : 0..Len(infos'), price : 0..Len(infos')]
  BY <1>1, FeePositions
<1>6. pc' \in Phases
  BY <1>1 DEF Phases
<1> QED
  BY <1>1, <1>2, <1>4, <1>5, <1>6 DEF ListInv

(* The other phases leave the lists alone.                                 *)
LEMMA ListKept ==
    ASSUME ListInv, UNCHANGED <<message, list, fee>>,
           pc' \in Phases \ {"instructions", "nonce", "budget"},
           result' \in {0, 1}
    PROVE  ListInv'
BY DEF ListInv, message

LEMMA ListInvariant == Spec => []ListInv
<1>1. ListInv /\ [Next]_vars => ListInv'
  <2> SUFFICES ASSUME ListInv, [Next]_vars
               PROVE  ListInv'
    OBVIOUS
  <2>1. ASSUME Fail, UNCHANGED message PROVE ListInv'
    <3>1. /\ pc' \in Phases \ {"instructions", "nonce", "budget"}
          /\ result' \in {0, 1}
      BY <2>1 DEF Fail, Phases
    <3> QED
      BY <2>1, <3>1, ListKept DEF Fail
  <2>2. ASSUME NEW n \in Lengths, NEW x \in BOOLEAN, Begin(n, x)
        PROVE  ListInv'
    <3>1. /\ expert' = x /\ length' = n /\ count' = 0 /\ infos' = <<>>
          /\ list' = <<>> /\ fee' = NoFee
          /\ \/ n \in 1..MAX_INSTRUCTIONS /\ pc' = "instructions" /\ result' = 0
             \/ pc' = "handler" /\ result' = 1
      BY <2>2 DEF Begin
    <3>2. /\ infos' \in Seq(InstructionInfo)
          /\ list' \in Seq(InstructionInfo) /\ IsEnd(list', infos')
      <4>1. <<>> \in Seq(InstructionInfo)
        OBVIOUS
      <4>2. IsEnd(<<>>, <<>>)
        BY <4>1, TrivialEnds
      <4> QED
        BY <3>1, <4>1, <4>2, Zenon
    <3>3. Len(infos') = 0 /\ 0 \in 0..0 /\ 0 \in 0..MAX_INSTRUCTIONS
      BY <3>1 DEF MAX_INSTRUCTIONS
    <3>4. fee' \in [limit : 0..Len(infos'), price : 0..Len(infos')]
      BY <3>1, <3>3 DEF NoFee
    <3>5. Len(infos') <= count'
      BY <3>1, <3>3
    <3>6. pc' \in Phases \ {"nonce", "budget"} /\ result' \in {0, 1}
      BY <3>1 DEF Phases
    <3>7. pc' = "instructions" =>
            /\ length' \in Lengths \cap (1..MAX_INSTRUCTIONS)
            /\ count' <= length'
            /\ list' = <<>>
      BY <3>1
    <3> QED
      BY <3>1, <3>2, <3>3, <3>4, <3>5, <3>6, <3>7 DEF ListInv
  <2>3. CASE MalformedInstruction
    BY <2>1, <2>3 DEF MalformedInstruction
  <2>4. CASE ParseInstruction
    BY <2>4, ListParsed
  <2>5. ASSUME NEW wellFormed \in BOOLEAN, EndOfBody(wellFormed)
        PROVE  ListInv'
    <3>1. CASE wellFormed /\ Understood
      <4>1. /\ pc = "instructions" /\ pc' = "nonce" /\ list' = infos
            /\ fee' = fee /\ result' = result /\ UNCHANGED message
        BY <2>5, <3>1 DEF EndOfBody
      <4>2. IsEnd(infos, infos)
        BY TrivialEnds DEF ListInv
      <4>3. pc' \in Phases
        BY <4>1 DEF Phases
      <4> QED
        BY <4>1, <4>2, <4>3 DEF ListInv, message
    <3>2. CASE ~(wellFormed /\ Understood)
      BY <2>1, <2>5, <3>2 DEF EndOfBody
    <3> QED
      BY <3>1, <3>2
  <2>6. CASE PrintNonce
    BY <2>6, ListNonced
  <2>7. CASE PrintComputeBudget
    BY <2>7, ListBudgeted
  <2>8. CASE PrintTransaction \/ BlindSign \/ RefuseBlindSign \/ Processed
             \/ (\E other \in BOOLEAN : SetFeePayer(other)) \/ Finalize
    <3>1. /\ pc' \in {"handler", "fault", "feePayer", "idle", "finalize"}
          /\ result' \in {0, 1, result}
          /\ UNCHANGED <<message, list, fee>>
      BY <2>8 DEF PrintTransaction, BlindSign, RefuseBlindSign, Processed,
                  SetFeePayer, Finalize
    <3>2. /\ pc' \in Phases \ {"instructions", "nonce", "budget"}
          /\ result' \in {0, 1}
      BY <3>1 DEF Phases, ListInv
    <3> QED
      BY <3>1, <3>2, ListKept
  <2>9. CASE UNCHANGED vars
    BY <2>9 DEF vars, message, ListInv
  <2> QED
    BY <2>2, <2>3, <2>4, <2>5, <2>6, <2>7, <2>8, <2>9 DEF Next
<1> QED
  BY <1>1, ListInitially, PTL DEF Spec

-----------------------------------------------------------------------------
(* The slots.                                                              *)

LEMMA ShapedFields ==
    ASSUME NEW s, Shaped(s)
    PROVE  /\ IsList(s.general) /\ Len(s.general) <= NUM_GENERAL_ITEMS
           /\ IsList(s.nonce) /\ Len(s.nonce) <= 2
           /\ IsList(s.feePayer) /\ Len(s.feePayer) <= 1
BY DEF Shaped

LEMMA ShapedRecord ==
    ASSUME NEW p, NEW g, NEW n, NEW f,
           IsList(g), Len(g) <= NUM_GENERAL_ITEMS,
           IsList(n), Len(n) <= 2, IsList(f), Len(f) <= 1
    PROVE  Shaped([primary |-> p, general |-> g, nonce |-> n,
                   feePayer |-> f])
BY Zenon DEF Shaped

(* Each field may be set.                                                  *)
LEMMA ShapedUpdate ==
    ASSUME NEW s, Shaped(s)
    PROVE  /\ \A p : Shaped([s EXCEPT !.primary = p])
           /\ \A g : IsList(g) /\ Len(g) <= NUM_GENERAL_ITEMS =>
                    /\ Shaped([s EXCEPT !.general = g])
                    /\ [s EXCEPT !.general = g].primary = s.primary
           /\ \A n : IsList(n) /\ Len(n) <= 2 =>
                    Shaped([s EXCEPT !.nonce = n])
           /\ \A f : IsList(f) /\ Len(f) <= 1 =>
                    Shaped([s EXCEPT !.feePayer = f])
<1>1. PICK p, g, n, f :
        /\ s = [primary |-> p, general |-> g, nonce |-> n, feePayer |-> f]
        /\ IsList(g) /\ Len(g) <= NUM_GENERAL_ITEMS
        /\ IsList(n) /\ Len(n) <= 2
        /\ IsList(f) /\ Len(f) <= 1
  BY DEF Shaped
<1> DEFINE P(v) == [s EXCEPT !.primary = v]
           G(v) == [s EXCEPT !.general = v]
           N(v) == [s EXCEPT !.nonce = v]
           F(v) == [s EXCEPT !.feePayer = v]
<1>2. \A v :
        /\ P(v) = [primary |-> v, general |-> g, nonce |-> n, feePayer |-> f]
        /\ G(v) = [primary |-> p, general |-> v, nonce |-> n, feePayer |-> f]
        /\ N(v) = [primary |-> p, general |-> g, nonce |-> v, feePayer |-> f]
        /\ F(v) = [primary |-> p, general |-> g, nonce |-> n, feePayer |-> v]
        /\ G(v).primary = s.primary
  BY <1>1
<1> HIDE DEF P, G, N, F
<1>3. \A v : Shaped(P(v))
  BY <1>1, <1>2, ShapedRecord, Zenon
<1>4. \A v : IsList(v) /\ Len(v) <= NUM_GENERAL_ITEMS => Shaped(G(v))
  BY <1>1, <1>2, ShapedRecord, Zenon
<1>5. \A v : IsList(v) /\ Len(v) <= 2 => Shaped(N(v))
  BY <1>1, <1>2, ShapedRecord, Zenon
<1>6. \A v : IsList(v) /\ Len(v) <= 1 => Shaped(F(v))
  BY <1>1, <1>2, ShapedRecord, Zenon
<1> QED
  BY <1>2, <1>3, <1>4, <1>5, <1>6 DEF P, G, N, F

(* What is printed takes no more slots than there are.                     *)
LEMMA UsedSlots ==
    ASSUME NEW s, NEW new, Shaped(s), IsList(new)
    PROVE  /\ Shaped(WithGeneral(s, new))
           /\ WithGeneral(s, new).primary = s.primary
<1> DEFINE all == s.general \o new
           used == IF Len(all) > NUM_GENERAL_ITEMS THEN NUM_GENERAL_ITEMS
                   ELSE Len(all)
           slots == SubSeq(all, 1, used)
<1>2. WithGeneral(s, new) = [s EXCEPT !.general = slots]
  BY DEF WithGeneral
<1>3. IsList(all)
  BY ShapedFields, ListsTogether, Zenon
<1>4. PICK S : all \in Seq(S)
  BY <1>3 DEF IsList
<1> HIDE DEF all
<1>5. Len(all) \in Nat
  BY <1>4
<1>6. used \in 0..Len(all) /\ used <= NUM_GENERAL_ITEMS
  BY <1>5 DEF NUM_GENERAL_ITEMS
<1>7. slots \in Seq(S) /\ Len(slots) = used
  <2> HIDE DEF used
  <2>1. 1 \in Int /\ used \in Int /\ \A n \in 1..used : all[n] \in S
    BY <1>4, <1>5, <1>6
  <2>2. /\ SubSeq(all, 1, used) \in Seq(S)
        /\ Len(SubSeq(all, 1, used)) = IF 1 <= used THEN used - 1 + 1 ELSE 0
    BY <2>1, SubSeqProperties
  <2> QED
    BY <1>5, <1>6, <2>2
<1>8. IsList(slots) /\ Len(slots) <= NUM_GENERAL_ITEMS
  BY <1>6, <1>7, Zenon DEF IsList
<1> HIDE DEF slots
<1>9. /\ Shaped([s EXCEPT !.general = slots])
      /\ [s EXCEPT !.general = slots].primary = s.primary
  BY <1>8, ShapedUpdate
<1> QED
  BY <1>2, <1>9

LEMMA WrittenSlots ==
    ASSUME NEW s, NEW p, Shaped(s), IsList(p.general)
    PROVE  Shaped(Write(s, p))
<1> DEFINE t == [s EXCEPT !.primary = IF @ = "Unset" THEN p.primary ELSE @]
<1>1. Shaped(t)
  BY ShapedUpdate, Zenon
<1>2. Write(s, p) = WithGeneral(t, p.general)
  BY DEF Write
<1> HIDE DEF t
<1> QED
  BY <1>1, <1>2, UsedSlots

(* The printers' items are a list.                                         *)
LEMMA PrintedList ==
    ASSUME NEW group, NEW x \in BOOLEAN
    PROVE  /\ IsList(PrintInstructions(group, x).general)
           /\ FeeTitle \notin Titles(PrintInstructions(group, x).general)
<1> DEFINE P(m) == PrintInstructions(group, m)
<1>1. Titles(P(FALSE).general) \subseteq Titles(P(TRUE).general)
      /\ FeeTitle \notin Titles(P(TRUE).general)
      /\ IsList(P(FALSE).general) /\ IsList(P(TRUE).general)
  BY ModesCompare, Zenon DEF Compare, Beside
<1> HIDE DEF P
<1>2. IsList(P(x).general) /\ FeeTitle \notin Titles(P(x).general)
  BY <1>1
<1> QED
  BY <1>2 DEF P

LEMMA SlotsTypedInvariant == Spec => []SlotsTyped
<1>0. \A a, b, t, c : /\ IsList(<<>>) /\ Len(<<>>) = 0
                      /\ IsList(<<a>>) /\ Len(<<a>>) = 1
                      /\ IsList(<<a, b>>) /\ Len(<<a, b>>) = 2
                      /\ IsList(Opt(c, t)) /\ Len(Opt(c, t)) \in {0, 1}
  BY Tuples, Zenon DEF Opt
<1>a. Shaped(EmptySummary)
  <2>1. 0 <= NUM_GENERAL_ITEMS /\ 0 <= 2 /\ 0 <= 1
    BY DEF NUM_GENERAL_ITEMS
  <2> QED
    BY <1>0, <2>1, Zenon DEF EmptySummary, Shaped
<1>b. Len(<<>>) <= NUM_GENERAL_ITEMS + 4
  BY <1>0 DEF NUM_GENERAL_ITEMS
<1>1. Init => SlotsTyped
  BY <1>a, <1>b DEF Init, SlotsTyped
<1>2. ListInv /\ SlotsTyped /\ [Next]_vars => SlotsTyped'
  <2> SUFFICES ASSUME ListInv, SlotsTyped, [Next]_vars
               PROVE  SlotsTyped'
    OBVIOUS
  <2>0. Shaped(summary) /\ Len(items) <= NUM_GENERAL_ITEMS + 4
    BY DEF SlotsTyped
  <2>1. ASSUME NEW n \in Lengths, NEW x \in BOOLEAN, Begin(n, x)
        PROVE  SlotsTyped'
    <3>1. summary' = EmptySummary /\ items' = <<>>
      BY <2>1 DEF Begin, ResetSummary
    <3> QED
      BY <1>a, <1>b, <3>1 DEF SlotsTyped
  <2>2. CASE PrintNonce
    <3> DEFINE new == <<"Nonce account", "Nonce authority">>
    <3>1. IsList(new) /\ Len(new) = 2
      BY <1>0, Zenon
    <3>2. summary' \in {summary, [summary EXCEPT !.nonce = new]}
      BY <2>2, Zenon DEF PrintNonce
    <3>3. items' = items
      BY <2>2 DEF PrintNonce
    <3> HIDE DEF new
    <3>4. Shaped([summary EXCEPT !.nonce = new])
      <4>1. Len(new) <= 2
        BY <3>1
      <4> QED
        BY <2>0, <3>1, <4>1, ShapedUpdate, Zenon
    <3> QED
      BY <2>0, <3>2, <3>3, <3>4 DEF SlotsTyped
  <2>3. CASE PrintComputeBudget
    <3> DEFINE new == <<"Max fees">>
    <3>1. summary' \in {summary, WithGeneral(summary, new)} /\ items' = items
      BY <2>3, Zenon DEF PrintComputeBudget
    <3>2. IsList(new)
      BY <1>0, Zenon
    <3> HIDE DEF new
    <3> QED
      BY <2>0, <3>1, <3>2, UsedSlots DEF SlotsTyped
  <2>4. CASE PrintTransaction
    <3>1. /\ summary' = Write(summary, PrintInstructions(list, expert))
          /\ items' = items
      BY <2>4 DEF PrintTransaction
    <3>2. IsList(PrintInstructions(list, expert).general)
      BY PrintedList DEF ListInv
    <3> QED
      BY <2>0, <3>1, <3>2, WrittenSlots DEF SlotsTyped
  <2>5. CASE BlindSign
    <3>1. summary' = Write(summary, BlindItems) /\ items' = items
      BY <2>5 DEF BlindSign
    <3>2. IsList(BlindItems.general)
      <4>1. PICK t : BlindItems.general = <<t>>
        BY Zenon DEF BlindItems, Printed
      <4> QED
        BY <1>0, <4>1, Zenon
    <3> QED
      BY <2>0, <3>1, <3>2, WrittenSlots DEF SlotsTyped
  <2>6. ASSUME NEW other \in BOOLEAN, SetFeePayer(other) PROVE SlotsTyped'
    <3>1. PICK t : summary' = [summary EXCEPT !.feePayer =
                                    Opt(expert \/ other, t)]
      BY <2>6 DEF SetFeePayer
    <3>2. items' = items
      BY <2>6 DEF SetFeePayer
    <3> DEFINE new == Opt(expert \/ other, t)
    <3>3. IsList(new) /\ Len(new) \in {0, 1}
      BY <1>0, Zenon
    <3> HIDE DEF new
    <3>4. Len(new) <= 1
      BY <3>3
    <3>5. summary' = [summary EXCEPT !.feePayer = new]
      BY <3>1 DEF new
    <3>6. Shaped(summary')
      BY <2>0, <3>3, <3>4, <3>5, ShapedUpdate, Zenon
    <3> QED
      BY <2>0, <3>2, <3>6 DEF SlotsTyped
  <2>7. CASE Finalize
    <3>1. summary' = summary
          /\ items' = IF summary.primary = "Unset" THEN <<>>
                      ELSE <<summary.primary>> \o summary.general
                           \o summary.nonce \o summary.feePayer
      BY <2>7 DEF Finalize
    <3> DEFINE p == <<summary.primary>>
               g == summary.general
               n == summary.nonce
               f == summary.feePayer
    <3>2. /\ IsList(p) /\ Len(p) = 1
          /\ IsList(g) /\ Len(g) <= NUM_GENERAL_ITEMS
          /\ IsList(n) /\ Len(n) <= 2
          /\ IsList(f) /\ Len(f) <= 1
      BY <1>0, <2>0, ShapedFields, Zenon
    <3>3. items' \in {<<>>, ((p \o g) \o n) \o f}
      BY <3>1
    <3> HIDE DEF p, g, n, f
    <3>4. /\ IsList(p \o g) /\ Len(p \o g) = Len(p) + Len(g)
          /\ Len(g) \in Nat
      BY <3>2, ListsTogether, Zenon
    <3>5. /\ IsList((p \o g) \o n)
          /\ Len((p \o g) \o n) = Len(p \o g) + Len(n)
          /\ Len(n) \in Nat
      BY <3>2, <3>4, ListsTogether, Zenon
    <3>6. /\ Len(((p \o g) \o n) \o f) = Len((p \o g) \o n) + Len(f)
          /\ Len(f) \in Nat
      BY <3>2, <3>5, ListsTogether, Zenon
    <3>7. Len(((p \o g) \o n) \o f) <= NUM_GENERAL_ITEMS + 4
      <4>1. \A a, b, c \in Nat :
                a <= NUM_GENERAL_ITEMS /\ b <= 2 /\ c <= 1 =>
                    ((1 + a) + b) + c <= NUM_GENERAL_ITEMS + 4
        BY DEF NUM_GENERAL_ITEMS
      <4>2. Len(((p \o g) \o n) \o f) = ((1 + Len(g)) + Len(n)) + Len(f)
        BY <3>2, <3>4, <3>5, <3>6, Zenon
      <4> QED
        BY <3>2, <3>4, <3>5, <3>6, <4>1, <4>2, Zenon
    <3> QED
      BY <1>b, <2>0, <3>1, <3>3, <3>7 DEF SlotsTyped
  <2>8. CASE MalformedInstruction \/ ParseInstruction
             \/ (\E wellFormed \in BOOLEAN : EndOfBody(wellFormed))
             \/ RefuseBlindSign \/ Processed \/ UNCHANGED vars
    <3>1. UNCHANGED <<summary, items>>
      BY <2>8 DEF MalformedInstruction, ParseInstruction, EndOfBody, Fail,
                  RefuseBlindSign, Processed, vars
    <3> QED
      BY <2>0, <3>1 DEF SlotsTyped
  <2> QED
    BY <2>1, <2>2, <2>3, <2>4, <2>5, <2>6, <2>7, <2>8 DEF Next
<1> QED
  BY <1>1, <1>2, ListInvariant, PTL DEF Spec

(* Type correctness: whatever messages follow each other, the list the     *)
(* printers work on is an end of the list of the message, the pointers of  *)
(* compute_budget_fee_info point into it or are NULL, and no more slots of *)
(* the summary are used than there are.                                    *)
THEOREM SummaryTypes == Spec => []TypeOK
<1>1. ListInv /\ SlotsTyped => TypeOK
  <2> SUFFICES ASSUME ListInv, SlotsTyped PROVE TypeOK
    OBVIOUS
  <2>1. fee.limit \in 0..Len(infos) /\ fee.price \in 0..Len(infos)
    BY DEF ListInv
  <2>2. /\ Len(summary.general) <= NUM_GENERAL_ITEMS
        /\ Len(summary.nonce) <= 2
        /\ Len(summary.feePayer) <= 1
        /\ Len(items) <= NUM_GENERAL_ITEMS + 4
    BY ShapedFields DEF SlotsTyped
  <2> QED
    BY <2>1, <2>2 DEF TypeOK, ListInv, IsEnd
<1> QED
  BY <1>1, ListInvariant, SlotsTypedInvariant, PTL

-----------------------------------------------------------------------------
(* Which lists are printed.                                                *)

(* The kinds of the instructions that are printed together with others.    *)
PartKinds ==
    CreateKinds \cup StakeInitializeKinds \cup StakeAuthorizeKinds
    \cup VoteAuthorizeKinds \cup InitializeAccountKinds
    \cup {"SystemInitializeNonceAccount", "VoteInitialize", "StakeSplit",
          "SystemAllocateWithSeed", "InitializeMint", "InitializeMultisig",
          "AssociatedTokenCreate", "TransferChecked", "StakeDelegate",
          "SystemAllocate", "SystemAssign", "SystemTransfer"}

LEMMA PartsAreOthers ==
    ASSUME NEW k \in PartKinds
    PROVE  k \notin ComputeBudgetKinds /\ k # "SystemAdvanceNonceAccount"
BY Zenon
DEF PartKinds, CreateKinds, StakeInitializeKinds, StakeAuthorizeKinds,
    VoteAuthorizeKinds, InitializeAccountKinds, ComputeBudgetKinds

LEMMA TupleParts ==
    /\ \A a, b, A, B : <<a, b>> \in A \X B => a \in A /\ b \in B
    /\ \A a, b, c, d : <<a, b>> = <<c, d>> => a = c /\ b = d
    /\ \A a, b, A : <<a, b>> \in {<<k, k>> : k \in A} => a \in A /\ b = a
    /\ \A a, b, c, A, B, C :
            <<a, b, c>> \in A \X B \X C => a \in A /\ b \in B /\ c \in C
    /\ \A a, b, c, d, e, f :
            <<a, b, c>> = <<d, e, f>> => a = d /\ b = e /\ c = f
    /\ \A a, b, c, d, e, f, g, h :
            <<a, b, c, d>> = <<e, f, g, h>> =>
                a = e /\ b = f /\ c = g /\ d = h
OBVIOUS

LEMMA PairParts ==
    ASSUME NEW group, NEW x
    PROVE  \/ PrintPair(group, x) = NotPrinted
           \/ group[1].kind \in PartKinds /\ group[2].kind \in PartKinds
<1> DEFINE a == group[1].kind
           b == group[2].kind
           parts == a \in PartKinds /\ b \in PartKinds
<1>1. /\ CreateKinds \subseteq PartKinds
      /\ StakeInitializeKinds \subseteq PartKinds
      /\ StakeAuthorizeKinds \subseteq PartKinds
      /\ VoteAuthorizeKinds \subseteq PartKinds
      /\ InitializeAccountKinds \subseteq PartKinds
      /\ {"SystemInitializeNonceAccount", "VoteInitialize", "StakeSplit",
          "SystemAllocateWithSeed", "InitializeMint", "InitializeMultisig",
          "AssociatedTokenCreate", "TransferChecked"} \subseteq PartKinds
      /\ {"SystemCreateAccount", "SystemCreateAccountWithSeed"}
            \subseteq PartKinds
  BY DEF PartKinds, CreateKinds
<1>2. /\ <<a, b>> \in CreateKinds \X StakeInitializeKinds => parts
      /\ <<a, b>> \in CreateKinds \X {"SystemInitializeNonceAccount"} => parts
      /\ <<a, b>> \in CreateKinds \X {"VoteInitialize"} => parts
  BY <1>1, TupleParts
<1>3. /\ <<a, b>> \in {<<k, k>> : k \in StakeAuthorizeKinds} => parts
      /\ <<a, b>> \in {<<k, k>> : k \in VoteAuthorizeKinds} => parts
  BY <1>1, TupleParts
<1>4. /\ <<a, b>> = <<"SystemCreateAccount", "StakeSplit">> => parts
      /\ <<a, b>> \in {"SystemAllocateWithSeed",
                       "SystemCreateAccountWithSeed"} \X {"StakeSplit"}
            => parts
      /\ <<a, b>> = <<"SystemCreateAccount", "InitializeMint">> => parts
  BY <1>1, TupleParts
<1>5. /\ <<a, b>> \in {"SystemCreateAccount"} \X InitializeAccountKinds
            => parts
      /\ <<a, b>> = <<"SystemCreateAccount", "InitializeMultisig">> => parts
      /\ <<a, b>> = <<"AssociatedTokenCreate", "TransferChecked">> => parts
  BY <1>1, TupleParts
<1> HIDE DEF parts
<1>6. CASE ~parts
  BY <1>2, <1>3, <1>4, <1>5, <1>6, Zenon DEF PrintPair
<1> QED
  BY <1>6, Zenon DEF parts

LEMMA TripleParts ==
    ASSUME NEW group, NEW x
    PROVE  \/ PrintTriple(group, x) = NotPrinted
           \/ /\ group[1].kind \in PartKinds
              /\ group[2].kind \in PartKinds
              /\ group[3].kind \in PartKinds
<1> DEFINE a == group[1].kind
           b == group[2].kind
           c == group[3].kind
           parts == a \in PartKinds /\ b \in PartKinds /\ c \in PartKinds
<1>1. /\ <<a, b, c>> \in CreateKinds \X {"StakeInitialize"}
                         \X {"StakeDelegate"} => parts
      /\ <<a, b, c>> = <<"SystemAllocate", "SystemAssign", "StakeSplit">>
            => parts
      /\ <<a, b, c>> = <<"SystemTransfer", "SystemAllocateWithSeed",
                         "StakeSplit">> => parts
  BY TupleParts, Zenon DEF PartKinds, StakeInitializeKinds
<1> HIDE DEF parts
<1>2. CASE ~parts
  BY <1>1, <1>2, Zenon DEF PrintTriple
<1> QED
  BY <1>2 DEF parts

LEMMA QuadrupleParts ==
    ASSUME NEW group, NEW x
    PROVE  \/ PrintQuadruple(group, x) = NotPrinted
           \/ /\ group[1].kind = "SystemTransfer"
              /\ group[2].kind = "SystemAllocate"
              /\ group[3].kind = "SystemAssign"
              /\ group[4].kind = "StakeSplit"
BY TupleParts, Zenon DEF PrintQuadruple

LEMMA SingleParts ==
    ASSUME NEW i, NEW x
    PROVE  \/ PrintSingle(i, x) = NotPrinted
           \/ /\ PrintSingle(i, x).primary = i.kind
              /\ i.kind \notin ComputeBudgetKinds
<1> DEFINE Supported == SystemKinds \cup StakeKinds \cup VoteKinds
                        \cup SplTokenKinds \cup {"AssociatedTokenCreate"}
<1>1. \A k \in Supported : k \notin ComputeBudgetKinds
  BY Zenon
  DEF SystemKinds, StakeKinds, VoteKinds, SplTokenKinds,
      StakeAuthorizeKinds, StakeInitializeKinds, SetLockupKinds,
      VoteAuthorizeKinds, InitializeAccountKinds, SignedTokenKinds,
      ComputeBudgetKinds
<1>2. \A general : Printed(i.kind, general).primary = i.kind
  BY DEF Printed
<1>3. CASE i.kind \in Supported
  <2>1. i.kind = "AssociatedTokenCreate" /\ i.kind \notin SystemKinds
            /\ i.kind \notin StakeKinds /\ i.kind \notin VoteKinds
            /\ i.kind \notin SplTokenKinds =>
            PrintSingle(i, x) = Printed(i.kind, AssociatedTokenItems)
    BY Zenon DEF PrintSingle
  <2>2. PICK general : PrintSingle(i, x) = Printed(i.kind, general)
    BY <1>3, <2>1, SingleIsOfProgram, Zenon
  <2> QED
    BY <1>1, <1>2, <1>3, <2>2
<1>4. CASE i.kind \notin Supported
  BY <1>4, Zenon DEF PrintSingle
<1> QED
  BY <1>3, <1>4

(* The printers' lists have one to four elements, none of them of the      *)
(* compute budget program, and an advance of a nonce only as the single    *)
(* element.                                                                *)
LEMMA PrintedParts ==
    ASSUME NEW group, NEW x, PrintInstructions(group, x) # NotPrinted
    PROVE  /\ Len(group) \in 1..MAX_INSTRUCTIONS
           /\ \A n \in 1..Len(group) :
                group[n].kind \notin ComputeBudgetKinds
           /\ \A n \in 1..Len(group) :
                group[n].kind = "SystemAdvanceNonceAccount" =>
                    /\ Len(group) = 1
                    /\ PrintInstructions(group, x).primary = group[n].kind
<1>1. CASE Len(group) = 1
  <2>1. PrintInstructions(group, x) = PrintSingle(group[1], x)
    BY <1>1 DEF PrintInstructions
  <2>2. /\ PrintInstructions(group, x).primary = group[1].kind
        /\ group[1].kind \notin ComputeBudgetKinds
    BY <2>1, SingleParts, Zenon
  <2>3. \A n \in 1..Len(group) : n = 1
    BY <1>1
  <2> QED
    BY <1>1, <2>2, <2>3 DEF MAX_INSTRUCTIONS
<1>2. CASE Len(group) \in {2, 3, 4} /\ \A n \in 1..Len(group) :
                                        group[n].kind \in PartKinds
  <2>1. Len(group) \in 1..MAX_INSTRUCTIONS
    BY <1>2 DEF MAX_INSTRUCTIONS
  <2> QED
    BY <1>2, <2>1, PartsAreOthers
<1>3. CASE Len(group) = 2
  <2>1. PrintInstructions(group, x) = PrintPair(group, x)
    BY <1>3 DEF PrintInstructions
  <2>2. group[1].kind \in PartKinds /\ group[2].kind \in PartKinds
    BY <2>1, PairParts
  <2>3. \A n \in 1..Len(group) : n \in {1, 2}
    BY <1>3
  <2> QED
    BY <1>2, <1>3, <2>2, <2>3
<1>4. CASE Len(group) = 3
  <2>1. PrintInstructions(group, x) = PrintTriple(group, x)
    BY <1>4 DEF PrintInstructions
  <2>2. /\ group[1].kind \in PartKinds /\ group[2].kind \in PartKinds
        /\ group[3].kind \in PartKinds
    BY <2>1, TripleParts
  <2>3. \A n \in 1..Len(group) : n \in {1, 2, 3}
    BY <1>4
  <2> QED
    BY <1>2, <1>4, <2>2, <2>3
<1>5. CASE Len(group) = 4
  <2>1. PrintInstructions(group, x) = PrintQuadruple(group, x)
    BY <1>5 DEF PrintInstructions
  <2>2. /\ group[1].kind \in PartKinds /\ group[2].kind \in PartKinds
        /\ group[3].kind \in PartKinds /\ group[4].kind \in PartKinds
    BY <2>1, QuadrupleParts DEF PartKinds
  <2>3. \A n \in 1..Len(group) : n \in {1, 2, 3, 4}
    BY <1>5
  <2> QED
    BY <1>2, <1>5, <2>2, <2>3
<1>6. CASE Len(group) \notin {1, 2, 3, 4}
  BY <1>6 DEF PrintInstructions
<1> QED
  BY <1>1, <1>3, <1>4, <1>5, <1>6

-----------------------------------------------------------------------------
(* The instructions in front of those that are printed.                    *)

(* Position f is the last one of this kind among the first k instructions. *)
LastIn(f, kind, k) ==
    \/ f = 0 /\ \A n \in 1..k : infos[n].kind # kind
    \/ /\ f \in 1..k /\ infos[f].kind = kind
       /\ \A n \in 1..k : infos[n].kind = kind => n <= f

NonceShown ==
    /\ summary.nonce # <<>> <=> expert /\ IsNonced
    /\ expert /\ IsNonced => "Nonce authority" \in Titles(summary.nonce)

(* What is skipped is the advance of the nonce, then instructions of the   *)
(* compute budget program; the summary holds the maximum fee if there is   *)
(* one, and the nonce.                                                     *)
FrontInv ==
    /\ pc \in {"instructions", "nonce"} => summary.nonce = <<>>
    /\ pc = "budget" =>
            /\ Front = IF IsNonced THEN 1 ELSE 0
            /\ NonceShown
    /\ pc = "print" =>
            /\ \A n \in 1..Front :
                    \/ infos[n].kind \in ComputeBudgetKinds
                    \/ n = 1 /\ infos[n].kind = "SystemAdvanceNonceAccount"
            /\ LastIn(fee.limit, "ChangeUnitLimit", Front)
            /\ LastIn(fee.price, "ChangeUnitPrice", Front)
            /\ Bare(summary, IF fee = NoFee THEN <<>> ELSE <<"Max fees">>)
            /\ NonceShown
    /\ BudgetIsWhole
    /\ NonceComesFirst

(* The instructions behind the front are those of the list.                *)
LEMMA FrontElements ==
    ASSUME ListInv
    PROVE  /\ Front \in 0..Len(infos) /\ Len(infos) = Front + Len(list)
           /\ Len(infos) \in Nat /\ Len(list) \in Nat
           /\ DOMAIN infos = 1..Len(infos) /\ DOMAIN list = 1..Len(list)
           /\ \A n \in 1..Len(list) : list[n] = infos[n + Front]
<1>1. /\ infos \in Seq(InstructionInfo) /\ list \in Seq(InstructionInfo)
      /\ IsEnd(list, infos)
  BY DEF ListInv
<1>2. /\ Len(infos) \in Nat /\ Len(list) \in Nat
      /\ DOMAIN infos = 1..Len(infos) /\ DOMAIN list = 1..Len(list)
  BY <1>1
<1>3. Len(list) <= Len(infos)
  BY <1>1 DEF IsEnd
<1>4. \A a, b \in Nat : b <= a => a - b \in 0..a /\ a = (a - b) + b
  OBVIOUS
<1>5. \A n \in 1..Len(list) : list[n] = infos[n + (Len(infos) - Len(list))]
  BY <1>1, <1>2, EndElements
<1> QED
  BY <1>2, <1>3, <1>4, <1>5, Zenon DEF Front

(* The pointers point at the last instructions of their kinds.             *)
LEMMA LastBudgetIsLast ==
    ASSUME ListInv, Front \in {0, 1}, NEW kind,
           \A n \in 1..Front : infos[n].kind # kind
    PROVE  LastIn(LastBudget(kind), kind, Front + BudgetLength)
<1>1. /\ Front \in {0, 1} /\ Len(infos) = Front + Len(list)
      /\ Len(infos) \in Nat /\ Len(list) \in Nat
      /\ \A n \in 1..Len(list) : list[n] = infos[n + Front]
  BY FrontElements
<1>2. BudgetLength \in 0..Len(list)
  BY ListIsShort, BudgetFront
<1>3. \A n : n + Len(infos) - Len(list) = n + Front \/ n \notin Nat
  BY <1>1
<1>4. \A f \in {0, 1}, b \in Nat : \A k \in 0..b :
        /\ \A n \in 1..k : /\ n \in 1..b /\ n + f \in 1..(f + k)
                           /\ n \in Nat /\ n + f # 0
        /\ \A n \in 1..(f + k) : \/ n \in 1..f
                                 \/ \E m \in 1..k : n = m + f
        /\ \A m, n \in 1..k : m <= n => m + f <= n + f
        /\ \A m \in 1..f, n \in 1..k : m <= n + f
  <2>1. ASSUME NEW f \in {0, 1}, NEW b \in Nat, NEW k \in 0..b,
               NEW n \in 1..(f + k), n \notin 1..f
        PROVE  n - f \in 1..k /\ n = (n - f) + f
    BY <2>1
  <2>2. \A f \in {0, 1}, b \in Nat : \A k \in 0..b :
            \A n \in 1..(f + k) : n \in 1..f \/ \E m \in 1..k : n = m + f
    BY <2>1
  <2> QED
    BY <2>2
<1> DEFINE k == BudgetLength
<1>5. /\ \A n \in 1..k : /\ n \in 1..Len(list)
                         /\ n + Front \in 1..(Front + k)
                         /\ n \in Nat
      /\ \A n \in 1..(Front + k) : \/ n \in 1..Front
                                   \/ \E m \in 1..k : n = m + Front
      /\ \A m, n \in 1..k : m <= n => m + Front <= n + Front
  BY <1>1, <1>2, <1>4
<1>a. \A n \in 1..k : list[n] = infos[n + Front]
  BY <1>1, <1>5, Zenon
<1> HIDE DEF k
<1>6. CASE LastBudget(kind) = 0 /\ \A n \in 1..k : list[n].kind # kind
  <2>1. ASSUME NEW n \in 1..(Front + k) PROVE infos[n].kind # kind
    <3>1. CASE n \in 1..Front
      BY <3>1
    <3>2. ASSUME NEW m \in 1..k, n = m + Front PROVE infos[n].kind # kind
      <4>1. infos[n] = list[m]
        BY <1>a, <3>2
      <4> QED
        BY <1>6, <4>1
    <3> QED
      BY <1>5, <3>1, <3>2
  <2> QED
    BY <1>6, <2>1 DEF LastIn, k
<1>7. ASSUME NEW n \in 1..k, LastBudget(kind) = n + Len(infos) - Len(list),
             list[n].kind = kind,
             \A m \in 1..k : list[m].kind = kind => m <= n
      PROVE  LastIn(LastBudget(kind), kind, Front + k)
  <2>1. LastBudget(kind) = n + Front
    BY <1>3, <1>5, <1>7
  <2>2. n + Front \in 1..(Front + k) /\ infos[n + Front].kind = kind
    BY <1>5, <1>a, <1>7
  <2>3. ASSUME NEW j \in 1..(Front + k), infos[j].kind = kind
        PROVE  j <= n + Front
    <3>1. PICK m \in 1..k : j = m + Front
      BY <1>5, <2>3, Zenon
    <3>2. m <= n
      BY <1>a, <1>7, <2>3, <3>1
    <3> QED
      BY <1>5, <3>1, <3>2
  <2> QED
    BY <2>1, <2>2, <2>3, Zenon DEF LastIn
<1> QED
  BY <1>6, <1>7, ListIsShort, LastBudgetPosition, Zenon DEF k

(* If there is none of this kind in the list, the last one in the front is *)
(* the last one of the message.                                            *)
LEMMA LastOfMessage ==
    ASSUME ListInv, NEW f, NEW kind, LastIn(f, kind, Front),
           \A n \in 1..Len(list) : list[n].kind # kind
    PROVE  f = LastOf(kind)
<1>1. /\ Front \in 0..Len(infos) /\ Len(infos) = Front + Len(list)
      /\ Len(infos) \in Nat /\ Len(list) \in Nat
      /\ DOMAIN infos = 1..Len(infos)
      /\ \A n \in 1..Len(list) : list[n] = infos[n + Front]
  BY FrontElements
<1>2. \A a, b \in Nat : \A n \in 1..(a + b) :
        n \in 1..a \/ (n - a \in 1..b /\ (n - a) + a = n)
  OBVIOUS
<1>3. \A n \in 1..Len(infos) :
        n \in 1..Front
        \/ (n - Front \in 1..Len(list) /\ (n - Front) + Front = n)
  <2>1. Front \in Nat
    BY <1>1
  <2> QED
    BY <1>1, <1>2, <2>1
<1>4. \A n \in 1..Len(infos) : infos[n].kind = kind => n \in 1..Front
  <2> SUFFICES ASSUME NEW n \in 1..Len(infos), infos[n].kind = kind,
                      n \notin 1..Front
               PROVE  FALSE
    OBVIOUS
  <2>1. n - Front \in 1..Len(list) /\ (n - Front) + Front = n
    BY <1>3
  <2>2. list[n - Front] = infos[n]
    BY <1>1, <2>1
  <2> QED
    BY <2>1, <2>2
<1>5. \A n \in 1..Front : n \in 1..Len(infos)
  BY <1>1
<1> DEFINE found == Positions(infos, kind)
<1>6. \A n : n \in found <=> n \in 1..Front /\ infos[n].kind = kind
  BY <1>1, <1>4, <1>5 DEF Positions
<1>7. LastOf(kind) = IF found = {} THEN 0
                     ELSE CHOOSE n \in found : \A m \in found : m <= n
  BY DEF LastOf
<1> HIDE DEF found
<1>8. CASE f = 0 /\ \A n \in 1..Front : infos[n].kind # kind
  BY <1>6, <1>7, <1>8
<1>9. CASE /\ f \in 1..Front /\ infos[f].kind = kind
           /\ \A n \in 1..Front : infos[n].kind = kind => n <= f
  <2>1. f \in found /\ \A m \in found : m <= f
    BY <1>6, <1>9
  <2>2. \A n \in found : n \in Int
    BY <1>1, <1>6
  <2>3. \A n \in found : (\A m \in found : m <= n) => n = f
    BY <2>1, <2>2
  <2> QED
    BY <1>7, <2>1, <2>3
<1> QED
  BY <1>8, <1>9 DEF LastIn

(* What a printer that finds its slots writes.                             *)
LEMMA WrittenItems ==
    ASSUME NEW s, NEW g \in Fees, Bare(s, g), NEW p, IsList(p.general),
           Writable(s, p)
    PROVE  /\ Write(s, p).general = g \o p.general
           /\ Write(s, p).primary = p.primary
           /\ Write(s, p).nonce = s.nonce
<1> DEFINE all == g \o p.general
<1>1. PICK nonce : s = [primary |-> "Unset", general |-> g,
                        nonce |-> nonce, feePayer |-> <<>>]
  BY DEF Bare
<1>2. IsList(g)
  BY FeesAreShort, Zenon DEF IsList
<1>3. IsList(all)
  BY <1>2, ListsTogether, Zenon
<1>4. Len(all) <= NUM_GENERAL_ITEMS
  BY <1>1 DEF Writable, HasRoom
<1>5. SubSeq(all, 1, Len(all)) = all /\ Len(all) \in Nat
  BY <1>3, SubSeqFull DEF IsList
<1> HIDE DEF all
<1>6. SubSeq(all, 1, IF Len(all) > NUM_GENERAL_ITEMS THEN NUM_GENERAL_ITEMS
                     ELSE Len(all)) = all
  BY <1>4, <1>5 DEF NUM_GENERAL_ITEMS
<1> DEFINE t == [s EXCEPT !.primary = IF @ = "Unset" THEN p.primary ELSE @]
<1>7. t = [primary |-> p.primary, general |-> g, nonce |-> nonce,
           feePayer |-> <<>>]
  BY <1>1
<1>8. Write(s, p) = WithGeneral(t, p.general)
  BY DEF Write
<1> HIDE DEF t
<1>9. t.general \o p.general = all
  BY <1>7 DEF all
<1>10. WithGeneral(t, p.general) = [t EXCEPT !.general = all]
  BY <1>6, <1>9 DEF WithGeneral
<1>11. Write(s, p) = [primary |-> p.primary, general |-> all,
                      nonce |-> nonce, feePayer |-> <<>>]
  BY <1>7, <1>8, <1>10
<1> QED
  BY <1>1, <1>11 DEF all

(* The maximum fee is the first item or there is none.                     *)
LEMMA ShownFees ==
    ASSUME NEW g \in Fees, NEW new, IsList(new), FeeTitle \notin Titles(new)
    PROVE  {n \in DOMAIN (g \o new) : (g \o new)[n] = FeeTitle}
                = IF g = <<>> THEN {} ELSE {1}
<1> DEFINE all == g \o new
<1>1. IsList(g)
  BY FeesAreShort, Zenon DEF IsList
<1>2. /\ Len(g) \in Nat /\ Len(new) \in Nat
      /\ \A n \in 1..(Len(g) + Len(new)) :
            all[n] = IF n <= Len(g) THEN g[n] ELSE new[n - Len(g)]
      /\ DOMAIN g = 1..Len(g) /\ DOMAIN new = 1..Len(new)
      /\ DOMAIN all = 1..(Len(g) + Len(new))
  BY <1>1, ListsTogether, Zenon
<1>3. /\ Len(g) \in {0, 1} /\ \A n \in DOMAIN g : g[n] = FeeTitle
      /\ Len(g) = 0 <=> g = <<>>
  <2>1. Len(g) \in {0, 1} /\ \A n \in DOMAIN g : g[n] = FeeTitle
    BY FeesAreShort, Zenon DEF FeeTitle
  <2>2. Len(g) = 0 <=> g = <<>>
    BY <1>1, EmptySeq DEF IsList
  <2> QED
    BY <2>1, <2>2
<1>4. \A n \in DOMAIN new : new[n] # FeeTitle
  BY Zenon DEF Titles
<1> HIDE DEF all
<1>5. CASE Len(g) = 0
  <2>1. ASSUME NEW n \in DOMAIN all PROVE all[n] # FeeTitle
    <3>1. n \in DOMAIN new /\ all[n] = new[n]
      BY <1>2, <1>5, <2>1
    <3> QED
      BY <1>4, <3>1
  <2>2. {n \in DOMAIN all : all[n] = FeeTitle} = {}
    BY <2>1
  <2> QED
    BY <1>3, <1>5, <2>2 DEF all
<1>6. CASE Len(g) = 1
  <2>1. ASSUME NEW n \in DOMAIN all, n # 1 PROVE all[n] # FeeTitle
    <3>1. n - 1 \in DOMAIN new /\ all[n] = new[n - 1]
      BY <1>2, <1>6, <2>1
    <3> QED
      BY <1>4, <3>1
  <2>2. 1 \in DOMAIN all /\ all[1] = FeeTitle
    <3>1. 1 \in DOMAIN all /\ 1 \in DOMAIN g /\ all[1] = g[1]
      BY <1>2, <1>6
    <3> QED
      BY <1>3, <3>1
  <2>3. {n \in DOMAIN all : all[n] = FeeTitle} = {1}
    BY <2>1, <2>2
  <2> QED
    BY <1>3, <1>6, <2>3 DEF all
<1> QED
  BY <1>3, <1>5, <1>6

-----------------------------------------------------------------------------
(* The front of the list, phase by phase.                                  *)

(* Outside of the phases that print, nothing is claimed about the front.   *)
LEMMA FrontElsewhere ==
    ASSUME pc' \notin {"instructions", "nonce", "budget", "print"},
           ~(pc' = "handler" /\ result' = 0)
    PROVE  FrontInv'
<1>1. BudgetIsWhole' /\ NonceComesFirst'
  BY Zenon DEF BudgetIsWhole, NonceComesFirst
<1> QED
  BY <1>1 DEF FrontInv

LEMMA FrontNonced ==
    ASSUME ListInv, SlotsInv, FrontInv, PrintNonce
    PROVE  FrontInv'
<1> DEFINE shown == <<"Nonce account", "Nonce authority">>
<1>1. /\ pc = "nonce" /\ pc' = "budget" /\ UNCHANGED <<message, fee, result>>
      /\ summary' = IF IsNonced /\ expert
                    THEN [summary EXCEPT !.nonce = shown]
                    ELSE summary
  BY Zenon DEF PrintNonce
<1>2. shown # <<>> /\ "Nonce authority" \in Titles(shown)
  <2>1. Len(shown) = 2 /\ Len(<<>>) = 0 /\ 2 # 0
    <3>1. Len(shown) = 2 /\ Len(<<>>) = 0
      BY Tuples, Zenon
    <3> HIDE DEF shown
    <3> QED
      BY <3>1
  <2>2. 2 \in DOMAIN shown /\ shown[2] = "Nonce authority"
    OBVIOUS
  <2> HIDE DEF shown
  <2> QED
    BY <2>1, <2>2, Zenon DEF Titles
<1> HIDE DEF shown
<1>3. summary.nonce = <<>> /\ expert \in BOOLEAN
  BY <1>1 DEF FrontInv, ListInv
<1>4. infos' = infos /\ expert' = expert /\ IsNonced' = IsNonced
  BY <1>1 DEF message, IsNonced
<1>5. Front' = IF IsNonced THEN 1 ELSE 0
  <2>1. Len(infos) - Len(list') = IF IsNonced THEN 1 ELSE 0
    BY ListNonced
  <2> QED
    BY <1>4, <2>1 DEF Front
<1>6. /\ (summary'.nonce # <<>>) <=> (expert /\ IsNonced)
      /\ expert /\ IsNonced => "Nonce authority" \in Titles(summary'.nonce)
  <2>1. CASE IsNonced /\ expert
    <3>1. summary'.nonce = shown
      <4>1. \E p, g, n, f : summary = [primary |-> p, general |-> g,
                                      nonce |-> n, feePayer |-> f]
        BY <1>1 DEF SlotsInv, Bare
      <4> QED
        BY <1>1, <2>1, <4>1
    <3> QED
      BY <1>2, <2>1, <3>1
  <2>2. CASE ~(IsNonced /\ expert)
    BY <1>1, <1>3, <2>2
  <2> QED
    BY <2>1, <2>2
<1>7. BudgetIsWhole' /\ NonceComesFirst'
  BY <1>1, Zenon DEF BudgetIsWhole, NonceComesFirst
<1> QED
  BY <1>1, <1>4, <1>5, <1>6, <1>7 DEF FrontInv, NonceShown

LEMMA FrontBudgeted ==
    ASSUME ListInv, SlotsInv, FrontInv, PrintComputeBudget
    PROVE  FrontInv'
<1> DEFINE new == <<"Max fees">>
<1>1. /\ pc = "budget" /\ pc' = "print" /\ UNCHANGED <<message, result>>
      /\ list' = SubSeq(list, BudgetLength + 1, Len(list))
      /\ fee' = [limit |-> LastBudget("ChangeUnitLimit"),
                 price |-> LastBudget("ChangeUnitPrice")]
      /\ summary' = IF fee' # NoFee THEN WithGeneral(summary, new)
                    ELSE summary
  BY Zenon DEF PrintComputeBudget
<1>2. /\ Front = IF IsNonced THEN 1 ELSE 0
      /\ NonceShown
  BY <1>1 DEF FrontInv
<1>3. Bare(summary, <<>>)
  BY <1>1 DEF SlotsInv
<1>4. infos' = infos /\ expert' = expert /\ IsNonced' = IsNonced
  BY <1>1 DEF message, IsNonced
<1>5. BudgetLength \in 0..Len(list)
  BY ListIsShort, BudgetFront
<1>6. /\ Front \in {0, 1} /\ Len(infos) = Front + Len(list)
      /\ Len(infos) \in Nat /\ Len(list) \in Nat
      /\ \A n \in 1..Len(list) : list[n] = infos[n + Front]
  BY <1>2, FrontElements
<1>7. Front' = Front + BudgetLength
  <2>1. Len(list') = Len(list) - BudgetLength
    BY <1>1, <1>5, Behind DEF ListInv
  <2>2. \A a, b, f, k, l : /\ a \in Nat /\ b \in Nat /\ f \in {0, 1}
                           /\ k \in 0..b /\ a = f + b /\ l = b - k
                           => a - l = f + k
    OBVIOUS
  <2>3. Front' = Len(infos) - Len(list')
    BY <1>4 DEF Front
  <2> QED
    BY <1>5, <1>6, <2>1, <2>2, <2>3
<1>8. \A n \in 1..Front :
        n = 1 /\ infos[n].kind = "SystemAdvanceNonceAccount"
  BY <1>2 DEF IsNonced
<1>9. ASSUME NEW n \in 1..Front'
      PROVE  \/ infos[n].kind \in ComputeBudgetKinds
             \/ n = 1 /\ infos[n].kind = "SystemAdvanceNonceAccount"
  <2>1. CASE n \in 1..Front
    BY <1>8, <2>1
  <2>2. CASE n \notin 1..Front
    <3>1. n - Front \in 1..BudgetLength /\ n - Front \in 1..Len(list)
          /\ (n - Front) + Front = n
      BY <1>5, <1>6, <1>7, <1>9, <2>2
    <3>2. list[n - Front] = infos[n]
      BY <1>6, <3>1
    <3>3. list[n - Front].kind \in ComputeBudgetKinds
      BY <3>1, ListIsShort, BudgetFront
    <3> QED
      BY <3>2, <3>3
  <2> QED
    BY <2>1, <2>2
<1>10. /\ LastIn(fee'.limit, "ChangeUnitLimit", Front')
       /\ LastIn(fee'.price, "ChangeUnitPrice", Front')
  <2>1. /\ fee'.limit = LastBudget("ChangeUnitLimit")
        /\ fee'.price = LastBudget("ChangeUnitPrice")
    BY <1>1
  <2>2. ASSUME NEW kind, kind # "SystemAdvanceNonceAccount"
        PROVE  LastIn(LastBudget(kind), kind, Front')
    BY <1>6, <1>7, <1>8, <2>2, LastBudgetIsLast
  <2> QED
    BY <2>1, <2>2
<1>11. /\ LastIn(fee.limit, "ChangeUnitLimit", Front)'
       /\ LastIn(fee.price, "ChangeUnitPrice", Front)'
  BY <1>4, <1>10 DEF LastIn
<1>12. /\ Bare(summary', IF fee' = NoFee THEN <<>> ELSE new)
       /\ summary'.nonce = summary.nonce
  <2>1. CASE fee' = NoFee
    BY <1>1, <1>3, <2>1
  <2>2. CASE fee' # NoFee
    <3>1. summary' = WithGeneral(summary, new)
      BY <1>1, <2>2, Zenon
    <3>2. Bare(summary', new)
      BY <1>3, <3>1, FirstGeneral, Zenon
    <3> HIDE DEF new
    <3>3. summary'.nonce = summary.nonce
      BY <1>3, <3>1 DEF WithGeneral, Bare
    <3> QED
      BY <2>2, <3>2, <3>3
  <2> QED
    BY <2>1, <2>2
<1>13. NonceShown'
  BY <1>2, <1>4, <1>12 DEF NonceShown
<1>14. BudgetIsWhole' /\ NonceComesFirst'
  <2>1. pc' # "handler"
    BY <1>1
  <2> QED
    BY <2>1, Zenon DEF BudgetIsWhole, NonceComesFirst
<1>15. pc' \notin {"instructions", "nonce", "budget"}
  BY <1>1
<1>16. \A n \in 1..Front' :
            \/ infos'[n].kind \in ComputeBudgetKinds
            \/ n = 1 /\ infos'[n].kind = "SystemAdvanceNonceAccount"
  BY <1>4, <1>9
<1> QED
  BY <1>11, <1>12, <1>13, <1>14, <1>15, <1>16, Zenon DEF FrontInv, Bare

(* A transaction that is recognized.                                       *)
LEMMA RecognizedFront ==
    ASSUME ListInv, FrontInv, PrintTransaction, pc' = "handler", result' = 0
    PROVE  BudgetIsWhole' /\ NonceComesFirst'
<1> DEFINE p == PrintInstructions(list, expert)
           g == IF fee = NoFee THEN <<>> ELSE <<"Max fees">>
<1>1. /\ pc = "print" /\ UNCHANGED <<message, list, fee, items>>
      /\ pc' = IF Writable(summary, p) THEN "handler" ELSE "fault"
      /\ result' = IF p.printed THEN 0 ELSE 1
      /\ summary' = Write(summary, p)
  BY Zenon DEF PrintTransaction
<1>2. Bare(summary, g)
  BY <1>1, Zenon DEF FrontInv
<1>3. g \in Fees /\ (g = <<>> <=> fee = NoFee)
  <2>1. <<"Max fees">> # <<>>
    <3>1. \A t : <<t>> # <<>>
      OBVIOUS
    <3> QED
      BY <3>1, Zenon
  <2> QED
    BY <2>1, Zenon DEF Fees
<1>4. IsList(p.general) /\ FeeTitle \notin Titles(p.general)
  BY PrintedList DEF ListInv
<1>5. p # NotPrinted
  BY <1>1 DEF NotPrinted
<1>6. /\ Len(list) \in 1..MAX_INSTRUCTIONS
      /\ \A n \in 1..Len(list) : list[n].kind \notin ComputeBudgetKinds
      /\ \A n \in 1..Len(list) :
            list[n].kind = "SystemAdvanceNonceAccount" =>
                Len(list) = 1 /\ p.primary = "SystemAdvanceNonceAccount"
  BY <1>5, PrintedParts, Zenon
<1>7. infos' = infos /\ expert' = expert /\ list' = list /\ fee' = fee
      /\ IsNonced' = IsNonced
  BY <1>1 DEF message, IsNonced
<1> HIDE DEF p, g
<1>8. Writable(summary, p)
  BY <1>1
<1>9. /\ summary'.general = g \o p.general
      /\ summary'.primary = p.primary
      /\ summary'.nonce = summary.nonce
  BY <1>1, <1>2, <1>3, <1>4, <1>8, WrittenItems, Zenon
<1>10. /\ Front \in 0..Len(infos) /\ Len(infos) = Front + Len(list)
       /\ Len(infos) \in Nat /\ Len(list) \in Nat
       /\ DOMAIN infos = 1..Len(infos) /\ DOMAIN list = 1..Len(list)
       /\ \A n \in 1..Len(list) : list[n] = infos[n + Front]
  BY FrontElements
<1>11. BudgetIsWhole'
  <2>1. /\ "ChangeUnitLimit" \in ComputeBudgetKinds
        /\ "ChangeUnitPrice" \in ComputeBudgetKinds
    BY DEF ComputeBudgetKinds
  <2>2. /\ LastIn(fee.limit, "ChangeUnitLimit", Front)
        /\ LastIn(fee.price, "ChangeUnitPrice", Front)
    BY <1>1 DEF FrontInv
  <2>3. /\ fee.limit = LastOf("ChangeUnitLimit")
        /\ fee.price = LastOf("ChangeUnitPrice")
    <3>1. /\ \A n \in 1..Len(list) : list[n].kind # "ChangeUnitLimit"
          /\ \A n \in 1..Len(list) : list[n].kind # "ChangeUnitPrice"
      BY <1>6, <2>1
    <3> QED
      BY <2>2, <3>1, LastOfMessage
  <2>4. fee = [limit |-> LastOf("ChangeUnitLimit"),
               price |-> LastOf("ChangeUnitPrice")]
    BY <2>3 DEF ListInv
  <2>5. fee' = [limit |-> LastOf("ChangeUnitLimit"),
                price |-> LastOf("ChangeUnitPrice")]'
    BY <1>7, <2>4 DEF LastOf, Positions
  <2>6. {n \in DOMAIN summary'.general : summary'.general[n] = FeeTitle}
            = IF fee' = NoFee THEN {} ELSE {1}
    <3>1. {n \in DOMAIN (g \o p.general) : (g \o p.general)[n] = FeeTitle}
            = IF g = <<>> THEN {} ELSE {1}
      BY <1>3, <1>4, ShownFees
    <3> QED
      BY <1>3, <1>7, <1>9, <3>1
  <2>7. \A n \in DOMAIN list' : list'[n].kind \notin ComputeBudgetKinds
    BY <1>6, <1>7, <1>10
  <2> QED
    BY <2>5, <2>6, <2>7, Zenon DEF BudgetIsWhole, FeeTitle
<1>12. NonceComesFirst'
  <2>1. /\ NonceShown
        /\ \A n \in 1..Front :
                \/ infos[n].kind \in ComputeBudgetKinds
                \/ n = 1 /\ infos[n].kind = "SystemAdvanceNonceAccount"
    BY <1>1, Zenon DEF FrontInv
  <2>2. (summary'.nonce # <<>>) <=>
            (/\ expert' /\ Len(infos') > 1
             /\ infos'[1].kind = "SystemAdvanceNonceAccount")
    BY <1>7, <1>9, <2>1 DEF NonceShown, IsNonced
  <2>3. ASSUME NEW n \in 1..Len(infos), n # 1,
               infos[n].kind = "SystemAdvanceNonceAccount"
        PROVE  n = Len(infos) /\ p.primary = "SystemAdvanceNonceAccount"
    <3>1. n \notin 1..Front
      <4>1. infos[n].kind \notin ComputeBudgetKinds
        BY <2>3 DEF ComputeBudgetKinds
      <4> QED
        BY <2>1, <2>3, <4>1
    <3>2. n - Front \in 1..Len(list) /\ (n - Front) + Front = n
      BY <1>10, <2>3, <3>1
    <3>3. list[n - Front].kind = "SystemAdvanceNonceAccount"
      BY <1>10, <2>3, <3>2
    <3>4. Len(list) = 1 /\ p.primary = "SystemAdvanceNonceAccount"
      BY <1>6, <3>2, <3>3
    <3>5. n = Len(infos)
      BY <1>10, <3>2, <3>4
    <3> QED
      BY <3>4, <3>5
  <2>4. \A n \in Positions(infos', "SystemAdvanceNonceAccount") \ {1} :
            /\ n = Len(infos')
            /\ summary'.primary = "SystemAdvanceNonceAccount"
    BY <1>7, <1>9, <1>10, <2>3 DEF Positions
  <2> QED
    BY <2>2, <2>4, Zenon DEF NonceComesFirst, Positions
<1> QED
  BY <1>11, <1>12

LEMMA FrontInvariant == Spec => []FrontInv
<1>1. Init => FrontInv
  <2> SUFFICES ASSUME Init PROVE FrontInv
    OBVIOUS
  <2>1. pc = "idle"
    BY DEF Init
  <2>2. BudgetIsWhole /\ NonceComesFirst
    BY <2>1, Zenon DEF BudgetIsWhole, NonceComesFirst
  <2> QED
    BY <2>1, <2>2 DEF FrontInv
<1>2. ListInv /\ SlotsInv /\ FrontInv /\ [Next]_vars => FrontInv'
  <2> SUFFICES ASSUME ListInv, SlotsInv, FrontInv, [Next]_vars
               PROVE  FrontInv'
    OBVIOUS
  <2>0. ASSUME pc' \in {"instructions", "nonce"}, summary'.nonce = <<>>
        PROVE  FrontInv'
    <3>1. BudgetIsWhole' /\ NonceComesFirst'
      BY <2>0, Zenon DEF BudgetIsWhole, NonceComesFirst
    <3> QED
      BY <2>0, <3>1 DEF FrontInv
  <2>1. ASSUME NEW n \in Lengths, NEW x \in BOOLEAN, Begin(n, x)
        PROVE  FrontInv'
    <3>1. CASE pc' = "instructions"
      <4>1. summary'.nonce = <<>>
        BY <2>1 DEF Begin, ResetSummary, EmptySummary
      <4> QED
        BY <2>0, <3>1, <4>1
    <3>2. CASE pc' = "handler" /\ result' = 1
      BY <3>2, FrontElsewhere
    <3> QED
      BY <2>1, <3>1, <3>2 DEF Begin
  <2>2. CASE Fail
    BY <2>2, FrontElsewhere DEF Fail
  <2>3. CASE ParseInstruction
    <3>1. pc' = "instructions" /\ summary' = summary /\ summary.nonce = <<>>
      BY <2>3 DEF ParseInstruction, FrontInv
    <3> QED
      BY <2>0, <3>1
  <2>4. ASSUME NEW wellFormed \in BOOLEAN, EndOfBody(wellFormed)
        PROVE  FrontInv'
    <3>1. CASE pc' = "nonce" /\ summary' = summary
      <4>1. summary.nonce = <<>>
        BY <2>4 DEF EndOfBody, FrontInv
      <4> QED
        BY <2>0, <3>1, <4>1
    <3> QED
      BY <2>2, <2>4, <3>1 DEF EndOfBody
  <2>5. CASE PrintNonce
    BY <2>5, FrontNonced
  <2>6. CASE PrintComputeBudget
    BY <2>6, FrontBudgeted
  <2>7. CASE PrintTransaction
    <3>1. pc' \in {"handler", "fault"}
      BY <2>7, Zenon DEF PrintTransaction
    <3>2. CASE pc' = "handler" /\ result' = 0
      BY <2>7, <3>2, RecognizedFront DEF FrontInv
    <3>3. CASE ~(pc' = "handler" /\ result' = 0)
      BY <3>1, <3>3, FrontElsewhere
    <3> QED
      BY <3>2, <3>3
  <2>8. CASE BlindSign \/ RefuseBlindSign \/ Processed
             \/ (\E other \in BOOLEAN : SetFeePayer(other)) \/ Finalize
    <3>1. pc' \in {"feePayer", "fault", "idle", "finalize"}
      BY <2>8 DEF BlindSign, RefuseBlindSign, Processed, SetFeePayer, Finalize
    <3> QED
      BY <3>1, FrontElsewhere
  <2>9. CASE UNCHANGED vars
    <3>1. /\ UNCHANGED <<pc, expert, infos, list, fee, result, summary>>
          /\ IsNonced' = IsNonced /\ Front' = Front
      BY <2>9 DEF vars, IsNonced, Front
    <3>2. BudgetIsWhole' /\ NonceComesFirst'
      <4>1. BudgetIsWhole /\ NonceComesFirst
        BY Zenon DEF FrontInv
      <4>2. /\ LastOf("ChangeUnitLimit")' = LastOf("ChangeUnitLimit")
            /\ LastOf("ChangeUnitPrice")' = LastOf("ChangeUnitPrice")
        BY <3>1 DEF LastOf, Positions
      <4>3. BudgetIsWhole'
        BY <3>1, <4>1, <4>2, Zenon DEF BudgetIsWhole
      <4>4. NonceComesFirst'
        BY <3>1, <4>1 DEF NonceComesFirst, Positions
      <4> QED
        BY <4>3, <4>4
    <3> QED
      BY <3>1, <3>2, Zenon DEF FrontInv, LastIn, NonceShown, Bare
  <2>10. CASE MalformedInstruction
    BY <2>2, <2>10 DEF MalformedInstruction
  <2> QED
    BY <2>1, <2>3, <2>4, <2>5, <2>6, <2>7, <2>8, <2>9, <2>10 DEF Next
<1> QED
  BY <1>1, <1>2, ListInvariant, SlotsInvariant, PTL DEF Spec

(* The maximum fee is that of the whole transaction: the loop over the     *)
(* compute budget instructions in front misses none when the transaction   *)
(* is recognized, and the fee is shown once, as the first general item.    *)
THEOREM WholeBudget == Spec => []BudgetIsWhole
<1>1. FrontInv => BudgetIsWhole
  BY DEF FrontInv
<1> QED
  BY <1>1, FrontInvariant, PTL

(* A recognized transaction advances a nonce in front of everything else,  *)
(* or does nothing else; in expert mode the nonce is shown exactly if it   *)
(* is used.                                                                *)
THEOREM NonceInFront == Spec => []NonceComesFirst
<1>1. FrontInv => NonceComesFirst
  BY DEF FrontInv
<1> QED
  BY <1>1, FrontInvariant, PTL

-----------------------------------------------------------------------------
(* Whose authority an instruction uses.                                    *)

(* The title is among these items.                                         *)
Shows(t, s) == IsList(s) /\ t \in Titles(s)

(* If the instruction uses the authority of another key, the items say so. *)
ShowsOther(i, s) ==
    "OtherAuthority" \in i.facts => \E t \in AuthorityTitles(i) : Shows(t, s)

LEMMA Pieces ==
    /\ \A a : IsList(<<a>>) /\ Shows(a, <<a>>)
    /\ \A a, b : IsList(<<a, b>>)
    /\ \A a, b, c : IsList(<<a, b, c>>)
    /\ \A a, b, c, d : IsList(<<a, b, c, d>>)
    /\ \A c, t : IsList(Opt(c, t))
    /\ \A t : Opt(TRUE, t) = <<t>>
<1>1. \A a : a \in Titles(<<a>>)
  BY DEF Titles
<1> QED
  BY <1>1, Tuples, Zenon DEF Shows, Opt

LEMMA ListBoth ==
    \A a, b : IsList(a) /\ IsList(b) => IsList(a \o b)
BY ListsTogether, Zenon

(* Items on either side of it hide no item.                                *)
LEMMA ShowsBoth ==
    ASSUME NEW t, NEW a, NEW b, IsList(b), Shows(t, a)
    PROVE  Shows(t, a \o b) /\ Shows(t, b \o a)
<1>1. IsList(a \o b) /\ IsList(b \o a)
  BY ListBoth DEF Shows
<1>2. /\ Titles(a \o b) = Titles(a) \cup Titles(b)
      /\ Titles(b \o a) = Titles(b) \cup Titles(a)
  BY TitlesOfBoth DEF Shows
<1> QED
  BY <1>1, <1>2 DEF Shows

(* What is known of the facts of an instruction.                           *)
LEMMA InfoFacts ==
    ASSUME NEW i \in InstructionInfo
    PROVE  /\ i.facts \subseteq Facts(i.kind)
           /\ "OtherAuthority" \in i.facts => "Multisig" \notin i.facts
<1>1. i \in UNION {[kind: {k}, facts: SUBSET Facts(k)] : k \in Kinds}
      /\ ~({"OtherAuthority", "Multisig"} \subseteq i.facts)
  BY DEF InstructionInfo
<1>2. PICK k \in Kinds : i \in [kind: {k}, facts: SUBSET Facts(k)]
  BY <1>1
<1>3. i.kind = k /\ i.facts \subseteq Facts(k)
  BY <1>2
<1> QED
  BY <1>1, <1>3

(* Instructions that use no authority.                                     *)
LEMMA NoAuthority ==
    ASSUME NEW i \in InstructionInfo,
           i.kind \in StakeInitializeKinds \cup InitializeAccountKinds
                \cup {"VoteInitialize", "SystemInitializeNonceAccount",
                      "SystemAllocate", "SystemAssign",
                      "SystemAllocateWithSeed", "InitializeMint",
                      "InitializeMultisig", "SyncNative",
                      "AssociatedTokenCreate"}
    PROVE  "OtherAuthority" \notin i.facts
<1>1. "OtherAuthority" \notin Facts(i.kind)
  BY Zenon
  DEF Facts, StakeInitializeKinds, InitializeAccountKinds,
      StakeAuthorizeKinds, SetLockupKinds, VoteAuthorizeKinds,
      SignedTokenKinds, SystemKinds, StakeKinds, VoteKinds
<1> QED
  BY <1>1, InfoFacts

(* Compute budget instructions use no authority either.                    *)
LEMMA BudgetHasNoAuthority ==
    ASSUME NEW i \in InstructionInfo, i.kind \in ComputeBudgetKinds
    PROVE  "OtherAuthority" \notin i.facts
<1>1. "OtherAuthority" \notin Facts(i.kind)
  BY Zenon
  DEF Facts, ComputeBudgetKinds, StakeInitializeKinds, StakeAuthorizeKinds,
      SetLockupKinds, VoteAuthorizeKinds, SignedTokenKinds, SystemKinds,
      StakeKinds, VoteKinds
<1> QED
  BY <1>1, InfoFacts

(* The item there is for the authority.                                    *)
LEMMA AuthorityShown ==
    ASSUME NEW i, NEW x, "OtherAuthority" \in i.facts
    PROVE  /\ \A t : Shows(t, Opt(ShowAuthority(i, x), t))
           /\ Shows("Authorized by", AuthorizedBy(i, x))
<1>1. ShowAuthority(i, x) <=> TRUE
  BY DEF ShowAuthority
<1>2. \A t : Opt(ShowAuthority(i, x), t) = <<t>>
  BY <1>1, Zenon DEF Opt
<1> QED
  BY <1>2, Pieces, Zenon DEF AuthorizedBy

(* The titles of the authorities of the kinds there are.                   *)
LEMMA TitleOfAuthority ==
    ASSUME NEW i
    PROVE  /\ i.kind = "SystemTransfer" => "Sender" \in AuthorityTitles(i)
           /\ i.kind \in CreateKinds =>
                /\ "From" \in AuthorityTitles(i)
                /\ "Funded by" \in AuthorityTitles(i)
           /\ i.kind \in SplTokenKinds => "Owner" \in AuthorityTitles(i)
           /\ i.kind \in StakeKinds \cup VoteKinds \cup
                    {"SystemAdvanceNonceAccount", "SystemWithdrawNonceAccount",
                     "SystemAuthorizeNonceAccount"} =>
                "Authorized by" \in AuthorityTitles(i)
<1>1. CASE i.kind = "SystemTransfer"
  <2>1. /\ i.kind \notin CreateKinds /\ i.kind \notin SplTokenKinds
        /\ i.kind \notin StakeKinds /\ i.kind \notin VoteKinds
    BY <1>1
    DEF CreateKinds, SplTokenKinds, StakeKinds, VoteKinds,
        StakeAuthorizeKinds, StakeInitializeKinds, SetLockupKinds,
        VoteAuthorizeKinds, InitializeAccountKinds, SignedTokenKinds
  <2> QED
    BY <1>1, <2>1, Zenon DEF AuthorityTitles
<1>2. CASE i.kind \in CreateKinds
  <2>1. /\ i.kind # "SystemTransfer" /\ i.kind \notin SplTokenKinds
        /\ i.kind \notin StakeKinds /\ i.kind \notin VoteKinds
        /\ i.kind \notin {"SystemAdvanceNonceAccount",
                          "SystemWithdrawNonceAccount",
                          "SystemAuthorizeNonceAccount"}
    BY <1>2
    DEF CreateKinds, SplTokenKinds, StakeKinds, VoteKinds,
        StakeAuthorizeKinds, StakeInitializeKinds, SetLockupKinds,
        VoteAuthorizeKinds, InitializeAccountKinds, SignedTokenKinds
  <2> QED
    BY <1>2, <2>1, Zenon DEF AuthorityTitles
<1>3. CASE i.kind \in SplTokenKinds
  <2>1. /\ i.kind # "SystemTransfer" /\ i.kind \notin CreateKinds
        /\ i.kind \notin StakeKinds /\ i.kind \notin VoteKinds
        /\ i.kind \notin {"SystemAdvanceNonceAccount",
                          "SystemWithdrawNonceAccount",
                          "SystemAuthorizeNonceAccount"}
    BY <1>3
    DEF CreateKinds, SplTokenKinds, StakeKinds, VoteKinds,
        StakeAuthorizeKinds, StakeInitializeKinds, SetLockupKinds,
        VoteAuthorizeKinds, InitializeAccountKinds, SignedTokenKinds
  <2> QED
    BY <1>3, <2>1, Zenon DEF AuthorityTitles
<1>4. CASE /\ i.kind # "SystemTransfer" /\ i.kind \notin CreateKinds
           /\ i.kind \notin SplTokenKinds
  BY <1>4, Zenon DEF AuthorityTitles
<1> QED
  BY <1>1, <1>2, <1>3, <1>4, Zenon

(* An instruction with nothing to show.                                    *)
LEMMA NothingToShow ==
    ASSUME NEW i, NEW s, "OtherAuthority" \notin i.facts
    PROVE  ShowsOther(i, s)
BY DEF ShowsOther

(* The item for the authority, next to others.                             *)
LEMMA ShownBeside ==
    ASSUME NEW i, NEW x, "OtherAuthority" \in i.facts
    PROVE  /\ \A s : IsList(s) =>
                /\ Shows("Authorized by", s \o AuthorizedBy(i, x))
                /\ Shows("Authorized by", AuthorizedBy(i, x) \o s)
           /\ \A s, t : IsList(s) =>
                /\ Shows(t, s \o Opt(ShowAuthority(i, x), t))
                /\ Shows(t, Opt(ShowAuthority(i, x), t) \o s)
BY AuthorityShown, ShowsBoth, Zenon

LEMMA CreateShows ==
    ASSUME NEW i, NEW x, "OtherAuthority" \in i.facts
    PROVE  Shows("From", CreateAccountItems(i, x))
<1> DEFINE seed == IF i.kind = "SystemCreateAccountWithSeed"
                   THEN Opt(x, "Base") \o Opt(x, "Seed") ELSE <<>>
           front == <<"Deposit">> \o Opt(ShowAuthority(i, x), "From")
<1>1. Shows("From", front)
  BY ShownBeside, Pieces, Zenon
<1>2. IsList(seed)
  <2>1. IsList(Opt(x, "Base") \o Opt(x, "Seed"))
    BY Pieces, ListBoth, Zenon
  <2>2. IsList(<<>>)
    BY Tuples
  <2> QED
    BY <2>1, <2>2, Zenon
<1>3. CreateAccountItems(i, x) = front \o seed
  BY Zenon DEF CreateAccountItems
<1> HIDE DEF front, seed
<1> QED
  BY <1>1, <1>2, <1>3, ShowsBoth, Zenon

LEMMA FundedShows ==
    ASSUME NEW i, NEW x, "OtherAuthority" \in i.facts
    PROVE  Shows("Funded by", FundedItems(i, x))
BY ShownBeside, Pieces, Zenon DEF FundedItems

LEMMA SystemShows ==
    ASSUME NEW i \in InstructionInfo, NEW x, i.kind \in SystemKinds
    PROVE  ShowsOther(i, SystemItems(i, x))
<1> SUFFICES ASSUME "OtherAuthority" \in i.facts
             PROVE  \E t \in AuthorityTitles(i) : Shows(t, SystemItems(i, x))
  BY Zenon DEF ShowsOther
<1>1. CASE i.kind = "SystemTransfer"
  <2>1. Shows("Sender", SystemItems(i, x))
    BY <1>1, ShownBeside, Pieces, Zenon DEF SystemItems
  <2> QED
    BY <1>1, <2>1, TitleOfAuthority, Zenon
<1>2. CASE i.kind \in {"SystemCreateAccount", "SystemCreateAccountWithSeed"}
  <2>1. Shows("From", SystemItems(i, x))
    BY <1>2, CreateShows, Zenon DEF SystemItems
  <2>2. i.kind \in CreateKinds
    BY <1>2, Zenon DEF CreateKinds
  <2> QED
    BY <2>1, <2>2, TitleOfAuthority, Zenon
<1>3. CASE i.kind \in {"SystemAdvanceNonceAccount",
                       "SystemWithdrawNonceAccount",
                       "SystemAuthorizeNonceAccount"}
  <2>1. CASE i.kind = "SystemAdvanceNonceAccount"
    BY <2>1, AuthorityShown, TitleOfAuthority, Zenon DEF SystemItems
  <2>2. CASE i.kind = "SystemWithdrawNonceAccount"
    <3>1. SystemItems(i, x) = <<"From", "To">> \o AuthorizedBy(i, x)
      BY <2>2, Zenon DEF SystemItems
    <3>2. Shows("Authorized by", SystemItems(i, x))
      BY <3>1, ShownBeside, Pieces, Zenon
    <3> QED
      BY <2>2, <3>2, TitleOfAuthority, Zenon
  <2>3. CASE i.kind = "SystemAuthorizeNonceAccount"
    <3>1. SystemItems(i, x) = <<"New authority">> \o AuthorizedBy(i, x)
      BY <2>3, Zenon DEF SystemItems
    <3>2. Shows("Authorized by", SystemItems(i, x))
      BY <3>1, ShownBeside, Pieces, Zenon
    <3> QED
      BY <2>3, <3>2, TitleOfAuthority, Zenon
  <2> QED
    BY <1>3, <2>1, <2>2, <2>3, Zenon
<1>4. CASE i.kind \in {"SystemInitializeNonceAccount", "SystemAllocate",
                       "SystemAssign", "SystemAllocateWithSeed"}
  BY <1>4, NoAuthority, Zenon
<1> QED
  BY <1>1, <1>2, <1>3, <1>4, Zenon DEF SystemKinds

LEMMA StakeShows ==
    ASSUME NEW i \in InstructionInfo, NEW x, i.kind \in StakeKinds
    PROVE  ShowsOther(i, StakeItems(i, x))
<1>1. CASE i.kind \in StakeInitializeKinds
  BY <1>1, NoAuthority, NothingToShow, Zenon
<1> DEFINE signed == AuthorizedBy(i, x)
<1>2. ASSUME "OtherAuthority" \in i.facts,
             i.kind \notin StakeInitializeKinds
      PROVE  Shows("Authorized by", StakeItems(i, x))
  <2>0. Shows("Authorized by", signed)
    BY <1>2, AuthorityShown, Zenon
  <2>1. CASE i.kind = "StakeDelegate"
    <3>1. StakeItems(i, x) = signed \o <<"Vote account">>
      BY <2>1, Zenon
      DEF StakeItems, StakeInitializeKinds, StakeAuthorizeKinds,
          SetLockupKinds
    <3> QED
      BY <2>0, <3>1, ShowsBoth, Pieces, Zenon
  <2>2. CASE i.kind \in {"StakeWithdraw", "StakeSplit"}
    <3>1. StakeItems(i, x) = <<"From", "To">> \o signed
      BY <2>2, Zenon
      DEF StakeItems, StakeInitializeKinds, StakeAuthorizeKinds,
          SetLockupKinds
    <3> QED
      BY <2>0, <3>1, ShowsBoth, Pieces, Zenon
  <2>3. CASE i.kind \in StakeAuthorizeKinds
    <3> DEFINE new == NewAuthority(i, "New stake auth")
               old == Opt(/\ "Custodian" \in i.facts
                          /\ x \/ "OtherCustodian" \in i.facts, "Custodian")
    <3>1. StakeItems(i, x) = (new \o signed) \o old
      BY <2>3, Zenon
      DEF StakeItems, StakeInitializeKinds, StakeAuthorizeKinds,
          SetLockupKinds
    <3>2. IsList(new) /\ IsList(old)
      BY Pieces, Zenon DEF NewAuthority
    <3> HIDE DEF new, old, signed
    <3>3. Shows("Authorized by", new \o signed)
      BY <2>0, <3>2, ShowsBoth, Zenon
    <3> QED
      BY <3>1, <3>2, <3>3, ShowsBoth, Zenon
  <2>4. CASE i.kind = "StakeDeactivate"
    <3>1. StakeItems(i, x) = signed
      BY <2>4, Zenon
      DEF StakeItems, StakeInitializeKinds, StakeAuthorizeKinds,
          SetLockupKinds
    <3> QED
      BY <2>0, <3>1, Zenon
  <2>5. CASE i.kind \in SetLockupKinds
    <3> DEFINE time == Opt("LockupTime" \in i.facts, "Time")
               epoch == Opt("LockupEpoch" \in i.facts, "Epoch")
               new == Opt("NewCustodian" \in i.facts, "New authority")
    <3>1. StakeItems(i, x) = ((time \o epoch) \o new) \o signed
      BY <2>5, Zenon
      DEF StakeItems, StakeInitializeKinds, StakeAuthorizeKinds,
          SetLockupKinds
    <3>2. IsList(time) /\ IsList(epoch) /\ IsList(new)
      BY Pieces, Zenon
    <3> HIDE DEF time, epoch, new, signed
    <3>3. IsList((time \o epoch) \o new)
      BY <3>2, ListBoth, Zenon
    <3> QED
      BY <2>0, <3>1, <3>3, ShowsBoth, Zenon
  <2>6. CASE i.kind = "StakeMerge"
    <3>1. StakeItems(i, x) = <<"Into">> \o signed
      BY <2>6, Zenon
      DEF StakeItems, StakeInitializeKinds, StakeAuthorizeKinds,
          SetLockupKinds
    <3> QED
      BY <2>0, <3>1, ShowsBoth, Pieces, Zenon
  <2> QED
    BY <1>2, <2>1, <2>2, <2>3, <2>4, <2>5, <2>6, Zenon DEF StakeKinds
<1> QED
  BY <1>1, <1>2, TitleOfAuthority, Zenon DEF ShowsOther

LEMMA VoteShows ==
    ASSUME NEW i \in InstructionInfo, NEW x, i.kind \in VoteKinds
    PROVE  ShowsOther(i, VoteItems(i, x))
<1>1. CASE i.kind = "VoteInitialize"
  BY <1>1, NoAuthority, NothingToShow, Zenon
<1>2. ASSUME "OtherAuthority" \in i.facts, i.kind # "VoteInitialize"
      PROVE  Shows("Authorized by", VoteItems(i, x))
  <2>1. CASE i.kind = "VoteWithdraw"
    <3>1. VoteItems(i, x) = <<"From", "To">> \o AuthorizedBy(i, x)
      BY <2>1, Zenon DEF VoteItems, VoteAuthorizeKinds
    <3> QED
      BY <1>2, <3>1, ShownBeside, Pieces, Zenon
  <2>2. CASE i.kind \in VoteAuthorizeKinds
    <3>1. /\ VoteItems(i, x) = NewAuthority(i, "New vote auth")
                               \o AuthorizedBy(i, x)
          /\ IsList(NewAuthority(i, "New vote auth"))
      BY <2>2, Pieces, Zenon DEF VoteItems, VoteAuthorizeKinds, NewAuthority
    <3> QED
      BY <1>2, <3>1, ShownBeside, Zenon
  <2>3. CASE i.kind = "VoteUpdateValidatorId"
    <3>1. VoteItems(i, x) = <<"New validator ID">> \o AuthorizedBy(i, x)
      BY <2>3, Zenon DEF VoteItems, VoteAuthorizeKinds
    <3> QED
      BY <1>2, <3>1, ShownBeside, Pieces, Zenon
  <2>4. CASE i.kind = "VoteUpdateCommission"
    <3>1. VoteItems(i, x) = <<"Commission">> \o AuthorizedBy(i, x)
      BY <2>4, Zenon DEF VoteItems, VoteAuthorizeKinds
    <3> QED
      BY <1>2, <3>1, ShownBeside, Pieces, Zenon
  <2> QED
    BY <1>2, <2>1, <2>2, <2>3, <2>4, Zenon DEF VoteKinds
<1> QED
  BY <1>1, <1>2, TitleOfAuthority, Zenon DEF ShowsOther

(* A token instruction says who owns the account, or that several do.      *)
LEMMA SignShows ==
    ASSUME NEW i \in InstructionInfo, NEW x, "OtherAuthority" \in i.facts
    PROVE  \A s : IsList(s) => Shows("Owner", s \o SplTokenSign(i, x))
<1>1. SplTokenSign(i, x) = Opt(ShowAuthority(i, x), "Owner")
  BY InfoFacts, Zenon DEF SplTokenSign
<1> QED
  BY <1>1, ShownBeside, Zenon

LEMMA TokenShows ==
    ASSUME NEW i \in InstructionInfo, NEW x, i.kind \in SplTokenKinds
    PROVE  ShowsOther(i, SplTokenItems(i, x))
<1>1. CASE i.kind \in InitializeAccountKinds
                      \cup {"InitializeMint", "InitializeMultisig",
                            "SyncNative"}
  BY <1>1, NoAuthority, NothingToShow, Zenon
<1> DEFINE signed == SplTokenSign(i, x)
<1>2. ASSUME "OtherAuthority" \in i.facts, i.kind \in SignedTokenKinds
      PROVE  Shows("Owner", SplTokenItems(i, x))
  <2>0. \A s : IsList(s) => Shows("Owner", s \o signed)
    BY <1>2, SignShows, Zenon
  <2>1. CASE i.kind = "TransferChecked"
    <3>1. SplTokenItems(i, x)
            = <<"Token address", "From (token account)",
                "To (token account)">> \o signed
      BY <2>1, Zenon
      DEF SplTokenItems, TokenTransferItems, InitializeAccountKinds
    <3> QED
      BY <2>0, <3>1, Pieces, Zenon
  <2>2. CASE i.kind = "ApproveChecked"
    <3>1. SplTokenItems(i, x)
            = <<"Allowance", "Token address", "From (token account)">>
              \o signed
      BY <2>2, Zenon DEF SplTokenItems, InitializeAccountKinds
    <3> QED
      BY <2>0, <3>1, Pieces, Zenon
  <2>3. CASE i.kind = "Revoke"
    <3>1. SplTokenItems(i, x) = Opt(ShowAuthority(i, x), "Owner")
      BY <1>2, <2>3, InfoFacts, Zenon
      DEF SplTokenItems, InitializeAccountKinds, SplTokenSign
    <3> QED
      BY <1>2, <3>1, AuthorityShown, Zenon
  <2>4. CASE i.kind = "SetAuthority"
    <3> DEFINE front == <<"Type">> \o
                        Opt("ClearAuthority" \notin i.facts, "Authority")
    <3>1. SplTokenItems(i, x) = front \o signed
      BY <2>4, Zenon DEF SplTokenItems, InitializeAccountKinds
    <3>2. IsList(front)
      BY Pieces, ListBoth, Zenon
    <3> HIDE DEF front, signed
    <3> QED
      BY <2>0, <3>1, <3>2, Zenon
  <2>5. CASE i.kind = "MintToChecked"
    <3>1. SplTokenItems(i, x)
            = <<"Token address", "To (token account)">> \o signed
      BY <2>5, Zenon DEF SplTokenItems, InitializeAccountKinds
    <3> QED
      BY <2>0, <3>1, Pieces, Zenon
  <2>6. CASE i.kind = "BurnChecked"
    <3>1. SplTokenItems(i, x)
            = <<"Token address", "From (token account)">> \o signed
      BY <2>6, Zenon DEF SplTokenItems, InitializeAccountKinds
    <3> QED
      BY <2>0, <3>1, Pieces, Zenon
  <2>7. CASE i.kind = "CloseAccount"
    <3>1. SplTokenItems(i, x) = <<"Withdraw to">> \o signed
      BY <2>7, Zenon DEF SplTokenItems, InitializeAccountKinds
    <3> QED
      BY <2>0, <3>1, Pieces, Zenon
  <2>8. CASE i.kind \in {"FreezeAccount", "ThawAccount"}
    <3>1. SplTokenItems(i, x) = Opt(x, "Token address") \o signed
      BY <2>8, Zenon DEF SplTokenItems, InitializeAccountKinds
    <3> QED
      BY <2>0, <3>1, Pieces, Zenon
  <2> QED
    BY <1>2, <2>1, <2>2, <2>3, <2>4, <2>5, <2>6, <2>7, <2>8, Zenon
    DEF SignedTokenKinds
<1> QED
  BY <1>1, <1>2, TitleOfAuthority, Zenon DEF ShowsOther, SplTokenKinds

(* The printers of single instructions say whose authority they use.       *)
LEMMA SingleShows ==
    ASSUME NEW i \in InstructionInfo, NEW x, PrintSingle(i, x) # NotPrinted
    PROVE  ShowsOther(i, PrintSingle(i, x).general)
<1>1. \A k, s : Printed(k, s).general = s
  BY DEF Printed
<1>2. CASE i.kind \in SystemKinds
  <2>1. PrintSingle(i, x) = Printed(i.kind, SystemItems(i, x))
    BY <1>2, SingleIsOfProgram, Zenon
  <2>2. ShowsOther(i, SystemItems(i, x))
    BY <1>2, SystemShows
  <2> QED
    BY <1>1, <2>1, <2>2
<1>3. CASE i.kind \in StakeKinds
  <2>1. PrintSingle(i, x) = Printed(i.kind, StakeItems(i, x))
    BY <1>3, SingleIsOfProgram, Zenon
  <2>2. ShowsOther(i, StakeItems(i, x))
    BY <1>3, StakeShows
  <2> QED
    BY <1>1, <2>1, <2>2
<1>4. CASE i.kind \in VoteKinds
  <2>1. PrintSingle(i, x) = Printed(i.kind, VoteItems(i, x))
    BY <1>4, SingleIsOfProgram, Zenon
  <2>2. ShowsOther(i, VoteItems(i, x))
    BY <1>4, VoteShows
  <2> QED
    BY <1>1, <2>1, <2>2
<1>5. CASE i.kind \in SplTokenKinds
  <2>1. PrintSingle(i, x) = Printed(i.kind, SplTokenItems(i, x))
    BY <1>5, SingleIsOfProgram, Zenon
  <2>2. ShowsOther(i, SplTokenItems(i, x))
    BY <1>5, TokenShows
  <2> QED
    BY <1>1, <2>1, <2>2
<1>6. CASE i.kind = "AssociatedTokenCreate"
  BY <1>6, NoAuthority, NothingToShow, Zenon
<1> QED
  BY <1>2, <1>3, <1>4, <1>5, <1>6, Zenon DEF PrintSingle

-----------------------------------------------------------------------------
(* Two to four instructions that are printed as one.                       *)

(* Two authorizations: the second one's authority stands for both.         *)
LEMMA AuthorizeBothShows ==
    ASSUME NEW group, NEW x, NEW k,
           \/ /\ group[2].kind \in StakeAuthorizeKinds
              /\ k = PrintStakeAuthorizeBoth(group, x)
           \/ /\ group[2].kind \in VoteAuthorizeKinds
              /\ k = PrintVoteAuthorizeBoth(group, x),
           k # NotPrinted
    PROVE  ShowsOther(group[2], k.general)
<1> DEFINE new(title) == NewAuthorities(group[1], group[2], title)
           old == Opt("Custodian" \in group[2].facts, "Custodian")
           signed == AuthorizedBy(group[2], x)
<1>1. /\ \A p, s : Printed(p, s).general = s
      /\ \A a, b, p, s : \/ AuthorizeBothItems(a, b, p, s) = Printed(p, s)
                         \/ AuthorizeBothItems(a, b, p, s) = NotPrinted
  <2>1. \A p, s : Printed(p, s).general = s
    BY DEF Printed
  <2> QED
    BY <2>1, Zenon DEF AuthorizeBothItems
<1>2. \A title : IsList(new(title))
  BY Pieces, Zenon DEF NewAuthorities
<1>3. IsList(old)
  BY Pieces, Zenon
<1>4. \/ k.general = (new("New stake auth") \o old) \o signed
      \/ k.general = new("New vote auth") \o signed
  <2>1. \/ \E p : k = Printed(p, (new("New stake auth") \o old) \o signed)
        \/ \E p : k = Printed(p, new("New vote auth") \o signed)
    BY <1>1, Zenon DEF PrintStakeAuthorizeBoth, PrintVoteAuthorizeBoth
  <2> HIDE DEF new, old, signed
  <2> QED
    BY <1>1, <2>1, Zenon
<1>5. group[2].kind \in StakeKinds \cup VoteKinds
  BY Zenon DEF StakeKinds, VoteKinds
<1>6. ASSUME "OtherAuthority" \in group[2].facts
      PROVE  Shows("Authorized by", k.general)
  <2>1. \A s : IsList(s) => Shows("Authorized by", s \o signed)
    BY <1>6, ShownBeside, Zenon
  <2> HIDE DEF new, old, signed
  <2>2. IsList(new("New stake auth") \o old)
    BY <1>2, <1>3, ListBoth, Zenon
  <2> QED
    BY <1>2, <1>4, <2>1, <2>2, Zenon
<1> QED
  BY <1>5, <1>6, TitleOfAuthority, Zenon DEF ShowsOther

(* Base and seed do not hide whose authority a split uses.                 *)
LEMMA SplitShows ==
    ASSUME NEW i, NEW x, i.kind = "StakeSplit"
    PROVE  ShowsOther(i, StakeSplitWithSeedItems(i, x))
<1> DEFINE front == (<<"From", "To">> \o Opt(x, "Base")) \o Opt(x, "Seed")
<1>1. IsList(front)
  BY Pieces, ListBoth, Zenon
<1>2. StakeSplitWithSeedItems(i, x) = front \o AuthorizedBy(i, x)
  BY Zenon DEF StakeSplitWithSeedItems
<1>3. i.kind \in StakeKinds
  BY Zenon DEF StakeKinds
<1> HIDE DEF front
<1>4. ASSUME "OtherAuthority" \in i.facts
      PROVE  Shows("Authorized by", StakeSplitWithSeedItems(i, x))
  BY <1>1, <1>2, <1>4, ShownBeside, Zenon
<1> QED
  BY <1>3, <1>4, TitleOfAuthority, Zenon DEF ShowsOther

(* An instruction that creates an account, next to other items.            *)
LEMMA CreatorShows ==
    ASSUME NEW i, i.kind \in CreateKinds, NEW x, NEW s, IsList(s)
    PROVE  /\ ShowsOther(i, CreateAccountItems(i, x) \o s)
           /\ ShowsOther(i, s \o FundedItems(i, x))
<1>1. ASSUME "OtherAuthority" \in i.facts
      PROVE  /\ Shows("From", CreateAccountItems(i, x) \o s)
             /\ Shows("Funded by", s \o FundedItems(i, x))
  BY <1>1, CreateShows, FundedShows, ShowsBoth, Zenon
<1> QED
  BY <1>1, TitleOfAuthority, Zenon DEF ShowsOther

LEMMA InitializeList ==
    ASSUME NEW i, NEW x
    PROVE  IsList(StakeInitializeItems(i, x)) /\ IsList(VoteInitializeItems)
<1> DEFINE time == Opt("LockupTime" \in i.facts, "Lockup time")
           epoch == Opt("LockupEpoch" \in i.facts, "Lockup epoch")
<1>1. IsList(LockupItems(i, x))
  <2>1. /\ IsList((time \o epoch) \o <<"Lockup authority">>)
        /\ IsList(Opt(x, "Lockup"))
    BY Pieces, ListBoth, Zenon
  <2> QED
    BY <2>1, Zenon DEF LockupItems
<1>2. IsList(IF "TwoAuthorities" \in i.facts
             THEN <<"New stake auth", "New withdraw auth">>
             ELSE <<"New authority">>)
  BY Pieces, Zenon
<1>3. IsList(StakeInitializeItems(i, x))
  BY <1>1, <1>2, ListBoth, Zenon DEF StakeInitializeItems
<1>4. IsList(VoteInitializeItems)
  BY Pieces, Zenon DEF VoteInitializeItems
<1> QED
  BY <1>3, <1>4

(* The items of an instruction, and those behind them, that say whose      *)
(* authority it uses.                                                      *)
LEMMA OtherBefore ==
    ASSUME NEW i, NEW a, NEW b, ShowsOther(i, a), IsList(b)
    PROVE  ShowsOther(i, a \o b) /\ ShowsOther(i, b \o a)
BY ShowsBoth, Zenon DEF ShowsOther

(* Which of two instructions are printed as one, and how.                  *)
LEMMA PairKinds ==
    ASSUME NEW group, NEW x, PrintPair(group, x) # NotPrinted
    PROVE  LET first == group[1]
               second == group[2]
               a == first.kind
               b == second.kind
               p == PrintPair(group, x)
               created == CreateAccountItems(first, x)
               funded == FundedItems(first, x)
           IN  \/ /\ a \in CreateKinds /\ b \in StakeInitializeKinds
                  /\ \E t : p = Printed(t, created
                                    \o StakeInitializeItems(second, x))
               \/ /\ a \in CreateKinds /\ b = "SystemInitializeNonceAccount"
                  /\ \E t : p = Printed(t, created \o <<"New authority">>)
               \/ /\ a \in CreateKinds /\ b = "VoteInitialize"
                  /\ \E t : p = Printed(t, created \o VoteInitializeItems)
               \/ /\ a = b /\ b \in StakeAuthorizeKinds
                  /\ p = PrintStakeAuthorizeBoth(group, x)
               \/ /\ a = b /\ b \in VoteAuthorizeKinds
                  /\ p = PrintVoteAuthorizeBoth(group, x)
               \/ b = "StakeSplit" /\ p = PrintSingle(second, x)
               \/ /\ b = "StakeSplit"
                  /\ \E t : p = Printed(t, StakeSplitWithSeedItems(second, x))
               \/ /\ a \in CreateKinds
                  /\ b \in {"InitializeMint", "InitializeMultisig"}
                           \cup InitializeAccountKinds
                  /\ \E t, s : IsList(s) /\ p = Printed(t, s \o funded)
               \/ /\ a = "AssociatedTokenCreate" /\ b = "TransferChecked"
                  /\ \E t, s : /\ IsList(s)
                               /\ p = Printed(t,
                                        s \o TokenTransferItems(second, x))
<1> DEFINE first == group[1]
           second == group[2]
           a == first.kind
           b == second.kind
           kinds == <<a, b>>
           p == PrintPair(group, x)
           g1 == kinds \in CreateKinds \X StakeInitializeKinds
           g2 == kinds \in CreateKinds \X {"SystemInitializeNonceAccount"}
           g3 == kinds \in CreateKinds \X {"VoteInitialize"}
           g4 == kinds \in {<<k, k>> : k \in StakeAuthorizeKinds}
           g5 == kinds \in {<<k, k>> : k \in VoteAuthorizeKinds}
           g6 == kinds = <<"SystemCreateAccount", "StakeSplit">>
           g7 == kinds \in {"SystemAllocateWithSeed",
                            "SystemCreateAccountWithSeed"} \X {"StakeSplit"}
           g8 == kinds = <<"SystemCreateAccount", "InitializeMint">>
           g9 == kinds \in {"SystemCreateAccount"} \X InitializeAccountKinds
           g10 == kinds = <<"SystemCreateAccount", "InitializeMultisig">>
           g11 == kinds = <<"AssociatedTokenCreate", "TransferChecked">>
           mint == <<"Mint authority", "Mint decimals">>
                   \o Opt("FreezeAuthority" \in second.facts,
                          "Freeze authority")
           holder == <<"For", "Token address">>
           associated == AssociatedTokenItems \o <<"Transfer tokens">>
           created == CreateAccountItems(first, x)
           funded == FundedItems(first, x)
           r1 == Printed("Create stake acct",
                         created \o StakeInitializeItems(second, x))
           r2 == Printed("Create nonce acct", created \o <<"New authority">>)
           r3 == Printed("Create vote acct", created \o VoteInitializeItems)
           r4 == PrintStakeAuthorizeBoth(group, x)
           r5 == PrintVoteAuthorizeBoth(group, x)
           r6 == PrintSingle(second, x)
           r7 == Printed("Split stake", StakeSplitWithSeedItems(second, x))
           r8 == Printed("Create token mint", mint \o funded)
           r9 == Printed("Create token account", holder \o funded)
           r10 == Printed("Create multisig", MultisigItems(second) \o funded)
           r11 == Printed("Create token account",
                          associated \o TokenTransferItems(second, x))
<1>1. /\ g1 => a \in CreateKinds /\ b \in StakeInitializeKinds
      /\ g2 => a \in CreateKinds /\ b = "SystemInitializeNonceAccount"
      /\ g3 => a \in CreateKinds /\ b = "VoteInitialize"
      /\ g4 => a = b /\ b \in StakeAuthorizeKinds
      /\ g5 => a = b /\ b \in VoteAuthorizeKinds
  BY TupleParts
<1>2. /\ g6 => b = "StakeSplit"
      /\ g7 => b = "StakeSplit"
      /\ g8 => a = "SystemCreateAccount" /\ b = "InitializeMint"
      /\ g9 => a = "SystemCreateAccount" /\ b \in InitializeAccountKinds
      /\ g10 => a = "SystemCreateAccount" /\ b = "InitializeMultisig"
      /\ g11 => a = "AssociatedTokenCreate" /\ b = "TransferChecked"
  BY TupleParts
<1>3. "SystemCreateAccount" \in CreateKinds
  BY DEF CreateKinds
<1>4. /\ IsList(mint) /\ IsList(holder) /\ IsList(associated)
      /\ IsList(MultisigItems(second))
  BY Pieces, ListBoth, Zenon DEF AssociatedTokenItems, MultisigItems
<1>5. p = CASE g1 -> r1 [] g2 -> r2 [] g3 -> r3 [] g4 -> r4 [] g5 -> r5
            [] g6 -> r6 [] g7 -> r7 [] g8 -> r8 [] g9 -> r9 [] g10 -> r10
            [] g11 -> r11 [] OTHER -> NotPrinted
  BY Zenon DEF PrintPair
<1>6. p # NotPrinted
  OBVIOUS
<1> HIDE DEF p, g1, g2, g3, g4, g5, g6, g7, g8, g9, g10, g11,
             r1, r2, r3, r4, r5, r6, r7, r8, r9, r10, r11
<1>7. \/ g1 /\ p = r1
      \/ g2 /\ p = r2
      \/ g3 /\ p = r3
      \/ g4 /\ p = r4
      \/ g5 /\ p = r5
      \/ g6 /\ p = r6
      \/ g7 /\ p = r7
      \/ g8 /\ p = r8
      \/ g9 /\ p = r9
      \/ g10 /\ p = r10
      \/ g11 /\ p = r11
  BY <1>5, <1>6
<1> HIDE DEF mint, holder, associated, created, funded
<1>8. /\ \E t : r1 = Printed(t, created \o StakeInitializeItems(second, x))
      /\ \E t : r2 = Printed(t, created \o <<"New authority">>)
      /\ \E t : r3 = Printed(t, created \o VoteInitializeItems)
      /\ \E t : r7 = Printed(t, StakeSplitWithSeedItems(second, x))
      /\ \E t, s : IsList(s) /\ r8 = Printed(t, s \o funded)
      /\ \E t, s : IsList(s) /\ r9 = Printed(t, s \o funded)
      /\ \E t, s : IsList(s) /\ r10 = Printed(t, s \o funded)
      /\ \E t, s : /\ IsList(s)
                   /\ r11 = Printed(t, s \o TokenTransferItems(second, x))
  BY <1>4, Zenon DEF r1, r2, r3, r7, r8, r9, r10, r11
<1>9. r4 = PrintStakeAuthorizeBoth(group, x)
      /\ r5 = PrintVoteAuthorizeBoth(group, x)
      /\ r6 = PrintSingle(second, x)
  BY DEF r4, r5, r6
<1> QED
  BY <1>1, <1>2, <1>3, <1>7, <1>8, <1>9, ZenonT(60) DEF p, created, funded

(* Two instructions that are printed as one: the second one's authority is *)
(* shown, and the first one's unless the second is a split or both are the *)
(* same authorization.                                                     *)
LEMMA PairShows ==
    ASSUME NEW group, NEW x, PrintPair(group, x) # NotPrinted,
           group[1] \in InstructionInfo, group[2] \in InstructionInfo
    PROVE  LET p == PrintPair(group, x)
           IN  /\ ShowsOther(group[2], p.general)
               /\ \/ ShowsOther(group[1], p.general)
                  \/ group[2].kind = "StakeSplit"
                  \/ /\ group[1].kind = group[2].kind
                     /\ group[1].kind \in StakeAuthorizeKinds
                                          \cup VoteAuthorizeKinds
<1> DEFINE first == group[1]
           second == group[2]
           a == first.kind
           b == second.kind
           p == PrintPair(group, x)
           created == CreateAccountItems(first, x)
           funded == FundedItems(first, x)
           shown == /\ ShowsOther(second, p.general)
                    /\ \/ ShowsOther(first, p.general)
                       \/ b = "StakeSplit"
                       \/ /\ a = b
                          /\ a \in StakeAuthorizeKinds \cup VoteAuthorizeKinds
<1> SUFFICES shown
  BY Zenon
<1>0. \A t, s : Printed(t, s).general = s
  BY DEF Printed
<1>1. CASE /\ a \in CreateKinds /\ b \in StakeInitializeKinds
           /\ \E t : p = Printed(t, created
                                    \o StakeInitializeItems(second, x))
  <2>1. p.general = created \o StakeInitializeItems(second, x)
    BY <1>0, <1>1
  <2>2. ShowsOther(first, created \o StakeInitializeItems(second, x))
    BY <1>1, CreatorShows, InitializeList, Zenon
  <2>3. ShowsOther(second, p.general)
    BY <1>1, NoAuthority, NothingToShow, Zenon
  <2> QED
    BY <2>1, <2>2, <2>3, Zenon
<1>2. CASE /\ a \in CreateKinds /\ b = "SystemInitializeNonceAccount"
           /\ \E t : p = Printed(t, created \o <<"New authority">>)
  <2>1. ShowsOther(second, p.general)
    BY <1>2, NoAuthority, NothingToShow, Zenon
  <2>2. PICK new : IsList(new) /\ \E t : p = Printed(t, created \o new)
    BY <1>2, Pieces, Zenon
  <2>3. p.general = created \o new
    BY <1>0, <2>2
  <2>4. ShowsOther(first, created \o new)
    BY <1>2, <2>2, CreatorShows, Zenon
  <2> QED
    BY <2>1, <2>3, <2>4, Zenon
<1>3. CASE /\ a \in CreateKinds /\ b = "VoteInitialize"
           /\ \E t : p = Printed(t, created \o VoteInitializeItems)
  <2>1. ShowsOther(second, p.general)
    BY <1>3, NoAuthority, NothingToShow, Zenon
  <2>2. p.general = created \o VoteInitializeItems
    BY <1>0, <1>3
  <2>3. ShowsOther(first, created \o VoteInitializeItems)
    BY <1>3, CreatorShows, InitializeList, Zenon
  <2> QED
    BY <2>1, <2>2, <2>3, Zenon
<1>4. CASE \/ /\ a = b /\ b \in StakeAuthorizeKinds
              /\ p = PrintStakeAuthorizeBoth(group, x)
           \/ /\ a = b /\ b \in VoteAuthorizeKinds
              /\ p = PrintVoteAuthorizeBoth(group, x)
  <2>1. ShowsOther(second, p.general)
    BY <1>4, AuthorizeBothShows, Zenon
  <2> QED
    BY <1>4, <2>1, Zenon
<1>5. CASE b = "StakeSplit" /\ p = PrintSingle(second, x)
  <2>1. ShowsOther(second, PrintSingle(second, x).general)
    BY <1>5, SingleShows, Zenon
  <2> QED
    BY <1>5, <2>1, Zenon
<1>6. CASE /\ b = "StakeSplit"
           /\ \E t : p = Printed(t, StakeSplitWithSeedItems(second, x))
  <2>1. p.general = StakeSplitWithSeedItems(second, x)
    BY <1>0, <1>6
  <2>2. ShowsOther(second, StakeSplitWithSeedItems(second, x))
    BY <1>6, SplitShows, Zenon
  <2> QED
    BY <1>6, <2>1, <2>2, Zenon
<1>7. CASE /\ a \in CreateKinds
           /\ b \in {"InitializeMint", "InitializeMultisig"}
                    \cup InitializeAccountKinds
           /\ \E t, s : IsList(s) /\ p = Printed(t, s \o funded)
  <2>1. ShowsOther(second, p.general)
    BY <1>7, NoAuthority, NothingToShow, Zenon
  <2>2. PICK s : IsList(s) /\ p.general = s \o funded
    BY <1>0, <1>7
  <2>3. ShowsOther(first, s \o funded)
    BY <1>7, <2>2, CreatorShows, Zenon
  <2> QED
    BY <2>1, <2>2, <2>3, Zenon
<1>8. CASE /\ a = "AssociatedTokenCreate" /\ b = "TransferChecked"
           /\ \E t, s : /\ IsList(s)
                        /\ p = Printed(t, s \o TokenTransferItems(second, x))
  <2>1. ShowsOther(first, p.general)
    BY <1>8, NoAuthority, NothingToShow, Zenon
  <2> DEFINE transfer == TokenTransferItems(second, x)
  <2>2. PICK s : IsList(s) /\ p.general = s \o transfer
    <3> HIDE DEF transfer
    <3>1. PICK t, s : IsList(s) /\ p = Printed(t, s \o transfer)
      BY <1>8 DEF transfer
    <3> QED
      BY <1>0, <3>1
  <2>3. second.kind \in SplTokenKinds
        /\ SplTokenItems(second, x) = TokenTransferItems(second, x)
    BY <1>8, Zenon
    DEF SplTokenKinds, SignedTokenKinds, SplTokenItems, InitializeAccountKinds
  <2>4. ShowsOther(second, TokenTransferItems(second, x))
    <3>1. ShowsOther(second, SplTokenItems(second, x))
      BY <2>3, TokenShows
    <3> QED
      BY <2>3, <3>1, Zenon
  <2>5. ShowsOther(second, s \o TokenTransferItems(second, x))
    BY <2>2, <2>4, OtherBefore, Zenon
  <2> QED
    BY <2>1, <2>2, <2>5, Zenon
<1>9. \/ /\ a \in CreateKinds /\ b \in StakeInitializeKinds
         /\ \E t : p = Printed(t, created
                                  \o StakeInitializeItems(second, x))
      \/ /\ a \in CreateKinds /\ b = "SystemInitializeNonceAccount"
         /\ \E t : p = Printed(t, created \o <<"New authority">>)
      \/ /\ a \in CreateKinds /\ b = "VoteInitialize"
         /\ \E t : p = Printed(t, created \o VoteInitializeItems)
      \/ /\ a = b /\ b \in StakeAuthorizeKinds
         /\ p = PrintStakeAuthorizeBoth(group, x)
      \/ /\ a = b /\ b \in VoteAuthorizeKinds
         /\ p = PrintVoteAuthorizeBoth(group, x)
      \/ b = "StakeSplit" /\ p = PrintSingle(second, x)
      \/ /\ b = "StakeSplit"
         /\ \E t : p = Printed(t, StakeSplitWithSeedItems(second, x))
      \/ /\ a \in CreateKinds
         /\ b \in {"InitializeMint", "InitializeMultisig"}
                  \cup InitializeAccountKinds
         /\ \E t, s : IsList(s) /\ p = Printed(t, s \o funded)
      \/ /\ a = "AssociatedTokenCreate" /\ b = "TransferChecked"
         /\ \E t, s : /\ IsList(s)
                      /\ p = Printed(t, s \o TokenTransferItems(second, x))
  BY PairKinds, Zenon
<1> HIDE DEF p, created, funded, first, second, shown
<1> QED
  BY <1>1, <1>2, <1>3, <1>4, <1>5, <1>6, <1>7, <1>8, <1>9, Zenon

(* Three instructions that are printed as one.                             *)
LEMMA TripleShows ==
    ASSUME NEW group, NEW x, PrintTriple(group, x) # NotPrinted,
           \A n \in 1..3 : group[n] \in InstructionInfo
    PROVE  LET p == PrintTriple(group, x)
           IN  /\ ShowsOther(group[3], p.general)
               /\ \/ group[3].kind = "StakeSplit"
                  \/ /\ ShowsOther(group[1], p.general)
                     /\ ShowsOther(group[2], p.general)
<1> DEFINE first == group[1]
           second == group[2]
           third == group[3]
           kinds == <<first.kind, second.kind, third.kind>>
           p == PrintTriple(group, x)
           g1 == kinds \in CreateKinds \X {"StakeInitialize"}
                           \X {"StakeDelegate"}
           g2 == kinds = <<"SystemAllocate", "SystemAssign", "StakeSplit">>
           g3 == kinds = <<"SystemTransfer", "SystemAllocateWithSeed",
                           "StakeSplit">>
           created == CreateAccountItems(first, x)
           initialized == StakeInitializeItems(second, x)
           r1 == Printed("Delegate from",
                         (created \o initialized) \o StakeItems(third, x))
           r2 == PrintSingle(third, x)
           r3 == Printed("Split stake",
                         PrefundItems(x) \o StakeSplitWithSeedItems(third, x))
           shown == /\ ShowsOther(third, p.general)
                    /\ \/ third.kind = "StakeSplit"
                       \/ /\ ShowsOther(first, p.general)
                          /\ ShowsOther(second, p.general)
<1> SUFFICES shown
  BY Zenon
<1>0. /\ \A t, s : Printed(t, s).general = s
      /\ 1 \in 1..3 /\ 2 \in 1..3 /\ 3 \in 1..3
  BY DEF Printed
<1>a. /\ first \in InstructionInfo /\ second \in InstructionInfo
      /\ third \in InstructionInfo
  BY <1>0
<1>1. /\ g1 => /\ first.kind \in CreateKinds
               /\ second.kind = "StakeInitialize"
               /\ third.kind = "StakeDelegate"
      /\ g2 => third.kind = "StakeSplit"
      /\ g3 => third.kind = "StakeSplit"
  BY TupleParts
<1>2. p = CASE g1 -> r1 [] g2 -> r2 [] g3 -> r3 [] OTHER -> NotPrinted
  BY Zenon DEF PrintTriple
<1>3. p # NotPrinted
  OBVIOUS
<1> HIDE DEF p, g1, g2, g3, r1, r2, r3
<1>4. \/ g1 /\ p = r1
      \/ g2 /\ p = r2
      \/ g3 /\ p = r3
  BY <1>2, <1>3
<1>5. CASE g1 /\ p = r1
  <2>1. p.general = (created \o initialized) \o StakeItems(third, x)
    BY <1>0, <1>5 DEF r1
  <2>2. third.kind \in StakeKinds /\ second.kind \in StakeInitializeKinds
    BY <1>1, <1>5, Zenon DEF StakeKinds, StakeInitializeKinds
  <2>3. ShowsOther(third, StakeItems(third, x)) /\ IsList(StakeItems(third, x))
    <3>1. ShowsOther(third, StakeItems(third, x))
      BY <1>a, <2>2, StakeShows
    <3>2. StakeItems(third, x) = AuthorizedBy(third, x) \o <<"Vote account">>
      BY <1>1, <1>5, Zenon
      DEF StakeItems, StakeInitializeKinds, StakeAuthorizeKinds,
          SetLockupKinds
    <3>3. IsList(AuthorizedBy(third, x) \o <<"Vote account">>)
      BY Pieces, ListBoth, Zenon DEF AuthorizedBy
    <3> QED
      BY <3>1, <3>2, <3>3, Zenon
  <2>4. IsList(created) /\ IsList(initialized)
    <3>1. IsList(created)
      <4>1. /\ IsList(<<"Deposit">> \o Opt(ShowAuthority(first, x), "From"))
            /\ IsList(Opt(x, "Base") \o Opt(x, "Seed")) /\ IsList(<<>>)
        BY Pieces, ListBoth, Tuples, Zenon
      <4> QED
        BY <4>1, ListBoth, Zenon DEF CreateAccountItems
    <3> QED
      BY <3>1, InitializeList, Zenon
  <2>5. ShowsOther(second, p.general)
    BY <1>a, <2>2, NoAuthority, NothingToShow, Zenon
  <2> DEFINE end == StakeItems(third, x)
  <2> HIDE DEF initialized, end
  <2>6. ShowsOther(first, created \o initialized)
    BY <1>1, <1>5, <2>4, CreatorShows, Zenon
  <2> HIDE DEF created
  <2>7. /\ ShowsOther(first, (created \o initialized) \o end)
        /\ ShowsOther(third, (created \o initialized) \o end)
    BY <2>3, <2>4, <2>6, OtherBefore, ListBoth, Zenon DEF end
  <2> QED
    BY <2>1, <2>5, <2>7, Zenon DEF end
<1>6. CASE g2 /\ p = r2
  <2>1. ShowsOther(third, PrintSingle(third, x).general)
    BY <1>3, <1>6, <1>a, SingleShows, Zenon DEF r2
  <2> QED
    BY <1>1, <1>6, <2>1, Zenon DEF r2
<1>7. CASE g3 /\ p = r3
  <2>1. p.general = PrefundItems(x) \o StakeSplitWithSeedItems(third, x)
    BY <1>0, <1>7 DEF r3
  <2>2. IsList(PrefundItems(x))
    BY Pieces, Tuples, Zenon DEF PrefundItems
  <2>3. ShowsOther(third, StakeSplitWithSeedItems(third, x))
    BY <1>1, <1>7, SplitShows, Zenon
  <2>4. ShowsOther(third, PrefundItems(x) \o StakeSplitWithSeedItems(third, x))
    BY <2>2, <2>3, OtherBefore, Zenon
  <2> QED
    BY <1>1, <1>7, <2>1, <2>4, Zenon
<1> QED
  BY <1>4, <1>5, <1>6, <1>7, Zenon

(* Four instructions that are printed as one.                              *)
LEMMA QuadrupleShows ==
    ASSUME NEW group, NEW x, PrintQuadruple(group, x) # NotPrinted,
           group[4] \in InstructionInfo
    PROVE  /\ ShowsOther(group[4], PrintQuadruple(group, x).general)
           /\ group[4].kind = "StakeSplit"
<1>1. group[4].kind = "StakeSplit"
  BY QuadrupleParts, Zenon
<1> DEFINE items4 == StakeItems(group[4], x)
           p == PrintQuadruple(group, x)
<1>2. \E t : p = Printed(t, PrefundItems(x) \o items4)
  BY Zenon DEF PrintQuadruple
<1> HIDE DEF p
<1>3. p.general = PrefundItems(x) \o items4
  BY <1>2 DEF Printed
<1>4. IsList(PrefundItems(x))
  BY Pieces, Tuples, Zenon DEF PrefundItems
<1>5. group[4].kind \in StakeKinds
  BY <1>1, Zenon DEF StakeKinds
<1>6. ShowsOther(group[4], items4)
  BY <1>5, StakeShows
<1> HIDE DEF items4
<1>7. ShowsOther(group[4], PrefundItems(x) \o items4)
  BY <1>4, <1>6, OtherBefore, Zenon
<1> QED
  BY <1>1, <1>3, <1>7, Zenon DEF p

(* Each instruction of a list that is printed, one by one.                 *)
LEMMA ListShows ==
    ASSUME list \in Seq(InstructionInfo), NEW x,
           PrintInstructions(list, x) # NotPrinted
    PROVE  \A n \in 1..Len(list) :
                \/ PartHidden(n)
                \/ ShowsOther(list[n], PrintInstructions(list, x).general)
<1> DEFINE p == PrintInstructions(list, x)
           shown(n) == \/ PartHidden(n)
                       \/ ShowsOther(list[n], p.general)
<1>0. \A n \in 1..Len(list) : list[n] \in InstructionInfo
  OBVIOUS
<1>1. CASE Len(list) = 1
  <2>1. p = PrintSingle(list[1], x)
    BY <1>1 DEF PrintInstructions
  <2>2. list[1] \in InstructionInfo
    BY <1>0, <1>1
  <2>3. ShowsOther(list[1], p.general)
    BY <2>1, <2>2, SingleShows, Zenon
  <2> HIDE DEF p
  <2>4. \A n \in 1..Len(list) : n = 1
    BY <1>1
  <2> QED
    BY <2>3, <2>4, Zenon DEF p
<1>2. CASE Len(list) = 2
  <2>1. p = PrintPair(list, x)
    BY <1>2 DEF PrintInstructions
  <2>2. list[1] \in InstructionInfo /\ list[2] \in InstructionInfo
    BY <1>0, <1>2
  <2>3. /\ ShowsOther(list[2], p.general)
        /\ \/ ShowsOther(list[1], p.general)
           \/ list[2].kind = "StakeSplit"
           \/ /\ list[1].kind = list[2].kind
              /\ list[1].kind \in StakeAuthorizeKinds \cup VoteAuthorizeKinds
    BY <2>1, <2>2, PairShows, Zenon
  <2>4. \/ PartHidden(1)
        \/ ~(list[2].kind = "StakeSplit")
           /\ ~(/\ list[1].kind = list[2].kind
                /\ list[1].kind \in StakeAuthorizeKinds
                                    \cup VoteAuthorizeKinds)
    BY <1>2 DEF PartHidden
  <2>5. \A n \in 1..Len(list) : n \in {1, 2}
    BY <1>2
  <2> HIDE DEF p
  <2>6. \A n \in {1, 2} : shown(n)
    BY <2>3, <2>4, Zenon
  <2> QED
    BY <2>5, <2>6, Zenon DEF p
<1>3. CASE Len(list) = 3
  <2>1. p = PrintTriple(list, x)
    BY <1>3 DEF PrintInstructions
  <2>2. \A n \in 1..3 : list[n] \in InstructionInfo
    BY <1>0, <1>3
  <2>3. /\ ShowsOther(list[3], p.general)
        /\ \/ list[3].kind = "StakeSplit"
           \/ /\ ShowsOther(list[1], p.general)
              /\ ShowsOther(list[2], p.general)
    BY <2>1, <2>2, TripleShows, Zenon
  <2>4. list[3].kind = "StakeSplit" => PartHidden(1) /\ PartHidden(2)
    BY <1>3 DEF PartHidden
  <2>5. \A n \in 1..Len(list) : n \in {1, 2, 3}
    BY <1>3
  <2> HIDE DEF p
  <2>6. \A n \in {1, 2, 3} : shown(n)
    BY <2>3, <2>4, Zenon
  <2> QED
    BY <2>5, <2>6, Zenon DEF p
<1>4. CASE Len(list) = 4
  <2>1. p = PrintQuadruple(list, x)
    BY <1>4 DEF PrintInstructions
  <2>2. list[4] \in InstructionInfo
    BY <1>0, <1>4
  <2>3. ShowsOther(list[4], p.general) /\ list[4].kind = "StakeSplit"
    BY <2>1, <2>2, QuadrupleShows, Zenon
  <2>4. PartHidden(1) /\ PartHidden(2) /\ PartHidden(3)
    BY <1>4, <2>3 DEF PartHidden
  <2>5. \A n \in 1..Len(list) : n \in {1, 2, 3, 4}
    BY <1>4
  <2> HIDE DEF p
  <2>6. \A n \in {1, 2, 3, 4} : shown(n)
    BY <2>3, <2>4, Zenon
  <2> QED
    BY <2>5, <2>6, Zenon DEF p
<1>5. Len(list) \in {1, 2, 3, 4}
  BY DEF PrintInstructions
<1> QED
  BY <1>1, <1>2, <1>3, <1>4, <1>5

(* What is shown of a transaction that is recognized.                      *)
LEMMA RecognizedShows ==
    ASSUME ListInv, SlotsInv, FrontInv, PrintTransaction, pc' = "handler",
           result' = 0
    PROVE  OthersAreShown'
<1> DEFINE p == PrintInstructions(list, expert)
<1>1. /\ pc = "print" /\ UNCHANGED <<list, infos, expert>>
      /\ pc' = IF Writable(summary, p) THEN "handler" ELSE "fault"
      /\ result' = IF p.printed THEN 0 ELSE 1
      /\ summary' = Write(summary, p)
  BY Zenon DEF PrintTransaction, message
<1>2. PICK g \in Fees : Bare(summary, g)
  BY <1>1, Zenon DEF SlotsInv
<1>3. IsList(p.general)
  BY PrintedList DEF ListInv
<1>4. p # NotPrinted
  BY <1>1 DEF NotPrinted
<1>5. \A n \in 1..Len(list) :
            PartHidden(n) \/ ShowsOther(list[n], p.general)
  BY <1>4, ListShows, Zenon DEF ListInv
<1>5a. Len(list) \in 1..MAX_INSTRUCTIONS
  BY <1>4, PrintedParts, Zenon
<1> HIDE DEF p
<1>6. /\ summary'.general = g \o p.general
      /\ summary'.nonce = summary.nonce
  BY <1>1, <1>2, <1>3, WrittenItems
<1>7. IsList(g)
  BY FeesAreShort, Zenon DEF IsList
<1>8. \A n \in 1..Len(list) :
            PartHidden(n) \/ ShowsOther(list[n], summary'.general)
  BY <1>3, <1>5, <1>6, <1>7, OtherBefore, Zenon
<1>9. ASSUME NEW n \in DOMAIN list, "OtherAuthority" \in list[n].facts,
             ~PartHidden(n)
      PROVE  AuthorityTitles(list[n]) \cap Titles(summary'.general) # {}
  <2>1. n \in 1..Len(list)
    BY DEF ListInv
  <2>2. \E t \in AuthorityTitles(list[n]) : t \in Titles(summary'.general)
    BY <1>8, <1>9, <2>1, Zenon DEF ShowsOther, Shows
  <2> QED
    BY <2>2
<1>10. /\ Front \in Nat /\ DOMAIN infos = 1..(Front + Len(list))
       /\ Len(list) \in Nat /\ DOMAIN list = 1..Len(list)
       /\ \A n \in 1..Len(list) : list[n] = infos[n + Front]
  BY FrontElements
<1>11. /\ infos \in Seq(InstructionInfo)
       /\ expert \in BOOLEAN
  BY DEF ListInv
<1>12. /\ NonceShown
       /\ \A n \in 1..Front :
               \/ infos[n].kind \in ComputeBudgetKinds
               \/ n = 1 /\ infos[n].kind = "SystemAdvanceNonceAccount"
  BY <1>1, Zenon DEF FrontInv
<1> DEFINE hidden(n) == \/ n = 1 /\ IsNonced /\ ~expert
                        \/ n > Front /\ PartHidden(n - Front)
           titles(n) == IF n = 1 /\ IsNonced
                        THEN {"Nonce authority"} \cap Titles(summary'.nonce)
                        ELSE AuthorityTitles(infos[n])
                             \cap Titles(summary'.general)
<1>13. ASSUME NEW n \in DOMAIN infos, "OtherAuthority" \in infos[n].facts,
              ~hidden(n)
       PROVE  titles(n) # {}
  <2>1. CASE n = 1 /\ IsNonced
    BY <1>6, <1>11, <1>12, <1>13, <2>1 DEF NonceShown
  <2>2. CASE ~(n = 1 /\ IsNonced) /\ n > Front
    <3>1. n - Front \in DOMAIN list /\ list[n - Front] = infos[n]
      <4>1. n - Front \in 1..Len(list) /\ (n - Front) + Front = n
        BY <1>10, <1>13, <2>2
      <4> QED
        BY <1>10, <4>1
    <3> DEFINE m == n - Front
    <3>2. AuthorityTitles(list[m]) \cap Titles(summary'.general) # {}
      <4>1. ~PartHidden(m)
        BY <1>13, <2>2
      <4> HIDE DEF m
      <4> QED
        BY <1>9, <1>13, <3>1, <4>1 DEF m
    <3> QED
      BY <2>2, <3>1, <3>2
  <2>3. CASE ~(n = 1 /\ IsNonced) /\ ~(n > Front)
    <3>1. n \in 1..Front /\ n \in 1..Len(infos)
      BY <1>10, <1>11, <1>13, <2>3
    <3>2. infos[n].kind \in ComputeBudgetKinds
      <4>1. CASE n = 1 /\ infos[n].kind = "SystemAdvanceNonceAccount"
        <5>1. Len(infos) = 1 /\ Len(infos) = Front + Len(list)
          BY <1>10, <1>11, <2>3, <3>1, <4>1 DEF IsNonced
        <5> QED
          BY <1>10, <1>5a, <3>1, <4>1, <5>1 DEF MAX_INSTRUCTIONS
      <4> QED
        BY <1>12, <3>1, <4>1
    <3>3. infos[n] \in InstructionInfo
      BY <1>11, <3>1
    <3> QED
      BY <1>13, <3>2, <3>3, BudgetHasNoAuthority
  <2> QED
    BY <2>1, <2>2, <2>3
<1>14. /\ \A n : AuthorityHidden(n)' <=> hidden(n)
       /\ \A n : AuthorityItems(n)' = titles(n)
       /\ infos' = infos
  BY <1>1 DEF AuthorityHidden, AuthorityItems, PartHidden, Front, IsNonced
<1> QED
  BY <1>13, <1>14, Zenon DEF OthersAreShown

(* Whose authority the instructions of a recognized transaction use, its   *)
(* nonce advance included, is shown whenever it is not the user's, in both *)
(* modes, however the instructions are printed together, but for the three *)
(* exceptions of AuthorityHidden.                                          *)
THEOREM OthersShown == Spec => []OthersAreShown
<1>1. Init => OthersAreShown
  BY DEF Init, OthersAreShown
<1>2. ASSUME ListInv, SlotsInv, FrontInv, OthersAreShown, [Next]_vars
      PROVE  OthersAreShown'
  <2>1. CASE pc' = "handler" /\ result' = 0 /\ PrintTransaction
    BY <1>2, <2>1, RecognizedShows, Zenon
  <2>2. CASE ~(pc' = "handler" /\ result' = 0)
    BY <2>2, Zenon DEF OthersAreShown
  <2>3. CASE UNCHANGED vars
    <3>1. UNCHANGED <<pc, expert, infos, list, result, summary>>
      BY <2>3 DEF vars
    <3> QED
      BY <1>2, <3>1
      DEF OthersAreShown, AuthorityHidden, AuthorityItems, PartHidden, Front,
          IsNonced
  <2>4. CASE Next /\ ~PrintTransaction
    <3>1. ASSUME NEW n \in Lengths, NEW x \in BOOLEAN, Begin(n, x)
          PROVE  ~(pc' = "handler" /\ result' = 0)
      BY <3>1 DEF Begin
    <3>2. CASE MalformedInstruction
      BY <2>2, <3>2 DEF MalformedInstruction, Fail
    <3>3. CASE ParseInstruction
      BY <2>2, <3>3 DEF ParseInstruction
    <3>4. ASSUME NEW wellFormed \in BOOLEAN, EndOfBody(wellFormed)
          PROVE  ~(pc' = "handler" /\ result' = 0)
      BY <3>4 DEF EndOfBody, Fail
    <3>5. CASE PrintNonce \/ PrintComputeBudget
      <4>1. pc' \in {"budget", "print"}
        BY <3>5, Zenon DEF PrintNonce, PrintComputeBudget
      <4> QED
        BY <2>2, <4>1
    <3>6. CASE BlindSign \/ RefuseBlindSign \/ Processed
               \/ (\E other \in BOOLEAN : SetFeePayer(other)) \/ Finalize
      <4>1. pc' \in {"feePayer", "fault", "idle", "finalize"}
        BY <3>6, Zenon
        DEF BlindSign, RefuseBlindSign, Processed, SetFeePayer, Finalize
      <4> QED
        BY <2>2, <4>1
    <3> QED
      BY <2>2, <2>4, <3>1, <3>2, <3>3, <3>4, <3>5, <3>6, Zenon DEF Next
  <2> QED
    BY <1>2, <2>1, <2>2, <2>3, <2>4
<1> QED
  BY <1>1, <1>2, ListInvariant, SlotsInvariant, FrontInvariant, PTL DEF Spec
=============================================================================
