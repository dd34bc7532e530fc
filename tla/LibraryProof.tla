---------------------------- MODULE LibraryProof ----------------------------
(***************************************************************************)
(* Proofs about Library: what the calls that compute without a state of    *)
(* their own return, for every parameter, not only for those the runs pass.*)
(***************************************************************************)
EXTENDS LibraryProps, MessageProof, SequenceTheorems, WellFoundedInduction

-----------------------------------------------------------------------------
(* Induction over the turns of a loop.                                     *)

Less == {p \in Nat \X Nat : p[1] < p[2]}

LEMMA LessIsWellFounded == IsWellFoundedOn(Less, Nat)
  <1>1. IsWellFoundedOn(OpToRel(<, Nat), Nat)
    BY NatLessThanWellFounded
  <1>2. OpToRel(<, Nat) = Less
    BY DEF OpToRel, Less
  <1> QED BY <1>1, <1>2

(* Induction over a set in place of an operator: the provers take a set    *)
(* for S, where they cannot take an operator for P(_).                     *)
LEMMA SetInduction ==
    ASSUME NEW S, 0 \in S, \A n \in Nat : n \in S => n + 1 \in S
    PROVE  Nat \subseteq S
  <1> DEFINE T == {n \in Nat : n \notin S}
  <1>1. SUFFICES ASSUME T # {} PROVE FALSE
    OBVIOUS
  <1>2. PICK x \in T : \A y \in T : <<y, x>> \notin Less
    BY <1>1, LessIsWellFounded, WFMin
  <1>3. x # 0
    BY <1>2
  <1>4. x \in Nat /\ x - 1 \in Nat /\ x - 1 < x /\ (x - 1) + 1 = x
    BY <1>2, <1>3
  <1>5. <<x - 1, x>> \in Less
    BY <1>4 DEF Less
  <1>6. x - 1 \notin T
    BY <1>2, <1>5
  <1> QED BY <1>2, <1>4, <1>6

(* A function that follows a loop for n turns.                             *)
Unrolls(f, turn, start, n) ==
    f[0] = start /\ \A m \in 0..n : m # 0 => f[m] = turn[f[m - 1]]

(* A loop exists: After has the states the turns lead to.                  *)
LEMMA LoopExists ==
    ASSUME NEW T, NEW start \in T, NEW turn \in [T -> T]
    PROVE  /\ After(turn, start) \in [Nat -> T]
           /\ After(turn, start)[0] = start
           /\ \A n \in Nat :
                  After(turn, start)[n + 1] = turn[After(turn, start)[n]]
  <1> DEFINE Good(n) == {f \in [0..n -> T] : Unrolls(f, turn, start, n)}
  <1>1. \A n \in Nat : Good(n) # {}
    <2> DEFINE S == {n \in Nat : Good(n) # {}}
    <2>1. 0 \in S
      <3>1. [m \in 0..0 |-> start] \in Good(0)
        BY DEF Unrolls
      <3> QED BY <3>1
    <2>2. ASSUME NEW n \in Nat, n \in S PROVE n + 1 \in S
      <3>1. PICK f \in [0..n -> T] : Unrolls(f, turn, start, n)
        BY <2>2
      <3> DEFINE g == [m \in 0..(n + 1) |->
                          IF m = n + 1 THEN turn[f[n]] ELSE f[m]]
      <3>2. g \in [0..(n + 1) -> T]
        OBVIOUS
      <3>3. Unrolls(g, turn, start, n + 1)
        <4>1. g[0] = start
          BY <3>1 DEF Unrolls
        <4>2. ASSUME NEW m \in 0..(n + 1), m # 0 PROVE g[m] = turn[g[m - 1]]
          <5>1. m - 1 \in 0..n /\ g[m - 1] = f[m - 1]
            BY <4>2
          <5>2. CASE m = n + 1
            BY <5>1, <5>2
          <5>3. CASE m # n + 1
            <6>1. m \in 0..n /\ g[m] = f[m]
              BY <5>3
            <6> HIDE DEF g
            <6> QED BY <3>1, <4>2, <5>1, <6>1 DEF Unrolls
          <5> QED BY <5>2, <5>3
        <4> HIDE DEF g
        <4> QED BY <4>1, <4>2 DEF Unrolls
      <3> HIDE DEF g
      <3> QED BY <3>2, <3>3
    <2> HIDE DEF S
    <2>3. Nat \subseteq S
      BY <2>1, <2>2, SetInduction
    <2> QED BY <2>3 DEF S
  <1>2. ASSUME NEW n \in Nat, NEW f \in Good(n), NEW g \in Good(n + 1)
        PROVE  f[n] = g[n]
    <2> DEFINE S == {m \in Nat : m <= n => f[m] = g[m]}
    <2>0. Unrolls(f, turn, start, n) /\ Unrolls(g, turn, start, n + 1)
      OBVIOUS
    <2>1. 0 \in S
      BY <2>0 DEF Unrolls
    <2>2. ASSUME NEW m \in Nat, m \in S PROVE m + 1 \in S
      <3> SUFFICES ASSUME m + 1 <= n PROVE f[m + 1] = g[m + 1]
        OBVIOUS
      <3>1. f[m] = g[m]
        BY <2>2
      <3>2. /\ m + 1 \in 0..n /\ m + 1 \in 0..(n + 1)
            /\ m + 1 # 0 /\ (m + 1) - 1 = m
        OBVIOUS
      <3>3. f[m + 1] = turn[f[m]] /\ g[m + 1] = turn[g[m]]
        BY <2>0, <3>2 DEF Unrolls
      <3> QED BY <3>1, <3>3
    <2> HIDE DEF S
    <2>3. Nat \subseteq S
      BY <2>1, <2>2, SetInduction
    <2> QED BY <2>3 DEF S
  <1> DEFINE F == [n \in Nat |-> (CHOOSE h : h \in Good(n))[n]]
  <1>3. \A n \in Nat : (CHOOSE h : h \in Good(n)) \in Good(n)
    BY <1>1
  <1>4. F \in [Nat -> T]
    <2> SUFFICES ASSUME NEW n \in Nat PROVE (CHOOSE h : h \in Good(n))[n] \in T
      OBVIOUS
    <2>1. (CHOOSE h : h \in Good(n)) \in [0..n -> T]
      BY <1>3
    <2> QED BY <2>1
  <1>5. F[0] = start
    <2>1. (CHOOSE h : h \in Good(0)) \in Good(0)
      BY <1>3
    <2> QED BY <2>1 DEF Unrolls
  <1>6. ASSUME NEW n \in Nat PROVE F[n + 1] = turn[F[n]]
    <2> DEFINE f == CHOOSE h : h \in Good(n)
             g == CHOOSE h : h \in Good(n + 1)
    <2>1. f \in Good(n) /\ g \in Good(n + 1)
      BY <1>3
    <2>2. F[n] = f[n] /\ F[n + 1] = g[n + 1]
      OBVIOUS
    <2> HIDE DEF f, g, F
    <2>3. f[n] = g[n]
      BY <1>2, <2>1
    <2>4. Unrolls(g, turn, start, n + 1)
      BY <2>1
    <2>5. n + 1 \in 0..(n + 1) /\ n + 1 # 0 /\ (n + 1) - 1 = n
      OBVIOUS
    <2>6. g[n + 1] = turn[g[n]]
      BY <2>4, <2>5 DEF Unrolls
    <2> QED BY <2>2, <2>3, <2>6
  <1> DEFINE Body(h) == [n \in Nat |-> IF n = 0 THEN start ELSE turn[h[n - 1]]]
  <1>7. F = Body(F)
    <2>1. ASSUME NEW n \in Nat, n # 0 PROVE F[n] = turn[F[n - 1]]
      <3>1. n - 1 \in Nat /\ (n - 1) + 1 = n
        BY <2>1
      <3> HIDE DEF F
      <3> QED BY <1>6, <3>1
    <2>2. F \in [Nat -> T] /\ F[0] = start
      BY <1>4, <1>5
    <2> HIDE DEF F
    <2> QED BY <2>1, <2>2
  <1> HIDE DEF F
  <1>8. After(turn, start) = CHOOSE h : h = Body(h)
    BY DEF After
  <1>9. After(turn, start) = Body(After(turn, start))
    <2> DEFINE A == CHOOSE h : h = Body(h)
    <2> HIDE DEF Body
    <2>1. A = Body(A)
      BY <1>7
    <2> QED BY <1>8, <2>1
  <1> DEFINE A == After(turn, start)
  <1>10. A = Body(A)
    BY <1>9
  <1> HIDE DEF A
  <1>11. A[0] = start
    BY <1>10
  <1>12. ASSUME NEW n \in Nat PROVE A[n + 1] = turn[A[n]]
    <2>1. n + 1 \in Nat /\ n + 1 # 0 /\ (n + 1) - 1 = n
      OBVIOUS
    <2> QED BY <1>10, <2>1
  <1>13. \A n \in Nat : A[n] \in T
    <2> DEFINE S == {n \in Nat : A[n] \in T}
    <2>1. 0 \in S
      BY <1>11
    <2>2. ASSUME NEW n \in Nat, n \in S PROVE n + 1 \in S
      BY <1>12, <2>2
    <2> HIDE DEF S
    <2>3. Nat \subseteq S
      BY <2>1, <2>2, SetInduction
    <2> QED BY <2>3 DEF S
  <1>14. A \in [Nat -> T]
    <2>1. DOMAIN A = Nat /\ A = [n \in Nat |-> A[n]]
      BY <1>10
    <2> QED BY <1>13, <2>1
  <1> QED BY <1>11, <1>12, <1>14 DEF A

(* The same as one fact, which the provers find more easily.               *)
Follows(A, T, turn, start) ==
    /\ A \in [Nat -> T]
    /\ A[0] = start
    /\ \A n \in Nat : A[n + 1] = turn[A[n]]

LEMMA LoopFollows ==
    ASSUME NEW T, NEW start \in T, NEW turn \in [T -> T]
    PROVE  Follows(After(turn, start), T, turn, start)
  BY LoopExists DEF Follows

-----------------------------------------------------------------------------
(* Products, quotients and remainders.                                     *)

LEMMA ProductGrows ==
    ASSUME NEW i \in Nat, NEW j \in Nat, NEW k \in Nat, i <= j
    PROVE  /\ i * k \in Nat /\ j * k \in Nat
           /\ i * k <= j * k
           /\ k * i <= k * j
  <1>1. PICK e \in Nat : j = i + e
    <2> WITNESS j - i \in Nat
    <2> QED OBVIOUS
  <1>2. (i + e) * k = i * k + e * k
    OBVIOUS
  <1>3. i * k \in Nat /\ e * k \in Nat
    OBVIOUS
  <1>4. j * k = i * k + e * k
    BY <1>1, <1>2
  <1>5. j * k \in Nat /\ i * k <= j * k
    BY <1>3, <1>4
  <1>6. k * i = i * k /\ k * j = j * k
    OBVIOUS
  <1> QED BY <1>3, <1>5, <1>6

LEMMA QuotientGrows ==
    ASSUME NEW d \in Nat \ {0}, NEW x \in Nat, NEW y \in Nat, x <= y
    PROVE  /\ x \div d \in Nat /\ y \div d \in Nat
           /\ x \div d <= y \div d
  <1> DEFINE p == x \div d
             q == y \div d
             s == x % d
             t == y % d
  <1>1. /\ p \in Nat /\ q \in Nat
        /\ s \in 0..(d - 1) /\ t \in 0..(d - 1)
        /\ x = d * p + s /\ y = d * q + t
    OBVIOUS
  <1> HIDE DEF p, q, s, t
  <1>2. ~(q + 1 <= p)
    <2> SUFFICES ASSUME q + 1 <= p PROVE FALSE
      OBVIOUS
    <2>1. q + 1 \in Nat
      BY <1>1
    <2>2. d * (q + 1) <= d * p
      BY <1>1, <2>1, ProductGrows
    <2>3. d * (q + 1) = d * q + d
      BY <1>1
    <2>4. d * q \in Nat /\ d * p \in Nat
      BY <1>1
    <2> DEFINE u == d * q
               v == d * p
    <2>5. u \in Nat /\ v \in Nat /\ u + d <= v /\ x = v + s /\ y = u + t
      BY <1>1, <2>2, <2>3, <2>4
    <2> HIDE DEF u, v
    <2> QED BY <1>1, <2>5
  <1>3. p <= q
    BY <1>1, <1>2
  <1> QED BY <1>1, <1>3 DEF p, q

LEMMA RemainderIsSmall ==
    ASSUME NEW d \in Nat \ {0}, NEW x \in Nat
    PROVE  /\ x % d \in Nat
           /\ x % d < d
           /\ x % d <= x
           /\ x < d => x % d = x
  <1>1. x % d \in 0..(d - 1)
    OBVIOUS
  <1>2. x = d * (x \div d) + (x % d) /\ x \div d \in Nat
    OBVIOUS
  <1>3. d * (x \div d) \in Nat
    BY <1>2
  <1>4. x % d <= x
    BY <1>1, <1>2, <1>3
  <1>5. x < d => x % d = x
    OBVIOUS
  <1> DEFINE r == x % d
  <1>6. r \in 0..(d - 1) /\ r <= x /\ (x < d => r = x)
    BY <1>1, <1>4, <1>5
  <1> HIDE DEF r
  <1>7. r \in Nat /\ r < d /\ r <= x /\ (x < d => r = x)
    BY <1>6
  <1> QED BY <1>7 DEF r

-----------------------------------------------------------------------------
(* The units.                                                              *)

Positive == Word64 \in Nat \ {0}

LEMMA WordsArePositive == Positive
  <1>1. Word32 * Word32 \in Nat /\ Word32 * Word32 > 0
    BY ComputeBudgetAssumption
  <1> QED BY <1>1, ComputeBudgetAssumption DEF Positive

(* The units without widths.                                               *)
ExactUnits(info) ==
    IF info.limit.set THEN info.limit.units ELSE DefaultUnits(info)

LEMMA UnitsAreBounded ==
    ASSUME NEW info \in FeeInfo
    PROVE  /\ MaxCompute(info) \in Nat
           /\ ExactUnits(info) \in Nat
           /\ MaxCompute(info) <= ExactUnits(info)
           /\ info.instructions * MAX_CU_PER_INSTRUCTION < Word32 =>
                  MaxCompute(info) = ExactUnits(info)
  <1> DEFINE all == info.instructions * MAX_CU_PER_INSTRUCTION
  <1>1. info.instructions \in Nat
    BY DEF FeeInfo
  <1>2. all \in Nat
    BY <1>1, ComputeBudgetAssumption
  <1>3. /\ all % Word32 \in Nat
        /\ all % Word32 <= all
        /\ all < Word32 => all % Word32 = all
    <2> HIDE DEF all
    <2> QED BY <1>2, ComputeBudgetAssumption, RemainderIsSmall
  <1>4. CASE info.limit.set
    <2>1. info.limit.units \in Nat
      <3>1. info.limit \in {Unset} \cup {Units(n) : n \in 0..(Word32 - 1)}
        BY DEF FeeInfo
      <3>2. /\ Unset.units \in Nat
            /\ \A n \in 0..(Word32 - 1) : Units(n).units \in Nat
        BY ComputeBudgetAssumption DEF Unset, Units
      <3> QED BY <3>1, <3>2
    <2> QED BY <1>4, <2>1 DEF MaxCompute, ExactUnits
  <1>5. CASE ~info.limit.set
    <2>1. MaxCompute(info) = IF all % Word32 < MAX_CU_PER_TRANSACTION
                             THEN all % Word32 ELSE MAX_CU_PER_TRANSACTION
      BY <1>5 DEF MaxCompute
    <2>2. ExactUnits(info) = IF all < MAX_CU_PER_TRANSACTION
                             THEN all ELSE MAX_CU_PER_TRANSACTION
      BY <1>5 DEF ExactUnits, DefaultUnits
    <2> HIDE DEF all
    <2>3. MAX_CU_PER_TRANSACTION \in Nat
      BY ComputeBudgetAssumption
    <2>4. /\ MaxCompute(info) \in Nat
          /\ ExactUnits(info) \in Nat
          /\ MaxCompute(info) <= ExactUnits(info)
          /\ all < Word32 => MaxCompute(info) = ExactUnits(info)
      BY <1>2, <1>3, <2>1, <2>2, <2>3
    <2> QED BY <2>4 DEF all
  <1> QED BY <1>4, <1>5

-----------------------------------------------------------------------------
(* The parts of the fee.                                                   *)

(* The price of the units, without widths.                                 *)
ExactPriority(info) ==
    IF info.price.set
    THEN (info.price.units * ExactUnits(info)) \div MICRO_LAMPORT_MULTIPLIER
    ELSE 0

LEMMA PriorityIsBounded ==
    ASSUME NEW info \in FeeInfo
    PROVE  /\ PriorityFee(info) \in Nat
           /\ ExactPriority(info) \in Nat
           /\ PriorityFee(info) <= ExactPriority(info)
           /\ /\ info.instructions * MAX_CU_PER_INSTRUCTION < Word32
              /\ info.price.set =>
                     info.price.units * MaxCompute(info) < Word64
              => PriorityFee(info) = ExactPriority(info)
  <1> DEFINE d == MICRO_LAMPORT_MULTIPLIER
  <1>0. d \in Nat \ {0}
    BY ComputeBudgetAssumption
  <1>1. CASE ~info.price.set
    BY <1>1 DEF PriorityFee, ExactPriority
  <1>2. CASE info.price.set
    <2> DEFINE u == info.price.units
               x == u * MaxCompute(info)
               y == u * ExactUnits(info)
    <2>1. u \in Nat
      <3>1. info.price \in {Unset} \cup {Units(n) : n \in 0..(Word64 - 1)}
        BY DEF FeeInfo
      <3>2. /\ Unset.units \in Nat
            /\ \A n \in 0..(Word64 - 1) : Units(n).units \in Nat
        BY WordsArePositive DEF Unset, Units, Positive
      <3> QED BY <3>1, <3>2
    <2>2. x \in Nat /\ y \in Nat /\ x <= y
      <3> HIDE DEF u
      <3>1. /\ MaxCompute(info) \in Nat /\ ExactUnits(info) \in Nat
            /\ MaxCompute(info) <= ExactUnits(info)
        BY UnitsAreBounded
      <3>2. u * MaxCompute(info) <= u * ExactUnits(info)
        BY <2>1, <3>1, ProductGrows
      <3> QED BY <2>1, <3>1, <3>2
    <2>3. /\ PriorityFee(info) = (x % Word64) \div d
          /\ ExactPriority(info) = y \div d
      BY <1>2 DEF PriorityFee, ExactPriority
    <2>4. info.instructions * MAX_CU_PER_INSTRUCTION < Word32 => x = y
      BY UnitsAreBounded
    <2>5. info.price.units * MaxCompute(info) = x
      OBVIOUS
    <2> HIDE DEF x, y, d
    <2>6. /\ x % Word64 \in Nat
          /\ x % Word64 <= x
          /\ x < Word64 => x % Word64 = x
      BY <2>2, WordsArePositive, RemainderIsSmall DEF Positive
    <2>7. x % Word64 <= y
      BY <2>2, <2>6
    <2>8. /\ (x % Word64) \div d \in Nat /\ y \div d \in Nat
          /\ (x % Word64) \div d <= y \div d
      <3> DEFINE r == x % Word64
      <3>1. r \in Nat /\ r <= y
        BY <2>6, <2>7
      <3> HIDE DEF r
      <3>2. r \div d \in Nat /\ y \div d \in Nat /\ r \div d <= y \div d
        BY <1>0, <2>2, <3>1, QuotientGrows
      <3> QED BY <3>2 DEF r
    <2>9. PriorityFee(info) \in Nat /\ ExactPriority(info) \in Nat
          /\ PriorityFee(info) <= ExactPriority(info)
      BY <2>3, <2>8
    <2>10. ASSUME info.instructions * MAX_CU_PER_INSTRUCTION < Word32,
                  x < Word64
           PROVE  PriorityFee(info) = ExactPriority(info)
      BY <2>3, <2>4, <2>6, <2>10
    <2> QED BY <1>2, <2>5, <2>9, <2>10
  <1> QED BY <1>1, <1>2

LEMMA BaseIsBounded ==
    ASSUME NEW info \in FeeInfo
    PROVE  LET exact == FEE_LAMPORTS_PER_SIGNATURE * info.signatures
           IN  /\ BaseFee(info) \in Nat
               /\ exact \in Nat
               /\ BaseFee(info) <= exact
               /\ exact < Word32 => BaseFee(info) = exact
  <1> DEFINE exact == FEE_LAMPORTS_PER_SIGNATURE * info.signatures
  <1>1. info.signatures \in Nat
    BY DEF FeeInfo
  <1>2. exact \in Nat
    BY <1>1, ComputeBudgetAssumption
  <1>3. BaseFee(info) = exact % Word32
    BY DEF BaseFee
  <1> HIDE DEF exact
  <1>4. /\ BaseFee(info) \in Nat
        /\ BaseFee(info) <= exact
        /\ exact < Word32 => BaseFee(info) = exact
    BY <1>2, <1>3, ComputeBudgetAssumption, RemainderIsSmall
  <1> QED BY <1>2, <1>4 DEF exact

LEMMA ExactIsSum ==
    ASSUME NEW info
    PROVE  ExactFee(info) = FEE_LAMPORTS_PER_SIGNATURE * info.signatures
                            + ExactPriority(info)
  BY DEF ExactFee, ExactPriority, ExactUnits

-----------------------------------------------------------------------------
(* The fee.                                                                *)

(* Whatever wraps on the way, the fee the device shows as the maximum is   *)
(* never above the fee the message asks for: an overflow understates the   *)
(* fee and never overstates it (calculate_max_fee, get_max_fee).           *)
THEOREM FeeIsNeverOverstated ==
    \A info \in FeeInfo : MaxFee(info) <= ExactFee(info)
  <1> SUFFICES ASSUME NEW info \in FeeInfo
               PROVE  MaxFee(info) <= ExactFee(info)
    OBVIOUS
  <1> DEFINE b == BaseFee(info)
             p == PriorityFee(info)
             c == FEE_LAMPORTS_PER_SIGNATURE * info.signatures
             q == ExactPriority(info)
  <1>1. b \in Nat /\ c \in Nat /\ b <= c
    BY BaseIsBounded
  <1>2. p \in Nat /\ q \in Nat /\ p <= q
    BY PriorityIsBounded
  <1>3. MaxFee(info) = (b + p) % Word32 /\ ExactFee(info) = c + q
    BY ExactIsSum DEF MaxFee
  <1> HIDE DEF b, p, c, q
  <1>4. b + p \in Nat
    BY <1>1, <1>2
  <1>5. (b + p) % Word32 \in Nat /\ (b + p) % Word32 <= b + p
    <2> DEFINE s == b + p
    <2>1. s \in Nat
      BY <1>4
    <2> HIDE DEF s
    <2>2. s % Word32 \in Nat /\ s % Word32 <= s
      BY <2>1, ComputeBudgetAssumption, RemainderIsSmall
    <2> QED BY <2>2 DEF s
  <1> QED BY <1>1, <1>2, <1>3, <1>5

(* The fee is exact when the default limit, the product of price and units *)
(* and the fee itself fit their types; the finding of the run max_fee is   *)
(* a message that does not meet the last condition.                        *)
THEOREM FeeIsExactWithinWidths ==
    \A info \in FeeInfo : FitsWidths(info) => MaxFee(info) = ExactFee(info)
  <1> SUFFICES ASSUME NEW info \in FeeInfo, FitsWidths(info)
               PROVE  MaxFee(info) = ExactFee(info)
    OBVIOUS
  <1> DEFINE b == BaseFee(info)
             p == PriorityFee(info)
             c == FEE_LAMPORTS_PER_SIGNATURE * info.signatures
             q == ExactPriority(info)
  <1>1. b \in Nat /\ c \in Nat /\ (c < Word32 => b = c)
    BY BaseIsBounded
  <1>2. p \in Nat /\ q \in Nat /\ p = q
    BY PriorityIsBounded DEF FitsWidths
  <1>3. MaxFee(info) = (b + p) % Word32 /\ ExactFee(info) = c + q
    BY ExactIsSum DEF MaxFee
  <1>4. ExactFee(info) < Word32
    BY DEF FitsWidths
  <1> HIDE DEF b, p, c, q
  <1>5. c < Word32 /\ c + q < Word32
    BY <1>1, <1>2, <1>3, <1>4, ComputeBudgetAssumption
  <1>6. b = c /\ p = q
    BY <1>1, <1>2, <1>5
  <1>7. c + q \in Nat
    BY <1>1, <1>2
  <1>8. (c + q) % Word32 = c + q
    <2> DEFINE s == c + q
    <2>1. s \in Nat /\ s < Word32
      BY <1>5, <1>7
    <2> HIDE DEF s
    <2>2. s % Word32 = s
      BY <2>1, ComputeBudgetAssumption, RemainderIsSmall
    <2> QED BY <2>2 DEF s
  <1> QED BY <1>3, <1>6, <1>8

-----------------------------------------------------------------------------
(* The calls.                                                              *)

(* A call is what its name says.                                           *)
LEMMA NameTellsCall ==
    ASSUME LibraryNext
    PROVE  /\ call'.fn = "display" => \E c \in DisplayCalls : DisplayItem(c)
           /\ call'.fn = "print_token_amount" =>
                  \E c \in AmountCalls : PrintTokenAmount(c)
           /\ call'.fn = "print_i64" => \E c \in NumberCalls : PrintNumber(c)
           /\ call'.fn = "print_sized_string" =>
                  \E c \in StringCalls : PrintSizedString(c)
           /\ call'.fn = "parse_length" =>
                  \E c \in LengthCalls : ParseLength(c)
           /\ call'.fn = "calculate_max_fee" =>
                  \E c \in FeeCalls : CalculateMaxFee(c)
           /\ call'.fn = "parse_instruction" =>
                  \E c \in InstructionCalls : ParseInstructionData(c)
           /\ call'.fn = "rfc3339_format" =>
                  \E c \in DateCalls : FormatTimestamp(c)
           /\ call'.fn = "offchain_message" =>
                  \E c \in TextCalls : ReadText(c)
           /\ call'.fn = "check_address" =>
                  \E c \in AddressCalls : CheckAddress(c)
           /\ call'.fn = "get_printable_amount" =>
                  \E c \in PrintableCalls : GetPrintableAmount(c)
           /\ call'.fn = "check_item" => \E c \in PaidItems : CheckPaidItem(c)
  <1> DEFINE Named(fn) == call'.fn = fn
  <1>1. /\ \A c \in DisplayCalls : DisplayItem(c) => Named("display")
        /\ \A c \in AmountCalls :
               PrintTokenAmount(c) => Named("print_token_amount")
        /\ \A c \in NumberCalls : PrintNumber(c) => Named("print_i64")
        /\ \A c \in StringCalls :
               PrintSizedString(c) => Named("print_sized_string")
        /\ \A c \in LengthCalls : ParseLength(c) => Named("parse_length")
        /\ \A c \in FeeCalls : CalculateMaxFee(c) => Named("calculate_max_fee")
    BY DEF Called, DisplayItem, PrintTokenAmount, PrintNumber,
           PrintSizedString, ParseLength, CalculateMaxFee
  <1>2. /\ \A c \in InstructionCalls :
               ParseInstructionData(c) => Named("parse_instruction")
        /\ \A c \in DateCalls : FormatTimestamp(c) => Named("rfc3339_format")
        /\ \A c \in TextCalls : ReadText(c) => Named("offchain_message")
        /\ \A c \in AddressCalls : CheckAddress(c) => Named("check_address")
        /\ \A c \in PrintableCalls :
               GetPrintableAmount(c) => Named("get_printable_amount")
        /\ \A c \in PaymentCalls : ValidatePayment(c) => Named("payment")
        /\ \A c \in PaidItems : CheckPaidItem(c) => Named("check_item")
        /\ Return => Named("none")
    <2>1. \A c \in InstructionCalls :
              ParseInstructionData(c) => Named("parse_instruction")
      BY DEF Called, ParseInstructionData
    <2>2. /\ \A c \in DateCalls : FormatTimestamp(c) => Named("rfc3339_format")
          /\ \A c \in TextCalls : ReadText(c) => Named("offchain_message")
          /\ \A c \in AddressCalls : CheckAddress(c) => Named("check_address")
          /\ \A c \in PrintableCalls :
                 GetPrintableAmount(c) => Named("get_printable_amount")
      BY DEF Called, FormatTimestamp, ReadText, CheckAddress,
             GetPrintableAmount
    <2>3. \A c \in PaymentCalls : ValidatePayment(c) => Named("payment")
      BY DEF ValidatePayment
    <2>4. \A c \in PaidItems : CheckPaidItem(c) => Named("check_item")
      BY DEF CheckPaidItem
    <2>5. Return => Named("none")
      BY DEF Return, NoCall
    <2> QED BY <2>1, <2>2, <2>3, <2>4, <2>5
  <1>3. \/ \E c \in DisplayCalls : DisplayItem(c)
        \/ \E c \in AmountCalls : PrintTokenAmount(c)
        \/ \E c \in NumberCalls : PrintNumber(c)
        \/ \E c \in StringCalls : PrintSizedString(c)
        \/ \E c \in LengthCalls : ParseLength(c)
        \/ \E c \in FeeCalls : CalculateMaxFee(c)
        \/ \E c \in InstructionCalls : ParseInstructionData(c)
        \/ \E c \in DateCalls : FormatTimestamp(c)
        \/ \E c \in TextCalls : ReadText(c)
        \/ \E c \in AddressCalls : CheckAddress(c)
        \/ \E c \in PrintableCalls : GetPrintableAmount(c)
        \/ \E c \in PaymentCalls : ValidatePayment(c)
        \/ \E c \in PaidItems : CheckPaidItem(c)
        \/ Return
    BY DEF LibraryNext, Compute
  <1> QED BY <1>1, <1>2, <1>3

-----------------------------------------------------------------------------
(* Lengths and fees.                                                       *)

(* Every length is read as the length that was encoded, whatever the width *)
(* of a digit, and its encoding is one parse_length knows (parser.c:54).   *)
THEOREM EveryLengthIsExact == LibrarySpec => []CompactLengthIsExact
  <1>1. LibraryInit => CompactLengthIsExact
    BY DEF LibraryInit, NoCall, CompactLengthIsExact, Is
  <1>2. CompactLengthIsExact /\ [LibraryNext]_library
            => CompactLengthIsExact'
    <2> SUFFICES ASSUME CompactLengthIsExact, [LibraryNext]_library
                 PROVE  CompactLengthIsExact'
      OBVIOUS
    <2>1. CASE UNCHANGED library
      BY <2>1 DEF library, CompactLengthIsExact, Is, given
    <2>2. CASE LibraryNext
      <3> SUFFICES ASSUME Is("parse_length")' PROVE CompactLengthIsExact'
        BY DEF CompactLengthIsExact
      <3>1. PICK c \in LengthCalls : ParseLength(c)
        BY <2>2, NameTellsCall DEF Is
      <3>2. c.length \in Lengths
        BY LibraryAssumption
      <3>3. /\ call'.with = c
            /\ reply'.length = LengthOf(EncodedLength(c.length))
        BY <3>1 DEF ParseLength, Called
      <3> QED BY <3>2, <3>3, LengthsAreRead DEF CompactLengthIsExact, given
    <2> QED BY <2>1, <2>2
  <1> QED BY <1>1, <1>2, PTL DEF LibrarySpec

(* The fee on the screen is at most what the message allows, and exactly   *)
(* that if all it is computed from fits, for every width of the types and  *)
(* every limit, price and number of signatures                             *)
(* (compute_budget_instruction.c:49).                                      *)
THEOREM FeeFits == LibrarySpec => []MaxFeeFits
  <1>1. LibraryInit => MaxFeeFits
    BY DEF LibraryInit, NoCall, MaxFeeFits, Is
  <1>2. MaxFeeFits /\ [LibraryNext]_library => MaxFeeFits'
    <2> SUFFICES ASSUME MaxFeeFits, [LibraryNext]_library
                 PROVE  MaxFeeFits'
      OBVIOUS
    <2>1. CASE UNCHANGED library
      BY <2>1 DEF library, MaxFeeFits, Is, given
    <2>2. CASE LibraryNext
      <3> SUFFICES ASSUME Is("calculate_max_fee")' PROVE MaxFeeFits'
        BY DEF MaxFeeFits
      <3>1. PICK c \in FeeCalls : CalculateMaxFee(c)
        BY <2>2, NameTellsCall DEF Is
      <3>2. c.info \in FeeInfo
        BY LibraryAssumption
      <3>3. call'.with = c /\ reply'.fee = MaxFee(c.info)
        BY <3>1 DEF CalculateMaxFee, Called
      <3> QED BY <3>2, <3>3, FeeIsNeverOverstated, FeeIsExactWithinWidths
              DEF MaxFeeFits, given
    <2> QED BY <2>1, <2>2
  <1> QED BY <1>1, <1>2, PTL DEF LibrarySpec

-----------------------------------------------------------------------------
(* Strings.                                                                *)

LEMMA LeastExists ==
    ASSUME NEW S \in SUBSET Nat, S # {}
    PROVE  Min(S) \in S /\ \A y \in S : Min(S) <= y
  <1>1. PICK x \in S : \A y \in S : <<y, x>> \notin Less
    BY LessIsWellFounded, WFMin
  <1>2. ASSUME NEW y \in S PROVE x <= y
    <2>1. x \in Nat /\ y \in Nat /\ <<y, x>> \notin Less
      BY <1>1
    <2>2. ~(y < x)
      BY <2>1 DEF Less
    <2> QED BY <2>1, <2>2
  <1> QED BY <1>2 DEF Min

(* What is visible of a string is a beginning of it.                       *)
LEMMA VisibleIsBeginning ==
    ASSUME NEW text \in Seq(STRING)
    PROVE  /\ UpToNul(text) \in Seq(STRING)
           /\ Len(UpToNul(text)) <= Len(text)
  <1>1. CASE NUL \notin ToSet(text)
    BY <1>1 DEF UpToNul
  <1>2. CASE NUL \in ToSet(text)
    <2> DEFINE I == {i \in 1..Len(text) : text[i] = NUL}
    <2>1. I # {} /\ I \in SUBSET Nat
      BY <1>2 DEF ToSet
    <2>2. Min(I) \in 1..Len(text)
      BY <2>1, LeastExists
    <2>3. SelectInSeq(text, LAMBDA c : c = NUL) = Min(I)
      BY <2>1 DEF SelectInSeq
    <2>4. UpToNul(text) = SubSeq(text, 1, Min(I) - 1)
      BY <1>2, <2>3 DEF UpToNul
    <2> DEFINE m == Min(I)
    <2>5. m \in 1..Len(text) /\ UpToNul(text) = SubSeq(text, 1, m - 1)
      BY <2>2, <2>4
    <2> HIDE DEF m, I
    <2>6. SubSeq(text, 1, m - 1) \in Seq(STRING)
          /\ Len(SubSeq(text, 1, m - 1)) = m - 1
      BY <2>5
    <2> QED BY <2>5, <2>6
  <1> QED BY <1>1, <1>2

(* The text in a buffer that is full.                                      *)
LEMMA MarkEndsText ==
    ASSUME NEW S, NEW text \in Seq(S), NEW length \in Nat \ {0, 1}, NEW mark,
           Len(text) >= length - 2
    PROVE  LET marked == SubSeq(text, 1, length - 2) \o <<mark>>
           IN  /\ Len(marked) = length - 1
               /\ Last(marked) = mark
               /\ IsPrefix(Front(marked), text)
  <1> DEFINE T == S \cup {mark}
             front == SubSeq(text, 1, length - 2)
             marked == front \o <<mark>>
  <1>1. text \in Seq(T)
    OBVIOUS
  <1>2. mark \in T
    OBVIOUS
  <1> HIDE DEF T
  <1>3. front \in Seq(T) /\ Len(front) = length - 2
        /\ \A i \in 1..(length - 2) : front[i] = text[i]
    BY <1>1
  <1> HIDE DEF front
  <1>4. /\ marked \in Seq(T) /\ Len(marked) = Len(front) + 1
        /\ marked[Len(front) + 1] = mark
        /\ \A i \in 1..Len(front) : marked[i] = front[i]
    BY <1>2, <1>3
  <1>5. (length - 2) + 1 = length - 1
    OBVIOUS
  <1> HIDE DEF marked
  <1>6. SubSeq(marked, 1, length - 2) = front
    BY <1>3, <1>4
  <1>7. Front(marked) = front
    BY <1>3, <1>4, <1>5, <1>6 DEF Front
  <1>8. SubSeq(front, 1, length - 2) = SubSeq(text, 1, length - 2)
    BY <1>1, <1>3
  <1>9. IsPrefix(front, text)
    BY <1>3, <1>8 DEF IsPrefix
  <1>10. Len(marked) = length - 1 /\ Last(marked) = mark
    BY <1>3, <1>4, <1>5 DEF Last
  <1> QED BY <1>7, <1>9, <1>10 DEF marked, front

(* A string on the screen is whole, or ends in the mark, for every string  *)
(* and every buffer (print_sized_string, printer.c:69).                    *)
THEOREM StringsAreMarked == LibrarySpec => []TruncationIsMarked
  <1>1. LibraryInit => TruncationIsMarked
    BY DEF LibraryInit, NoCall, TruncationIsMarked, Is
  <1>2. TruncationIsMarked /\ [LibraryNext]_library => TruncationIsMarked'
    <2> SUFFICES ASSUME TruncationIsMarked, [LibraryNext]_library
                 PROVE  TruncationIsMarked'
      OBVIOUS
    <2>1. CASE UNCHANGED library
      BY <2>1 DEF library, TruncationIsMarked, Is, given
    <2>2. CASE LibraryNext
      <3> SUFFICES ASSUME Is("print_sized_string")' PROVE TruncationIsMarked'
        BY DEF TruncationIsMarked
      <3>1. PICK c \in StringCalls : PrintSizedString(c)
        BY <2>2, NameTellsCall DEF Is
      <3>2. c.text \in Seq(STRING) /\ c.length \in Nat \ {0, 1}
        BY LibraryAssumption
      <3>3. /\ call'.with = c
            /\ reply' = print_sized_string(c.text, c.length)
        BY <3>1 DEF PrintSizedString, Called
      <3> DEFINE visible == UpToNul(c.text)
                 printed == print_sized_string(c.text, c.length)
      <3>4. \/ printed.text = visible
            \/ /\ Len(visible) >= c.length - 2
               /\ printed.text = Marked(visible, c.length)
        <4>1. CASE Len(c.text) < c.length
          BY <4>1 DEF print_sized_string, Text
        <4>2. CASE ~(Len(c.text) < c.length)
          <5>1. printed.text = IF Len(visible) < c.length - 2 THEN visible
                               ELSE Marked(visible, c.length)
            BY <4>2 DEF print_sized_string
          <5>2. Len(visible) \in Nat
            BY <3>2, VisibleIsBeginning
          <5> HIDE DEF visible, printed
          <5> QED BY <3>2, <5>1, <5>2
        <4> QED BY <4>1, <4>2
      <3>5. \/ printed.text = visible
            \/ /\ Len(printed.text) = c.length - 1
               /\ Last(printed.text) = "~"
               /\ IsPrefix(Front(printed.text), visible)
        <4>1. visible \in Seq(STRING)
          BY <3>2, VisibleIsBeginning
        <4> DEFINE mark == "~"
        <4>2. Marked(visible, c.length)
                  = SubSeq(visible, 1, c.length - 2) \o <<mark>>
          <5>1. c.length > 1
            BY <3>2
          <5> QED BY <5>1, Zenon DEF Marked
        <4> HIDE DEF visible, printed, mark
        <4>3. ASSUME Len(visible) >= c.length - 2
              PROVE  /\ Len(Marked(visible, c.length)) = c.length - 1
                     /\ Last(Marked(visible, c.length)) = mark
                     /\ IsPrefix(Front(Marked(visible, c.length)), visible)
          BY <3>2, <4>1, <4>2, <4>3, MarkEndsText
        <4> QED BY <3>4, <4>3 DEF mark
      <3> QED BY <3>3, <3>5 DEF TruncationIsMarked, given
    <2> QED BY <2>1, <2>2
  <1> QED BY <1>1, <1>2, PTL DEF LibrarySpec

-----------------------------------------------------------------------------
(* The encoding of a text.                                                 *)

LEMMA OneByteCharacter ==
    ASSUME NEW a \in Octet
    PROVE  IsCharacter(<<a>>) <=> a < 128
  <1> USE DEF Octet
  <1>1. Decoded(<<a>>) = a
    BY DEF Decoded
  <1>2. CASE a < 128
    <2>1. IsCodePoint(a) /\ Encoded(a) = <<a>>
      BY <1>2 DEF IsCodePoint, Encoded
    <2> QED BY <1>1, <1>2, <2>1 DEF IsCharacter
  <1>3. CASE ~(a < 128)
    <2>1. Encoded(a) = <<192 + (a \div 64), 128 + ((a \div 1) % 64)>>
      BY <1>3 DEF Encoded
    <2>2. Encoded(a) # <<a>>
      BY <2>1
    <2> QED BY <1>1, <1>3, <2>2 DEF IsCharacter
  <1> QED BY <1>2, <1>3

LEMMA TwoByteCharacter ==
    ASSUME NEW a \in Octet, NEW b \in Octet
    PROVE  IsCharacter(<<a, b>>) <=> a \in 194..223 /\ b \in 128..191
  <1> USE DEF Octet
  <1> DEFINE x == a % 32
             y == b % 64
             c == x * 64 + y
  <1>1. Decoded(<<a, b>>) = c
    BY DEF Decoded
  <1>2. x \in 0..31 /\ y \in 0..63 /\ c \in Nat /\ c <= 2047
    OBVIOUS
  <1>3. c \div 64 = x /\ (c \div 1) % 64 = y
    <2> HIDE DEF x, y
    <2> QED BY <1>2
  <1>4. a \in 192..223 <=> a = 192 + x
    OBVIOUS
  <1>5. b \in 128..191 <=> b = 128 + y
    OBVIOUS
  <1>6. IsCodePoint(c)
    <2> HIDE DEF c
    <2> QED BY <1>2 DEF IsCodePoint
  <1> HIDE DEF c
  <1>7. CASE c < 128
    <2>1. Encoded(c) = <<c>>
      BY <1>7 DEF Encoded
    <2>2. Encoded(c) # <<a, b>>
      BY <2>1
    <2>3. x < 2
      BY <1>2, <1>7 DEF c
    <2>4. ~(a \in 194..223)
      BY <1>2, <1>4, <2>3
    <2> QED BY <1>1, <2>2, <2>4 DEF IsCharacter
  <1>8. CASE ~(c < 128)
    <2>1. Encoded(c) = <<192 + x, 128 + y>>
      BY <1>2, <1>3, <1>8 DEF Encoded
    <2>2. Encoded(c) = <<a, b>> <=> a = 192 + x /\ b = 128 + y
      BY <2>1
    <2>3. x >= 2
      BY <1>2, <1>8 DEF c
    <2>4. a \in 194..223 <=> a = 192 + x
      BY <1>2, <1>4, <2>3
    <2> QED BY <1>1, <1>5, <1>6, <2>2, <2>4 DEF IsCharacter
  <1> QED BY <1>7, <1>8

LEMMA ThreeByteCharacter ==
    ASSUME NEW a \in Octet, NEW b \in Octet, NEW d \in Octet
    PROVE  IsCharacter(<<a, b, d>>) <=>
               /\ a \in 224..239 /\ b \in 128..191 /\ d \in 128..191
               /\ ~(a = 224 /\ b \in 128..159)
               /\ ~(a = 237 /\ b \in 160..191)
               /\ ~(a = 239 /\ b = 191 /\ d \in 190..191)
  <1> USE DEF Octet
  <1> DEFINE x == a % 16
             y == b % 64
             z == d % 64
             c == x * 4096 + y * 64 + z
  <1>1. Decoded(<<a, b, d>>) = c
    BY DEF Decoded
  <1>2. x \in 0..15 /\ y \in 0..63 /\ z \in 0..63 /\ c \in Nat /\ c <= 65535
    OBVIOUS
  <1>3. c \div 4096 = x /\ (c \div 64) % 64 = y /\ (c \div 1) % 64 = z
    <2> HIDE DEF x, y, z
    <2>1. c \div 4096 = x
      BY <1>2
    <2>2. c \div 64 = x * 64 + y
      BY <1>2
    <2>3. (x * 64 + y) % 64 = y
      BY <1>2
    <2>4. (c \div 1) % 64 = z
      BY <1>2
    <2> QED BY <2>1, <2>2, <2>3, <2>4
  <1>4. a \in 224..239 <=> a = 224 + x
    OBVIOUS
  <1>5. b \in 128..191 <=> b = 128 + y
    OBVIOUS
  <1>6. d \in 128..191 <=> d = 128 + z
    OBVIOUS
  <1> HIDE DEF c
  <1>7. CASE c < 128
    <2>1. Encoded(c) = <<c>>
      BY <1>7 DEF Encoded
    <2>2. Encoded(c) # <<a, b, d>>
      BY <2>1
    <2>3. x = 0 /\ y < 2
      BY <1>2, <1>7 DEF c
    <2> QED BY <1>1, <1>2, <1>4, <1>5, <2>2, <2>3 DEF IsCharacter
  <1>8. CASE c >= 128 /\ c < 2048
    <2>1. Encoded(c) = <<192 + (c \div 64), 128 + ((c \div 1) % 64)>>
      BY <1>2, <1>8 DEF Encoded
    <2>2. Encoded(c) # <<a, b, d>>
      BY <2>1
    <2>3. x = 0 /\ y < 32
      BY <1>2, <1>8 DEF c
    <2> QED BY <1>1, <1>2, <1>4, <1>5, <2>2, <2>3 DEF IsCharacter
  <1>9. CASE c >= 2048
    <2>1. Encoded(c) = <<224 + x, 128 + y, 128 + z>>
      BY <1>2, <1>3, <1>9 DEF Encoded
    <2>2. Encoded(c) = <<a, b, d>> <=>
              a = 224 + x /\ b = 128 + y /\ d = 128 + z
      BY <2>1
    <2>3. ~(x = 0 /\ y < 32)
      BY <1>2, <1>9 DEF c
    <2>4. IsCodePoint(c) <=> /\ ~(x = 13 /\ y >= 32)
                             /\ ~(x = 15 /\ y = 63 /\ z >= 62)
      <3>1. IsCodePoint(c) <=> /\ ~(55296 <= c /\ c <= 57343)
                               /\ c \notin {65534, 65535}
        BY <1>2 DEF IsCodePoint
      <3>2. (55296 <= c /\ c <= 57343) <=> x = 13 /\ y >= 32
        BY <1>2 DEF c
      <3>3. c \in {65534, 65535} <=> x = 15 /\ y = 63 /\ z >= 62
        BY <1>2 DEF c
      <3> QED BY <3>1, <3>2, <3>3
    <2> HIDE DEF x, y, z
    <2> QED BY <1>1, <1>2, <1>4, <1>5, <1>6, <2>2, <2>3, <2>4
            DEF IsCharacter
  <1> QED BY <1>2, <1>7, <1>8, <1>9

LEMMA FourByteCharacter ==
    ASSUME NEW a \in Octet, NEW b \in Octet, NEW d \in Octet,
           NEW e \in Octet
    PROVE  IsCharacter(<<a, b, d, e>>) <=>
               /\ a \in 240..244
               /\ b \in 128..191 /\ d \in 128..191 /\ e \in 128..191
               /\ ~(a = 240 /\ b \in 128..143)
               /\ ~(a = 244 /\ b > 143)
  <1> USE DEF Octet
  <1> DEFINE w == a % 8
             x == b % 64
             y == d % 64
             z == e % 64
             c == w * 262144 + x * 4096 + y * 64 + z
  <1>1. Decoded(<<a, b, d, e>>) = c
    BY DEF Decoded
  <1>2. /\ w \in 0..7 /\ x \in 0..63 /\ y \in 0..63 /\ z \in 0..63
        /\ c \in Nat /\ c <= 2097151
    OBVIOUS
  <1>3. /\ c \div 262144 = w
        /\ (c \div 4096) % 64 = x
        /\ (c \div 64) % 64 = y
        /\ (c \div 1) % 64 = z
    <2> HIDE DEF w, x, y, z
    <2>1. c \div 262144 = w
      BY <1>2
    <2>2. c \div 4096 = w * 64 + x
      BY <1>2
    <2>3. c \div 64 = w * 4096 + x * 64 + y
      BY <1>2
    <2>4. (w * 64 + x) % 64 = x /\ (w * 4096 + x * 64 + y) % 64 = y
      BY <1>2
    <2>5. (c \div 1) % 64 = z
      BY <1>2
    <2> QED BY <2>1, <2>2, <2>3, <2>4, <2>5
  <1>4. a \in 240..247 <=> a = 240 + w
    OBVIOUS
  <1>5. b \in 128..191 <=> b = 128 + x
    OBVIOUS
  <1>6. d \in 128..191 <=> d = 128 + y
    OBVIOUS
  <1>7. e \in 128..191 <=> e = 128 + z
    OBVIOUS
  <1> HIDE DEF c
  <1>8. CASE c < 65536
    <2>1. \/ Encoded(c) = <<c>>
          \/ Encoded(c) = <<192 + (c \div 64), 128 + ((c \div 1) % 64)>>
          \/ Encoded(c) = <<224 + (c \div 4096), 128 + ((c \div 64) % 64),
                            128 + ((c \div 1) % 64)>>
      BY <1>2, <1>8 DEF Encoded
    <2>2. Encoded(c) # <<a, b, d, e>>
      BY <2>1
    <2>3. w = 0 /\ x < 16
      BY <1>2, <1>8 DEF c
    <2>4. a \in 240..244 /\ b \in 128..191 => a = 240 /\ b \in 128..143
      BY <1>2, <1>4, <1>5, <2>3
    <2> QED BY <1>1, <2>2, <2>4 DEF IsCharacter
  <1>9. CASE c >= 65536
    <2>1. Encoded(c) = <<240 + w, 128 + x, 128 + y, 128 + z>>
      BY <1>2, <1>3, <1>9 DEF Encoded
    <2>2. Encoded(c) = <<a, b, d, e>> <=>
              a = 240 + w /\ b = 128 + x /\ d = 128 + y /\ e = 128 + z
      BY <2>1
    <2>3. ~(w = 0 /\ x < 16)
      BY <1>2, <1>9 DEF c
    <2>4. IsCodePoint(c) <=> w < 4 \/ (w = 4 /\ x < 16)
      <3>1. IsCodePoint(c) <=> c <= 1114111
        BY <1>2, <1>9 DEF IsCodePoint
      <3>2. c <= 1114111 <=> w < 4 \/ (w = 4 /\ x < 16)
        BY <1>2 DEF c
      <3> QED BY <3>1, <3>2
    <2> HIDE DEF w, x, y, z
    <2>5. a \in 240..244 <=> a = 240 + w /\ w <= 4
      BY <1>2, <1>4
    <2>6. IsCharacter(<<a, b, d, e>>) <=>
              /\ w < 4 \/ (w = 4 /\ x < 16)
              /\ a = 240 + w /\ b = 128 + x /\ d = 128 + y /\ e = 128 + z
      BY <1>1, <2>2, <2>4 DEF IsCharacter
    <2> QED BY <1>2, <1>5, <1>6, <1>7, <2>3, <2>5, <2>6
  <1> QED BY <1>2, <1>8, <1>9

LEMMA ElementIsInside ==
    ASSUME NEW S, NEW s \in Seq(S), NEW i \in 1..Len(s)
    PROVE  s[i] \in S
  OBVIOUS

LEMMA PartOfSequence ==
    ASSUME NEW S, NEW s \in Seq(S), NEW i \in 1..Len(s), NEW m \in Nat,
           i + m <= Len(s)
    PROVE  /\ SubSeq(s, i, i + m) \in Seq(S)
           /\ Len(SubSeq(s, i, i + m)) = m + 1
           /\ \A k \in 1..(m + 1) : SubSeq(s, i, i + m)[k] = s[i + k - 1]
  OBVIOUS

LEMMA PartsOfSequence ==
    ASSUME NEW S, NEW s \in Seq(S), NEW i \in 1..Len(s)
    PROVE  /\ SubSeq(s, i, i) = <<s[i]>>
           /\ i + 1 <= Len(s) => SubSeq(s, i, i + 1) = <<s[i], s[i + 1]>>
           /\ i + 2 <= Len(s) =>
                  SubSeq(s, i, i + 2) = <<s[i], s[i + 1], s[i + 2]>>
           /\ i + 3 <= Len(s) =>
                  SubSeq(s, i, i + 3)
                      = <<s[i], s[i + 1], s[i + 2], s[i + 3]>>
  <1>1. SubSeq(s, i, i) = <<s[i]>>
    <2> DEFINE p == SubSeq(s, i, i + 0)
    <2>1. p \in Seq(S) /\ Len(p) = 1 /\ p[1] = s[i]
      BY PartOfSequence
    <2> HIDE DEF p
    <2>2. p = <<s[i]>>
      BY <2>1
    <2>3. i + 0 = i
      OBVIOUS
    <2> QED BY <2>2, <2>3 DEF p
  <1>2. ASSUME i + 1 <= Len(s)
        PROVE  SubSeq(s, i, i + 1) = <<s[i], s[i + 1]>>
    <2> DEFINE p == SubSeq(s, i, i + 1)
    <2>1. /\ p \in Seq(S) /\ Len(p) = 2
          /\ \A k \in 1..2 : p[k] = s[i + k - 1]
      BY <1>2, PartOfSequence, 1 + 1 = 2
    <2>2. p[1] = s[i] /\ p[2] = s[i + 1]
      BY <2>1
    <2> HIDE DEF p
    <2>3. p = <<s[i], s[i + 1]>>
      BY <2>1, <2>2
    <2> QED BY <2>3 DEF p
  <1>3. ASSUME i + 2 <= Len(s)
        PROVE  SubSeq(s, i, i + 2) = <<s[i], s[i + 1], s[i + 2]>>
    <2> DEFINE p == SubSeq(s, i, i + 2)
    <2>1. /\ p \in Seq(S) /\ Len(p) = 3
          /\ p[1] = s[i] /\ p[2] = s[i + 1] /\ p[3] = s[i + 2]
      BY <1>3, PartOfSequence
    <2> HIDE DEF p
    <2>2. p = <<s[i], s[i + 1], s[i + 2]>>
      BY <2>1
    <2> QED BY <2>2 DEF p
  <1>4. ASSUME i + 3 <= Len(s)
        PROVE  SubSeq(s, i, i + 3) = <<s[i], s[i + 1], s[i + 2], s[i + 3]>>
    <2> DEFINE p == SubSeq(s, i, i + 3)
    <2>1. /\ p \in Seq(S) /\ Len(p) = 4
          /\ p[1] = s[i] /\ p[2] = s[i + 1] /\ p[3] = s[i + 2]
          /\ p[4] = s[i + 3]
      BY <1>4, PartOfSequence
    <2> HIDE DEF p
    <2>2. p = <<s[i], s[i + 1], s[i + 2], s[i + 3]>>
      BY <2>1
    <2> QED BY <2>2 DEF p
  <1> QED BY <1>1, <1>2, <1>3, <1>4

(* What the tests of is_data_utf8 find out about a position.               *)
LEMMA TwoBytesTest ==
    ASSUME NEW text \in Seq(Octet), NEW i \in 1..Len(text)
    PROVE  TwoBytes(text, i) <=>
               /\ i + 1 <= Len(text)
               /\ text[i] \in 194..223 /\ text[i + 1] \in 128..191
  <1>1. Within(text, i, 2) <=> i + 1 <= Len(text)
    BY DEF Within
  <1>2. (i + 1)..(i + 2 - 1) = {i + 1}
    OBVIOUS
  <1>3. Continues(text, i, 2) <=>
            i + 1 <= Len(text) /\ text[i + 1] \in 128..191
    BY <1>1, <1>2 DEF Continues
  <1>4. PICK x \in 0..255 : x = text[i]
    BY ElementIsInside DEF Octet
  <1>5. (x \in 192..223 /\ x \notin 192..193) <=> x \in 194..223
    OBVIOUS
  <1> QED BY <1>3, <1>4, <1>5, ZenonT(60) DEF TwoBytes

LEMMA ThreeBytesTest ==
    ASSUME NEW text \in Seq(Octet), NEW i \in 1..Len(text)
    PROVE  ThreeBytes(text, i) <=>
               /\ i + 2 <= Len(text)
               /\ text[i] \in 224..239
               /\ text[i + 1] \in 128..191 /\ text[i + 2] \in 128..191
               /\ ~(text[i] = 224 /\ text[i + 1] \in 128..159)
               /\ ~(text[i] = 237 /\ text[i + 1] \in 160..191)
               /\ ~(text[i] = 239 /\ text[i + 1] = 191
                    /\ text[i + 2] \in 190..191)
  <1>1. Within(text, i, 3) <=> i + 2 <= Len(text)
    BY DEF Within
  <1>2. (i + 1)..(i + 3 - 1) = {i + 1, i + 2}
    OBVIOUS
  <1>3. Continues(text, i, 3) <=>
            /\ i + 2 <= Len(text)
            /\ text[i + 1] \in 128..191 /\ text[i + 2] \in 128..191
    BY <1>1, <1>2 DEF Continues
  <1> QED BY <1>3 DEF ThreeBytes

LEMMA FourBytesTest ==
    ASSUME NEW text \in Seq(Octet), NEW i \in 1..Len(text)
    PROVE  FourBytes(text, i) <=>
               /\ i + 3 <= Len(text)
               /\ text[i] \in 240..244
               /\ text[i + 1] \in 128..191 /\ text[i + 2] \in 128..191
               /\ text[i + 3] \in 128..191
               /\ ~(text[i] = 240 /\ text[i + 1] \in 128..143)
               /\ ~(text[i] = 244 /\ text[i + 1] > 143)
  <1>1. Within(text, i, 4) <=> i + 3 <= Len(text)
    BY DEF Within
  <1>2. (i + 1)..(i + 4 - 1) = {i + 1, i + 2, i + 3}
    OBVIOUS
  <1>3. Continues(text, i, 4) <=>
            /\ i + 3 <= Len(text)
            /\ text[i + 1] \in 128..191 /\ text[i + 2] \in 128..191
            /\ text[i + 3] \in 128..191
    BY <1>1, <1>2 DEF Continues
  <1>4. text[i] \in 0..255
    BY ElementIsInside DEF Octet
  <1>5. text[i] \in 240..247 /\ text[i] <= 244 <=> text[i] \in 240..244
    BY <1>4
  <1> QED BY <1>3, <1>5 DEF FourBytes

(* The same of sequences of octets.                                        *)
OneByteWords == {<<a>> : a \in Octet}
TwoByteWords == Octet \X Octet
ThreeByteWords == Octet \X Octet \X Octet
FourByteWords == Octet \X Octet \X Octet \X Octet

OneByteForm(s) == s[1] < 128

TwoByteForm(s) == s[1] \in 194..223 /\ s[2] \in 128..191

ThreeByteForm(s) ==
    /\ s[1] \in 224..239 /\ s[2] \in 128..191 /\ s[3] \in 128..191
    /\ ~(s[1] = 224 /\ s[2] \in 128..159)
    /\ ~(s[1] = 237 /\ s[2] \in 160..191)
    /\ ~(s[1] = 239 /\ s[2] = 191 /\ s[3] \in 190..191)

FourByteForm(s) ==
    /\ s[1] \in 240..244
    /\ s[2] \in 128..191 /\ s[3] \in 128..191 /\ s[4] \in 128..191
    /\ ~(s[1] = 240 /\ s[2] \in 128..143)
    /\ ~(s[1] = 244 /\ s[2] > 143)

LEMMA OneByteCharacters ==
    \A s \in OneByteWords : IsCharacter(s) <=> OneByteForm(s)
  <1>1. ASSUME NEW a \in Octet
        PROVE  IsCharacter(<<a>>) <=> OneByteForm(<<a>>)
    BY <1>1, OneByteCharacter DEF OneByteForm
  <1> QED BY <1>1 DEF OneByteWords

LEMMA TwoByteCharacters ==
    \A s \in TwoByteWords : IsCharacter(s) <=> TwoByteForm(s)
  <1>1. ASSUME NEW a \in Octet, NEW b \in Octet
        PROVE  IsCharacter(<<a, b>>) <=> TwoByteForm(<<a, b>>)
    BY <1>1, TwoByteCharacter DEF TwoByteForm
  <1> QED BY <1>1 DEF TwoByteWords

LEMMA ThreeByteCharacters ==
    \A s \in ThreeByteWords : IsCharacter(s) <=> ThreeByteForm(s)
  <1>1. ASSUME NEW a \in Octet, NEW b \in Octet,
               NEW d \in Octet
        PROVE  IsCharacter(<<a, b, d>>) <=> ThreeByteForm(<<a, b, d>>)
    BY <1>1, ThreeByteCharacter DEF ThreeByteForm
  <1> QED BY <1>1 DEF ThreeByteWords

LEMMA FourByteCharacters ==
    \A s \in FourByteWords : IsCharacter(s) <=> FourByteForm(s)
  <1>1. ASSUME NEW a \in Octet, NEW b \in Octet,
               NEW d \in Octet, NEW e \in Octet
        PROVE  IsCharacter(<<a, b, d, e>>) <=> FourByteForm(<<a, b, d, e>>)
    BY <1>1, FourByteCharacter DEF FourByteForm
  <1> QED BY <1>1 DEF FourByteWords

(* The character is_data_utf8 finds at a position is the one there is.     *)
LEMMA CharacterIsFound ==
    ASSUME NEW text \in Seq(Octet), NEW i \in 1..Len(text)
    PROVE  LET found == CharacterLength(text, i)
           IN  /\ found \in 0..4 /\ i + found <= Len(text) + 1
               /\ \A n \in 1..4 :
                      i + n <= Len(text) + 1 =>
                          (IsCharacter(SubSeq(text, i, i + n - 1))
                               <=> found = n)
  <1> DEFINE found == CharacterLength(text, i)
  <1>1. text[i] \in Octet
    BY ElementIsInside
  <1>2. /\ found \in 0..4
        /\ found = 1 <=> text[i] < 128
        /\ found = 2 <=> TwoBytes(text, i)
        /\ found = 3 <=> ThreeBytes(text, i)
        /\ found = 4 <=> FourBytes(text, i)
    <2>1. TwoBytes(text, i) => text[i] \in 194..223
      BY TwoBytesTest
    <2>2. ThreeBytes(text, i) => text[i] \in 224..239
      BY ThreeBytesTest
    <2>3. FourBytes(text, i) => text[i] \in 240..244
      BY FourBytesTest
    <2> DEFINE lead == text[i]
               two == TwoBytes(text, i)
               three == ThreeBytes(text, i)
               four == FourBytes(text, i)
    <2>4. found = IF lead < 128 THEN 1 ELSE IF two THEN 2
                  ELSE IF three THEN 3 ELSE IF four THEN 4 ELSE 0
      BY DEF CharacterLength
    <2>5. /\ lead \in Nat
          /\ two \in BOOLEAN /\ three \in BOOLEAN /\ four \in BOOLEAN
          /\ two => 194 <= lead /\ lead <= 223
          /\ three => 224 <= lead /\ lead <= 239
          /\ four => 240 <= lead /\ lead <= 244
      <3>1. two \in BOOLEAN /\ three \in BOOLEAN /\ four \in BOOLEAN
        BY DEF TwoBytes, ThreeBytes, FourBytes
      <3> HIDE DEF two, three, four
      <3>2. two => lead \in 194..223
        BY <2>1 DEF two
      <3>3. three => lead \in 224..239
        BY <2>2 DEF three
      <3>4. four => lead \in 240..244
        BY <2>3 DEF four
      <3>5. lead \in 0..255
        BY <1>1 DEF Octet
      <3> HIDE DEF lead
      <3> QED BY <3>1, <3>2, <3>3, <3>4, <3>5
    <2> HIDE DEF lead, two, three, four, found
    <2>6. /\ found \in 0..4
          /\ found = 1 <=> lead < 128
          /\ found = 2 <=> two
          /\ found = 3 <=> three
          /\ found = 4 <=> four
      BY <2>4, <2>5
    <2> QED BY <2>6 DEF lead, two, three, four
  <1> HIDE DEF found
  <1>3. i + found <= Len(text) + 1
    BY <1>2, TwoBytesTest, ThreeBytesTest, FourBytesTest
  <1>4. IsCharacter(SubSeq(text, i, i)) <=> found = 1
    <2>1. SubSeq(text, i, i) = <<text[i]>>
      BY PartsOfSequence
    <2>2. <<text[i]>> \in OneByteWords
      BY <1>1 DEF OneByteWords
    <2>3. IsCharacter(<<text[i]>>) <=> text[i] < 128
      BY <2>2, OneByteCharacters DEF OneByteForm
    <2> QED BY <1>2, <2>1, <2>3
  <1>5. ASSUME i + 1 <= Len(text)
        PROVE  IsCharacter(SubSeq(text, i, i + 1)) <=> found = 2
    <2> DEFINE word == SubSeq(text, i, i + 1)
    <2>1. word = <<text[i], text[i + 1]>>
      BY <1>5, PartsOfSequence
    <2>2. i + 1 \in 1..Len(text)
      BY <1>5
    <2>3. text[i + 1] \in Octet
      BY <2>2, ElementIsInside
    <2> HIDE DEF word
    <2>4. word \in TwoByteWords
      BY <1>1, <2>1, <2>3 DEF TwoByteWords
    <2>5. TwoBytes(text, i) <=> TwoByteForm(word)
      BY <1>5, <2>1, TwoBytesTest DEF TwoByteForm
    <2>6. IsCharacter(word) <=> TwoByteForm(word)
      BY <2>4, TwoByteCharacters
    <2> QED BY <1>2, <2>5, <2>6 DEF word
  <1>6. ASSUME i + 2 <= Len(text)
        PROVE  IsCharacter(SubSeq(text, i, i + 2)) <=> found = 3
    <2> DEFINE word == SubSeq(text, i, i + 2)
    <2>1. word = <<text[i], text[i + 1], text[i + 2]>>
      BY <1>6, PartsOfSequence
    <2>2. i + 1 \in 1..Len(text) /\ i + 2 \in 1..Len(text)
      BY <1>6
    <2>3. text[i + 1] \in Octet /\ text[i + 2] \in Octet
      BY <2>2, ElementIsInside
    <2> HIDE DEF word
    <2>4. word \in ThreeByteWords
      BY <1>1, <2>1, <2>3 DEF ThreeByteWords
    <2>5. ThreeBytes(text, i) <=> ThreeByteForm(word)
      BY <1>6, <2>1, ThreeBytesTest DEF ThreeByteForm
    <2>6. IsCharacter(word) <=> ThreeByteForm(word)
      BY <2>4, ThreeByteCharacters
    <2> QED BY <1>2, <2>5, <2>6 DEF word
  <1>7. ASSUME i + 3 <= Len(text)
        PROVE  IsCharacter(SubSeq(text, i, i + 3)) <=> found = 4
    <2> DEFINE word == SubSeq(text, i, i + 3)
    <2>1. word = <<text[i], text[i + 1], text[i + 2], text[i + 3]>>
      BY <1>7, PartsOfSequence
    <2>2. /\ i + 1 \in 1..Len(text) /\ i + 2 \in 1..Len(text)
          /\ i + 3 \in 1..Len(text)
      BY <1>7
    <2>3. /\ text[i + 1] \in Octet /\ text[i + 2] \in Octet
          /\ text[i + 3] \in Octet
      BY <2>2, ElementIsInside
    <2> HIDE DEF word
    <2>4. word \in FourByteWords
      BY <1>1, <2>1, <2>3 DEF FourByteWords
    <2>5. FourBytes(text, i) <=> FourByteForm(word)
      BY <1>7, <2>1, FourBytesTest DEF FourByteForm
    <2>6. IsCharacter(word) <=> FourByteForm(word)
      BY <2>4, FourByteCharacters
    <2> QED BY <1>2, <2>5, <2>6 DEF word
  <1>8. ASSUME NEW n \in 1..4, i + n <= Len(text) + 1
        PROVE  IsCharacter(SubSeq(text, i, i + n - 1)) <=> found = n
    <2>1. CASE n = 1
      <3>1. i + n - 1 = i
        BY <2>1
      <3> QED BY <1>4, <2>1, <3>1
    <2>2. CASE n = 2
      <3>1. i + n - 1 = i + 1 /\ i + 1 <= Len(text)
        BY <1>8, <2>2
      <3> QED BY <1>5, <2>2, <3>1
    <2>3. CASE n = 3
      <3>1. i + n - 1 = i + 2 /\ i + 2 <= Len(text)
        BY <1>8, <2>3
      <3> QED BY <1>6, <2>3, <3>1
    <2>4. CASE n = 4
      <3>1. i + n - 1 = i + 3 /\ i + 3 <= Len(text)
        BY <1>8, <2>4
      <3> QED BY <1>7, <2>4, <3>1
    <2> QED BY <2>1, <2>2, <2>3, <2>4
  <1> QED BY <1>2, <1>3, <1>8 DEF found

(* The positions is_data_utf8 comes to.                                    *)
LEMMA PositionsFollowCharacters ==
    ASSUME NEW text \in Seq(Octet)
    PROVE  /\ Utf8Loop(text)[0] = 1
           /\ \A k \in Nat :
                  LET at == Utf8Loop(text)[k]
                  IN  /\ at \in 1..(Len(text) + 1)
                      /\ Utf8Loop(text)[k + 1] =
                             IF at = Len(text) + 1 THEN at
                             ELSE at + CharacterLength(text, at)
  <1> DEFINE T == Nat \ {0}
             turn == [i \in T |-> IF i > Len(text) THEN i
                                  ELSE i + CharacterLength(text, i)]
             pos == Utf8Loop(text)
             N == Len(text)
  <1>1. N \in Nat
    OBVIOUS
  <1>2. \A i \in 1..N : /\ CharacterLength(text, i) \in 0..4
                        /\ i + CharacterLength(text, i) <= N + 1
    BY CharacterIsFound
  <1>3. turn \in [T -> T]
    <2> SUFFICES
            ASSUME NEW i \in T
            PROVE  (IF i > N THEN i ELSE i + CharacterLength(text, i)) \in T
      OBVIOUS
    <2>1. CASE i > N
      BY <2>1
    <2>2. CASE ~(i > N)
      <3>1. i \in 1..N
        BY <1>1, <2>2
      <3>2. CharacterLength(text, i) \in 0..4
        BY <1>2, <3>1
      <3> QED BY <2>2, <3>2
    <2> QED BY <2>1, <2>2
  <1>4. pos = After(turn, 1)
    BY DEF Utf8Loop
  <1>5. 1 \in T
    OBVIOUS
  <1> HIDE DEF T, pos, turn
  <1>6. /\ pos \in [Nat -> T] /\ pos[0] = 1
        /\ \A k \in Nat : pos[k + 1] = turn[pos[k]]
    <2>1. /\ After(turn, 1) \in [Nat -> T]
          /\ After(turn, 1)[0] = 1
          /\ \A k \in Nat : After(turn, 1)[k + 1] = turn[After(turn, 1)[k]]
      BY <1>3, <1>5, LoopExists
    <2> QED BY <1>4, <2>1
  <1>7. \A i \in 1..(N + 1) :
            /\ turn[i] = IF i = N + 1 THEN i ELSE i + CharacterLength(text, i)
            /\ turn[i] \in 1..(N + 1)
    <2> SUFFICES ASSUME NEW i \in 1..(N + 1)
                 PROVE  /\ turn[i] = IF i = N + 1 THEN i
                                     ELSE i + CharacterLength(text, i)
                        /\ turn[i] \in 1..(N + 1)
      OBVIOUS
    <2>1. turn[i] = IF i > N THEN i ELSE i + CharacterLength(text, i)
      BY DEF turn, T
    <2>2. CASE i = N + 1
      BY <1>1, <2>1, <2>2
    <2>3. CASE i # N + 1
      <3>1. i \in 1..N
        BY <1>1, <2>3
      <3>2. /\ CharacterLength(text, i) \in 0..4
            /\ i + CharacterLength(text, i) <= N + 1
        BY <1>2, <3>1
      <3> HIDE DEF N
      <3> QED BY <1>1, <2>1, <2>3, <3>1, <3>2
    <2> QED BY <2>2, <2>3
  <1> DEFINE S == {k \in Nat : pos[k] \in 1..(N + 1)}
  <1> HIDE DEF N
  <1>8. Nat \subseteq S
    <2>1. 0 \in S
      <3>1. 1 \in 1..(N + 1)
        BY <1>1
      <3> QED BY <1>6, <3>1
    <2>2. ASSUME NEW k \in Nat, k \in S PROVE k + 1 \in S
      <3>1. pos[k] \in 1..(N + 1) /\ pos[k + 1] = turn[pos[k]]
        BY <1>6, <2>2
      <3>2. turn[pos[k]] \in 1..(N + 1)
        BY <1>7, <3>1
      <3> QED BY <3>1, <3>2
    <2> HIDE DEF S
    <2> QED BY <2>1, <2>2, SetInduction
  <1>9. \A k \in Nat : pos[k] \in 1..(N + 1)
    BY <1>8
  <1> QED BY <1>6, <1>7, <1>9 DEF pos, N

(* is_data_utf8 finds a text to be UTF-8 exactly if it can be cut into     *)
(* characters.                                                             *)
LEMMA TextIsCut ==
    ASSUME NEW text \in Seq(Octet)
    PROVE  is_data_utf8(text) <=> IsCharacters(text)
  <1> DEFINE pos == Utf8Loop(text)
             N == Len(text)
  <1>1. N \in Nat
    OBVIOUS
  <1>2. /\ pos[0] = 1
        /\ \A k \in Nat : pos[k] \in 1..(N + 1)
    BY PositionsFollowCharacters
  <1>a. \A k \in Nat : pos[k] = N + 1 => pos[k + 1] = pos[k]
    BY PositionsFollowCharacters
  <1>b. \A k \in Nat :
            pos[k] # N + 1 =>
                pos[k + 1] = pos[k] + CharacterLength(text, pos[k])
    BY PositionsFollowCharacters
  <1>3. \A i \in 1..N :
            /\ CharacterLength(text, i) \in 0..4
            /\ i + CharacterLength(text, i) <= N + 1
            /\ \A n \in 1..4 :
                   i + n <= N + 1 =>
                       (IsCharacter(SubSeq(text, i, i + n - 1))
                            <=> CharacterLength(text, i) = n)
    BY CharacterIsFound
  <1>4. is_data_utf8(text) <=> pos[N] > N
    BY DEF is_data_utf8
  <1>5. IsCharacters(text) <=>
            \E cuts \in SUBSET (1..(N + 1)) :
                /\ 1 \in cuts
                /\ \A i \in cuts \ {N + 1} : \E n \in 1..4 :
                       /\ i + n \in cuts
                       /\ IsCharacter(SubSeq(text, i, i + n - 1))
    BY DEF IsCharacters
  <1> HIDE DEF pos, N
  <1>6. ASSUME IsCharacters(text) PROVE is_data_utf8(text)
    <2>1. PICK cuts \in SUBSET (1..(N + 1)) :
              /\ 1 \in cuts
              /\ \A i \in cuts \ {N + 1} : \E n \in 1..4 :
                     /\ i + n \in cuts
                     /\ IsCharacter(SubSeq(text, i, i + n - 1))
      BY <1>5, <1>6
    <2> DEFINE S == {k \in Nat : /\ pos[k] \in cuts
                                 /\ pos[k] = N + 1 \/ pos[k] > k}
    <2>2. 0 \in S
      <3>1. pos[0] \in cuts /\ pos[0] > 0
        BY <1>2, <2>1
      <3> QED BY <3>1
    <2>3. ASSUME NEW k \in Nat, k \in S PROVE k + 1 \in S
      <3>0. pos[k] \in cuts
        BY <2>3
      <3>1. CASE pos[k] = N + 1
        <4>1. pos[k + 1] = pos[k]
          BY <1>a, <3>1
        <4> QED BY <3>0, <3>1, <4>1
      <3>2. CASE pos[k] # N + 1
        <4>1. pos[k] \in 1..N /\ pos[k] \in cuts \ {N + 1} /\ pos[k] > k
          <5>1. pos[k] > k
            BY <2>3, <3>2
          <5>2. pos[k] \in 1..N
            BY <1>1, <1>2, <3>2
          <5> QED BY <3>0, <3>2, <5>1, <5>2
        <4>2. PICK n \in 1..4 :
                  /\ pos[k] + n \in cuts
                  /\ IsCharacter(SubSeq(text, pos[k], pos[k] + n - 1))
          BY <2>1, <4>1
        <4>3. pos[k] + n <= N + 1
          <5>1. cuts \subseteq 1..(N + 1)
            BY <2>1
          <5>2. pos[k] + n \in 1..(N + 1)
            BY <4>2, <5>1
          <5> QED BY <5>2
        <4>4. CharacterLength(text, pos[k]) = n
          BY <1>3, <4>1, <4>2, <4>3
        <4>5. pos[k + 1] = pos[k] + n
          BY <1>b, <3>2, <4>4
        <4>6. pos[k + 1] > k + 1
          BY <4>1, <4>5
        <4> QED BY <4>2, <4>5, <4>6
      <3> QED BY <3>1, <3>2
    <2> HIDE DEF S
    <2>4. N \in S
      BY <1>1, <2>2, <2>3, SetInduction
    <2> QED BY <1>1, <1>4, <2>4 DEF S
  <1>7. ASSUME is_data_utf8(text) PROVE IsCharacters(text)
    <2> DEFINE cuts == {pos[k] : k \in 0..N}
    <2>1. pos[N] = N + 1
      <3>1. pos[N] \in 1..(N + 1) /\ pos[N] > N
        BY <1>1, <1>2, <1>4, <1>7
      <3> QED BY <1>1, <3>1
    <2>2. cuts \in SUBSET (1..(N + 1))
      <3>1. \A k \in 0..N : pos[k] \in 1..(N + 1)
        BY <1>2
      <3> QED BY <3>1
    <2>3. 1 \in cuts
      <3>1. 0 \in 0..N
        BY <1>1
      <3> QED BY <1>2, <3>1
    <2>4. ASSUME NEW k \in 0..N, pos[k] # N + 1
          PROVE  \E n \in 1..4 :
                     /\ pos[k] + n \in cuts
                     /\ IsCharacter(SubSeq(text, pos[k], pos[k] + n - 1))
      <3> DEFINE n == CharacterLength(text, pos[k])
      <3>1. k \in Nat /\ k + 1 \in 0..N
        <4>1. k # N
          BY <2>1, <2>4
        <4> QED BY <1>1, <4>1
      <3>2. pos[k] \in 1..N
        BY <1>1, <1>2, <2>4, <3>1
      <3>3. n \in 0..4 /\ pos[k] + n <= N + 1
        BY <1>3, <3>2
      <3>4. pos[k + 1] = pos[k] + n
        BY <1>b, <2>4, <3>1
      <3> HIDE DEF n
      <3>5. n # 0
        <4> SUFFICES ASSUME n = 0 PROVE FALSE
          OBVIOUS
        <4> DEFINE S == {m \in Nat : pos[k + m] = pos[k]}
        <4>1. 0 \in S
          BY <3>1
        <4>2. ASSUME NEW m \in Nat, m \in S PROVE m + 1 \in S
          <5>1. /\ k + m \in Nat /\ (k + m) + 1 = k + (m + 1)
                /\ pos[k + m] = pos[k]
            BY <3>1, <4>2
          <5>2. pos[(k + m) + 1] = pos[k] + CharacterLength(text, pos[k])
            BY <1>b, <2>4, <5>1
          <5>3. pos[(k + m) + 1] = pos[k]
            BY <3>2, <5>2 DEF n
          <5> QED BY <5>1, <5>3
        <4> HIDE DEF S
        <4>3. Nat \subseteq S
          BY <4>1, <4>2, SetInduction
        <4>4. N - k \in Nat /\ k + (N - k) = N
          BY <1>1, <3>1
        <4>5. pos[N] = pos[k]
          BY <4>3, <4>4 DEF S
        <4> QED BY <2>1, <2>4, <4>5
      <3>6. n \in 1..4
        BY <3>3, <3>5
      <3>7. IsCharacter(SubSeq(text, pos[k], pos[k] + n - 1))
        BY <1>3, <3>2, <3>3, <3>6 DEF n
      <3>8. pos[k] + n \in cuts
        BY <3>1, <3>4
      <3> QED BY <3>6, <3>7, <3>8
    <2>5. \A i \in cuts \ {N + 1} : \E n \in 1..4 :
              /\ i + n \in cuts
              /\ IsCharacter(SubSeq(text, i, i + n - 1))
      BY <2>4
    <2> HIDE DEF cuts
    <2> QED BY <1>5, <2>2, <2>3, <2>5
  <1> QED BY <1>6, <1>7

-----------------------------------------------------------------------------
(* The header of a text.                                                   *)

LEMMA JoinedLength ==
    ASSUME NEW S, NEW s \in Seq(S), NEW t \in Seq(S)
    PROVE  Len(s \o t) = Len(s) + Len(t)
  BY ConcatProperties

LEMMA BeginningInParts ==
    ASSUME NEW b \in Seq(Octet), NEW d \in Seq(Nat), NEW w \in Seq(Nat),
           Len(d) + 4 <= Len(b), Len(w) = 4
    PROVE  SubSeq(b, 1, Len(d) + 4) = d \o w <=>
               /\ SubSeq(b, 1, Len(d)) = d
               /\ b[Len(d) + 1] = w[1] /\ b[Len(d) + 2] = w[2]
               /\ b[Len(d) + 3] = w[3] /\ b[Len(d) + 4] = w[4]
  <1> DEFINE n == Len(d)
             whole == SubSeq(b, 1, n + 4)
             parts == d \o w
  <1>1. n \in Nat
    OBVIOUS
  <1>0. Octet \subseteq Nat
    BY DEF Octet
  <1>2. /\ whole \in Seq(Nat) /\ Len(whole) = n + 4
        /\ \A k \in 1..(n + 4) : whole[k] = b[k]
    <2>1. whole \in Seq(Octet)
      BY <1>1
    <2>2. whole \in Seq(Nat)
      <3> HIDE DEF whole
      <3> QED BY <1>0, <2>1, SeqMonotonic
    <2>3. Len(whole) = n + 4 /\ \A k \in 1..(n + 4) : whole[k] = b[k]
      BY <1>1
    <2> QED BY <2>2, <2>3
  <1>3. /\ parts \in Seq(Nat) /\ Len(parts) = n + 4
        /\ \A k \in 1..(n + 4) :
               parts[k] = IF k <= n THEN d[k] ELSE w[k - n]
    <2>1. parts \in Seq(Nat)
      BY ConcatProperties
    <2>2. Len(parts) = Len(d) + Len(w)
      BY JoinedLength
    <2>3. \A k \in 1..(Len(d) + Len(w)) :
              parts[k] = IF k <= Len(d) THEN d[k] ELSE w[k - Len(d)]
      BY ConcatProperties
    <2>4. Len(d) + Len(w) = n + 4
      OBVIOUS
    <2> HIDE DEF parts
    <2> QED BY <2>1, <2>2, <2>3, <2>4
  <1>4. /\ SubSeq(b, 1, n) \in Seq(Nat) /\ Len(SubSeq(b, 1, n)) = n
        /\ \A k \in 1..n : SubSeq(b, 1, n)[k] = b[k]
    <2> DEFINE front == SubSeq(b, 1, n)
    <2>1. front \in Seq(Octet)
      BY <1>1
    <2>2. front \in Seq(Nat)
      <3> HIDE DEF front
      <3> QED BY <1>0, <2>1, SeqMonotonic
    <2>3. Len(front) = n /\ \A k \in 1..n : front[k] = b[k]
      BY <1>1
    <2> QED BY <2>2, <2>3
  <1>5. SubSeq(b, 1, n) = d <=> \A k \in 1..n : b[k] = d[k]
    <2>1. (\A k \in 1..n : SubSeq(b, 1, n)[k] = d[k])
              => SubSeq(b, 1, n) = d
      <3> DEFINE front == SubSeq(b, 1, n)
      <3>1. front \in Seq(Nat) /\ Len(front) = Len(d)
        BY <1>4
      <3> HIDE DEF front
      <3>2. (\A k \in 1..Len(front) : front[k] = d[k]) => front = d
        BY <3>1, SeqEqual
      <3> QED BY <3>1, <3>2 DEF front
    <2> QED BY <1>4, <2>1
  <1> HIDE DEF whole, parts, n
  <1>6. whole = parts <=> \A k \in 1..(n + 4) : whole[k] = parts[k]
    <2>1. Len(whole) = Len(parts) /\ 1..(n + 4) = 1..Len(whole)
      BY <1>2, <1>3
    <2>2. (\A k \in 1..Len(whole) : whole[k] = parts[k]) => whole = parts
      BY <1>2, <1>3, <2>1, SeqEqual
    <2>3. 1..Len(whole) = 1..(n + 4)
      BY <1>2
    <2> HIDE DEF whole, parts
    <2>4. whole = parts => \A k \in 1..(n + 4) : whole[k] = parts[k]
      OBVIOUS
    <2>5. (\A k \in 1..(n + 4) : whole[k] = parts[k]) => whole = parts
      BY <1>2, <2>2
    <2> QED BY <2>4, <2>5
  <1>7. /\ \A k \in 1..n : parts[k] = d[k]
        /\ parts[n + 1] = w[1] /\ parts[n + 2] = w[2]
        /\ parts[n + 3] = w[3] /\ parts[n + 4] = w[4]
    BY <1>1, <1>3
  <1>8. (\A k \in 1..(n + 4) : whole[k] = parts[k]) <=>
            /\ \A k \in 1..n : b[k] = d[k]
            /\ b[n + 1] = w[1] /\ b[n + 2] = w[2]
            /\ b[n + 3] = w[3] /\ b[n + 4] = w[4]
    <2>1. ASSUME \A k \in 1..(n + 4) : whole[k] = parts[k]
          PROVE  /\ \A k \in 1..n : b[k] = d[k]
                 /\ b[n + 1] = w[1] /\ b[n + 2] = w[2]
                 /\ b[n + 3] = w[3] /\ b[n + 4] = w[4]
      <3>1. /\ \A k \in 1..n : k \in 1..(n + 4)
            /\ n + 1 \in 1..(n + 4) /\ n + 2 \in 1..(n + 4)
            /\ n + 3 \in 1..(n + 4) /\ n + 4 \in 1..(n + 4)
        BY <1>1
      <3> QED BY <1>2, <1>7, <2>1, <3>1
    <2>2. ASSUME /\ \A k \in 1..n : b[k] = d[k]
                 /\ b[n + 1] = w[1] /\ b[n + 2] = w[2]
                 /\ b[n + 3] = w[3] /\ b[n + 4] = w[4],
                 NEW k \in 1..(n + 4)
          PROVE  whole[k] = parts[k]
      <3>1. \/ k \in 1..n \/ k = n + 1 \/ k = n + 2
            \/ k = n + 3 \/ k = n + 4
        BY <1>1, <2>2
      <3> QED BY <1>2, <1>7, <2>2, <3>1
    <2> QED BY <2>1, <2>2
  <1> QED BY <1>5, <1>6, <1>8 DEF whole, parts, n

LEMMA LengthInOctets ==
    \A low \in Octet, high \in Octet, length \in Nat :
        /\ low + 256 * high \in Nat
        /\ low + 256 * high = length <=>
               low = length % 256 /\ high = length \div 256
  <1> SUFFICES ASSUME NEW low \in 0..255, NEW high \in 0..255,
                      NEW length \in Nat
               PROVE  /\ low + 256 * high \in Nat
                      /\ low + 256 * high = length <=>
                             low = length % 256 /\ high = length \div 256
    BY DEF Octet
  <1>1. length = 256 * (length \div 256) + (length % 256)
    OBVIOUS
  <1>2. ASSUME low + 256 * high = length
        PROVE  high = length \div 256
    BY <1>2
  <1> DEFINE d == length \div 256
             m == length % 256
  <1>3. d \in Nat /\ m \in Nat
    OBVIOUS
  <1> HIDE DEF d, m
  <1> QED BY <1>1, <1>2, <1>3 DEF d, m

IsAccepted(b) ==
    LET h == parse_offchain_message_header(b)
    IN  h.rc = 0 /\ ValidHeader(h, Len(b))

(* A text has the header of a format exactly if the code finds that one.   *)
LEMMA FormatIsFound ==
    ASSUME NEW b \in Seq(Octet)
    PROVE  /\ IsAccepted(b) <=> HasFormat(b, 0) \/ HasFormat(b, 1)
           /\ IsAccepted(b) =>
                  (parse_offchain_message_header(b).format = 1
                       <=> HasFormat(b, 1))
  <1> DEFINE h == parse_offchain_message_header(b)
             n == Len(Domain)
             length == TextLength(b)
             ok == IsAccepted(b)
  <1>1. /\ n \in Nat /\ Len(b) \in Nat /\ MAX_OFFCHAIN_MESSAGE_LENGTH \in Nat
        /\ OFFCHAIN_MESSAGE_HEADER_LENGTH = n + 4
        /\ Domain \in Seq(Octet)
    BY OffchainAssumption
  <1>2. ok <=> h.rc = 0 /\ ValidHeader(h, Len(b))
    BY DEF IsAccepted
  <1>3. CASE Len(b) < n + 4
    <2>1. h.rc = 1
      BY <1>3 DEF parse_offchain_message_header, Header
    <2>2. length \notin 0..MAX_OFFCHAIN_MESSAGE_LENGTH
      BY <1>1, <1>3 DEF TextLength
    <2>3. ~HasFormat(b, 0) /\ ~HasFormat(b, 1)
      BY <2>2 DEF HasFormat
    <2>4. ~ok
      BY <1>2, <2>1
    <2> QED BY <2>3, <2>4
  <1>4. CASE n + 4 <= Len(b)
    <2> DEFINE version == b[n + 1]
               format == b[n + 2]
               low == b[n + 3]
               high == b[n + 4]
               begins == SubSeq(b, 1, n) = Domain
               announced == low + 256 * high
    <2>1. /\ version \in Octet /\ format \in Octet
          /\ low \in Octet /\ high \in Octet
      <3>1. /\ n + 1 \in 1..Len(b) /\ n + 2 \in 1..Len(b)
            /\ n + 3 \in 1..Len(b) /\ n + 4 \in 1..Len(b)
        BY <1>1, <1>4
      <3> QED BY <3>1, ElementIsInside
    <2>2. h = IF begins THEN Header(version, format, announced)
              ELSE [Header(0, 0, 0) EXCEPT !.rc = 1]
      <3>1. ~(Len(b) < n + 4)
        BY <1>1, <1>4
      <3> QED BY <3>1 DEF parse_offchain_message_header
    <2>3. length \in Nat
      BY <1>1, <1>4 DEF TextLength
    <2>4. ASSUME NEW f \in Nat
          PROVE  HasFormat(b, f) <=>
                     /\ length <= MAX_OFFCHAIN_MESSAGE_LENGTH
                     /\ begins /\ version = 0 /\ format = f
                     /\ low = length % 256 /\ high = length \div 256
      <3> DEFINE written == <<0, f, length % 256, length \div 256>>
      <3>1. SubSeq(b, 1, n + 4) = Domain \o written <=>
                /\ begins /\ version = 0 /\ format = f
                /\ low = length % 256 /\ high = length \div 256
        <4>1. length % 256 \in Nat /\ length \div 256 \in Nat
          BY <2>3
        <4> HIDE DEF length
        <4>2. /\ written \in Seq(Nat) /\ Len(written) = 4
              /\ written[1] = 0 /\ written[2] = f
              /\ written[3] = length % 256 /\ written[4] = length \div 256
          BY <2>4, <4>1
        <4> HIDE DEF written
        <4>3. SubSeq(b, 1, n + 4) = Domain \o written <=>
                  /\ SubSeq(b, 1, n) = Domain
                  /\ b[n + 1] = written[1] /\ b[n + 2] = written[2]
                  /\ b[n + 3] = written[3] /\ b[n + 4] = written[4]
          <5>1. Octet \subseteq Nat
            BY DEF Octet
          <5>2. Domain \in Seq(Nat)
            BY <1>1, <5>1, SeqMonotonic
          <5>3. Len(Domain) + 4 <= Len(b) /\ Len(written) = 4
            BY <1>4, <4>2
          <5>4. ASSUME NEW d \in Seq(Nat), NEW w \in Seq(Nat),
                       Len(d) + 4 <= Len(b), Len(w) = 4
                PROVE  SubSeq(b, 1, Len(d) + 4) = d \o w <=>
                           /\ SubSeq(b, 1, Len(d)) = d
                           /\ b[Len(d) + 1] = w[1] /\ b[Len(d) + 2] = w[2]
                           /\ b[Len(d) + 3] = w[3] /\ b[Len(d) + 4] = w[4]
            BY <5>4, BeginningInParts
          <5> QED BY <4>2, <5>2, <5>3, <5>4
        <4> QED BY <4>2, <4>3
      <3>2. length \in 0..MAX_OFFCHAIN_MESSAGE_LENGTH <=>
                length <= MAX_OFFCHAIN_MESSAGE_LENGTH
        BY <1>1, <2>3
      <3>3. HasFormat(b, f) <=> /\ length \in 0..MAX_OFFCHAIN_MESSAGE_LENGTH
                                /\ SubSeq(b, 1, n + 4) = Domain \o written
        BY DEF HasFormat
      <3> HIDE DEF length, begins, version, format, low, high, written, n
      <3> QED BY <3>1, <3>2, <3>3
    <2>5. /\ announced \in Nat
          /\ announced = length <=>
                 low = length % 256 /\ high = length \div 256
      <3> HIDE DEF length, low, high
      <3> QED BY <2>1, <2>3, LengthInOctets
    <2>6. CASE ~begins
      <3>1. h.rc = 1
        BY <2>2, <2>6 DEF Header
      <3>2. ~ok
        BY <1>2, <3>1
      <3>3. ~HasFormat(b, 0) /\ ~HasFormat(b, 1)
        <4> HIDE DEF begins, version, format, low, high, length
        <4> QED BY <2>4, <2>6
      <3> QED BY <3>2, <3>3
    <2>7. CASE begins
      <3>1. /\ h.rc = 0 /\ h.version = version /\ h.format = format
            /\ h.length = announced
        BY <2>2, <2>7 DEF Header
      <3> HIDE DEF h, begins, version, format, announced
      <3>2. ok <=> /\ version = 0 /\ format <= 1
                   /\ announced <= MAX_OFFCHAIN_MESSAGE_LENGTH
                   /\ announced + OFFCHAIN_MESSAGE_HEADER_LENGTH = Len(b)
        BY <1>2, <3>1 DEF ValidHeader
      <3>3. announced + OFFCHAIN_MESSAGE_HEADER_LENGTH = Len(b) <=>
                announced = length
        BY <1>1, <2>5 DEF TextLength
      <3> HIDE DEF length, low, high, n, ok
      <3>4. format <= 1 <=> format = 0 \/ format = 1
        BY <2>1 DEF Octet
      <3>5. ok <=> HasFormat(b, 0) \/ HasFormat(b, 1)
        BY <2>4, <2>5, <2>7, <3>2, <3>3, <3>4
      <3>6. ok => (h.format = 1 <=> HasFormat(b, 1))
        BY <2>4, <2>5, <2>7, <3>1, <3>2, <3>3
      <3> QED BY <3>5, <3>6 DEF h, ok
    <2> QED BY <2>6, <2>7
  <1> QED BY <1>1, <1>3, <1>4

(* What LedgerApp knows of a text is what its bytes are.                   *)
LEMMA TextIsKnown ==
    ASSUME NEW b \in Seq(Octet)
    PROVE  IsKnown(b, TextOf(b))
  <1> DEFINE known == TextOf(b)
             text == SubSeq(b, OFFCHAIN_MESSAGE_HEADER_LENGTH + 1, Len(b))
             h == parse_offchain_message_header(b)
             ok == IsAccepted(b)
             printable == \A i \in 1..TextLength(b) : text[i] \in 32..126
  <1>1. /\ known.wellFormed = ok
        /\ known.encoding = IF ~ok \/ is_data_ascii(text) THEN "ascii"
                            ELSE IF is_data_utf8(text) THEN "utf8"
                            ELSE "invalid"
        /\ known.extended = (ok /\ h.format = 1)
    BY DEF TextOf, IsAccepted
  <1>2. /\ ok <=> HasFormat(b, 0) \/ HasFormat(b, 1)
        /\ ok => (h.format = 1 <=> HasFormat(b, 1))
    BY FormatIsFound
  <1>3. ASSUME ok
        PROVE  /\ text \in Seq(Octet)
               /\ is_data_ascii(text) <=> printable
    <2>1. TextLength(b) \in Nat /\ OFFCHAIN_MESSAGE_HEADER_LENGTH \in Nat
      <3>1. TextLength(b) \in 0..MAX_OFFCHAIN_MESSAGE_LENGTH
        BY <1>2, <1>3 DEF HasFormat
      <3>2. Len(Domain) \in Nat /\ MAX_OFFCHAIN_MESSAGE_LENGTH \in Nat
            /\ OFFCHAIN_MESSAGE_HEADER_LENGTH = Len(Domain) + 4
        BY OffchainAssumption
      <3> QED BY <3>1, <3>2
    <2>2. text \in Seq(Octet) /\ Len(text) = TextLength(b)
      BY <2>1 DEF TextLength
    <2> HIDE DEF text
    <2> QED BY <2>2 DEF is_data_ascii
  <1>4. ASSUME ok PROVE is_data_utf8(text) <=> IsCharacters(text)
    <2> HIDE DEF text, ok
    <2> QED BY <1>3, <1>4, TextIsCut
  <1> HIDE DEF known, text, h, ok, printable
  <1>5. known.wellFormed <=> HasFormat(b, 0) \/ HasFormat(b, 1)
    BY <1>1, <1>2
  <1>6. ASSUME known.wellFormed
        PROVE  /\ known.extended <=> HasFormat(b, 1)
               /\ known.encoding = IF printable THEN "ascii"
                                   ELSE IF IsCharacters(text) THEN "utf8"
                                   ELSE "invalid"
    <2>1. ok
      BY <1>1, <1>6
    <2>2. known.extended <=> HasFormat(b, 1)
      BY <1>1, <1>2, <2>1
    <2>3. known.encoding = IF is_data_ascii(text) THEN "ascii"
                           ELSE IF is_data_utf8(text) THEN "utf8"
                           ELSE "invalid"
      BY <1>1, <2>1
    <2>4. known.encoding = IF printable THEN "ascii"
                           ELSE IF IsCharacters(text) THEN "utf8"
                           ELSE "invalid"
      BY <1>3, <1>4, <2>1, <2>3
    <2> QED BY <2>2, <2>4
  <1> QED BY <1>5, <1>6 DEF known, text, printable, IsKnown

(* Every off-chain message is taken for what it is: its text is UTF-8      *)
(* exactly if it can be cut into shortest encodings of code points, and it *)
(* is accepted exactly if its header announces the text that follows       *)
(* (handle_sign_offchain_message.c:23, 107).                               *)
THEOREM EveryTextIsWhatItSays == LibrarySpec => []TextIsWhatItSays
  <1>1. LibraryInit => TextIsWhatItSays
    BY DEF LibraryInit, NoCall, TextIsWhatItSays, Is
  <1>2. TextIsWhatItSays /\ [LibraryNext]_library => TextIsWhatItSays'
    <2> SUFFICES ASSUME TextIsWhatItSays, [LibraryNext]_library
                 PROVE  TextIsWhatItSays'
      OBVIOUS
    <2>1. CASE UNCHANGED library
      BY <2>1 DEF library, TextIsWhatItSays, Is, given
    <2>2. CASE LibraryNext
      <3> SUFFICES ASSUME Is("offchain_message")' PROVE TextIsWhatItSays'
        BY DEF TextIsWhatItSays
      <3>1. PICK c \in TextCalls : ReadText(c)
        BY <2>2, NameTellsCall DEF Is
      <3>2. c.bytes \in Seq(Octet)
        BY LibraryAssumption
      <3>3. call'.with = c /\ reply'.text = TextOf(c.bytes)
        BY <3>1 DEF ReadText, Called
      <3>4. IsKnown(c.bytes, TextOf(c.bytes))
        BY <3>2, TextIsKnown
      <3> QED BY <3>3, <3>4 DEF TextIsWhatItSays, given
    <2> QED BY <2>1, <2>2
  <1> QED BY <1>1, <1>2, PTL DEF LibrarySpec

-----------------------------------------------------------------------------
(* Numbers.                                                                *)

LEMMA NumeralIsRead ==
    ASSUME NEW d \in 0..9
    PROVE  /\ Digits[d + 1] \in Numerals
           /\ DigitValue(Digits[d + 1]) = d
           /\ Digits[d + 1] = "0" <=> d = 0
           /\ Digits[d + 1] # "."
  <1>1. /\ Len(Digits) = 10 /\ DOMAIN Digits = 1..10
        /\ \A i, j \in 1..10 : Digits[i] = Digits[j] => i = j
        /\ Digits[1] = "0" /\ \A i \in 1..10 : Digits[i] # "."
    BY DEF Digits
  <1>2. d + 1 \in 1..10 /\ (d + 1) - 1 = d
    OBVIOUS
  <1>3. Digits[d + 1] \in Numerals
    BY <1>1, <1>2 DEF Numerals, ToSet
  <1> DEFINE I == {i \in 1..Len(Digits) : Digits[i] = Digits[d + 1]}
  <1>4. I = {d + 1}
    <2>1. d + 1 \in I
      BY <1>1, <1>2
    <2>2. ASSUME NEW i \in I PROVE i = d + 1
      <3>1. i \in 1..10 /\ Digits[i] = Digits[d + 1]
        BY <1>1
      <3> QED BY <1>1, <1>2, <3>1
    <2> QED BY <2>1, <2>2
  <1>5. I # {} /\ I \in SUBSET Nat /\ Min(I) \in I
    <2>1. I # {} /\ I \in SUBSET Nat
      BY <1>4
    <2> HIDE DEF I
    <2> QED BY <2>1, LeastExists
  <1>6. Min(I) = d + 1
    BY <1>4, <1>5
  <1>7. SelectInSeq(Digits, LAMBDA c : c = Digits[d + 1]) = Min(I)
    BY <1>5 DEF SelectInSeq
  <1>8. DigitValue(Digits[d + 1]) = d
    BY <1>2, <1>6, <1>7 DEF DigitValue
  <1>9. Digits[d + 1] = "0" <=> d = 0
    BY <1>1, <1>2
  <1> QED BY <1>1, <1>2, <1>3, <1>8, <1>9

(* The states of the loop that reads digits.                               *)
LEMMA DigitsAreRead ==
    ASSUME NEW digits \in Seq(Nat), NEW base \in Nat
    PROVE  /\ ValueLoop(digits, base)[0] = [read |-> 0, value |-> 0]
           /\ \A n \in Nat :
                  /\ ValueLoop(digits, base)[n] \in [read : Nat, value : Nat]
                  /\ ValueLoop(digits, base)[n].read < Len(digits) =>
                         ValueLoop(digits, base)[n + 1] =
                             [read |-> ValueLoop(digits, base)[n].read + 1,
                              value |-> ValueLoop(digits, base)[n].value * base
                                        + digits[ValueLoop(digits, base)[n].read
                                                 + 1]]
  <1> DEFINE T == [read : Nat, value : Nat]
             turn == [s \in T |->
                         IF s.read >= Len(digits) THEN s
                         ELSE [read |-> s.read + 1,
                               value |-> s.value * base + digits[s.read + 1]]]
             start == [read |-> 0, value |-> 0]
             A == ValueLoop(digits, base)
  <1>1. turn \in [T -> T]
    <2> SUFFICES ASSUME NEW s \in T PROVE turn[s] \in T
      OBVIOUS
    <2>1. CASE s.read >= Len(digits)
      BY <2>1
    <2>2. CASE ~(s.read >= Len(digits))
      <3>1. s.read + 1 \in 1..Len(digits)
        BY <2>2
      <3>2. digits[s.read + 1] \in Nat
        BY <3>1
      <3>3. s.read \in Nat /\ s.value \in Nat
        OBVIOUS
      <3> DEFINE value == s.value * base + digits[s.read + 1]
      <3>4. value \in Nat
        BY <3>2, <3>3, SMTT(30)
      <3>5. turn[s] = [read |-> s.read + 1, value |-> value]
        BY <2>2
      <3> HIDE DEF value, turn
      <3> QED BY <3>3, <3>4, <3>5
    <2> QED BY <2>1, <2>2
  <1>2. start \in T
    OBVIOUS
  <1>3. A = After(turn, start)
    BY DEF ValueLoop
  <1>4. \A s \in T : s.read < Len(digits) =>
            turn[s] = [read |-> s.read + 1,
                       value |-> s.value * base + digits[s.read + 1]]
    OBVIOUS
  <1> HIDE DEF T, turn, start, A
  <1>5. Follows(After(turn, start), T, turn, start)
    BY <1>1, <1>2, LoopFollows
  <1>6. /\ A[0] = start
        /\ \A n \in Nat : A[n] \in T /\ A[n + 1] = turn[A[n]]
    BY <1>3, <1>5 DEF Follows
  <1>7. ASSUME NEW n \in Nat
        PROVE  /\ A[n] \in T
               /\ A[n].read < Len(digits) =>
                      A[n + 1] = [read |-> A[n].read + 1,
                                  value |-> A[n].value * base
                                            + digits[A[n].read + 1]]
    BY <1>4, <1>6
  <1> QED BY <1>6, <1>7 DEF A, T, start

(* Reading digits from left to right computes their number.                *)
LEMMA ValueIsRead ==
    ASSUME NEW digits \in Seq(Nat), NEW base \in Nat,
           NEW value \in [0..Len(digits) -> Nat], value[0] = 0,
           \A k \in 0..(Len(digits) - 1) :
               value[k + 1] = value[k] * base + digits[k + 1]
    PROVE  ValueOf(digits, base) = value[Len(digits)]
  <1> DEFINE A == ValueLoop(digits, base)
             N == Len(digits)
  <1>4. /\ A[0] = [read |-> 0, value |-> 0]
        /\ \A n \in Nat :
               A[n].read < N =>
                   A[n + 1] = [read |-> A[n].read + 1,
                               value |-> A[n].value * base
                                         + digits[A[n].read + 1]]
    BY DigitsAreRead
  <1>5. N \in Nat
    OBVIOUS
  <1> DEFINE S == {k \in Nat : k <= N =>
                                   A[k] = [read |-> k, value |-> value[k]]}
  <1>6. 0 \in S
    BY <1>4
  <1>7. ASSUME NEW k \in Nat, k \in S PROVE k + 1 \in S
    <2> SUFFICES ASSUME k + 1 <= N
                 PROVE  A[k + 1] = [read |-> k + 1, value |-> value[k + 1]]
      OBVIOUS
    <2> HIDE DEF A
    <2>1. A[k] = [read |-> k, value |-> value[k]]
      BY <1>5, <1>7
    <2>2. A[k].read = k /\ A[k].value = value[k] /\ k < N
      BY <1>5, <2>1
    <2>3. A[k + 1] = [read |-> k + 1,
                      value |-> value[k] * base + digits[k + 1]]
      BY <1>4, <2>2
    <2>4. value[k + 1] = value[k] * base + digits[k + 1]
      BY <1>5
    <2> QED BY <2>3, <2>4
  <1>8. Nat \subseteq S
    <2> HIDE DEF S
    <2> QED BY <1>6, <1>7, SetInduction
  <1>9. A[N] = [read |-> N, value |-> value[N]]
    BY <1>5, <1>8
  <1> QED BY <1>9 DEF ValueOf

(* What is left of a number after some of its digits, from the last one    *)
(* on, have been written.                                                  *)
Rest(n) == After([r \in Nat |-> r \div 10], n)

LEMMA RestIsDivided ==
    ASSUME NEW n \in Nat
    PROVE  /\ Rest(n) \in [Nat -> Nat]
           /\ Rest(n)[0] = n
           /\ \A k \in Nat : Rest(n)[k + 1] = Rest(n)[k] \div 10
  <1> DEFINE T == Nat
             turn == [r \in T |-> r \div 10]
  <1>0. n \in T
    OBVIOUS
  <1>1. turn \in [T -> T]
    OBVIOUS
  <1>2. \A r \in Nat : turn[r] = r \div 10
    OBVIOUS
  <1>3. Rest(n) = After(turn, n)
    BY DEF Rest
  <1> HIDE DEF turn, T
  <1>4. Follows(After(turn, n), T, turn, n)
    BY <1>0, <1>1, LoopFollows
  <1> QED BY <1>2, <1>3, <1>4 DEF T, Follows

(* The kth digit of a number, from its end.                                *)
DigitFromEnd(n, k) == Digits[(Rest(n)[k - 1] % 10) + 1]

(* A text of all the digits of a number is read as the number.             *)
LEMMA DigitsMakeNumber ==
    ASSUME NEW n \in Nat, NEW S, NEW t \in Seq(S), Rest(n)[Len(t)] = 0,
           \A k \in 1..Len(t) : t[k] = DigitFromEnd(n, Len(t) + 1 - k)
    PROVE  Number(t) = n
  <1> DEFINE R == Rest(n)
             N == Len(t)
             digits == [k \in 1..N |-> DigitValue(t[k])]
             value == [k \in 0..N |-> R[N - k]]
  <1>1. N \in Nat
    OBVIOUS
  <1>2. R \in [Nat -> Nat] /\ R[0] = n /\ \A k \in Nat : R[k + 1] = R[k] \div 10
    BY RestIsDivided
  <1>3. ASSUME NEW k \in 1..N PROVE DigitValue(t[k]) = R[N - k] % 10
    <2>1. t[k] = Digits[(R[(N + 1 - k) - 1] % 10) + 1]
      BY DEF DigitFromEnd
    <2>2. (N + 1 - k) - 1 = N - k /\ N - k \in Nat
      BY <1>1
    <2> HIDE DEF R, N
    <2>3. R[N - k] % 10 \in 0..9
      <3>1. R[N - k] \in Nat
        BY <1>2, <2>2
      <3> QED BY <3>1
    <2> QED BY <2>1, <2>2, <2>3, NumeralIsRead
  <1> HIDE DEF R, N
  <1>4. digits \in Seq(Nat) /\ Len(digits) = N
    <2>1. \A k \in 1..N : DigitValue(t[k]) \in Nat
      <3> SUFFICES ASSUME NEW k \in 1..N PROVE R[N - k] % 10 \in Nat
        BY <1>3
      <3>1. N - k \in Nat
        BY <1>1
      <3>2. R[N - k] \in Nat
        BY <1>2, <3>1
      <3> QED BY <3>2
    <2>2. digits \in [1..N -> Nat]
      BY <2>1
    <2> HIDE DEF digits
    <2> QED BY <1>1, <2>2
  <1>5. value \in [0..N -> Nat] /\ value[0] = 0 /\ value[N] = n
    <2>1. \A k \in 0..N : N - k \in Nat
      BY <1>1
    <2>2. R[N] = 0
      BY DEF R, N
    <2>3. N - 0 = N /\ N - N = 0 /\ 0 \in 0..N /\ N \in 0..N
      BY <1>1
    <2>4. value \in [0..N -> Nat]
      BY <1>2, <2>1
    <2> QED BY <1>2, <2>2, <2>3, <2>4
  <1>6. ASSUME NEW k \in 0..(N - 1)
        PROVE  value[k + 1] = value[k] * 10 + digits[k + 1]
    <2> DEFINE m == N - (k + 1)
    <2>1. /\ m \in Nat /\ N - k = m + 1 /\ k \in 0..N /\ k + 1 \in 1..N
          /\ k + 1 \in 0..N
      BY <1>1
    <2>2. value[k] = R[m + 1] /\ value[k + 1] = R[m]
      BY <2>1
    <2>3. digits[k + 1] = R[m] % 10
      BY <1>3, <2>1
    <2> HIDE DEF value, digits, m
    <2>4. R[m] \in Nat /\ R[m + 1] = R[m] \div 10
      BY <1>2, <2>1
    <2>5. R[m] = (R[m] \div 10) * 10 + (R[m] % 10)
      BY <2>4
    <2> QED BY <2>2, <2>3, <2>4, <2>5
  <1>7. Number(t) = ValueOf(digits, 10)
    BY DEF Number, N
  <1> HIDE DEF value, digits
  <1>8. ValueOf(digits, 10) = value[Len(digits)]
    <2>1. /\ value \in [0..Len(digits) -> Nat] /\ value[0] = 0
          /\ \A k \in 0..(Len(digits) - 1) :
                 value[k + 1] = value[k] * 10 + digits[k + 1]
      BY <1>4, <1>5, <1>6
    <2>2. digits \in Seq(Nat) /\ 10 \in Nat
      BY <1>4
    <2> QED BY <2>1, <2>2, ValueIsRead
  <1> QED BY <1>4, <1>5, <1>7, <1>8

(* The states of a loop that prints a number.                              *)
LEMMA DigitIsWritten ==
    ASSUME NEW s \in Printing
    PROVE  LET next == DigitWritten(s)
           IN  /\ next \in Printing
               /\ Len(next.out) = Len(s.out) + 1
               /\ next.out[Len(s.out) + 1] = Digits[(s.rest % 10) + 1]
               /\ \A i \in 1..Len(s.out) : next.out[i] = s.out[i]
               /\ next.rest = s.rest \div 10
  <1> DEFINE C == Numerals \cup {"."}
             d == Digits[(s.rest % 10) + 1]
             n == Len(s.out)
  <1>1. s.out \in Seq(C) /\ s.rest \in Nat
    BY DEF Printing
  <1>2. d \in C
    <2>1. s.rest % 10 \in 0..9
      BY <1>1
    <2> QED BY <2>1, NumeralIsRead
  <1>3. DigitWritten(s) = [out |-> Append(s.out, d), rest |-> s.rest \div 10]
    BY DEF DigitWritten
  <1>4. s.rest \div 10 \in Nat
    BY <1>1
  <1> HIDE DEF C, d
  <1>5. /\ Append(s.out, d) \in Seq(C) /\ Len(Append(s.out, d)) = n + 1
        /\ Append(s.out, d)[n + 1] = d
        /\ \A i \in 1..n : Append(s.out, d)[i] = s.out[i]
    BY <1>1, <1>2
  <1> QED BY <1>3, <1>4, <1>5 DEF Printing, C, d

(* Between two turns the digits written are the last ones of the number.   *)
LEMMA NumberStates ==
    ASSUME NEW value \in Nat, NEW length \in Nat \ {0}, NEW k \in Nat
    PROVE  LET s == NumberLoop(value, length)[k]
               n == Len(s.out)
           IN  /\ s \in Printing
               /\ n \in 1..length
               /\ n = k + 1 \/ n = length \/ s.rest = 0
               /\ s.rest = Rest(value)[n]
               /\ n > 1 => Rest(value)[n - 1] > 0
               /\ \A i \in 1..n : s.out[i] = DigitFromEnd(value, i)
  <1> DEFINE T == Printing
             turn == [s \in T |->
                         IF s.rest > 0 /\ Len(s.out) < length
                         THEN DigitWritten(s) ELSE s]
             start == DigitWritten(Unprinted(value))
             A == NumberLoop(value, length)
             R == Rest(value)
             Good(m) == LET s == A[m]
                            n == Len(s.out)
                        IN  /\ s \in Printing
                            /\ n \in 1..length
                            /\ n = m + 1 \/ n = length \/ s.rest = 0
                            /\ s.rest = R[n]
                            /\ n > 1 => R[n - 1] > 0
                            /\ \A i \in 1..n :
                                   s.out[i] = DigitFromEnd(value, i)
  <1>1. /\ R \in [Nat -> Nat] /\ R[0] = value
        /\ \A m \in Nat : R[m + 1] = R[m] \div 10
    BY RestIsDivided
  <1>2. Unprinted(value) \in T /\ Len(Unprinted(value).out) = 0
        /\ Unprinted(value).rest = value
    BY DEF Unprinted, Printing
  <1>3. /\ start \in T /\ Len(start.out) = 1 /\ start.rest = value \div 10
        /\ start.out[1] = Digits[(value % 10) + 1]
    <2> DEFINE u == Unprinted(value)
    <2>1. u \in Printing /\ Len(u.out) = 0 /\ u.rest = value
      BY <1>2
    <2> HIDE DEF u
    <2>2. /\ DigitWritten(u) \in Printing
          /\ Len(DigitWritten(u).out) = Len(u.out) + 1
          /\ DigitWritten(u).out[Len(u.out) + 1] = Digits[(u.rest % 10) + 1]
          /\ DigitWritten(u).rest = u.rest \div 10
      BY <2>1, DigitIsWritten
    <2> QED BY <2>1, <2>2 DEF u
  <1>4. turn \in [T -> T]
    BY DigitIsWritten
  <1>5. A = After(turn, start)
    BY DEF NumberLoop
  <1>6. Follows(A, T, turn, start)
    <2> HIDE DEF T, turn, start, A
    <2>1. Follows(After(turn, start), T, turn, start)
      BY <1>3, <1>4, LoopFollows
    <2> QED BY <1>5, <2>1
  <1> HIDE DEF A, R
  <1>7. Good(0)
    <2>1. A[0] = start
      BY <1>6 DEF Follows
    <2>2. R[1] = value \div 10
      <3>1. R[0 + 1] = R[0] \div 10
        BY <1>1
      <3> QED BY <1>1, <3>1
    <2>3. start.out[1] = DigitFromEnd(value, 1)
      <3>1. Rest(value)[1 - 1] = value
        BY <1>1 DEF R
      <3> HIDE DEF start
      <3> QED BY <1>3, <3>1 DEF DigitFromEnd
    <2> HIDE DEF start
    <2>4. /\ A[0] \in Printing /\ Len(A[0].out) = 1 /\ A[0].rest = R[1]
          /\ A[0].out[1] = DigitFromEnd(value, 1)
      BY <1>3, <2>1, <2>2, <2>3
    <2>5. 1 \in 1..length /\ 1 = 0 + 1 /\ ~(1 > 1)
          /\ \A i \in 1..1 : i = 1
      OBVIOUS
    <2> QED BY <2>4, <2>5
  <1>8. ASSUME NEW m \in Nat, Good(m) PROVE Good(m + 1)
    <2> DEFINE s == A[m]
               n == Len(s.out)
    <2>1. A[m + 1] = turn[s]
      BY <1>6 DEF Follows
    <2>2. /\ s \in Printing /\ n \in 1..length
          /\ n = m + 1 \/ n = length \/ s.rest = 0
          /\ s.rest = R[n]
          /\ n > 1 => R[n - 1] > 0
          /\ \A i \in 1..n : s.out[i] = DigitFromEnd(value, i)
      BY <1>8
    <2>3. CASE ~(s.rest > 0 /\ n < length)
      <3>1. A[m + 1] = s
        BY <2>1, <2>2, <2>3
      <3>2. n = length \/ s.rest = 0
        <4>1. s.rest \in Nat
          BY <2>2 DEF Printing
        <4> QED BY <2>2, <2>3, <4>1
      <3> QED BY <2>2, <3>1, <3>2
    <2>4. CASE s.rest > 0 /\ n < length
      <3> DEFINE next == DigitWritten(s)
      <3>1. A[m + 1] = next
        BY <2>1, <2>2, <2>4
      <3>2. /\ next \in Printing /\ Len(next.out) = n + 1
            /\ next.out[n + 1] = Digits[(s.rest % 10) + 1]
            /\ \A i \in 1..n : next.out[i] = s.out[i]
            /\ next.rest = s.rest \div 10
        BY <2>2, DigitIsWritten
      <3> HIDE DEF next, s, n
      <3>3. n \in Nat /\ (n + 1) - 1 = n /\ n + 1 \in 1..length
        BY <2>2, <2>4
      <3>4. next.rest = R[n + 1] /\ R[n] > 0
        BY <1>1, <2>2, <2>4, <3>2, <3>3
      <3>5. n = m + 1
        BY <2>2, <2>4
      <3>6. next.out[n + 1] = DigitFromEnd(value, n + 1)
        BY <2>2, <3>2, <3>3 DEF DigitFromEnd, R
      <3>7. \A i \in 1..(n + 1) : next.out[i] = DigitFromEnd(value, i)
        BY <2>2, <3>2, <3>3, <3>6
      <3> QED BY <3>1, <3>2, <3>3, <3>4, <3>5, <3>7
    <2> QED BY <2>3, <2>4
  <1> DEFINE S == {m \in Nat : Good(m)}
  <1> HIDE DEF Good
  <1>9. Nat \subseteq S
    <2>1. 0 \in S
      BY <1>7
    <2>2. ASSUME NEW m \in Nat, m \in S PROVE m + 1 \in S
      BY <1>8, <2>2
    <2> HIDE DEF S
    <2> QED BY <2>1, <2>2, SetInduction
  <1>10. Good(k)
    BY <1>9
  <1> QED BY <1>10 DEF Good, A, R

(* A number that fits its buffer is printed with all its digits and no     *)
(* others.                                                                 *)
LEMMA NumberIsPrinted ==
    ASSUME NEW value \in Nat, NEW length \in Nat \ {0, 1},
           print_u64(value, length).rc = 0
    PROVE  LET t == print_u64(value, length).text
           IN  /\ t \in Seq(Numerals \cup {"."})
               /\ IsNumeral(t)
               /\ IsShortest(t)
               /\ Number(t) = value
  <1> DEFINE s == NumberLoop(value, length)[length]
             out == s.out
             n == Len(out)
             t == Reverse(out)
             C == Numerals \cup {"."}
             R == Rest(value)
  <1>1. /\ s \in Printing
        /\ n \in 1..length
        /\ n = length + 1 \/ n = length \/ s.rest = 0
        /\ s.rest = R[n]
        /\ n > 1 => R[n - 1] > 0
        /\ \A i \in 1..n : out[i] = DigitFromEnd(value, i)
    <2>1. length \in Nat \ {0} /\ length \in Nat
      OBVIOUS
    <2> QED BY <2>1, NumberStates, ZenonT(60)
  <1>2. out \in Seq(C)
    BY <1>1 DEF Printing
  <1>3. print_u64(value, length) =
            IF n >= length THEN NoText(n) ELSE Text(t, n + 1)
    BY DEF print_u64, NumberTurns
  <1>4. n < length /\ print_u64(value, length).text = t
    <2> HIDE DEF n, t
    <2>1. n < length
      BY <1>1, <1>3 DEF NoText
    <2> QED BY <1>1, <1>3, <2>1 DEF Text
  <1>5. R[n] = 0
    <2> HIDE DEF n, s
    <2> QED BY <1>1, <1>4
  <1> HIDE DEF C, R
  <1>6. /\ t \in Seq(C) /\ Len(t) = n
        /\ \A i \in 1..n : t[i] = out[(n - i) + 1]
    BY <1>2 DEF Reverse
  <1> HIDE DEF s, t, n
  <1>7. n \in Nat /\ n >= 1
    BY <1>1
  <1>8. \A i \in 1..n : t[i] = DigitFromEnd(value, n + 1 - i)
    <2> SUFFICES ASSUME NEW i \in 1..n
                 PROVE  t[i] = DigitFromEnd(value, n + 1 - i)
      OBVIOUS
    <2>1. (n - i) + 1 = n + 1 - i /\ n + 1 - i \in 1..n
      BY <1>7
    <2> QED BY <1>1, <1>6, <2>1
  <1>9. Number(t) = value
    <2>1. Rest(value)[Len(t)] = 0
      BY <1>5, <1>6 DEF R
    <2>2. \A i \in 1..Len(t) : t[i] = DigitFromEnd(value, Len(t) + 1 - i)
      BY <1>6, <1>8
    <2> QED BY <1>6, <2>1, <2>2, DigitsMakeNumber
  <1>10. \A i \in 1..n : /\ R[n - i] \in Nat
                         /\ t[i] = Digits[(R[n - i] % 10) + 1]
    <2> SUFFICES ASSUME NEW i \in 1..n
                 PROVE  /\ R[n - i] \in Nat
                        /\ t[i] = Digits[(R[n - i] % 10) + 1]
      OBVIOUS
    <2>1. (n + 1 - i) - 1 = n - i /\ n - i \in Nat
      BY <1>7
    <2>2. R[n - i] \in Nat
      BY <2>1, RestIsDivided DEF R
    <2> QED BY <1>8, <2>1, <2>2 DEF DigitFromEnd, R
  <1>11. IsNumeral(t)
    <2>1. t # <<>>
      BY <1>6, <1>7
    <2>2. ASSUME NEW i \in 1..n PROVE t[i] \in Numerals
      <3>1. R[n - i] \in Nat /\ t[i] = Digits[(R[n - i] % 10) + 1]
        BY <1>10
      <3>2. R[n - i] % 10 \in 0..9
        BY <3>1
      <3> QED BY <3>1, <3>2, NumeralIsRead
    <2> QED BY <1>6, <2>1, <2>2 DEF IsNumeral
  <1>12. IsShortest(t)
    <2> SUFFICES ASSUME n > 1 PROVE t[1] # "0"
      BY <1>6 DEF IsShortest
    <2> DEFINE r == R[n - 1]
    <2>1. 1 \in 1..n
      BY <1>7
    <2>2. r \in Nat /\ r > 0 /\ t[1] = Digits[(r % 10) + 1]
      BY <1>1, <1>10, <2>1
    <2>3. r \div 10 = 0
      <3>1. n - 1 \in Nat /\ (n - 1) + 1 = n
        BY <1>7
      <3>2. R[(n - 1) + 1] = R[n - 1] \div 10
        BY <3>1, RestIsDivided DEF R
      <3> QED BY <1>5, <3>1, <3>2
    <2> HIDE DEF r
    <2>4. r % 10 \in 0..9 /\ r % 10 # 0
      BY <2>2, <2>3
    <2> QED BY <2>2, <2>4, NumeralIsRead
  <1> QED BY <1>4, <1>6, <1>9, <1>11, <1>12 DEF C

(* Turning the bits of a negative number and adding one negates it, the    *)
(* smallest number included.                                               *)
LEMMA MagnitudeIsAbsolute ==
    ASSUME NEW value \in Signed64
    PROVE  /\ Magnitude(value) \in Nat
           /\ Magnitude(value) = IF value < 0 THEN -value ELSE value
  <1> DEFINE V == Values64
             h == V \div 2
             u == value % V
  <1>1. V \in Nat /\ V > 0
    BY PrinterAssumption
  <1>2. h \in Nat /\ 2 * h <= V
    <2> HIDE DEF V
    <2> QED BY <1>1
  <1>3. value \in Int /\ -h <= value /\ value < h
    <2>1. Signed64 = (-h)..(h - 1)
      BY DEF Signed64
    <2> HIDE DEF h
    <2> QED BY <1>2, <2>1
  <1>4. Magnitude(value) = IF value < 0 THEN ((V - 1) - u + 1) % V ELSE u
    BY DEF Magnitude
  <1> HIDE DEF V, h
  <1>5. CASE value >= 0
    <2>1. value \in Nat /\ value < V /\ ~(value < 0)
      BY <1>1, <1>2, <1>3, <1>5
    <2>2. u = value
      BY <1>1, <2>1, RemainderIsSmall
    <2> QED BY <1>4, <2>1, <2>2
  <1>6. CASE value < 0
    <2> DEFINE q == value \div V
    <2>1. value = V * q + u /\ u \in 0..(V - 1) /\ q \in Int
      BY <1>1, <1>3
    <2> HIDE DEF u, q
    <2>2. q = -1
      <3>1. q < 0
        <4> SUFFICES ASSUME q >= 0 PROVE FALSE
          BY <2>1
        <4>1. V * q >= 0
          BY <1>1, <2>1
        <4> QED BY <1>1, <1>6, <2>1, <4>1
      <3>2. q > -2
        <4> SUFFICES ASSUME q <= -2 PROVE FALSE
          BY <2>1
        <4>1. V * q <= V * (-2)
          BY <1>1, <2>1
        <4> QED BY <1>1, <1>2, <1>3, <2>1, <4>1
      <3> QED BY <2>1, <3>1, <3>2
    <2>3. u = value + V
      BY <1>1, <1>3, <2>1, <2>2
    <2>4. (V - 1) - u + 1 = -value /\ -value \in Nat /\ -value < V
      BY <1>1, <1>2, <1>3, <1>6, <2>3
    <2> DEFINE m == -value
    <2>5. m \in Nat /\ m < V /\ (V - 1) - u + 1 = m
      BY <2>4
    <2> HIDE DEF m
    <2>6. m % V = m
      BY <1>1, <2>5, RemainderIsSmall
    <2>7. Magnitude(value) = m
      BY <1>4, <1>6, <2>5, <2>6
    <2> QED BY <1>6, <2>5, <2>7 DEF m
  <1> QED BY <1>3, <1>5, <1>6

LEMMA SignInFront ==
    ASSUME NEW S, NEW t \in Seq(S), NEW sign
    PROVE  Head(<<sign>> \o t) = sign /\ Tail(<<sign>> \o t) = t
  <1> DEFINE C == S \cup {sign}
             w == <<sign>> \o t
  <1>1. t \in Seq(C) /\ <<sign>> \in Seq(C)
    OBVIOUS
  <1>2. /\ w \in Seq(C) /\ Len(w) = Len(t) + 1 /\ w[1] = sign
        /\ \A i \in 1..Len(t) : w[i + 1] = t[i]
    <2> HIDE DEF C
    <2> QED BY <1>1
  <1> HIDE DEF C, w
  <1>3. Head(w) = sign
    BY <1>2
  <1>4. Tail(w) = t
    BY <1>1, <1>2
  <1> QED BY <1>3, <1>4 DEF w

(* What the screen says of a signed number is the number.                  *)
ShowsNumber(text, value) ==
    LET digits == IF value < 0 THEN Tail(text) ELSE text
    IN  /\ IsNumeral(digits) /\ IsShortest(digits)
        /\ IF value < 0
           THEN Head(text) = "-" /\ Number(digits) = -value
           ELSE Number(digits) = value

LEMMA SignedNumberIsPrinted ==
    ASSUME NEW value \in Signed64, NEW length \in Nat, length > 2,
           print_i64(value, length).rc = 0
    PROVE  ShowsNumber(print_i64(value, length).text, value)
  <1> DEFINE sign == IF value < 0 THEN 1 ELSE 0
             m == Magnitude(value)
             room == length - sign
             number == print_u64(m, room)
             t == number.text
  <1>1. m \in Nat /\ m = IF value < 0 THEN -value ELSE value
    BY MagnitudeIsAbsolute
  <1>2. value \in Int
    BY DEF Signed64
  <1>3. room \in Nat \ {0, 1} /\ ~(length < 1)
    BY <1>2
  <1> HIDE DEF m, room
  <1>4. print_i64(value, length) =
            IF number.rc # 0 THEN NoText(sign + number.written)
            ELSE Text((IF sign = 1 THEN <<"-">> ELSE <<>>) \o t,
                      sign + number.written)
    <2> HIDE DEF t
    <2> QED BY <1>3 DEF print_i64, m, room, t
  <1> HIDE DEF number, t
  <1>5. number.rc = 0
    BY <1>4 DEF NoText
  <1>6. print_i64(value, length).text =
            (IF sign = 1 THEN <<"-">> ELSE <<>>) \o t
    BY <1>4, <1>5 DEF Text
  <1>7. /\ t \in Seq(Numerals \cup {"."}) /\ IsNumeral(t) /\ IsShortest(t)
        /\ Number(t) = m
    BY <1>1, <1>3, <1>5, NumberIsPrinted DEF number, t
  <1>8. CASE value < 0
    <2>1. print_i64(value, length).text = <<"-">> \o t
      BY <1>6, <1>8
    <2>2. Head(<<"-">> \o t) = "-" /\ Tail(<<"-">> \o t) = t
      BY <1>7, SignInFront
    <2> QED BY <1>1, <1>7, <1>8, <2>1, <2>2 DEF ShowsNumber
  <1>9. CASE ~(value < 0)
    <2>1. print_i64(value, length).text = <<>> \o t
      BY <1>6, <1>9
    <2>2. <<>> \o t = t
      BY <1>7
    <2> QED BY <1>1, <1>7, <1>9, <2>1, <2>2 DEF ShowsNumber
  <1> QED BY <1>8, <1>9

(* Every signed number is shown as what it is, whatever the width of the   *)
(* type and the length of the buffer it fits (printer.c:169).              *)
THEOREM EveryNumberIsExact == LibrarySpec => []NumberIsExact
  <1>1. LibraryInit => NumberIsExact
    BY DEF LibraryInit, NoCall, NumberIsExact, Is
  <1>2. NumberIsExact /\ [LibraryNext]_library => NumberIsExact'
    <2> SUFFICES ASSUME NumberIsExact, [LibraryNext]_library
                 PROVE  NumberIsExact'
      OBVIOUS
    <2>1. CASE UNCHANGED library
      BY <2>1 DEF library, NumberIsExact, Is, given
    <2>2. CASE LibraryNext
      <3> SUFFICES ASSUME Is("print_i64")', reply'.rc = 0, given'.length > 2
                   PROVE  ShowsNumber(reply'.text, given'.value)
        BY DEF NumberIsExact, ShowsNumber
      <3>1. PICK c \in NumberCalls : PrintNumber(c)
        BY <2>2, NameTellsCall DEF Is
      <3>2. c.value \in Signed64 /\ c.length \in Nat
        BY LibraryAssumption
      <3>3. given' = c /\ reply' = print_i64(c.value, c.length)
        BY <3>1 DEF PrintNumber, Called, given
      <3> QED BY <3>2, <3>3, SignedNumberIsPrinted
    <2> QED BY <2>1, <2>2
  <1> QED BY <1>1, <1>2, PTL DEF LibrarySpec

-----------------------------------------------------------------------------
(* Amounts.                                                                *)

LEMMA PointIsWritten ==
    ASSUME NEW s \in Printing
    PROVE  LET next == [s EXCEPT !.out = Append(@, ".")]
           IN  /\ next \in Printing
               /\ Len(next.out) = Len(s.out) + 1
               /\ next.out[Len(s.out) + 1] = "."
               /\ \A i \in 1..Len(s.out) : next.out[i] = s.out[i]
               /\ next.rest = s.rest
  <1> DEFINE C == Numerals \cup {"."}
  <1>1. s.out \in Seq(C) /\ "." \in C
    BY DEF Printing
  <1> DEFINE longer == Append(s.out, ".")
  <1>2. /\ longer \in Seq(C) /\ Len(longer) = Len(s.out) + 1
        /\ longer[Len(s.out) + 1] = "."
        /\ \A i \in 1..Len(s.out) : longer[i] = s.out[i]
    <2> HIDE DEF C
    <2> QED BY <1>1
  <1>3. [s EXCEPT !.out = Append(@, ".")] = [out |-> longer, rest |-> s.rest]
    <2>1. s \in [out : Seq(C), rest : Nat]
      BY DEF Printing
    <2>2. [s EXCEPT !.out = Append(@, ".")] = [s EXCEPT !.out = longer]
      OBVIOUS
    <2> HIDE DEF longer, C
    <2>3. [s EXCEPT !.out = longer] = [out |-> longer, rest |-> s.rest]
      BY <2>1
    <2> QED BY <2>2, <2>3
  <1>4. s.rest \in Nat
    BY DEF Printing
  <1> HIDE DEF longer
  <1> QED BY <1>2, <1>3, <1>4 DEF Printing, C

(* A turn of print_token_amount.                                           *)
LEMMA AmountGrows ==
    ASSUME NEW s \in Printing, NEW decimals \in Nat
    PROVE  LET next == AmountTurn(s, decimals)
               n == Len(s.out)
               m == IF n = decimals THEN n + 1 ELSE n
           IN  /\ next \in Printing
               /\ Len(next.out) = m + 1
               /\ \A i \in 1..n : next.out[i] = s.out[i]
               /\ n = decimals => next.out[n + 1] = "."
               /\ next.out[m + 1] = Digits[(s.rest % 10) + 1]
               /\ next.rest = s.rest \div 10
  <1> DEFINE n == Len(s.out)
  <1>0. n \in Nat
    BY DEF Printing
  <1>1. CASE n = decimals
    <2> DEFINE pointed == [s EXCEPT !.out = Append(@, ".")]
    <2>1. /\ pointed \in Printing
          /\ Len(pointed.out) = n + 1
          /\ pointed.out[n + 1] = "."
          /\ \A i \in 1..n : pointed.out[i] = s.out[i]
          /\ pointed.rest = s.rest
      BY PointIsWritten
    <2>2. AmountTurn(s, decimals) = DigitWritten(pointed)
      BY <1>1 DEF AmountTurn
    <2> HIDE DEF pointed
    <2> DEFINE next == DigitWritten(pointed)
    <2>3. /\ next \in Printing
          /\ Len(next.out) = Len(pointed.out) + 1
          /\ next.out[Len(pointed.out) + 1] = Digits[(pointed.rest % 10) + 1]
          /\ \A i \in 1..Len(pointed.out) : next.out[i] = pointed.out[i]
          /\ next.rest = pointed.rest \div 10
      BY <2>1, DigitIsWritten
    <2> HIDE DEF next, n
    <2>4. /\ Len(next.out) = (n + 1) + 1
          /\ next.out[(n + 1) + 1] = Digits[(s.rest % 10) + 1]
          /\ next.rest = s.rest \div 10
          /\ next.out[n + 1] = "."
          /\ \A i \in 1..n : next.out[i] = s.out[i]
      <3> DEFINE o == next.out
                 u == pointed.out
                 w == s.out
                 c == Digits[(s.rest % 10) + 1]
      <3>1. Len(u) = n + 1 /\ u[n + 1] = "." /\ \A i \in 1..n : u[i] = w[i]
        BY <2>1
      <3>2. /\ Len(o) = Len(u) + 1 /\ o[Len(u) + 1] = c
            /\ next.rest = s.rest \div 10
        BY <2>1, <2>3
      <3>3. \A i \in 1..Len(u) : o[i] = u[i]
        BY <2>3
      <3> HIDE DEF o, u, w, c
      <3>4. o[n + 1] = u[n + 1] /\ \A i \in 1..n : o[i] = w[i]
        BY <1>0, <3>1, <3>3
      <3>5. Len(o) = (n + 1) + 1 /\ o[(n + 1) + 1] = c
        BY <3>1, <3>2
      <3> QED BY <3>1, <3>2, <3>4, <3>5 DEF o, w, c
    <2>5. AmountTurn(s, decimals) = next
      BY <2>2 DEF next
    <2>6. next \in Printing /\ (IF n = decimals THEN n + 1 ELSE n) = n + 1
      BY <1>1, <2>3
    <2> QED BY <2>4, <2>5, <2>6 DEF n
  <1>2. CASE n # decimals
    <2>1. AmountTurn(s, decimals) = DigitWritten(s)
      BY <1>2 DEF AmountTurn
    <2> QED BY <1>2, <2>1, DigitIsWritten
  <1> QED BY <1>1, <1>2

(* What has been written of an amount: its last digits, and the point      *)
(* among them.                                                             *)
WrittenAmount(s, value, decimals) ==
    LET n == Len(s.out)
    IN  /\ s \in Printing
        /\ n >= 1 /\ n # decimals + 1
        /\ s.rest = Rest(value)[IF n <= decimals THEN n ELSE n - 1]
        /\ n > decimals + 2 => Rest(value)[n - 2] > 0
        /\ \A i \in 1..n :
               /\ i <= decimals => s.out[i] = DigitFromEnd(value, i)
               /\ i = decimals + 1 => s.out[i] = "."
               /\ i > decimals + 1 => s.out[i] = DigitFromEnd(value, i - 1)

LEMMA AmountStarts ==
    ASSUME NEW value \in Nat, NEW decimals \in Nat
    PROVE  WrittenAmount(AmountTurn(Unprinted(value), decimals), value,
                         decimals)
  <1> DEFINE u == Unprinted(value)
             s == AmountTurn(u, decimals)
             R == Rest(value)
  <1>1. u \in Printing /\ Len(u.out) = 0 /\ u.rest = value
    BY DEF Unprinted, Printing
  <1>2. R[0] = value /\ R[1] = value \div 10
    <2>1. R[0] = value /\ R[0 + 1] = R[0] \div 10
      BY RestIsDivided
    <2> QED BY <2>1
  <1>3. DigitFromEnd(value, 1) = Digits[(value % 10) + 1]
    <2>1. Rest(value)[1 - 1] = value
      BY <1>2
    <2> QED BY <2>1 DEF DigitFromEnd
  <1> HIDE DEF R, u
  <1> DEFINE m == IF 0 = decimals THEN 1 ELSE 0
  <1>4. /\ s \in Printing /\ Len(s.out) = m + 1
        /\ 0 = decimals => s.out[1] = "."
        /\ s.out[m + 1] = Digits[(value % 10) + 1]
        /\ s.rest = value \div 10
    <2>1. LET n == Len(u.out)
              k == IF n = decimals THEN n + 1 ELSE n
          IN  /\ s \in Printing
              /\ Len(s.out) = k + 1
              /\ n = decimals => s.out[n + 1] = "."
              /\ s.out[k + 1] = Digits[(u.rest % 10) + 1]
              /\ s.rest = u.rest \div 10
      BY <1>1, AmountGrows
    <2> HIDE DEF s
    <2> QED BY <1>1, <2>1
  <1> HIDE DEF s
  <1>5. CASE decimals = 0
    <2>1. Len(s.out) = 2 /\ s.out[1] = "." /\ s.rest = R[2 - 1]
          /\ s.out[2] = DigitFromEnd(value, 2 - 1)
      BY <1>2, <1>3, <1>4, <1>5
    <2>2. WrittenAmount(s, value, 0)
      BY <1>4, <2>1 DEF WrittenAmount, R
    <2> QED BY <1>5, <2>2 DEF s, u
  <1>6. CASE decimals # 0
    <2>1. Len(s.out) = 1 /\ s.rest = R[1]
          /\ s.out[1] = DigitFromEnd(value, 1)
      BY <1>2, <1>3, <1>4, <1>6
    <2>2. WrittenAmount(s, value, decimals)
      BY <1>4, <1>6, <2>1 DEF WrittenAmount, R
    <2> QED BY <2>2 DEF s, u
  <1> QED BY <1>5, <1>6

LEMMA AmountGoesOn ==
    ASSUME NEW value \in Nat, NEW decimals \in Nat, NEW s,
           WrittenAmount(s, value, decimals),
           s.rest > 0 \/ Len(s.out) < decimals + 1
    PROVE  WrittenAmount(AmountTurn(s, decimals), value, decimals)
  <1> DEFINE next == AmountTurn(s, decimals)
             R == Rest(value)
             n == Len(s.out)
             m == IF n = decimals THEN n + 1 ELSE n
             done == IF n <= decimals THEN n ELSE n - 1
  <1>1. /\ R \in [Nat -> Nat]
        /\ \A k \in Nat : R[k + 1] = R[k] \div 10
    BY RestIsDivided
  <1>2. /\ s \in Printing /\ n >= 1 /\ n # decimals + 1
        /\ s.rest = R[done]
        /\ \A i \in 1..n :
               /\ i <= decimals => s.out[i] = DigitFromEnd(value, i)
               /\ i = decimals + 1 => s.out[i] = "."
               /\ i > decimals + 1 => s.out[i] = DigitFromEnd(value, i - 1)
    BY DEF WrittenAmount
  <1>3. n \in Nat /\ s.rest \in Nat
    BY <1>2 DEF Printing
  <1>4. /\ next \in Printing
        /\ Len(next.out) = m + 1
        /\ \A i \in 1..n : next.out[i] = s.out[i]
        /\ n = decimals => next.out[n + 1] = "."
        /\ next.out[m + 1] = Digits[(s.rest % 10) + 1]
        /\ next.rest = s.rest \div 10
    BY <1>2, AmountGrows
  <1>a. s.rest > 0 \/ n < decimals + 1
    OBVIOUS
  <1> HIDE DEF next, R, n
  <1>5. done \in Nat /\ (done + 1) - 1 = done
    BY <1>2, <1>3
  <1>6. next.rest = R[done + 1]
    BY <1>1, <1>2, <1>4, <1>5
  <1>7. next.out[m + 1] = DigitFromEnd(value, done + 1)
    BY <1>2, <1>4, <1>5 DEF DigitFromEnd, R
  <1>8. done + 1 = IF m + 1 <= decimals THEN m + 1 ELSE (m + 1) - 1
    BY <1>2, <1>3
  <1>9. m + 1 >= 1 /\ m + 1 # decimals + 1 /\ m + 1 \in Nat
    BY <1>2, <1>3
  <1>10. m + 1 > decimals + 2 => R[(m + 1) - 2] > 0
    <2> SUFFICES ASSUME m + 1 > decimals + 2 PROVE R[(m + 1) - 2] > 0
      OBVIOUS
    <2>1. n > decimals + 1 /\ m = n /\ done = n - 1 /\ (m + 1) - 2 = n - 1
      BY <1>2, <1>3
    <2>2. s.rest > 0
      BY <1>a, <1>3, <2>1
    <2> QED BY <1>2, <2>1, <2>2
  <1>11. ASSUME NEW i \in 1..(m + 1)
         PROVE  /\ i <= decimals => next.out[i] = DigitFromEnd(value, i)
                /\ i = decimals + 1 => next.out[i] = "."
                /\ i > decimals + 1 => next.out[i] = DigitFromEnd(value, i - 1)
    <2>1. CASE i \in 1..n
      BY <1>2, <1>4, <2>1
    <2>2. CASE i = m + 1
      <3>1. next.out[i] = DigitFromEnd(value, done + 1)
        BY <1>7, <2>2
      <3>2. /\ i <= decimals => done + 1 = i
            /\ i # decimals + 1
            /\ i > decimals + 1 => done + 1 = i - 1
        BY <1>2, <1>3, <2>2
      <3> QED BY <3>1, <3>2
    <2>3. CASE i \notin 1..n /\ i # m + 1
      <3>1. n = decimals /\ i = n + 1
        BY <1>2, <1>3, <2>3
      <3> QED BY <1>3, <1>4, <3>1
    <2> QED BY <2>1, <2>2, <2>3
  <1>12. next.rest = R[IF m + 1 <= decimals THEN m + 1 ELSE (m + 1) - 1]
    BY <1>6, <1>8
  <1> HIDE DEF m, done
  <1> QED BY <1>4, <1>9, <1>10, <1>11, <1>12 DEF WrittenAmount, R, next

LEMMA AmountStates ==
    ASSUME NEW value \in Nat, NEW decimals \in Nat, NEW length \in Nat \ {0},
           NEW k \in Nat
    PROVE  LET s == AmountLoop(value, decimals, length)[k]
           IN  /\ WrittenAmount(s, value, decimals)
               /\ \/ Len(s.out) >= k + 1 \/ Len(s.out) >= length
                  \/ s.rest = 0 /\ Len(s.out) >= decimals + 1
  <1> DEFINE T == Printing
             Goes(s) == /\ s.rest > 0 \/ Len(s.out) < decimals + 1
                        /\ Len(s.out) < length
             turn == [s \in T |->
                         IF Goes(s) THEN AmountTurn(s, decimals) ELSE s]
             start == AmountTurn(Unprinted(value), decimals)
             A == AmountLoop(value, decimals, length)
             Good(m) == LET s == A[m]
                        IN  /\ WrittenAmount(s, value, decimals)
                            /\ \/ Len(s.out) >= m + 1
                               \/ Len(s.out) >= length
                               \/ s.rest = 0 /\ Len(s.out) >= decimals + 1
  <1>1. WrittenAmount(start, value, decimals)
    BY AmountStarts
  <1>2. start \in T
    BY <1>1 DEF WrittenAmount
  <1>3. turn \in [T -> T]
    <2> SUFFICES ASSUME NEW s \in T PROVE turn[s] \in T
      OBVIOUS
    <2>1. AmountTurn(s, decimals) \in T
      BY AmountGrows
    <2> HIDE DEF Goes
    <2> QED BY <2>1
  <1>4. A = After(turn, start)
    BY DEF AmountLoop
  <1>5. Follows(A, T, turn, start)
    <2> HIDE DEF T, turn, start, A
    <2>1. Follows(After(turn, start), T, turn, start)
      BY <1>2, <1>3, LoopFollows
    <2> QED BY <1>4, <2>1
  <1>6. \A s \in T : turn[s] = IF Goes(s) THEN AmountTurn(s, decimals) ELSE s
    <2> HIDE DEF Goes
    <2> QED OBVIOUS
  <1> HIDE DEF A, start, turn
  <1>7. Good(0)
    <2>1. A[0] = start
      BY <1>5 DEF Follows
    <2>2. Len(start.out) \in Nat /\ Len(start.out) >= 1
      BY <1>1 DEF WrittenAmount, Printing
    <2> QED BY <1>1, <2>1, <2>2
  <1>8. ASSUME NEW m \in Nat, Good(m) PROVE Good(m + 1)
    <2> DEFINE s == A[m]
    <2>1. A[m + 1] = turn[s]
      BY <1>5 DEF Follows
    <2>2. /\ WrittenAmount(s, value, decimals)
          /\ \/ Len(s.out) >= m + 1
             \/ Len(s.out) >= length
             \/ s.rest = 0 /\ Len(s.out) >= decimals + 1
      BY <1>8
    <2> HIDE DEF s
    <2>3. s \in Printing /\ Len(s.out) \in Nat /\ s.rest \in Nat
      BY <2>2 DEF WrittenAmount, Printing
    <2>4. turn[s] = IF Goes(s) THEN AmountTurn(s, decimals) ELSE s
      BY <1>6, <2>3
    <2>5. CASE Goes(s)
      <3> DEFINE next == AmountTurn(s, decimals)
      <3>1. A[m + 1] = next
        <4> HIDE DEF Goes
        <4> QED BY <2>1, <2>4, <2>5
      <3>2. WrittenAmount(next, value, decimals)
        BY <2>2, <2>5, AmountGoesOn
      <3>3. Len(next.out) >= Len(s.out) + 1 /\ Len(next.out) \in Nat
        <4>1. Len(next.out) = (IF Len(s.out) = decimals THEN Len(s.out) + 1
                               ELSE Len(s.out)) + 1
          BY <2>3, AmountGrows
        <4> HIDE DEF next
        <4> QED BY <2>3, <4>1
      <3> HIDE DEF next
      <3>4. Len(next.out) >= (m + 1) + 1
        BY <2>2, <2>3, <2>5, <3>3
      <3> QED BY <3>1, <3>2, <3>4
    <2>6. CASE ~Goes(s)
      <3>1. A[m + 1] = s
        <4> HIDE DEF Goes
        <4> QED BY <2>1, <2>4, <2>6
      <3>2. \/ Len(s.out) >= length
            \/ s.rest = 0 /\ Len(s.out) >= decimals + 1
        BY <2>3, <2>6
      <3> QED BY <2>2, <3>1, <3>2
    <2> QED BY <2>5, <2>6
  <1> DEFINE S == {m \in Nat : Good(m)}
  <1> HIDE DEF Good
  <1>9. Nat \subseteq S
    <2>1. 0 \in S
      BY <1>7
    <2>2. ASSUME NEW m \in Nat, m \in S PROVE m + 1 \in S
      BY <1>8, <2>2
    <2> HIDE DEF S
    <2> QED BY <2>1, <2>2, SetInduction
  <1>10. Good(k)
    BY <1>9
  <1> QED BY <1>10 DEF Good, A

(* The digits of an amount as they stand in the buffer once they are       *)
(* reversed, with the point at p.                                          *)
Unstripped(r, value, p) ==
    LET N == Len(r) - 1
    IN  /\ r \in Seq(Numerals \cup {"."})
        /\ p \in 2..(N + 1)
        /\ r[p] = "."
        /\ \A j \in 1..(p - 1) : r[j] = DigitFromEnd(value, N + 1 - j)
        /\ \A j \in (p + 1)..(N + 1) : r[j] = DigitFromEnd(value, N + 2 - j)
        /\ Rest(value)[N] = 0
        /\ p > 2 => Rest(value)[N - 1] > 0

LEMMA AmountIsReversed ==
    ASSUME NEW value \in Nat, NEW decimals \in Nat,
           NEW length \in Nat \ {0, 1},
           Len(AmountTurns(value, decimals, length)) < length
    PROVE  LET r == Reverse(AmountTurns(value, decimals, length))
           IN  Unstripped(r, value, Len(r) - decimals)
  <1> DEFINE s == AmountLoop(value, decimals, length)[length]
             out == s.out
             L == Len(out)
             C == Numerals \cup {"."}
             r == Reverse(out)
             p == L - decimals
             N == L - 1
             R == Rest(value)
  <1>1. AmountTurns(value, decimals, length) = out
    BY DEF AmountTurns
  <1>2. /\ WrittenAmount(s, value, decimals)
        /\ \/ L >= length + 1 \/ L >= length
           \/ s.rest = 0 /\ L >= decimals + 1
    <2>1. length \in Nat \ {0} /\ length \in Nat
      OBVIOUS
    <2> QED BY <2>1, AmountStates
  <1>3. L < length
    BY <1>1
  <1> HIDE DEF s
  <1>4. /\ out \in Seq(C) /\ L \in Nat /\ L >= 1 /\ L # decimals + 1
        /\ s.rest = R[IF L <= decimals THEN L ELSE L - 1]
        /\ L > decimals + 2 => R[L - 2] > 0
        /\ \A i \in 1..L :
               /\ i = decimals + 1 => out[i] = "."
               /\ i <= decimals => out[i] = DigitFromEnd(value, i)
               /\ i > decimals + 1 => out[i] = DigitFromEnd(value, i - 1)
    BY <1>2 DEF WrittenAmount, Printing
  <1>5. /\ r \in Seq(C) /\ Len(r) = L
        /\ \A j \in 1..L : r[j] = out[(L - j) + 1]
    <2> HIDE DEF C
    <2> QED BY <1>4 DEF Reverse
  <1> HIDE DEF C, out, L, r, R
  <1>6. L >= decimals + 2 /\ s.rest = 0
    BY <1>2, <1>3, <1>4
  <1>7. /\ p \in 2..(N + 1) /\ L = N + 1 /\ N \in Nat
        /\ (L - p) + 1 = decimals + 1 /\ p \in 1..L
    BY <1>4, <1>6
  <1>8. R[N] = 0
    <2>1. ~(L <= decimals)
      BY <1>4, <1>6
    <2>2. s.rest = R[L - 1]
      BY <1>4, <2>1
    <2> QED BY <1>6, <2>2
  <1>9. p > 2 => R[N - 1] > 0
    <2>1. p > 2 => L > decimals + 2
      BY <1>4
    <2>2. N - 1 = L - 2
      BY <1>4
    <2> QED BY <1>4, <2>1, <2>2
  <1>10. r[p] = "."
    <2>1. decimals + 1 \in 1..L
      BY <1>4, <1>6
    <2> QED BY <1>4, <1>5, <1>7, <2>1
  <1>11. ASSUME NEW j \in 1..(p - 1)
         PROVE  r[j] = DigitFromEnd(value, N + 1 - j)
    <2>1. /\ j \in 1..L /\ (L - j) + 1 \in 1..L
          /\ (L - j) + 1 > decimals + 1
          /\ ((L - j) + 1) - 1 = N + 1 - j
      BY <1>4, <1>7
    <2>2. r[j] = out[(L - j) + 1]
      BY <1>5, <2>1
    <2> DEFINE i == (L - j) + 1
    <2>3. i \in 1..L /\ i > decimals + 1
      BY <2>1
    <2> HIDE DEF i
    <2>4. out[i] = DigitFromEnd(value, i - 1)
      BY <1>4, <2>3
    <2> QED BY <2>1, <2>2, <2>4 DEF i
  <1>12. ASSUME NEW j \in (p + 1)..(N + 1)
         PROVE  r[j] = DigitFromEnd(value, N + 2 - j)
    <2>1. /\ j \in 1..L /\ (L - j) + 1 \in 1..L
          /\ (L - j) + 1 <= decimals
          /\ (L - j) + 1 = N + 2 - j
      BY <1>4, <1>7
    <2>2. r[j] = out[(L - j) + 1]
      BY <1>5, <2>1
    <2> DEFINE i == (L - j) + 1
    <2>3. i \in 1..L /\ i <= decimals
      BY <2>1
    <2> HIDE DEF i
    <2>4. out[i] = DigitFromEnd(value, i)
      BY <1>4, <2>3
    <2> QED BY <2>1, <2>2, <2>4 DEF i
  <1>13. Len(r) - 1 = N /\ Len(r) - decimals = p
    BY <1>5
  <1>14. Unstripped(r, value, p)
    <2> HIDE DEF p, N
    <2> QED BY <1>5, <1>7, <1>8, <1>9, <1>10, <1>11, <1>12, <1>13
            DEF Unstripped, C, R
  <1>15. Unstripped(r, value, Len(r) - decimals)
    <2> HIDE DEF p
    <2> QED BY <1>13, <1>14
  <1> QED BY <1>1, <1>15 DEF r

LEMMA GreatestExists ==
    ASSUME NEW bound \in Nat, NEW S \in SUBSET (0..bound), S # {}
    PROVE  Max(S) \in S /\ \A y \in S : y <= Max(S)
  <1> DEFINE T == {bound - y : y \in S}
  <1>a. \A y \in S : y \in Nat /\ y <= bound /\ bound - y \in Nat
    OBVIOUS
  <1>1. T \in SUBSET Nat /\ T # {}
    <2>1. \A u \in T : u \in Nat
      BY <1>a
    <2>2. PICK y \in S : TRUE
      OBVIOUS
    <2>3. bound - y \in T
      OBVIOUS
    <2> QED BY <2>1, <2>3
  <1> HIDE DEF T
  <1>2. Min(T) \in T /\ \A y \in T : Min(T) <= y
    BY <1>1, LeastExists
  <1>3. PICK x \in S : Min(T) = bound - x
    BY <1>2 DEF T
  <1>4. \A y \in S : y <= x
    <2> SUFFICES ASSUME NEW y \in S PROVE y <= x
      OBVIOUS
    <2>1. bound - y \in T
      BY DEF T
    <2>2. Min(T) <= bound - y
      BY <1>2, <2>1
    <2> QED BY <1>3, <2>2
  <1> QED BY <1>4 DEF Max

LEMMA DigitIsNumeral ==
    ASSUME NEW n \in Nat, NEW k \in Nat \ {0}
    PROVE  DigitFromEnd(n, k) \in Numerals /\ DigitFromEnd(n, k) # "."
  <1>1. k - 1 \in Nat
    OBVIOUS
  <1>2. Rest(n)[k - 1] \in Nat
    BY <1>1, RestIsDivided
  <1>3. Rest(n)[k - 1] % 10 \in 0..9
    BY <1>2
  <1> QED BY <1>3, NumeralIsRead DEF DigitFromEnd

(* Where the point is in a text.                                           *)
LEMMA PointIsFound ==
    ASSUME NEW S, NEW t \in Seq(S), NEW p \in 1..Len(t), t[p] = ".",
           \A i \in 1..(p - 1) : t[i] # "."
    PROVE  Point(t) = p
  <1> DEFINE I == {i \in 1..Len(t) : t[i] = "."}
  <1>1. I \in SUBSET Nat /\ p \in I /\ I # {}
    OBVIOUS
  <1>2. \A i \in I : p <= i
    <2> SUFFICES ASSUME NEW i \in I PROVE p <= i
      OBVIOUS
    <2>1. i \in 1..Len(t) /\ t[i] = "."
      OBVIOUS
    <2>2. i \notin 1..(p - 1)
      BY <2>1
    <2> QED BY <2>1, <2>2
  <1>3. Point(t) = Min(I)
    BY <1>1 DEF Point, SelectInSeq
  <1> HIDE DEF I
  <1>4. Min(I) \in I /\ \A y \in I : Min(I) <= y
    BY <1>1, LeastExists
  <1>5. Min(I) \in Nat /\ p <= Min(I) /\ Min(I) <= p
    BY <1>1, <1>2, <1>4
  <1> QED BY <1>3, <1>5

LEMMA NoPointIsFound ==
    ASSUME NEW t, \A i \in 1..Len(t) : t[i] # "."
    PROVE  Point(t) = 0
  BY DEF Point, SelectInSeq

(* What remains of an amount without its needless zeros: all in front of   *)
(* the point, and what is behind it up to its last digit that is not zero. *)
LEMMA ZerosAreStripped ==
    ASSUME NEW value \in Nat, NEW r, NEW p, Unstripped(r, value, p)
    PROVE  \E z \in p..Len(r) :
               /\ \A j \in (z + 1)..Len(r) : r[j] = "0"
               /\ IF z = p THEN Stripped(r) = SubSeq(r, 1, p - 1)
                  ELSE r[z] # "0" /\ r[z] # "."
                       /\ Stripped(r) = SubSeq(r, 1, z)
  <1> DEFINE C == Numerals \cup {"."}
             L == Len(r)
             I == {i \in 1..L : r[i] # "0"}
             z == Max(I)
  <1>1. /\ r \in Seq(C) /\ L \in Nat /\ p \in 2..L /\ r[p] = "."
    <2>1. r \in Seq(C)
      BY DEF Unstripped
    <2>2. L \in Nat /\ (L - 1) + 1 = L
      BY <2>1
    <2> QED BY <2>1, <2>2 DEF Unstripped
  <1>2. p \in I /\ I \in SUBSET (0..L) /\ I # {}
    BY <1>1
  <1> HIDE DEF C
  <1>3. WithoutZeros(r) = SubSeq(r, 1, Most(z, 1))
    <2>1. SelectLastInSeq(r, LAMBDA c : c # "0") = z
      BY <1>2 DEF SelectLastInSeq
    <2>2. r # <<>>
      BY <1>1
    <2> HIDE DEF z
    <2> QED BY <2>1, <2>2 DEF WithoutZeros
  <1>4. z \in p..L /\ z \in I /\ \A j \in (z + 1)..L : r[j] = "0"
    <2>1. z \in I /\ \A y \in I : y <= z
      <3> HIDE DEF I
      <3> QED BY <1>1, <1>2, GreatestExists
    <2> HIDE DEF z
    <2>2. z \in p..L
      BY <1>1, <1>2, <2>1
    <2>3. ASSUME NEW j \in (z + 1)..L PROVE r[j] = "0"
      <3>1. j \in 1..L /\ ~(j <= z)
        BY <1>1, <2>2
      <3> QED BY <2>1, <3>1
    <2> QED BY <2>1, <2>2, <2>3
  <1>5. r[z] # "0"
    BY <1>4
  <1> HIDE DEF z, I
  <1> DEFINE t == SubSeq(r, 1, z)
  <1>6. WithoutZeros(r) = t
    <2>1. Most(z, 1) = z
      BY <1>1, <1>4 DEF Most
    <2> QED BY <1>3, <2>1
  <1>7. /\ t \in Seq(C) /\ Len(t) = z /\ \A i \in 1..z : t[i] = r[i]
    BY <1>1, <1>4
  <1>8. Last(t) = r[z]
    BY <1>1, <1>4, <1>7 DEF Last
  <1>9. Stripped(r) = IF r[z] = "." THEN Front(t) ELSE t
    BY <1>6, <1>8 DEF Stripped
  <1>10. CASE z = p
    <2>1. Front(t) = SubSeq(t, 1, z - 1)
      BY <1>7 DEF Front
    <2>2. SubSeq(t, 1, z - 1) = SubSeq(r, 1, p - 1)
      BY <1>1, <1>4, <1>7, <1>10
    <2>3. Stripped(r) = SubSeq(r, 1, p - 1)
      BY <1>1, <1>9, <1>10, <2>1, <2>2
    <2> QED BY <1>4, <1>10, <2>3
  <1>11. CASE z # p
    <2>1. r[z] # "."
      <3>1. z \in (p + 1)..L
        BY <1>1, <1>4, <1>11
      <3>2. /\ z \in (p + 1)..((L - 1) + 1)
            /\ (L - 1) + 2 - z \in Nat \ {0}
        BY <1>1, <3>1
      <3>3. r[z] = DigitFromEnd(value, (L - 1) + 2 - z)
        BY <3>2 DEF Unstripped
      <3> QED BY <3>2, <3>3, DigitIsNumeral
    <2> QED BY <1>4, <1>5, <1>9, <1>11, <2>1
  <1> QED BY <1>10, <1>11

LEMMA TwoParts ==
    ASSUME NEW S, NEW a \in Seq(S), NEW b \in Seq(S)
    PROVE  /\ a \o b \in Seq(S) /\ Len(a \o b) = Len(a) + Len(b)
           /\ \A k \in 1..Len(a) : (a \o b)[k] = a[k]
           /\ \A k \in 1..Len(b) : (a \o b)[Len(a) + k] = b[k]
  OBVIOUS

LEMMA ThreeParts ==
    ASSUME NEW S, NEW a \in Seq(S), NEW b \in Seq(S), NEW c \in Seq(S)
    PROVE  /\ (a \o b \o c) \in Seq(S)
           /\ Len(a \o b \o c) = Len(a) + Len(b) + Len(c)
           /\ \A k \in 1..Len(a) : (a \o b \o c)[k] = a[k]
           /\ \A k \in 1..Len(b) : (a \o b \o c)[Len(a) + k] = b[k]
           /\ \A k \in 1..Len(c) : (a \o b \o c)[Len(a) + Len(b) + k] = c[k]
  <1> DEFINE ab == a \o b
             u == ab \o c
  <1>1. /\ ab \in Seq(S) /\ Len(ab) = Len(a) + Len(b)
        /\ \A k \in 1..Len(a) : ab[k] = a[k]
        /\ \A k \in 1..Len(b) : ab[Len(a) + k] = b[k]
    BY TwoParts
  <1> HIDE DEF ab
  <1>2. /\ u \in Seq(S) /\ Len(u) = Len(ab) + Len(c)
        /\ \A k \in 1..Len(ab) : u[k] = ab[k]
        /\ \A k \in 1..Len(c) : u[Len(ab) + k] = c[k]
    <2>1. ab \in Seq(S)
      BY <1>1
    <2> QED BY ONLY <2>1, c \in Seq(S), TwoParts
  <1> HIDE DEF u
  <1>3. Len(a) \in Nat /\ Len(b) \in Nat
    OBVIOUS
  <1>4. \A k \in 1..Len(a) : u[k] = a[k]
    <2> SUFFICES ASSUME NEW k \in 1..Len(a) PROVE u[k] = a[k]
      OBVIOUS
    <2>1. k \in 1..Len(ab)
      BY <1>1, <1>3
    <2> QED BY <1>1, <1>2, <2>1
  <1>5. \A k \in 1..Len(b) : u[Len(a) + k] = b[k]
    <2> SUFFICES ASSUME NEW k \in 1..Len(b) PROVE u[Len(a) + k] = b[k]
      OBVIOUS
    <2>1. Len(a) + k \in 1..Len(ab)
      BY <1>1, <1>3
    <2> QED BY <1>1, <1>2, <2>1
  <1>6. \A k \in 1..Len(c) : u[Len(a) + Len(b) + k] = c[k]
    BY <1>1, <1>2
  <1> QED BY <1>1, <1>2, <1>4, <1>5, <1>6 DEF u, ab

(* The digits of an amount on both sides of the point, with the zeros that *)
(* were stripped, are those of the number.                                 *)
PartsMake(value, r, p, z) ==
    LET whole == SubSeq(r, 1, p - 1)
        fraction == SubSeq(r, p + 1, z)
        zeros == [i \in 1..(Len(r) - z) |-> "0"]
    IN  /\ whole \in Seq(Numerals \cup {"."})
        /\ \A i \in 1..Len(whole) : whole[i] # "."
        /\ IsNumeral(whole) /\ IsShortest(whole)
        /\ z > p => IsNumeral(fraction)
        /\ Len(fraction) = z - p
        /\ Number(whole \o fraction \o zeros) = value

LEMMA DigitsOfAmount ==
    ASSUME NEW value \in Nat, NEW r, NEW p, Unstripped(r, value, p),
           NEW z \in p..Len(r), \A j \in (z + 1)..Len(r) : r[j] = "0"
    PROVE  PartsMake(value, r, p, z)
  <1> DEFINE C == Numerals \cup {"."}
             L == Len(r)
             N == L - 1
             whole == SubSeq(r, 1, p - 1)
             fraction == SubSeq(r, p + 1, z)
             zeros == [i \in 1..(L - z) |-> "0"]
             u == whole \o fraction \o zeros
  <1>1. r \in Seq(C)
    BY DEF Unstripped
  <1>2. L \in Nat /\ N + 1 = L
    BY <1>1
  <1>3. /\ p \in 2..L /\ r[p] = "."
        /\ \A j \in 1..(p - 1) : r[j] = DigitFromEnd(value, L - j)
        /\ \A j \in (p + 1)..L : r[j] = DigitFromEnd(value, L + 1 - j)
        /\ Rest(value)[N] = 0
        /\ p > 2 => Rest(value)[N - 1] > 0
    <2>1. /\ p \in 2..(N + 1) /\ r[p] = "."
          /\ Rest(value)[N] = 0
          /\ p > 2 => Rest(value)[N - 1] > 0
      BY DEF Unstripped
    <2>2. ASSUME NEW j \in 1..(p - 1)
          PROVE  r[j] = DigitFromEnd(value, L - j)
      <3>1. r[j] = DigitFromEnd(value, N + 1 - j)
        BY DEF Unstripped
      <3> QED BY <1>2, <3>1
    <2>3. ASSUME NEW j \in (p + 1)..L
          PROVE  r[j] = DigitFromEnd(value, L + 1 - j)
      <3>1. j \in (p + 1)..(N + 1)
        BY <1>2
      <3>2. r[j] = DigitFromEnd(value, N + 2 - j)
        BY <3>1 DEF Unstripped
      <3>3. N + 2 - j = L + 1 - j
        BY <1>2
      <3> QED BY <3>2, <3>3
    <2> QED BY <1>2, <2>1, <2>2, <2>3
  <1>4. z \in p..L /\ \A j \in (z + 1)..L : r[j] = "0"
    OBVIOUS
  <1>5. "0" \in C
    <2>1. 0 \in 0..9
      OBVIOUS
    <2>2. Digits[0 + 1] \in Numerals /\ Digits[0 + 1] = "0"
      BY <2>1, NumeralIsRead
    <2> QED BY <2>2
  <1> HIDE DEF C, L
  <1>6. /\ whole \in Seq(C) /\ Len(whole) = p - 1
        /\ \A i \in 1..(p - 1) : whole[i] = r[i]
    BY <1>1, <1>2, <1>3 DEF L
  <1>7. /\ fraction \in Seq(C) /\ Len(fraction) = z - p
        /\ \A i \in 1..(z - p) : fraction[i] = r[p + i]
    <2>1. p + 1 \in 1..(L + 1) /\ z \in p..L /\ p \in Nat
      BY <1>2, <1>3, <1>4
    <2>2. \A i \in 1..(z - p) : (p + 1) + i - 1 = p + i
      BY <2>1
    <2> QED BY <1>1, <1>2, <2>1, <2>2 DEF L
  <1>8. /\ zeros \in Seq(C) /\ Len(zeros) = L - z
        /\ \A i \in 1..(L - z) : zeros[i] = "0"
    <2>1. L - z \in Nat
      BY <1>2, <1>3, <1>4
    <2> QED BY <1>5, <2>1
  <1> HIDE DEF whole, fraction, zeros
  <1>9. /\ u \in Seq(C)
        /\ Len(u) = Len(whole) + Len(fraction) + Len(zeros)
        /\ \A k \in 1..Len(whole) : u[k] = whole[k]
        /\ \A k \in 1..Len(fraction) : u[Len(whole) + k] = fraction[k]
        /\ \A k \in 1..Len(zeros) :
               u[Len(whole) + Len(fraction) + k] = zeros[k]
    <2>1. whole \in Seq(C) /\ fraction \in Seq(C) /\ zeros \in Seq(C)
      BY <1>6, <1>7, <1>8
    <2> QED BY ONLY <2>1, ThreeParts, SMTT(30)
  <1> HIDE DEF u
  <1>10. Len(u) = N /\ p \in Nat /\ z \in Nat
    BY <1>2, <1>3, <1>4, <1>6, <1>7, <1>8, <1>9
  <1>11. ASSUME NEW k \in 1..N PROVE u[k] = DigitFromEnd(value, N + 1 - k)
    <2>1. CASE k < p
      <3>1. k \in 1..(p - 1) /\ N + 1 - k = L - k
        BY <1>2, <1>3, <2>1
      <3> QED BY <1>3, <1>6, <1>9, <3>1
    <2>2. CASE p <= k /\ k < z
      <3> DEFINE i == k + 1 - p
      <3>1. /\ i \in 1..(z - p) /\ (p - 1) + i = k /\ p + i = k + 1
            /\ k + 1 \in (p + 1)..L /\ L + 1 - (k + 1) = N + 1 - k
        BY <1>2, <1>3, <1>4, <2>2
      <3> HIDE DEF i
      <3>2. u[k] = r[k + 1]
        <4>1. i \in 1..Len(fraction) /\ Len(whole) + i = k
          BY <1>6, <1>7, <3>1
        <4>2. u[Len(whole) + i] = fraction[i] /\ fraction[i] = r[p + i]
          BY <1>7, <1>9, <3>1, <4>1
        <4> QED BY <3>1, <4>1, <4>2
      <3>3. r[k + 1] = DigitFromEnd(value, L + 1 - (k + 1))
        BY <1>3, <3>1
      <3> QED BY <3>1, <3>2, <3>3
    <2>3. CASE z <= k
      <3> DEFINE i == k + 1 - z
      <3>1. /\ i \in 1..(L - z) /\ (p - 1) + (z - p) + i = k
            /\ k + 1 \in (p + 1)..L /\ k + 1 \in (z + 1)..L
            /\ L + 1 - (k + 1) = N + 1 - k
        BY <1>2, <1>3, <1>4, <2>3
      <3> HIDE DEF i
      <3>2. u[k] = "0"
        BY <1>6, <1>7, <1>8, <1>9, <3>1
      <3>3. r[k + 1] = "0"
        BY <1>4, <3>1
      <3>4. r[k + 1] = DigitFromEnd(value, L + 1 - (k + 1))
        BY <1>3, <3>1
      <3> QED BY <3>1, <3>2, <3>3, <3>4
    <2> QED BY <1>2, <1>10, <2>1, <2>2, <2>3
  <1>12. Number(u) = value
    <2>1. Rest(value)[Len(u)] = 0
      BY <1>3, <1>10
    <2>2. \A k \in 1..Len(u) : u[k] = DigitFromEnd(value, Len(u) + 1 - k)
      BY <1>10, <1>11
    <2> QED BY <1>9, <2>1, <2>2, DigitsMakeNumber
  <1>13. \A j \in 1..(p - 1) : whole[j] \in Numerals /\ whole[j] # "."
    <2> SUFFICES ASSUME NEW j \in 1..(p - 1)
                 PROVE  whole[j] \in Numerals /\ whole[j] # "."
      OBVIOUS
    <2>1. L - j \in Nat \ {0}
      BY <1>2, <1>3
    <2>2. whole[j] = DigitFromEnd(value, L - j)
      BY <1>3, <1>6
    <2> QED BY <2>1, <2>2, DigitIsNumeral
  <1>14. IsNumeral(whole)
    <2>1. whole # <<>>
      BY <1>3, <1>6
    <2> QED BY <1>6, <1>13, <2>1 DEF IsNumeral
  <1>15. IsShortest(whole)
    <2> SUFFICES ASSUME p > 2 PROVE whole[1] # "0"
      BY <1>3, <1>6 DEF IsShortest
    <2> DEFINE x == Rest(value)[N - 1]
    <2>0. L - 1 = N /\ N - 1 \in Nat /\ (N - 1) + 1 = N
      BY <1>2, <1>3
    <2>1. x \in Nat /\ x > 0 /\ Rest(value)[(N - 1) + 1] = x \div 10
      BY <1>3, <2>0, RestIsDivided
    <2>2. x \div 10 = 0
      BY <1>3, <2>0, <2>1
    <2>3. whole[1] = Digits[(x % 10) + 1]
      <3>1. 1 \in 1..(p - 1)
        BY <1>3
      <3>2. whole[1] = DigitFromEnd(value, L - 1)
        BY <1>3, <1>6, <3>1
      <3> QED BY <2>0, <3>2 DEF DigitFromEnd
    <2> HIDE DEF x
    <2>4. x % 10 \in 0..9 /\ x % 10 # 0
      BY <2>1, <2>2
    <2> QED BY <2>3, <2>4, NumeralIsRead
  <1>16. z > p => IsNumeral(fraction)
    <2> SUFFICES ASSUME z > p PROVE IsNumeral(fraction)
      OBVIOUS
    <2>1. fraction # <<>>
      BY <1>3, <1>7, <1>10
    <2>2. ASSUME NEW i \in 1..(z - p) PROVE fraction[i] \in Numerals
      <3>1. p + i \in (p + 1)..L /\ L + 1 - (p + i) \in Nat \ {0}
        BY <1>2, <1>4, <1>10
      <3>2. fraction[i] = DigitFromEnd(value, L + 1 - (p + i))
        BY <1>3, <1>7, <3>1
      <3> QED BY <3>1, <3>2, DigitIsNumeral
    <2> QED BY <1>7, <2>1, <2>2 DEF IsNumeral
  <1> QED BY <1>6, <1>7, <1>12, <1>13, <1>14, <1>15, <1>16
          DEF PartsMake, C, L, whole, fraction, zeros, u

(* What remains is the amount.                                             *)
LEMMA StrippedIsAmount ==
    ASSUME NEW value \in Nat, NEW r, NEW p, Unstripped(r, value, p)
    PROVE  /\ Stripped(r) \in Seq(Numerals \cup {"."})
           /\ DenotesAmount(Stripped(r), value, Len(r) - p)
  <1> DEFINE C == Numerals \cup {"."}
             L == Len(r)
             t == Stripped(r)
  <1>1. /\ r \in Seq(C) /\ L \in Nat /\ p \in 2..L /\ r[p] = "."
    <2>1. r \in Seq(C)
      BY DEF Unstripped
    <2>2. L \in Nat /\ (L - 1) + 1 = L
      BY <2>1
    <2> QED BY <2>1, <2>2 DEF Unstripped
  <1>2. PICK z \in p..L :
            /\ \A j \in (z + 1)..L : r[j] = "0"
            /\ IF z = p THEN t = SubSeq(r, 1, p - 1)
               ELSE r[z] # "0" /\ r[z] # "." /\ t = SubSeq(r, 1, z)
    <2> HIDE DEF t
    <2>1. \E z \in p..Len(r) :
              /\ \A j \in (z + 1)..Len(r) : r[j] = "0"
              /\ IF z = p THEN Stripped(r) = SubSeq(r, 1, p - 1)
                 ELSE r[z] # "0" /\ r[z] # "."
                      /\ Stripped(r) = SubSeq(r, 1, z)
      BY ZerosAreStripped
    <2> QED BY <2>1 DEF t
  <1> DEFINE whole == SubSeq(r, 1, p - 1)
             fraction == SubSeq(r, p + 1, z)
             zeros == [i \in 1..(L - z) |-> "0"]
  <1>3. /\ whole \in Seq(C)
        /\ \A i \in 1..Len(whole) : whole[i] # "."
        /\ IsNumeral(whole) /\ IsShortest(whole)
        /\ z > p => IsNumeral(fraction)
        /\ Len(fraction) = z - p
        /\ Number(whole \o fraction \o zeros) = value
    <2>1. z \in p..Len(r) /\ \A j \in (z + 1)..Len(r) : r[j] = "0"
      BY <1>2
    <2>2. PartsMake(value, r, p, z)
      BY <2>1, DigitsOfAmount
    <2> QED BY <2>2 DEF PartsMake
  <1>a. fraction = SubSeq(r, p + 1, z)
    OBVIOUS
  <1>b. whole = SubSeq(r, 1, p - 1) /\ Len(whole) = p - 1
        /\ \A i \in 1..(p - 1) : whole[i] = r[i]
    <2> HIDE DEF C
    <2> QED BY <1>1
  <1> HIDE DEF C, L, t, whole, fraction
  <1>4. /\ L - p \in Nat /\ z - p \in Nat /\ z - p <= L - p
        /\ (L - p) - (z - p) = L - z
    BY <1>1, <1>2
  <1>5. SUFFICES /\ t \in Seq(C)
                 /\ WholePart(t) = whole /\ Fraction(t) = fraction
                 /\ Point(t) > 0 => z > p /\ Last(t) # "0"
    <2>1. /\ IsNumeral(WholePart(t)) /\ IsShortest(WholePart(t))
          /\ Point(t) > 0 => IsNumeral(Fraction(t)) /\ Last(t) # "0"
      BY <1>3, <1>5
    <2>2. Len(Fraction(t)) <= L - p
      BY <1>3, <1>4, <1>5
    <2>3. (L - p) - Len(Fraction(t)) = L - z
      BY <1>3, <1>4, <1>5
    <2>4. Number(WholePart(t) \o Fraction(t)
                 \o [i \in 1..((L - p) - Len(Fraction(t))) |-> "0"]) = value
      BY <1>3, <1>5, <2>3
    <2>5. DenotesAmount(t, value, L - p)
      BY <2>1, <2>2, <2>4 DEF DenotesAmount
    <2> QED BY <1>5, <2>5 DEF t, C, L
  <1>6. CASE z = p
    <2>1. t = whole
      BY <1>2, <1>6 DEF whole
    <2>2. Point(t) = 0
      BY <1>3, <2>1, NoPointIsFound
    <2>3. WholePart(t) = whole /\ Fraction(t) = <<>>
      BY <2>1, <2>2 DEF WholePart, Fraction
    <2>4. fraction = <<>>
      BY <1>1, <1>6, <1>a
    <2> QED BY <1>3, <2>1, <2>2, <2>3, <2>4
  <1>7. CASE z # p
    <2>1. t = SubSeq(r, 1, z) /\ r[z] # "0"
      BY <1>2, <1>7
    <2>2. /\ t \in Seq(C) /\ Len(t) = z /\ z \in Nat /\ z > p /\ p \in 1..z
          /\ \A i \in 1..z : t[i] = r[i]
      BY <1>1, <1>2, <1>7, <2>1 DEF L
    <2>3. Point(t) = p
      <3>1. t[p] = "."
        BY <1>1, <2>2
      <3>2. ASSUME NEW i \in 1..(p - 1) PROVE t[i] # "."
        <4>1. i \in 1..z /\ i \in 1..Len(whole)
          BY <1>b, <1>1, <2>2
        <4> QED BY <1>3, <1>b, <2>2, <4>1
      <3>3. p \in 1..Len(t)
        BY <2>2
      <3> QED BY <2>2, <3>1, <3>2, <3>3, PointIsFound
    <2>4. p > 0
      BY <1>1
    <2>5. WholePart(t) = SubSeq(t, 1, p - 1)
          /\ Fraction(t) = SubSeq(t, p + 1, z)
      BY <2>2, <2>3, <2>4 DEF WholePart, Fraction
    <2>6. SubSeq(t, 1, p - 1) = SubSeq(r, 1, p - 1)
      BY <1>1, <1>2, <2>2 DEF L
    <2>7. SubSeq(t, p + 1, z) = SubSeq(r, p + 1, z)
      BY <1>1, <1>2, <2>2 DEF L
    <2>8. Last(t) # "0"
      <3>1. z \in 1..z
        BY <2>2
      <3> QED BY <2>1, <2>2, <3>1 DEF Last
    <2> QED BY <1>a, <1>b, <2>2, <2>5, <2>6, <2>7, <2>8
  <1> QED BY <1>6, <1>7

LEMMA TailIsBehind ==
    ASSUME NEW S, NEW t \in Seq(S), NEW tail \in Seq(S)
    PROVE  /\ IsSuffix(tail, t \o tail)
           /\ SubSeq(t \o tail, 1, Len(t \o tail) - Len(tail)) = t
  <1> DEFINE named == t \o tail
             n == Len(t)
             m == Len(tail)
  <1>1. /\ named \in Seq(S) /\ Len(named) = n + m
        /\ \A k \in 1..n : named[k] = t[k]
        /\ \A k \in 1..m : named[n + k] = tail[k]
    BY ONLY t \in Seq(S), tail \in Seq(S), TwoParts
  <1>2. n \in Nat /\ m \in Nat
    OBVIOUS
  <1> HIDE DEF named
  <1>3. /\ Reverse(named) \in Seq(S) /\ Len(Reverse(named)) = n + m
        /\ \A i \in 1..(n + m) : Reverse(named)[i] = named[(n + m) - i + 1]
    BY <1>1, <1>2 DEF Reverse
  <1>4. /\ Reverse(tail) \in Seq(S) /\ Len(Reverse(tail)) = m
        /\ \A i \in 1..m : Reverse(tail)[i] = tail[m - i + 1]
    BY <1>2 DEF Reverse
  <1>5. ASSUME NEW i \in 1..m PROVE Reverse(tail)[i] = Reverse(named)[i]
    <2>1. /\ i \in 1..(n + m) /\ m - i + 1 \in 1..m
          /\ (n + m) - i + 1 = n + (m - i + 1)
      BY <1>2
    <2>2. named[n + (m - i + 1)] = tail[m - i + 1]
      BY <1>1, <2>1
    <2> QED BY <1>3, <1>4, <2>1, <2>2
  <1>6. IsSuffix(tail, named)
    <2> DEFINE a == Reverse(tail)
               b == Reverse(named)
    <2>1. /\ a \in Seq(S) /\ b \in Seq(S) /\ Len(a) = m /\ Len(b) = n + m
          /\ \A i \in 1..m : a[i] = b[i]
      BY <1>3, <1>4, <1>5
    <2> HIDE DEF a, b, m, n
    <2>2. SubSeq(a, 1, m) = SubSeq(b, 1, m)
      BY <1>2, <2>1
    <2>3. IsPrefix(a, b)
      BY <1>2, <2>1, <2>2 DEF IsPrefix
    <2> QED BY <2>3 DEF IsSuffix, a, b
  <1>7. SubSeq(named, 1, Len(named) - m) = t
    <2>1. Len(named) - m = n
      BY <1>1, <1>2
    <2>2. SubSeq(named, 1, n) = t
      BY <1>1, <1>2
    <2> QED BY <2>1, <2>2
  <1> QED BY <1>6, <1>7 DEF named

(* What the screen says of an amount is the amount.                        *)
ShowsAmount(text, c) ==
    LET tail == IF c.asset = <<>> THEN <<>> ELSE <<" ">> \o c.asset
    IN  /\ IsSuffix(tail, text)
        /\ DenotesAmount(SubSeq(text, 1, Len(text) - Len(tail)),
                         c.amount, c.decimals)

LEMMA AmountIsPrinted ==
    ASSUME NEW A,
           NEW c \in [amount : Nat, asset : Seq(A), decimals : Nat,
                      length : Nat \ {0, 1}],
           print_token_amount(c.amount, c.asset, c.decimals, c.length).rc = 0
    PROVE  ShowsAmount(print_token_amount(c.amount, c.asset, c.decimals,
                                          c.length).text, c)
  <1> DEFINE amount == c.amount
             decimals == c.decimals
             length == c.length
             out == AmountTurns(amount, decimals, length)
             r == Reverse(out)
             t == Stripped(r)
             space == " "
             named == t \o <<space>> \o c.asset
             printed == print_token_amount(amount, c.asset, decimals, length)
             C == Numerals \cup {"."}
             S == C \cup {space} \cup A
  <1>1. /\ amount \in Nat /\ decimals \in Nat /\ length \in Nat \ {0, 1}
        /\ c.asset \in Seq(A) /\ length > 1
    OBVIOUS
  <1>2. printed = IF Len(out) >= length THEN NoText(Len(out))
                  ELSE IF c.asset = <<>>
                       THEN Text(t, Most(Len(out), Len(t) + 1))
                  ELSE IF Len(named) + 1 > length THEN NoText(Len(out))
                  ELSE Text(named, Most(Len(out), Len(named) + 1))
    <2> HIDE DEF length
    <2> QED BY <1>1 DEF print_token_amount
  <1>a. printed.rc = 0
    OBVIOUS
  <1>b. named = t \o <<space>> \o c.asset
    OBVIOUS
  <1> HIDE DEF space, C, printed, named, amount, decimals, length, t, out
  <1>3. ~(Len(out) >= length)
        /\ IF c.asset = <<>> THEN printed.text = t ELSE printed.text = named
    BY <1>2, <1>a DEF Text, NoText
  <1>4. Unstripped(r, amount, Len(r) - decimals)
    <2>1. out \in Seq(C)
      BY <1>1, AmountStates DEF out, AmountTurns, WrittenAmount, Printing, C
    <2>2. Len(AmountTurns(amount, decimals, length)) < length
      BY <1>1, <1>3, <2>1 DEF out
    <2> QED BY <1>1, <2>2, AmountIsReversed DEF out
  <1> HIDE DEF r
  <1>5. t \in Seq(C) /\ DenotesAmount(t, amount, Len(r) - (Len(r) - decimals))
    BY <1>1, <1>4, StrippedIsAmount DEF t, C
  <1>6. Len(r) - (Len(r) - decimals) = decimals
    <2>1. Len(r) \in Nat
      BY <1>4 DEF Unstripped
    <2> QED BY <1>1, <2>1
  <1>7. DenotesAmount(t, amount, decimals)
    BY <1>5, <1>6
  <1>8. CASE c.asset = <<>>
    <2>1. t \o <<>> = t /\ <<>> \in Seq(C)
      BY <1>5
    <2>2. IsSuffix(<<>>, t) /\ SubSeq(t, 1, Len(t) - Len(<<>>)) = t
      <3>1. t \in Seq(C) /\ <<>> \in Seq(C)
        BY <1>5
      <3>2. /\ IsSuffix(<<>>, t \o <<>>)
            /\ SubSeq(t \o <<>>, 1, Len(t \o <<>>) - Len(<<>>)) = t
        BY ONLY <3>1, TailIsBehind
      <3> QED BY <2>1, <3>2
    <2> QED BY <1>3, <1>7, <1>8, <2>2
            DEF ShowsAmount, printed, amount, decimals, length
  <1>9. CASE c.asset # <<>>
    <2> DEFINE tail == <<space>> \o c.asset
    <2>1. t \in Seq(S) /\ <<space>> \in Seq(S) /\ c.asset \in Seq(S)
      BY <1>1, <1>5
    <2> HIDE DEF S
    <2>2. tail \in Seq(S) /\ named = t \o tail
      BY <1>b, <2>1
    <2> HIDE DEF tail
    <2>3. IsSuffix(tail, named)
          /\ SubSeq(named, 1, Len(named) - Len(tail)) = t
      BY <2>1, <2>2, TailIsBehind
    <2>4. tail = <<" ">> \o c.asset
      BY DEF tail, space
    <2> QED BY <1>3, <1>7, <1>9, <2>3, <2>4
            DEF ShowsAmount, printed, amount, decimals, length
  <1> QED BY <1>8, <1>9

(* Every amount that is shown is the amount, in its shortest form, with    *)
(* the asset behind it, whatever its decimals and the length of the buffer *)
(* (printer.c:11).                                                         *)
THEOREM EveryAmountIsExact == LibrarySpec => []AmountIsExact
  <1>1. LibraryInit => AmountIsExact
    <2>1. LibraryInit => ~Is("print_token_amount")
      BY DEF LibraryInit, NoCall, Is
    <2>2. ~Is("print_token_amount") => AmountIsExact
      BY Zenon DEF AmountIsExact
    <2> QED BY <2>1, <2>2
  <1>2. AmountIsExact /\ [LibraryNext]_library => AmountIsExact'
    <2> SUFFICES ASSUME AmountIsExact, [LibraryNext]_library
                 PROVE  AmountIsExact'
      OBVIOUS
    <2>1. CASE UNCHANGED library
      BY <2>1 DEF library, AmountIsExact, Is, given
    <2>2. CASE LibraryNext
      <3> SUFFICES ASSUME Is("print_token_amount")', reply'.rc = 0
                   PROVE  ShowsAmount(reply'.text, given')
        BY DEF AmountIsExact, ShowsAmount
      <3>1. PICK c \in AmountCalls : PrintTokenAmount(c)
        BY <2>2, NameTellsCall DEF Is
      <3>2. c \in [amount : Nat, asset : Seq(STRING), decimals : Nat,
                   length : Nat \ {0, 1}]
        BY LibraryAssumption
      <3>3. /\ given' = c
            /\ reply' = print_token_amount(c.amount, c.asset, c.decimals,
                                           c.length)
        BY <3>1 DEF PrintTokenAmount, Called, given
      <3> QED BY <3>2, <3>3, AmountIsPrinted
    <2> QED BY <2>1, <2>2
  <1> QED BY <1>1, <1>2, PTL DEF LibrarySpec

-----------------------------------------------------------------------------
(* Payments.                                                               *)

LEMMA WidthGrows ==
    /\ Width(0) = 1
    /\ \A k \in Nat : Width(k) \in Nat /\ Width(k + 1) = 256 * Width(k)
  <1> DEFINE T == Nat
             turn == [values \in T |-> 256 * values]
             A == After(turn, 1)
  <1>0. 1 \in T
    OBVIOUS
  <1>1. turn \in [T -> T]
    OBVIOUS
  <1>2. \A v \in Nat : turn[v] = 256 * v
    OBVIOUS
  <1>3. \A k : Width(k) = A[k]
    BY DEF Width
  <1> HIDE DEF A
  <1> HIDE DEF turn, T
  <1>4. Follows(A, T, turn, 1)
    <2>1. Follows(After(turn, 1), T, turn, 1)
      BY <1>0, <1>1, LoopFollows
    <2> QED BY <2>1 DEF A
  <1> QED BY <1>2, <1>3, <1>4, ZenonT(60) DEF T, Follows

LEMMA WidthIsMonotone ==
    ASSUME NEW m \in Nat, NEW n \in Nat, m <= n
    PROVE  Width(m) <= Width(n)
  <1> DEFINE S == {k \in Nat : Width(m) <= Width(m + k)}
  <1>1. 0 \in S
    BY WidthGrows
  <1>2. ASSUME NEW k \in Nat, k \in S PROVE k + 1 \in S
    <2>1. /\ Width(m) <= Width(m + k) /\ m + k \in Nat
          /\ m + (k + 1) = (m + k) + 1
      BY <1>2
    <2>2. /\ Width(m) \in Nat /\ Width(m + k) \in Nat
          /\ Width((m + k) + 1) = 256 * Width(m + k)
      BY <2>1, WidthGrows
    <2>3. Width(m) <= Width(m + (k + 1))
      BY <2>1, <2>2
    <2> QED BY <2>3
  <1> HIDE DEF S
  <1>3. Nat \subseteq S
    BY <1>1, <1>2, SetInduction
  <1>4. n - m \in S /\ m + (n - m) = n
    BY <1>3
  <1> QED BY <1>4 DEF S

LEMMA OctetsAreNumbers ==
    ASSUME NEW bytes \in Seq(Octet)
    PROVE  bytes \in Seq(Nat) /\ \A k \in 1..Len(bytes) : bytes[k] \in 0..255
  <1>1. \A k \in 1..Len(bytes) : bytes[k] \in Octet
    OBVIOUS
  <1>2. \A x \in Octet : x \in 0..255 /\ x \in Nat
    BY DEF Octet
  <1>3. Len(bytes) \in Nat /\ \A k \in 1..Len(bytes) : bytes[k] \in Nat
    BY <1>1, <1>2
  <1>4. bytes \in [1..Len(bytes) -> Nat]
    <2>1. bytes = [k \in 1..Len(bytes) |-> bytes[k]]
      OBVIOUS
    <2> QED BY <1>3, <2>1
  <1>5. bytes \in Seq(Nat)
    BY <1>3, <1>4, SeqDef
  <1> QED BY <1>1, <1>2, <1>5

(* The states of the loop of swap_str_to_u64.                              *)
LEMMA BytesAreShifted ==
    ASSUME NEW bytes \in Seq(Octet)
    PROVE  /\ BytesRead(bytes)[0] = [read |-> 0, value |-> 0]
           /\ \A n \in Nat :
                  BytesRead(bytes)[n].read < Len(bytes) =>
                      BytesRead(bytes)[n + 1] =
                          [read |-> BytesRead(bytes)[n].read + 1,
                           value |-> (BytesRead(bytes)[n].value * 256
                                      + bytes[BytesRead(bytes)[n].read + 1])
                                         % Values64]
  <1> DEFINE T == [read : Nat, value : Nat]
             V == Values64
             turn == [s \in T |->
                         IF s.read >= Len(bytes) THEN s
                         ELSE [read |-> s.read + 1,
                               value |-> (s.value * 256 + bytes[s.read + 1])
                                             % V]]
             start == [read |-> 0, value |-> 0]
             A == BytesRead(bytes)
  <1>0. V \in Nat \ {0}
    BY PrinterAssumption
  <1>1. turn \in [T -> T]
    <2> SUFFICES ASSUME NEW s \in T PROVE turn[s] \in T
      OBVIOUS
    <2>1. CASE s.read >= Len(bytes)
      BY <2>1
    <2>2. CASE ~(s.read >= Len(bytes))
      <3>1. s.read + 1 \in 1..Len(bytes)
        BY <2>2
      <3>2. bytes[s.read + 1] \in Nat
        BY <3>1, OctetsAreNumbers
      <3> DEFINE x == s.value * 256 + bytes[s.read + 1]
      <3>3. x \in Nat
        BY <3>2
      <3>a. turn[s] = [read |-> s.read + 1, value |-> x % V]
        BY <2>2
      <3> HIDE DEF x, V, turn
      <3>4. x % V \in Nat
        BY <1>0, <3>3
      <3> QED BY <3>4, <3>a
    <2> QED BY <2>1, <2>2
  <1>2. start \in T
    OBVIOUS
  <1>3. A = After(turn, start)
    BY DEF BytesRead
  <1>4. \A s \in T : s.read < Len(bytes) =>
            turn[s] = [read |-> s.read + 1,
                       value |-> (s.value * 256 + bytes[s.read + 1]) % V]
    <2> HIDE DEF V
    <2> QED OBVIOUS
  <1> HIDE DEF T, turn, start, A
  <1>5. Follows(After(turn, start), T, turn, start)
    BY <1>1, <1>2, LoopFollows
  <1>6. /\ A[0] = start
        /\ \A n \in Nat : A[n] \in T /\ A[n + 1] = turn[A[n]]
    BY <1>3, <1>5 DEF Follows
  <1>7. ASSUME NEW n \in Nat
        PROVE  /\ A[n] \in T
               /\ A[n].read < Len(bytes) =>
                      A[n + 1] = [read |-> A[n].read + 1,
                                  value |-> (A[n].value * 256
                                             + bytes[A[n].read + 1]) % V]
    BY <1>4, <1>6, ZenonT(60)
  <1> QED BY <1>6, <1>7 DEF A, T, start

(* Bytes that fit a uint64_t are read as their number, the highest byte    *)
(* first, and nothing is shifted out.                                      *)
LEMMA AmountIsRead ==
    ASSUME NEW bytes \in Seq(Octet), Len(bytes) <= AMOUNT_BYTES
    PROVE  /\ swap_str_to_u64(bytes).value = BigEndian(bytes)
           /\ BigEndian(bytes) \in 0..(Values64 - 1)
  <1> DEFINE A == BytesRead(bytes)
             B == ValueLoop(bytes, 256)
             N == Len(bytes)
             V == Values64
             Good(k) == /\ A[k] = B[k] /\ B[k].read = k
                        /\ B[k].value \in Nat /\ B[k].value < Width(k)
  <1>1. N \in Nat /\ N <= AMOUNT_BYTES /\ AMOUNT_BYTES \in Nat
        /\ V = Width(AMOUNT_BYTES) /\ V \in Nat \ {0}
    BY SwapParametersAssumption, PrinterAssumption
  <1>2. bytes \in Seq(Nat) /\ \A k \in 1..N : bytes[k] \in 0..255
    BY OctetsAreNumbers
  <1>3. /\ A[0] = [read |-> 0, value |-> 0]
        /\ \A n \in Nat :
               A[n].read < N =>
                   A[n + 1] = [read |-> A[n].read + 1,
                               value |-> (A[n].value * 256
                                          + bytes[A[n].read + 1]) % V]
    BY BytesAreShifted, Zenon
  <1>4. /\ B[0] = [read |-> 0, value |-> 0]
        /\ \A n \in Nat :
               B[n].read < N =>
                   B[n + 1] = [read |-> B[n].read + 1,
                               value |-> B[n].value * 256
                                         + bytes[B[n].read + 1]]
    <2>1. PICK base \in Nat : base = 256
      OBVIOUS
    <2>2. bytes \in Seq(Nat)
      BY <1>2, Zenon
    <2> DEFINE C == ValueLoop(bytes, base)
    <2>3. /\ C[0] = [read |-> 0, value |-> 0]
          /\ \A n \in Nat :
                 C[n].read < N =>
                     C[n + 1] = [read |-> C[n].read + 1,
                                 value |-> C[n].value * base
                                           + bytes[C[n].read + 1]]
      BY <2>2, DigitsAreRead, Zenon
    <2>4. B = C
      BY <2>1, Zenon
    <2> HIDE DEF B, C
    <2> QED BY <2>1, <2>3, <2>4, Zenon
  <1> HIDE DEF A, B, V
  <1> DEFINE S == {k \in Nat : k <= N => Good(k)}
  <1>5. 0 \in S
    <2>1. B[0].read = 0 /\ B[0].value = 0 /\ A[0] = B[0]
      BY <1>3, <1>4
    <2>2. Width(0) = 1
      BY WidthGrows
    <2> QED BY <2>1, <2>2
  <1>6. ASSUME NEW k \in Nat, k \in S PROVE k + 1 \in S
    <2> SUFFICES ASSUME k + 1 <= N PROVE Good(k + 1)
      OBVIOUS
    <2>1. Good(k) /\ k < N /\ k + 1 \in 1..N
      BY <1>1, <1>6
    <2> DEFINE x == B[k].value * 256 + bytes[k + 1]
    <2>2. x \in Nat /\ x < 256 * Width(k)
      <3> DEFINE v == B[k].value
                 b == bytes[k + 1]
                 w == Width(k)
      <3>1. v \in Nat /\ b \in 0..255 /\ w \in Nat /\ v < w
        BY <1>2, <2>1, WidthGrows
      <3> HIDE DEF v, b, w
      <3>2. v * 256 + b \in Nat /\ v * 256 + b < 256 * w
        BY <3>1
      <3> QED BY <3>2 DEF v, b, w
    <2>3. Width(k + 1) = 256 * Width(k) /\ Width(k + 1) <= V
      BY <1>1, <2>1, WidthGrows, WidthIsMonotone
    <2>4. /\ B[k + 1] = [read |-> k + 1, value |-> x]
          /\ A[k + 1] = [read |-> k + 1, value |-> x % V]
      BY <1>3, <1>4, <2>1
    <2> HIDE DEF x
    <2>5. x < V
      <3>1. Width(k) \in Nat
        BY WidthGrows
      <3> DEFINE w == Width(k)
                 w1 == Width(k + 1)
      <3>2. w \in Nat /\ w1 = 256 * w /\ w1 <= V /\ x < 256 * w
        BY <2>2, <2>3, <3>1
      <3> HIDE DEF w, w1
      <3> QED BY <1>1, <2>2, <3>2
    <2>6. x % V = x
      BY <1>1, <2>2, <2>5, RemainderIsSmall
    <2>7. A[k + 1] = B[k + 1] /\ B[k + 1].read = k + 1 /\ B[k + 1].value = x
      BY <2>4, <2>6
    <2> QED BY <2>2, <2>3, <2>7
  <1> HIDE DEF S
  <1>7. Nat \subseteq S
    BY <1>5, <1>6, SetInduction
  <1>8. Good(N)
    BY <1>1, <1>7 DEF S
  <1>9. B[N].value < V
    <2>1. Width(N) <= V /\ Width(N) \in Nat
      BY <1>1, WidthGrows, WidthIsMonotone
    <2> QED BY <1>1, <1>8, <2>1
  <1>10. B[N].value \in 0..(V - 1)
    BY <1>1, <1>8, <1>9
  <1>11. swap_str_to_u64(bytes).value = A[N].value
    BY DEF swap_str_to_u64, A
  <1>12. BigEndian(bytes) = B[N].value
    BY DEF BigEndian, ValueOf, B
  <1> QED BY <1>8, <1>10, <1>11, <1>12 DEF V

LEMMA RestIsMonotone ==
    ASSUME NEW v \in Nat, NEW w \in Nat, v <= w, NEW n \in Nat
    PROVE  Rest(v)[n] <= Rest(w)[n]
  <1> DEFINE a == Rest(v)
             b == Rest(w)
             S == {k \in Nat : a[k] <= b[k]}
  <1>1. /\ a \in [Nat -> Nat] /\ a[0] = v
        /\ \A k \in Nat : a[k + 1] = a[k] \div 10
    BY RestIsDivided
  <1>2. /\ b \in [Nat -> Nat] /\ b[0] = w
        /\ \A k \in Nat : b[k + 1] = b[k] \div 10
    BY RestIsDivided
  <1> HIDE DEF a, b
  <1>3. 0 \in S
    BY <1>1, <1>2
  <1>4. ASSUME NEW k \in Nat, k \in S PROVE k + 1 \in S
    <2> DEFINE x == a[k]
               y == b[k]
    <2>1. /\ x \in Nat /\ y \in Nat /\ x <= y
          /\ a[k + 1] = x \div 10 /\ b[k + 1] = y \div 10
      BY <1>1, <1>2, <1>4
    <2> HIDE DEF x, y
    <2>2. x \div 10 <= y \div 10
      BY <2>1
    <2> QED BY <2>1, <2>2
  <1> HIDE DEF S
  <1>5. Nat \subseteq S
    BY <1>3, <1>4, SetInduction
  <1> QED BY <1>5 DEF S, a, b

LEMMA NothingIsLeft ==
    ASSUME NEW v \in Nat, NEW n \in Nat, Rest(v)[n] = 0,
           NEW m \in Nat, n <= m
    PROVE  Rest(v)[m] = 0
  <1> DEFINE a == Rest(v)
             S == {k \in Nat : a[n + k] = 0}
  <1>1. a \in [Nat -> Nat] /\ \A k \in Nat : a[k + 1] = a[k] \div 10
    BY RestIsDivided
  <1>2. a[n] = 0
    OBVIOUS
  <1> HIDE DEF a
  <1>3. 0 \in S
    BY <1>2
  <1>4. ASSUME NEW k \in Nat, k \in S PROVE k + 1 \in S
    <2>1. n + k \in Nat /\ n + (k + 1) = (n + k) + 1 /\ a[n + k] = 0
      BY <1>4
    <2>2. a[(n + k) + 1] = 0
      BY <1>1, <2>1
    <2> QED BY <2>1, <2>2
  <1> HIDE DEF S
  <1>5. Nat \subseteq S
    BY <1>3, <1>4, SetInduction
  <1>6. m - n \in S /\ n + (m - n) = m
    BY <1>5
  <1> QED BY <1>6 DEF S, a

(* All digits of an amount, the last one first, with the point among them. *)
Complete(out, value, decimals) ==
    /\ out \in Seq(Numerals \cup {"."})
    /\ Len(out) >= decimals + 2
    /\ Rest(value)[Len(out) - 1] = 0
    /\ Len(out) > decimals + 2 => Rest(value)[Len(out) - 2] > 0
    /\ \A i \in 1..Len(out) :
           /\ i <= decimals => out[i] = DigitFromEnd(value, i)
           /\ i = decimals + 1 => out[i] = "."
           /\ i > decimals + 1 => out[i] = DigitFromEnd(value, i - 1)

LEMMA AmountIsComplete ==
    ASSUME NEW value \in Nat, NEW decimals \in Nat,
           NEW length \in Nat \ {0, 1}
    PROVE  LET out == AmountTurns(value, decimals, length)
           IN  /\ out \in Seq(Numerals \cup {"."})
               /\ Len(out) > decimals + 2 => Rest(value)[Len(out) - 2] > 0
               /\ Len(out) < length => Complete(out, value, decimals)
  <1> DEFINE s == AmountLoop(value, decimals, length)[length]
             out == s.out
             L == Len(out)
             C == Numerals \cup {"."}
             R == Rest(value)
  <1>1. AmountTurns(value, decimals, length) = out
    BY DEF AmountTurns
  <1>2. /\ WrittenAmount(s, value, decimals)
        /\ \/ L >= length + 1 \/ L >= length
           \/ s.rest = 0 /\ L >= decimals + 1
    <2>1. length \in Nat \ {0} /\ length \in Nat
      OBVIOUS
    <2> QED BY <2>1, AmountStates
  <1> HIDE DEF s
  <1>4. /\ out \in Seq(C) /\ L \in Nat /\ L >= 1 /\ L # decimals + 1
        /\ s.rest = R[IF L <= decimals THEN L ELSE L - 1]
        /\ L > decimals + 2 => R[L - 2] > 0
        /\ \A i \in 1..L :
               /\ i <= decimals => out[i] = DigitFromEnd(value, i)
               /\ i = decimals + 1 => out[i] = "."
               /\ i > decimals + 1 => out[i] = DigitFromEnd(value, i - 1)
    BY <1>2 DEF WrittenAmount, Printing
  <1>5. ASSUME L < length PROVE Complete(out, value, decimals)
    <2> HIDE DEF C, out, L, R
    <2>1. L >= decimals + 2 /\ s.rest = 0
      BY <1>2, <1>4, <1>5
    <2>2. ~(L <= decimals)
      BY <1>4, <2>1
    <2>3. R[L - 1] = 0
      BY <1>4, <2>1, <2>2
    <2> QED BY <1>4, <2>1, <2>3 DEF Complete, C, L, R
  <1> QED BY <1>1, <1>4, <1>5

LEMMA CompleteIsShortest ==
    ASSUME NEW value \in Nat, NEW decimals \in Nat,
           NEW a, Complete(a, value, decimals),
           NEW L \in Nat, L > decimals + 2 => Rest(value)[L - 2] > 0
    PROVE  L <= Len(a)
  <1> DEFINE n == Len(a)
  <1>1. n \in Nat /\ n >= decimals + 2 /\ Rest(value)[n - 1] = 0
    BY DEF Complete
  <1> HIDE DEF n
  <1>2. SUFFICES ASSUME L > n PROVE FALSE
    BY <1>1 DEF n
  <1>3. n - 1 \in Nat /\ L - 2 \in Nat /\ n - 1 <= L - 2
    BY <1>1, <1>2
  <1>4. Rest(value)[L - 2] = 0
    BY <1>1, <1>3, NothingIsLeft
  <1>5. Rest(value)[L - 2] > 0
    BY <1>1, <1>2
  <1> QED BY <1>4, <1>5

LEMMA OneIsComplete ==
    ASSUME NEW value \in Nat, NEW decimals \in Nat,
           NEW a, Complete(a, value, decimals),
           NEW b, Complete(b, value, decimals)
    PROVE  a = b
  <1> DEFINE C == Numerals \cup {"."}
             n == Len(a)
             m == Len(b)
  <1>1. /\ a \in Seq(C) /\ n \in Nat
        /\ n > decimals + 2 => Rest(value)[n - 2] > 0
        /\ \A i \in 1..n :
               /\ i <= decimals => a[i] = DigitFromEnd(value, i)
               /\ i = decimals + 1 => a[i] = "."
               /\ i > decimals + 1 => a[i] = DigitFromEnd(value, i - 1)
    BY DEF Complete
  <1>2. /\ b \in Seq(C) /\ m \in Nat
        /\ m > decimals + 2 => Rest(value)[m - 2] > 0
        /\ \A i \in 1..m :
               /\ i <= decimals => b[i] = DigitFromEnd(value, i)
               /\ i = decimals + 1 => b[i] = "."
               /\ i > decimals + 1 => b[i] = DigitFromEnd(value, i - 1)
    BY DEF Complete
  <1>3. n <= m /\ m <= n
    <2>1. n <= Len(b)
      BY <1>1, CompleteIsShortest
    <2>2. m <= Len(a)
      BY <1>2, CompleteIsShortest
    <2> QED BY <2>1, <2>2
  <1>4. n = m
    BY <1>1, <1>2, <1>3
  <1>5. ASSUME NEW i \in 1..n PROVE a[i] = b[i]
    <2>1. i <= decimals \/ i = decimals + 1 \/ i > decimals + 1
      OBVIOUS
    <2> QED BY <1>1, <1>2, <1>4, <2>1
  <1> HIDE DEF C
  <1> QED BY <1>1, <1>2, <1>4, <1>5

(* The amounts of which there can be so many as a uint64_t has values are  *)
(* written in full, by the choice of the buffers.                          *)
LEMMA AmountHasRoom ==
    ASSUME NEW value \in 0..(Values64 - 1), NEW length \in Nat \ {0, 1},
           HasRoom(length)
    PROVE  LET out == AmountTurns(value, SOL_DECIMALS, length)
           IN  /\ Complete(out, value, SOL_DECIMALS)
               /\ Len(out) + Len(SOL) + 2 <= length
  <1> DEFINE most == Values64 - 1
             d == SOL_DECIMALS
             out == AmountTurns(value, d, length)
             longest == AmountTurns(most, d, length)
  <1>1. most \in Nat /\ value \in Nat /\ value <= most /\ d \in Nat
    BY PrinterAssumption DEF SOL_DECIMALS
  <1>2. Len(SOL) = 3
    BY DEF SOL
  <1> HIDE DEF most, d
  <1>3. /\ longest \in Seq(Numerals \cup {"."})
        /\ Len(longest) < length => Complete(longest, most, d)
    BY <1>1, AmountIsComplete
  <1>4. /\ out \in Seq(Numerals \cup {"."})
        /\ Len(out) > d + 2 => Rest(value)[Len(out) - 2] > 0
        /\ Len(out) < length => Complete(out, value, d)
    BY <1>1, AmountIsComplete
  <1>5. Len(longest) + Len(SOL) + 2 <= length
    BY DEF HasRoom, most, d
  <1> HIDE DEF out, longest
  <1>6. Len(out) \in Nat /\ Len(longest) \in Nat
    BY <1>3, <1>4
  <1>7. Complete(longest, most, d)
    BY <1>2, <1>3, <1>5, <1>6
  <1>8. Len(out) > d + 2 => Rest(most)[Len(out) - 2] > 0
    <2> SUFFICES ASSUME Len(out) > d + 2 PROVE Rest(most)[Len(out) - 2] > 0
      OBVIOUS
    <2> DEFINE k == Len(out) - 2
    <2>1. k \in Nat
      BY <1>1, <1>6
    <2>2. Rest(value)[k] > 0
      BY <1>4
    <2> HIDE DEF k
    <2>3. Rest(value)[k] <= Rest(most)[k]
      BY <1>1, <2>1, RestIsMonotone
    <2>4. Rest(value)[k] \in Nat /\ Rest(most)[k] \in Nat
      BY <1>1, <2>1, RestIsDivided
    <2> QED BY <2>2, <2>3, <2>4 DEF k
  <1>9. Len(out) <= Len(longest)
    BY <1>1, <1>6, <1>7, <1>8, CompleteIsShortest
  <1>10. Len(out) < length
    BY <1>2, <1>5, <1>6, <1>9
  <1> QED BY <1>2, <1>4, <1>5, <1>6, <1>9, <1>10 DEF out, d

LEMMA StrippedIsShorter ==
    ASSUME NEW value \in Nat, NEW r, NEW p, Unstripped(r, value, p)
    PROVE  Len(Stripped(r)) <= Len(r)
  <1> DEFINE C == Numerals \cup {"."}
             L == Len(r)
             t == Stripped(r)
  <1>1. /\ r \in Seq(C) /\ L \in Nat /\ p \in 2..L
    <2>1. r \in Seq(C)
      BY DEF Unstripped
    <2>2. L \in Nat /\ (L - 1) + 1 = L
      BY <2>1
    <2> QED BY <2>1, <2>2 DEF Unstripped
  <1>2. PICK z \in p..L :
            IF z = p THEN t = SubSeq(r, 1, p - 1) ELSE t = SubSeq(r, 1, z)
    <2> HIDE DEF t
    <2>1. \E z \in p..Len(r) :
              /\ \A j \in (z + 1)..Len(r) : r[j] = "0"
              /\ IF z = p THEN Stripped(r) = SubSeq(r, 1, p - 1)
                 ELSE r[z] # "0" /\ r[z] # "."
                      /\ Stripped(r) = SubSeq(r, 1, z)
      BY ZerosAreStripped
    <2> QED BY <2>1 DEF t
  <1> HIDE DEF C, t
  <1>3. Len(SubSeq(r, 1, p - 1)) = p - 1 /\ Len(SubSeq(r, 1, z)) = z
    BY <1>1, <1>2
  <1>4. Len(t) <= L
    BY <1>1, <1>2, <1>3
  <1> QED BY <1>4 DEF t

(* The text of an amount of lamports.                                      *)
SolText(out) == Stripped(Reverse(out)) \o <<" ">> \o SOL

LEMMA LamportsArePrinted ==
    ASSUME NEW value \in 0..(Values64 - 1), NEW length \in Nat \ {0, 1},
           HasRoom(length)
    PROVE  /\ print_amount(value, length).rc = 0
           /\ \E out : /\ Complete(out, value, SOL_DECIMALS)
                       /\ print_amount(value, length).text = SolText(out)
           /\ LET text == print_amount(value, length).text
                  tail == <<" ">> \o SOL
              IN  DenotesAmount(SubSeq(text, 1, Len(text) - Len(tail)), value,
                                SOL_DECIMALS)
  <1> DEFINE d == SOL_DECIMALS
             out == AmountTurns(value, d, length)
             r == Reverse(out)
             t == Stripped(r)
             A == {"S", "O", "L"}
             space == " "
             named == t \o <<space>> \o SOL
             printed == print_amount(value, length)
             C == Numerals \cup {"."}
             S == C \cup {space} \cup A
             c == [amount |-> value, asset |-> SOL, decimals |-> d,
                   length |-> length]
  <1>1. value \in Nat /\ d \in Nat
    BY DEF SOL_DECIMALS
  <1>2. SOL \in Seq(A) /\ SOL # <<>> /\ Len(SOL) = 3
    BY DEF SOL
  <1>3. Complete(out, value, d) /\ Len(out) + Len(SOL) + 2 <= length
    BY AmountHasRoom
  <1>4. printed = IF Len(out) >= length THEN NoText(Len(out))
                  ELSE IF SOL = <<>>
                       THEN Text(t, Most(Len(out), Len(t) + 1))
                  ELSE IF Len(named) + 1 > length THEN NoText(Len(out))
                  ELSE Text(named, Most(Len(out), Len(named) + 1))
    <2>1. length > 1
      OBVIOUS
    <2>2. printed = print_token_amount(value, SOL, d, length)
      BY DEF print_amount
    <2> HIDE DEF printed, d
    <2> QED BY <2>1, <2>2 DEF print_token_amount
  <1>a. /\ named = t \o <<space>> \o SOL
        /\ SolText(out) = named
    BY DEF SolText
  <1>b. c \in [amount : Nat, asset : Seq(A), decimals : Nat,
               length : Nat \ {0, 1}]
        /\ c.amount = value /\ c.asset = SOL /\ c.decimals = d
        /\ c.length = length
    BY <1>1, <1>2
  <1> HIDE DEF c
  <1>c. printed = print_token_amount(c.amount, c.asset, c.decimals, c.length)
    BY <1>b DEF print_amount
  <1> HIDE DEF space, C, A, printed, named, t, out, d
  <1>5. Len(out) \in Nat /\ Len(out) < length
    BY <1>2, <1>3 DEF Complete
  <1>6. Unstripped(r, value, Len(r) - d)
    <2>1. Len(AmountTurns(value, d, length)) < length
      BY <1>5 DEF out
    <2> QED BY <1>1, <2>1, AmountIsReversed DEF out
  <1>7. Len(r) = Len(out)
    BY <1>5 DEF Reverse
  <1> HIDE DEF r
  <1>8. Len(t) <= Len(out) /\ t \in Seq(C)
    BY <1>1, <1>6, <1>7, StrippedIsShorter, StrippedIsAmount DEF t, C
  <1>9. Len(named) = Len(t) + 1 + Len(SOL) /\ Len(t) \in Nat
    <2>1. t \in Seq(S) /\ <<space>> \in Seq(S) /\ SOL \in Seq(S)
      BY <1>2, <1>8
    <2> HIDE DEF S
    <2> QED BY <1>a, <2>1
  <1>10. printed = Text(named, Most(Len(out), Len(named) + 1))
    <2>1. ~(Len(named) + 1 > length) /\ ~(Len(out) >= length)
      BY <1>2, <1>3, <1>5, <1>8, <1>9
    <2> QED BY <1>2, <1>4, <2>1
  <1>11. printed.rc = 0 /\ printed.text = named
    BY <1>10 DEF Text
  <1>12. ShowsAmount(printed.text, c)
    <2>1. print_token_amount(c.amount, c.asset, c.decimals, c.length).rc = 0
      BY <1>c, <1>11
    <2> QED BY <1>b, <1>c, <2>1, AmountIsPrinted
  <1>13. DenotesAmount(SubSeq(printed.text, 1,
                              Len(printed.text) - Len(<<" ">> \o SOL)),
                       value, d)
    BY <1>2, <1>b, <1>12, Zenon DEF ShowsAmount
  <1> QED BY <1>3, <1>a, <1>11, <1>13, Zenon DEF printed, d

(* Two buffers have the same text exactly if they were printed from the    *)
(* same amount, whatever their lengths.                                    *)
LEMMA SameTextSameAmount ==
    ASSUME NEW v \in 0..(Values64 - 1), NEW w \in 0..(Values64 - 1),
           NEW m \in Nat \ {0, 1}, NEW n \in Nat \ {0, 1},
           HasRoom(m), HasRoom(n)
    PROVE  print_amount(v, m).text = print_amount(w, n).text <=> v = w
  <1> DEFINE a == print_amount(v, m).text
             b == print_amount(w, n).text
             d == SOL_DECIMALS
             u == SubSeq(a, 1, Len(a) - Len(<<" ">> \o SOL))
  <1>1. /\ \E out : Complete(out, v, d) /\ a = SolText(out)
        /\ DenotesAmount(u, v, d)
    BY LamportsArePrinted
  <1>2. /\ \E out : Complete(out, w, d) /\ b = SolText(out)
        /\ a = b => DenotesAmount(u, w, d)
    BY LamportsArePrinted
  <1>3. v \in Nat /\ d \in Nat
    BY DEF SOL_DECIMALS
  <1> HIDE DEF a, b, d, u
  <1>4. ASSUME a = b PROVE v = w
    <2>1. DenotesAmount(u, v, d) /\ DenotesAmount(u, w, d)
      BY <1>1, <1>2, <1>4
    <2> QED BY <2>1 DEF DenotesAmount
  <1>5. ASSUME v = w PROVE a = b
    <2>1. PICK x : Complete(x, v, d) /\ a = SolText(x)
      BY <1>1
    <2>2. PICK y : Complete(y, w, d) /\ b = SolText(y)
      BY <1>2
    <2>3. Complete(y, v, d)
      BY <1>5, <2>2
    <2>4. x = y
      BY <1>3, <2>1, <2>3, OneIsComplete
    <2> QED BY <2>1, <2>2, <2>4
  <1> QED BY <1>4, <1>5 DEF a, b

(* What Exchange shows as the amount is what the payment is compared with  *)
(* later: an amount it may not ask for is not shown either, and the text   *)
(* of one that is shown passes the comparison                              *)
(* (handle_get_printable_amount.c:8).                                      *)
THEOREM PrintableIsPaid == LibrarySpec => []PrintableAmountIsPaid
  <1>1. LibraryInit => PrintableAmountIsPaid
    BY DEF LibraryInit, NoCall, PrintableAmountIsPaid, Is
  <1>2. PrintableAmountIsPaid /\ [LibraryNext]_library
            => PrintableAmountIsPaid'
    <2> SUFFICES ASSUME PrintableAmountIsPaid, [LibraryNext]_library
                 PROVE  PrintableAmountIsPaid'
      OBVIOUS
    <2>1. CASE UNCHANGED library
      BY <2>1 DEF library, PrintableAmountIsPaid, Is, given
    <2>2. CASE LibraryNext
      <3> SUFFICES ASSUME Is("get_printable_amount")'
                   PROVE  PrintableAmountIsPaid'
        BY DEF PrintableAmountIsPaid
      <3>1. PICK c \in PrintableCalls : GetPrintableAmount(c)
        BY <2>2, NameTellsCall DEF Is
      <3>2. c.coinConfiguration \in BOOLEAN /\ c.amount \in Seq(Octet)
        BY LibraryAssumption
      <3>3. given' = c /\ reply' = handle_get_printable_amount(c)
        BY <3>1 DEF GetPrintableAmount, Called, given
      <3> DEFINE asks == [coinConfiguration |-> c.coinConfiguration,
                          extraId |-> "empty", destination |-> <<>>,
                          amount |-> c.amount]
                 payment == copy_transaction_parameters(asks)
                 answer == handle_get_printable_amount(c)
                 amount == swap_str_to_u64(c.amount)
                 printed == print_amount(amount.value,
                                         MAX_PRINTABLE_AMOUNT_SIZE)
      <3>4. amount.ok \in BOOLEAN
            /\ amount.ok => Len(c.amount) <= AMOUNT_BYTES
        BY DEF swap_str_to_u64
      <3>5. amount.ok => printed.rc = 0
        <4> SUFFICES ASSUME amount.ok PROVE printed.rc = 0
          OBVIOUS
        <4>1. amount.value \in 0..(Values64 - 1)
          BY <3>2, <3>4, AmountIsRead
        <4> HIDE DEF amount
        <4> QED BY <4>1, SwapParametersAssumption, LamportsArePrinted
      <3>6. /\ payment.initialized <=> ~c.coinConfiguration /\ amount.ok
            /\ payment.initialized => payment.amount = amount.value
        BY <3>2, <3>4 DEF copy_transaction_parameters, NothingValidated
      <3> HIDE DEF payment
      <3>7. /\ answer.result = 1 <=> ~c.coinConfiguration /\ amount.ok
            /\ answer.result = 1 => answer.text = printed.text
        <4>1. answer = IF c.coinConfiguration \/ ~amount.ok \/ printed.rc # 0
                       THEN [result |-> 0, text |-> <<>>]
                       ELSE [result |-> 1, text |-> printed.text]
          BY DEF handle_get_printable_amount
        <4> HIDE DEF answer, amount, printed
        <4> QED BY <3>2, <3>4, <3>5, <4>1
      <3>8. answer.result = 1 =>
                check_swap_amount(payment, "Transfer", answer.text)
        <4> SUFFICES ASSUME answer.result = 1
                     PROVE  check_swap_amount(payment, "Transfer",
                                              answer.text)
          OBVIOUS
        <4>1. /\ payment.initialized /\ payment.amount = amount.value
              /\ printed.rc = 0 /\ answer.text = printed.text
          BY <3>5, <3>6, <3>7
        <4> HIDE DEF answer, amount
        <4> QED BY <4>1 DEF check_swap_amount
      <3>9. answer.result = 1 <=> payment.initialized
        BY <3>6, <3>7
      <3> QED BY <3>3, <3>8, <3>9 DEF PrintableAmountIsPaid, payment
    <2> QED BY <2>1, <2>2
  <1> QED BY <1>1, <1>2, PTL DEF LibrarySpec

(* Base 58: what has been divided are bytes, and what remains are digits.  *)
LEMMA DivisionIsTyped ==
    ASSUME NEW tmp \in Seq(0..255)
    PROVE  Divided(tmp) \in [tmp : Seq(0..255), rest : 0..57]
  <1> DEFINE B == 0..255
             D == 0..57
             T == [tmp : Seq(B), rest : D]
             Next58(s) ==
                 LET n == s.rest * 256 + tmp[Len(s.tmp) + 1]
                 IN  [tmp |-> Append(s.tmp, n \div 58), rest |-> n % 58]
             turn == [s \in T |-> IF Len(s.tmp) >= Len(tmp) THEN s
                                  ELSE Next58(s)]
             start == [tmp |-> <<>>, rest |-> 0]
  <1>1. \A x \in B, r \in D : LET n == r * 256 + x
                              IN  n \div 58 \in B /\ n % 58 \in D
    OBVIOUS
  <1>2. tmp \in Seq(B) /\ 0 \in D
    OBVIOUS
  <1>3. turn \in [T -> T]
    <2> HIDE DEF B, D
    <2> SUFFICES ASSUME NEW s \in T PROVE turn[s] \in T
      OBVIOUS
    <2>1. CASE Len(s.tmp) >= Len(tmp)
      BY <2>1
    <2>2. CASE ~(Len(s.tmp) >= Len(tmp))
      <3> DEFINE x == tmp[Len(s.tmp) + 1]
                 n == s.rest * 256 + x
      <3>1. s.tmp \in Seq(B) /\ s.rest \in D
        OBVIOUS
      <3>2. x \in B
        <4>1. Len(s.tmp) + 1 \in 1..Len(tmp)
          BY <1>2, <2>2, <3>1
        <4> QED BY <1>2, <4>1
      <3>3. n \div 58 \in B /\ n % 58 \in D
        <4> HIDE DEF x
        <4> QED BY <1>1, <3>1, <3>2
      <3>4. turn[s] = [tmp |-> Append(s.tmp, n \div 58), rest |-> n % 58]
        BY <2>2
      <3> HIDE DEF n, turn
      <3> QED BY <3>1, <3>3, <3>4
    <2> QED BY <2>1, <2>2
  <1>4. start \in T
    <2> HIDE DEF B, D
    <2> QED BY <1>2
  <1>5. Divided(tmp) = After(turn, start)[Len(tmp)]
    BY DEF Divided
  <1>6. Len(tmp) \in Nat
    OBVIOUS
  <1> HIDE DEF turn, start, T
  <1>7. Follows(After(turn, start), T, turn, start)
    BY <1>3, <1>4, LoopFollows
  <1>8. Divided(tmp) \in T
    BY <1>5, <1>6, <1>7 DEF Follows
  <1> QED BY <1>8 DEF T

LEMMA DigitsAreTyped ==
    ASSUME NEW bytes \in Seq(0..255), NEW zeros \in Nat
    PROVE  Base58Digits(bytes, zeros) \in Seq(0..57)
  <1> DEFINE B == 0..255
             D == 0..57
             T == [tmp : Seq(B), start : Nat, digits : Seq(D)]
             turn == [s \in T |->
                         IF s.start >= Len(s.tmp) THEN s
                         ELSE LET next == DividedBy58(s.tmp)
                              IN  [tmp |-> next.tmp,
                                   start |-> IF next.tmp[s.start + 1] = 0
                                             THEN s.start + 1 ELSE s.start,
                                   digits |-> <<next.rest>> \o s.digits]]
             start == [tmp |-> bytes, start |-> zeros, digits |-> <<>>]
  <1>1. \A t \in Seq(B) : DividedBy58(t) \in [tmp : Seq(B), rest : D]
    BY DivisionIsTyped DEF DividedBy58
  <1>2. bytes \in Seq(B)
    OBVIOUS
  <1> HIDE DEF B, D
  <1>3. turn \in [T -> T]
    <2> SUFFICES ASSUME NEW s \in T PROVE turn[s] \in T
      OBVIOUS
    <2>1. CASE s.start >= Len(s.tmp)
      BY <2>1
    <2>2. CASE ~(s.start >= Len(s.tmp))
      <3> DEFINE next == DividedBy58(s.tmp)
                 first == IF next.tmp[s.start + 1] = 0
                          THEN s.start + 1 ELSE s.start
      <3>1. /\ s.tmp \in Seq(B) /\ s.start \in Nat /\ s.digits \in Seq(D)
            /\ first \in Nat
        OBVIOUS
      <3>2. next \in [tmp : Seq(B), rest : D]
        BY <1>1, <3>1
      <3>3. turn[s] = [tmp |-> next.tmp, start |-> first,
                       digits |-> <<next.rest>> \o s.digits]
        BY <2>2
      <3> HIDE DEF next, first, turn
      <3>4. <<next.rest>> \in Seq(D)
        BY <3>2
      <3>5. <<next.rest>> \o s.digits \in Seq(D)
        BY <3>1, <3>4
      <3> QED BY <3>1, <3>2, <3>3, <3>5
    <2> QED BY <2>1, <2>2
  <1>4. start \in T
    BY <1>2
  <1>5. Base58Digits(bytes, zeros)
            = After(turn, start)[2 * Len(bytes) + 1].digits
    BY DEF Base58Digits, B, D
  <1>6. 2 * Len(bytes) + 1 \in Nat
    BY <1>2
  <1> HIDE DEF turn, start, T
  <1>7. Follows(After(turn, start), T, turn, start)
    BY <1>3, <1>4, LoopFollows
  <1>8. After(turn, start)[2 * Len(bytes) + 1] \in T
    BY <1>6, <1>7 DEF Follows
  <1>9. Base58Digits(bytes, zeros) \in Seq(D)
    <2> DEFINE last == After(turn, start)[2 * Len(bytes) + 1]
    <2>1. last \in [tmp : Seq(B), start : Nat, digits : Seq(D)]
      BY <1>8 DEF T
    <2> HIDE DEF last
    <2>2. last.digits \in Seq(D)
      BY <2>1
    <2> QED BY <1>5, <2>2 DEF last
  <1> QED BY <1>9 DEF D

LEMMA ZerosAreCounted ==
    ASSUME NEW S, NEW bytes \in Seq(S)
    PROVE  CountZeros(bytes) \in 0..Len(bytes)
  <1> DEFINE I == {i \in 1..Len(bytes) : bytes[i] # 0}
             first == SelectInSeq(bytes, LAMBDA b : b # 0)
  <1>1. Len(bytes) \in Nat /\ I \in SUBSET Nat
    OBVIOUS
  <1>2. first = IF I # {} THEN Min(I) ELSE 0
    BY DEF SelectInSeq
  <1>3. first = 0 \/ first \in 1..Len(bytes)
    <2>1. CASE I = {}
      BY <1>2, <2>1
    <2>2. CASE I # {}
      <3>1. Min(I) \in I
        <4> HIDE DEF I
        <4> QED BY <1>1, <2>2, LeastExists
      <3> QED BY <1>2, <2>2, <3>1
    <2> QED BY <2>1, <2>2
  <1> HIDE DEF first
  <1>4. (IF first = 0 THEN Len(bytes) ELSE first - 1) \in 0..Len(bytes)
    BY <1>1, <1>3
  <1> QED BY <1>4 DEF CountZeros, first

(* A text in base 58 that was not refused fits its buffer.                 *)
LEMMA KeyTextFits ==
    ASSUME NEW bytes \in Seq(0..255), NEW length \in Nat \ {0}
    PROVE  LET text == encode_base58(bytes, length).text
           IN  Len(text) \in Nat /\ Len(text) < length
  <1> DEFINE zeros == CountZeros(bytes)
             digits == Base58Digits(bytes, zeros)
             significant == SubSeq(digits, CountZeros(digits) + 1, Len(digits))
             n == zeros + Len(significant)
             Char(i) == BASE58_ALPHABET[IF i <= zeros THEN 1
                                        ELSE significant[i - zeros] + 1]
             text == [i \in 1..n |-> Char(i)]
             used == Most(Len(digits), Len(text))
             D == 0..57
  <1>1. zeros \in Nat
    <2>1. CountZeros(bytes) \in 0..Len(bytes) /\ Len(bytes) \in Nat
      BY ZerosAreCounted
    <2> QED BY <2>1
  <1>2. digits \in Seq(D)
    <2> HIDE DEF zeros
    <2> QED BY <1>1, DigitsAreTyped
  <1>3. Len(significant) \in Nat
    <2> HIDE DEF digits, D
    <2>1. CountZeros(digits) \in 0..Len(digits) /\ Len(digits) \in Nat
      BY <1>2, ZerosAreCounted
    <2> DEFINE k == CountZeros(digits)
    <2>2. k \in 0..Len(digits)
      BY <2>1
    <2> HIDE DEF k
    <2>3. Len(SubSeq(digits, k + 1, Len(digits))) \in Nat
      BY <1>2, <2>1, <2>2
    <2> QED BY <2>3 DEF k
  <1> HIDE DEF zeros, digits, significant, D
  <1>4. n \in Nat
    BY <1>1, <1>3
  <1> HIDE DEF n, Char
  <1>5. Len(text) = n
    BY <1>4
  <1>6. encode_base58(bytes, length).text =
            IF length < Len(text) + 1 THEN <<>> ELSE text
    <2>1. encode_base58(bytes, length) =
              IF length < Len(text) + 1
              THEN [rc |-> 1, text |-> <<>>, written |-> 0, used |-> used]
              ELSE [rc |-> 0, text |-> text, written |-> Len(text) + 1,
                    used |-> used]
      BY DEF encode_base58, zeros, digits, significant, n, Char
    <2> HIDE DEF text, used
    <2> QED BY <2>1
  <1> HIDE DEF text
  <1>7. Len(<<>>) = 0
    OBVIOUS
  <1>8. CASE length < Len(text) + 1
    BY <1>6, <1>7, <1>8
  <1>9. CASE ~(length < Len(text) + 1)
    BY <1>4, <1>5, <1>6, <1>9
  <1> QED BY <1>8, <1>9

(* What was validated is what was asked for last.                          *)
AskedIsKept ==
    \/ asked = NoCall /\ validated = NothingValidated
    \/ /\ asked \in PaymentCalls
       /\ validated = copy_transaction_parameters(asked)

LEMMA AskedStaysKept == LibrarySpec => []AskedIsKept
  <1>1. LibraryInit => AskedIsKept
    BY DEF LibraryInit, AskedIsKept
  <1>2. AskedIsKept /\ [LibraryNext]_library => AskedIsKept'
    <2> SUFFICES ASSUME AskedIsKept, [LibraryNext]_library
                 PROVE  AskedIsKept'
      OBVIOUS
    <2>1. CASE UNCHANGED <<asked, validated>>
      BY <2>1 DEF AskedIsKept
    <2>2. CASE UNCHANGED library
      BY <2>1, <2>2 DEF library
    <2>3. CASE \E c \in PaymentCalls : ValidatePayment(c)
      BY <2>3 DEF ValidatePayment, AskedIsKept
    <2>4. CASE \E c \in PaidItems : CheckPaidItem(c)
      BY <2>1, <2>4 DEF CheckPaidItem
    <2>5. CASE Return
      BY <2>1, <2>5 DEF Return
    <2>6. CASE Compute
      BY <2>1, <2>6
         DEF Compute, Called, DisplayItem, PrintTokenAmount, PrintNumber,
             PrintSizedString, ParseLength, CalculateMaxFee,
             ParseInstructionData, FormatTimestamp, ReadText, CheckAddress,
             GetPrintableAmount
    <2> QED BY <2>2, <2>3, <2>4, <2>5, <2>6 DEF LibraryNext
  <1> QED BY <1>1, <1>2, PTL DEF LibrarySpec

(* An item passes the comparison: as the code compares, and as the payment *)
(* asks.                                                                   *)
Passes(c, payment) ==
    LET text == Displayed(c.item, TRUE).text
    IN  \/ c.item.kind = "Amount" /\ check_swap_amount(payment, c.title, text)
        \/ /\ c.item.kind = "Pubkey"
           /\ check_swap_recipient(payment, c.title, text)

Pays(c, p) ==
    LET text == Displayed(c.item, TRUE).text
        destination == p.destination
    IN  /\ p # NoCall
        /\ ~p.coinConfiguration
        /\ p.extraId = "empty"
        /\ Len(p.amount) <= AMOUNT_BYTES
        /\ CASE c.item.kind = "Amount" ->
                    /\ c.title = "Transfer"
                    /\ c.item.value = BigEndian(p.amount)
             [] c.item.kind = "Pubkey" ->
                    /\ c.title = "Recipient"
                    /\ \/ text = destination
                       \/ /\ Len(destination) >= BASE58_PUBKEY_LENGTH
                          /\ text = SubSeq(destination, 1,
                                           BASE58_PUBKEY_LENGTH - 1)

LEMMA NothingIsPaid ==
    ASSUME NEW c PROVE ~Passes(c, NothingValidated) /\ ~Pays(c, NoCall)
  BY DEF Passes, Pays, NothingValidated, check_swap_amount,
         check_swap_recipient

LEMMA PaymentIsCopied ==
    ASSUME NEW p \in PaymentCalls
    PROVE  LET v == copy_transaction_parameters(p)
           IN  /\ p # NoCall
               /\ v.initialized <=> /\ ~p.coinConfiguration
                                    /\ p.extraId = "empty"
                                    /\ Len(p.amount) <= AMOUNT_BYTES
               /\ v.initialized =>
                      /\ v.amount = BigEndian(p.amount)
                      /\ v.amount \in 0..(Values64 - 1)
                      /\ v.recipient = Copied(p.destination,
                                              BASE58_PUBKEY_LENGTH)
  <1> DEFINE v == copy_transaction_parameters(p)
             amount == swap_str_to_u64(p.amount)
             copy == Copied(p.destination, BASE58_PUBKEY_LENGTH)
  <1>1. p \in [coinConfiguration : BOOLEAN, extraId : ExtraId,
               amount : Seq(Octet), destination : Seq(STRING)]
    BY LibraryAssumption
  <1>2. p # NoCall
    <2>1. DOMAIN p = {"coinConfiguration", "extraId", "amount",
                      "destination"}
      BY <1>1
    <2>2. DOMAIN NoCall = {"fn"}
      BY DEF NoCall
    <2> QED BY <2>1, <2>2
  <1>3. amount.ok <=> Len(p.amount) <= AMOUNT_BYTES
    BY DEF swap_str_to_u64
  <1>4. v = IF p.coinConfiguration \/ p.extraId # "empty" \/ ~amount.ok
            THEN NothingValidated
            ELSE [initialized |-> TRUE, amount |-> amount.value,
                  recipient |-> copy]
    BY DEF copy_transaction_parameters
  <1>5. Len(p.amount) <= AMOUNT_BYTES =>
            /\ amount.value = BigEndian(p.amount)
            /\ amount.value \in 0..(Values64 - 1)
    BY <1>1, AmountIsRead
  <1> HIDE DEF v, amount, copy
  <1>6. CASE p.coinConfiguration \/ p.extraId # "empty" \/ ~amount.ok
    <2>1. ~v.initialized
      BY <1>4, <1>6 DEF NothingValidated
    <2> QED BY <1>2, <1>3, <1>6, <2>1 DEF v
  <1>7. CASE ~(p.coinConfiguration \/ p.extraId # "empty" \/ ~amount.ok)
    <2>1. /\ v.initialized /\ v.amount = amount.value
          /\ v.recipient = copy
      BY <1>4, <1>7
    <2> QED BY <1>2, <1>3, <1>5, <1>7, <2>1 DEF v, copy
  <1> QED BY <1>6, <1>7

LEMMA PaidAmountIsPayment ==
    ASSUME NEW p \in PaymentCalls, NEW c, c.item.kind = "Amount",
           c.item.value \in 0..(Values64 - 1)
    PROVE  Passes(c, copy_transaction_parameters(p)) <=> Pays(c, p)
  <1> DEFINE v == copy_transaction_parameters(p)
             M == MAX_PRINTABLE_AMOUNT_SIZE
             B == TEXT_BUFFER_LENGTH
             text == Displayed(c.item, TRUE).text
  <1>1. text = print_amount(c.item.value, B).text
    BY DEF Displayed
  <1>2. /\ M \in Nat \ {0, 1} /\ HasRoom(M)
        /\ B \in Nat \ {0, 1} /\ HasRoom(B)
    BY SwapParametersAssumption DEF TEXT_BUFFER_LENGTH
  <1>3. /\ p # NoCall
        /\ v.initialized <=> /\ ~p.coinConfiguration
                             /\ p.extraId = "empty"
                             /\ Len(p.amount) <= AMOUNT_BYTES
        /\ v.initialized => /\ v.amount = BigEndian(p.amount)
                            /\ v.amount \in 0..(Values64 - 1)
    BY PaymentIsCopied
  <1>4. Passes(c, v) <=> check_swap_amount(v, c.title, text)
    BY DEF Passes
  <1>5. Pays(c, p) <=> /\ v.initialized /\ c.title = "Transfer"
                       /\ c.item.value = BigEndian(p.amount)
    BY <1>3 DEF Pays
  <1> HIDE DEF v, M, B, text
  <1>6. check_swap_amount(v, c.title, text) <=>
            /\ v.initialized /\ c.title = "Transfer"
            /\ print_amount(v.amount, M).rc = 0
            /\ text = print_amount(v.amount, M).text
    BY DEF check_swap_amount, M
  <1>7. v.initialized =>
            /\ print_amount(v.amount, M).rc = 0
            /\ text = print_amount(v.amount, M).text
                   <=> c.item.value = v.amount
    <2> SUFFICES ASSUME v.initialized
                 PROVE  /\ print_amount(v.amount, M).rc = 0
                        /\ text = print_amount(v.amount, M).text
                               <=> c.item.value = v.amount
      OBVIOUS
    <2>1. v.amount \in 0..(Values64 - 1)
      BY <1>3
    <2>2. print_amount(v.amount, M).rc = 0
      BY <1>2, <2>1, LamportsArePrinted
    <2>3. print_amount(c.item.value, B).text = print_amount(v.amount, M).text
              <=> c.item.value = v.amount
      BY <1>2, <2>1, SameTextSameAmount
    <2> QED BY <1>1, <2>2, <2>3
  <1> QED BY <1>3, <1>4, <1>5, <1>6, <1>7 DEF v

LEMMA PaidKeyIsPayment ==
    ASSUME NEW p \in PaymentCalls, NEW c, c.item.kind = "Pubkey",
           c.item.bytes \in Seq(Octet)
    PROVE  Passes(c, copy_transaction_parameters(p)) <=> Pays(c, p)
  <1> DEFINE v == copy_transaction_parameters(p)
             B == BASE58_PUBKEY_LENGTH
             text == Displayed(c.item, TRUE).text
             whole == encode_base58(c.item.bytes, B)
             destination == p.destination
             cut == SubSeq(destination, 1, B - 1)
  <1>1. /\ p # NoCall
        /\ v.initialized <=> /\ ~p.coinConfiguration
                             /\ p.extraId = "empty"
                             /\ Len(p.amount) <= AMOUNT_BYTES
        /\ v.initialized => v.recipient = Copied(destination, B)
    BY PaymentIsCopied
  <1>2. Passes(c, v) <=> check_swap_recipient(v, c.title, text)
    BY DEF Passes
  <1>3. Pays(c, p) <=> /\ v.initialized /\ c.title = "Recipient"
                       /\ \/ text = destination
                          \/ Len(destination) >= B /\ text = cut
    BY <1>1 DEF Pays
  <1>4. B \in Nat \ {0} /\ TEXT_BUFFER_LENGTH = B
    BY SwapParametersAssumption DEF TEXT_BUFFER_LENGTH
  <1>5. Len(whole.text) \in Nat /\ Len(whole.text) < B
    <2>1. c.item.bytes \in Seq(0..255)
      BY DEF Octet
    <2> HIDE DEF B
    <2> QED BY <1>4, <2>1, KeyTextFits
  <1>6. text = (IF whole.rc # 0 THEN whole ELSE print_string(whole.text, B)).text
    BY <1>4 DEF Displayed
  <1> HIDE DEF v, B, text, whole
  <1>7. print_string(whole.text, B).text = whole.text
    BY <1>4, <1>5 DEF print_string, Text
  <1>8. Len(text) \in Nat /\ Len(text) < B
    BY <1>5, <1>6, <1>7
  <1>9. Len(destination) \in Nat
    <2>1. p.destination \in Seq(STRING)
      BY LibraryAssumption
    <2> QED BY <2>1
  <1> HIDE DEF destination, cut
  <1>10. Copied(destination, B) =
             IF Len(destination) < B THEN destination ELSE cut
    BY DEF Copied, cut
  <1>11. text = Copied(destination, B) <=>
             \/ text = destination
             \/ Len(destination) >= B /\ text = cut
    BY <1>4, <1>8, <1>9, <1>10
  <1>12. check_swap_recipient(v, c.title, text) <=>
             /\ v.initialized /\ c.title = "Recipient"
             /\ text = v.recipient
    BY DEF check_swap_recipient
  <1> QED BY <1>1, <1>2, <1>3, <1>11, <1>12 DEF v

(* An item passes the comparison with what Exchange validated exactly if   *)
(* it is the payment: the amount itself, not one with the same text or one *)
(* that was cut to fit, or the whole address, if it is no longer than an   *)
(* address can be (handle_swap_sign_transaction.c:45).                     *)
THEOREM PaidIsPayment == LibrarySpec => []PaidItemIsPayment
  <1>1. LibraryInit => PaidItemIsPayment
    BY DEF LibraryInit, NoCall, PaidItemIsPayment, Is
  <1>2. PaidItemIsPayment /\ AskedIsKept /\ [LibraryNext]_library
            => PaidItemIsPayment'
    <2> SUFFICES ASSUME PaidItemIsPayment, AskedIsKept,
                        [LibraryNext]_library
                 PROVE  PaidItemIsPayment'
      OBVIOUS
    <2>1. CASE UNCHANGED library
      BY <2>1 DEF library, PaidItemIsPayment, Is, given
    <2>2. CASE LibraryNext
      <3> SUFFICES ASSUME Is("check_item")' PROVE PaidItemIsPayment'
        BY DEF PaidItemIsPayment
      <3>1. PICK c \in PaidItems : CheckPaidItem(c)
        BY <2>2, NameTellsCall DEF Is
      <3>2. /\ given' = c /\ asked' = asked
            /\ reply'.text = Displayed(c.item, TRUE).text
            /\ reply'.ok <=> Passes(c, validated)
        BY <3>1 DEF CheckPaidItem, given, Passes
      <3>3. Passes(c, validated) <=> Pays(c, asked)
        <4>1. CASE asked = NoCall /\ validated = NothingValidated
          BY <4>1, NothingIsPaid
        <4>2. CASE /\ asked \in PaymentCalls
                   /\ validated = copy_transaction_parameters(asked)
          <5>1. c.item \in [kind : {"Amount"}, value : 0..(Values64 - 1)]
                           \cup [kind : {"Pubkey"}, bytes : Seq(Octet)]
            BY LibraryAssumption
          <5>2. CASE c.item \in [kind : {"Amount"}, value : 0..(Values64 - 1)]
            <6>1. c.item.kind = "Amount" /\ c.item.value \in 0..(Values64 - 1)
              BY <5>2
            <6> QED BY <4>2, <6>1, PaidAmountIsPayment
          <5>3. CASE c.item \in [kind : {"Pubkey"}, bytes : Seq(Octet)]
            <6>1. c.item.kind = "Pubkey" /\ c.item.bytes \in Seq(Octet)
              BY <5>3
            <6> QED BY <4>2, <6>1, PaidKeyIsPayment
          <5> QED BY <5>1, <5>2, <5>3
        <4> QED BY <4>1, <4>2 DEF AskedIsKept
      <3>4. reply'.ok <=> Pays(c, asked)
        BY <3>2, <3>3
      <3> QED BY <3>2, <3>4 DEF PaidItemIsPayment, Pays
    <2> QED BY <2>1, <2>2
  <1> QED BY <1>1, <1>2, AskedStaysKept, PTL DEF LibrarySpec

-----------------------------------------------------------------------------
(* The calendar.  The code counts years from March to February: the day n  *)
(* after the first of March of the year 0 is the d-th of the year e of the *)
(* four years f of the century c of the four centuries q.                  *)
MarchYear(q, c, f, e) == 400 * q + 100 * c + 4 * f + e

DaysBeforeMarch(q, c, f, e) == 146097 * q + 36524 * c + 1461 * f + 365 * e

IsPlaced(n, q, c, f, e, d) ==
    /\ q \in Nat /\ c \in 0..3 /\ f \in 0..24 /\ e \in 0..3 /\ d \in 1..366
    /\ n = DaysBeforeMarch(q, c, f, e) + d - 1
    /\ d = 366 => e = 3 /\ (f = 24 => c = 3)

Upto3(n) == IF n > 3 THEN 3 ELSE n

LEMMA DayIsPlaced ==
    ASSUME NEW n \in Nat
    PROVE  \E q, c, f, e, d : IsPlaced(n, q, c, f, e, d)
  <1> DEFINE q == n \div 146097
             r == n - 146097 * q
             k == r \div 36524
             c == Upto3(k)
             s == r - 36524 * c
             f == s \div 1461
             t == s - 1461 * f
             j == t \div 365
             e == Upto3(j)
             d == t - 365 * e + 1
  <1>1. q \in Nat /\ r \in Nat /\ r < 146097 /\ n = 146097 * q + r
    <2>1. q \in Nat /\ 146097 * q <= n /\ n < 146097 * q + 146097
      OBVIOUS
    <2> HIDE DEF q
    <2> QED BY <2>1
  <1> HIDE DEF q, r
  <1>2. k \in 0..4 /\ 36524 * k <= r /\ r < 36524 * (k + 1)
    BY <1>1
  <1> HIDE DEF k
  <1>3. /\ c \in 0..3 /\ s \in Nat /\ s <= 36524 /\ r = 36524 * c + s
        /\ c < 3 => s < 36524
    <2>1. /\ c \in 0..3 /\ 36524 * c <= r /\ r <= 36524 * c + 36524
          /\ c < 3 => r < 36524 * c + 36524
      BY <1>1, <1>2 DEF Upto3
    <2> HIDE DEF c
    <2> QED BY <1>1, <2>1
  <1> HIDE DEF c, s
  <1>4. f \in 0..24 /\ t \in Nat /\ t <= 1460 /\ s = 1461 * f + t
    BY <1>3
  <1> HIDE DEF f, t
  <1>5. j \in 0..4 /\ 365 * j <= t /\ t < 365 * (j + 1)
    BY <1>4
  <1> HIDE DEF j
  <1>6. /\ e \in 0..3 /\ d \in 1..366 /\ t = 365 * e + d - 1
        /\ d = 366 => e = 3
    BY <1>4, <1>5 DEF Upto3
  <1> HIDE DEF e, d
  <1>7. n = 146097 * q + 36524 * c + 1461 * f + 365 * e + d - 1
    BY <1>1, <1>3, <1>4, <1>6
  <1>8. d = 366 /\ f = 24 => c = 3
    BY <1>3, <1>4, <1>6
  <1>9. IsPlaced(n, q, c, f, e, d)
    BY <1>1, <1>3, <1>4, <1>6, <1>7, <1>8 DEF IsPlaced, DaysBeforeMarch
  <1> QED BY <1>9

(* The estimates of the code find these numbers.                           *)
LEMMA YearIsFound ==
    ASSUME NEW Z \in Nat \ {0},
           NEW q, NEW c, NEW f, NEW e, NEW d,
           IsPlaced(Z - 1, q, c, f, e, d)
    PROVE  LET A == Centuries(Z)
               B == A - (A \div 4)
               year == (100 * B + (100 * Z - 25)) \div 36525
           IN  /\ year = MarchYear(q, c, f, e)
               /\ (B + Z) - ((1461 * year) \div 4) = d
  <1> DEFINE A == Centuries(Z)
             B == A - (A \div 4)
             year == (100 * B + (100 * Z - 25)) \div 36525
             s == 1461 * f + 365 * e + d - 1
             t == 365 * e + d - 1
  <1>0. /\ q \in Nat /\ c \in 0..3 /\ f \in 0..24 /\ e \in 0..3
        /\ d \in 1..366
    BY DEF IsPlaced
  <1>1. /\ Z = 146097 * q + 36524 * c + 1461 * f + 365 * e + d
        /\ d = 366 => e = 3 /\ (f = 24 => c = 3)
    BY <1>0 DEF IsPlaced, DaysBeforeMarch
  <1>2. t \in Nat /\ t <= 1460 /\ s = 1461 * f + t
    BY <1>0, <1>1
  <1> HIDE DEF t
  <1>3. /\ s \in Nat /\ s <= 36524 /\ (c < 3 => s < 36524)
        /\ Z = 146097 * q + 36524 * c + s + 1
    <2>1. s \in Nat /\ s <= 36524
      BY <1>0, <1>2
    <2>2. c < 3 => s < 36524
      <3> SUFFICES ASSUME c < 3, s = 36524 PROVE FALSE
        BY <2>1
      <3>1. f = 24 /\ e = 3 /\ d = 366
        BY <1>0
      <3> QED BY <1>0, <1>1, <3>1
    <2> QED BY <1>0, <1>1, <2>1, <2>2
  <1> HIDE DEF s
  <1>4. A = 4 * q + c
    <2> DEFINE X == 4 * q + c
               R == 100 * s + 75 - 25 * c
    <2>1. 100 * Z - 25 = 3652425 * X + R
      BY <1>0, <1>3
    <2>2. X \in Nat /\ R \in Int /\ R >= 0 /\ R < 3652425
      <3>1. CASE c = 3
        BY <1>0, <1>3, <3>1
      <3>2. CASE c < 3
        BY <1>0, <1>3, <3>2
      <3> QED BY <1>0, <3>1, <3>2
    <2> HIDE DEF X, R
    <2>3. (3652425 * X + R) \div 3652425 = X
      BY <2>2
    <2> QED BY <2>1, <2>3 DEF Centuries, X
  <1> HIDE DEF A
  <1>5. B = 3 * q + c
    <2>1. c \in Nat /\ c < 4
      BY <1>0
    <2>2. (4 * q + c) \div 4 = q
      BY <1>0, <2>1
    <2> QED BY <1>0, <1>4, <2>2
  <1> HIDE DEF B
  <1>6. year = 400 * q + 100 * c + 4 * f + e
    <2> DEFINE X == 400 * q + 100 * c + 4 * f + e
               R == 100 * d - 25 * e - 25
    <2>1. 100 * B + (100 * Z - 25) = 36525 * X + R
      BY <1>0, <1>1, <1>5
    <2>2. X \in Nat /\ R \in Int /\ R >= 0 /\ R < 36525
      <3>1. CASE d = 366
        BY <1>0, <1>1, <3>1
      <3>2. CASE d # 366
        BY <1>0, <3>2
      <3> QED BY <3>1, <3>2
    <2> HIDE DEF X, R
    <2>3. (36525 * X + R) \div 36525 = X
      BY <2>2
    <2> QED BY <2>1, <2>3 DEF X
  <1> HIDE DEF year
  <1>7. (1461 * year) \div 4 = 146100 * q + 36525 * c + 1461 * f + 365 * e
    <2> DEFINE X == 146100 * q + 36525 * c + 1461 * f + 365 * e
    <2>1. 1461 * year = 4 * X + e
      BY <1>0, <1>6
    <2>2. X \in Nat
      BY <1>0
    <2> HIDE DEF X
    <2>3. e \in Nat /\ e < 4
      BY <1>0
    <2>4. (4 * X + e) \div 4 = X
      BY <2>2, <2>3
    <2> QED BY <2>1, <2>4 DEF X
  <1>8. (B + Z) - ((1461 * year) \div 4) = d
    BY <1>0, <1>1, <1>5, <1>7
  <1> QED BY <1>6, <1>8 DEF MarchYear, year, A, B

LEMMA QuotientsAndRests ==
    ASSUME NEW X \in Int, NEW R \in Nat
    PROVE  /\ R < 4 => (4 * X + R) \div 4 = X /\ (4 * X + R) % 4 = R
           /\ R < 100 => (100 * X + R) \div 100 = X /\ (100 * X + R) % 100 = R
           /\ R < 400 => (400 * X + R) \div 400 = X /\ (400 * X + R) % 400 = R
  OBVIOUS

(* What the calendar says of the year that starts in March, and of the one *)
(* before it and after it.                                                 *)
LEMMA CalendarOfYear ==
    ASSUME NEW n, NEW q, NEW c, NEW f, NEW e, NEW d,
           IsPlaced(n, q, c, f, e, d)
    PROVE  LET Y == MarchYear(q, c, f, e)
           IN  /\ Y \in Nat
               /\ DaysBeforeYear(Y + 1) = DaysBeforeMarch(q, c, f, e)
               /\ DaysBeforeYear(Y) + 59 + (IF IsLeap(Y) THEN 1 ELSE 0)
                      = DaysBeforeMarch(q, c, f, e) - 306
               /\ d = 366 => IsLeap(Y + 1)
  <1> DEFINE Y == MarchYear(q, c, f, e)
             D == DaysBeforeMarch(q, c, f, e)
  <1>1. /\ q \in Nat /\ c \in Nat /\ c < 4 /\ f \in Nat /\ f < 25
        /\ e \in Nat /\ e < 4
    BY DEF IsPlaced
  <1>2. /\ Y = 4 * (100 * q + 25 * c + f) + e
        /\ Y = 100 * (4 * q + c) + (4 * f + e)
        /\ Y = 400 * q + (100 * c + 4 * f + e)
    BY <1>1 DEF MarchYear
  <1>3. D = 146097 * q + 36524 * c + 1461 * f + 365 * e
    BY DEF DaysBeforeMarch
  <1> HIDE DEF Y, D
  <1>4. Y \in Nat /\ D \in Nat
    BY <1>1, <1>2, <1>3
  <1>5. Y \div 4 = 100 * q + 25 * c + f /\ Y % 4 = e
    <2> DEFINE X == 100 * q + 25 * c + f
    <2>1. X \in Int
      BY <1>1
    <2> HIDE DEF X
    <2>2. (4 * X + e) \div 4 = X /\ (4 * X + e) % 4 = e
      BY <1>1, <2>1, QuotientsAndRests
    <2> QED BY <1>2, <2>2 DEF X
  <1>6. Y \div 100 = 4 * q + c /\ Y % 100 = 4 * f + e
    <2> DEFINE X == 4 * q + c
               R == 4 * f + e
    <2>1. X \in Int /\ R \in Nat /\ R < 100
      BY <1>1
    <2> HIDE DEF X, R
    <2>2. (100 * X + R) \div 100 = X /\ (100 * X + R) % 100 = R
      BY <2>1, QuotientsAndRests
    <2> QED BY <1>2, <2>2 DEF X, R
  <1>7. Y \div 400 = q /\ Y % 400 = 100 * c + 4 * f + e
    <2> DEFINE R == 100 * c + 4 * f + e
    <2>1. q \in Int /\ R \in Nat /\ R < 400
      BY <1>1
    <2> HIDE DEF R
    <2>2. (400 * q + R) \div 400 = q /\ (400 * q + R) % 400 = R
      BY <2>1, QuotientsAndRests
    <2> QED BY <1>2, <2>2 DEF R
  <1>8. DaysBeforeYear(Y + 1) = D
    <2>1. (Y + 1) - 1 = Y
      BY <1>4
    <2>2. DaysBeforeYear(Y + 1)
              = 365 * Y + (Y \div 4) - (Y \div 100) + (Y \div 400)
      BY <2>1 DEF DaysBeforeYear
    <2>3. 365 * Y = 365 * (400 * q) + 365 * (100 * c) + 365 * (4 * f) + 365 * e
      BY <1>1, <1>2
    <2> QED BY <1>1, <1>3, <1>5, <1>6, <1>7, <2>2, <2>3
  <1>9. DaysBeforeYear(Y) + 59 + (IF IsLeap(Y) THEN 1 ELSE 0) = D - 306
    <2> DEFINE P == Y - 1
    <2>1. DaysBeforeYear(Y)
              = 365 * P + (P \div 4) - (P \div 100) + (P \div 400)
      BY DEF DaysBeforeYear
    <2>2. P \in Int /\ P = Y - 1
      BY <1>4
    <2> HIDE DEF P
    <2>3. 365 * P = 365 * (400 * q) + 365 * (100 * c) + 365 * (4 * f)
                    + 365 * e - 365
      BY <1>1, <1>2, <2>2
    <2> DEFINE j == IF e = 0 THEN 1 ELSE 0
               k == IF e = 0 /\ f = 0 THEN 1 ELSE 0
               l == IF e = 0 /\ f = 0 /\ c = 0 THEN 1 ELSE 0
               leap == IF IsLeap(Y) THEN 1 ELSE 0
    <2>4. P \div 4 = (Y \div 4) - j
      BY <1>1, <1>4, <1>5, <2>2
    <2>5. P \div 100 = (Y \div 100) - k
      BY <1>1, <1>4, <1>6, <2>2
    <2>6. P \div 400 = (Y \div 400) - l
      BY <1>1, <1>4, <1>7, <2>2
    <2>7. IsLeap(Y) <=> e = 0 /\ (f # 0 \/ c = 0)
      BY <1>1, <1>5, <1>6, <1>7 DEF IsLeap
    <2>8. /\ j \in Int /\ k \in Int /\ l \in Int /\ leap \in Int
          /\ leap = j - k + l
      BY <2>7
    <2> HIDE DEF j, k, l, leap
    <2>9. P \div 4 = 100 * q + 25 * c + f - j
      BY <1>1, <1>4, <1>5, <2>2, <2>4, <2>8
    <2>10. P \div 100 = 4 * q + c - k
      BY <1>1, <1>4, <1>6, <2>2, <2>5, <2>8
    <2>11. P \div 400 = q - l
      BY <1>1, <1>4, <1>7, <2>2, <2>6, <2>8
    <2>12. DaysBeforeYear(Y) + 59 + leap = D - 306
      BY <1>1, <1>3, <2>1, <2>3, <2>8, <2>9, <2>10, <2>11
    <2> QED BY <2>12 DEF leap
  <1>10. ASSUME d = 366 PROVE IsLeap(Y + 1)
    <2>1. e = 3 /\ (f = 24 => c = 3)
      BY <1>10 DEF IsPlaced
    <2>2. (Y + 1) % 4 = 0
      BY <1>4, <1>5, <2>1
    <2>3. CASE f = 24
      <3>1. (Y + 1) % 400 = 0
        BY <1>4, <1>7, <2>1, <2>3
      <3> QED BY <2>2, <3>1 DEF IsLeap
    <2>4. CASE f # 24
      <3>1. (Y + 1) % 100 # 0
        <4>1. Y % 100 = 4 * f + 3 /\ Y % 100 < 99
          BY <1>1, <1>6, <2>1, <2>4
        <4> QED BY <1>4, <4>1
      <3> QED BY <2>2, <3>1 DEF IsLeap
    <2> QED BY <2>3, <2>4
  <1> QED BY <1>4, <1>8, <1>9, <1>10 DEF Y, D

(* The estimate of the month, which counts from March, too, is right.      *)
LEMMA MonthIsFound ==
    ASSUME NEW d \in Nat, 1 <= d, d <= 366
    PROVE  LET month == (535 * d + 48950) \div 16384
           IN  /\ 0 < d /\ d <= 31 => month = 3
               /\ 31 < d /\ d <= 61 => month = 4
               /\ 61 < d /\ d <= 92 => month = 5
               /\ 92 < d /\ d <= 122 => month = 6
               /\ 122 < d /\ d <= 153 => month = 7
               /\ 153 < d /\ d <= 184 => month = 8
               /\ 184 < d /\ d <= 214 => month = 9
               /\ 214 < d /\ d <= 245 => month = 10
               /\ 245 < d /\ d <= 275 => month = 11
               /\ 275 < d /\ d <= 306 => month = 12
               /\ 306 < d /\ d <= 337 => month = 13
               /\ 337 < d /\ d <= 366 => month = 14
  OBVIOUS

LEMMA MonthsAreCounted ==
    ASSUME NEW y \in Nat
    PROVE  LET leap == IF IsLeap(y) THEN 1 ELSE 0
           IN  /\ DaysBeforeMonth(y, 1) = 0
               /\ DaysBeforeMonth(y, 2) = 31
               /\ DaysBeforeMonth(y, 3) = 59 + leap
               /\ DaysBeforeMonth(y, 4) = 90 + leap
               /\ DaysBeforeMonth(y, 5) = 120 + leap
               /\ DaysBeforeMonth(y, 6) = 151 + leap
               /\ DaysBeforeMonth(y, 7) = 181 + leap
               /\ DaysBeforeMonth(y, 8) = 212 + leap
               /\ DaysBeforeMonth(y, 9) = 243 + leap
               /\ DaysBeforeMonth(y, 10) = 273 + leap
               /\ DaysBeforeMonth(y, 11) = 304 + leap
               /\ DaysBeforeMonth(y, 12) = 334 + leap
  <1> DEFINE leap == IF IsLeap(y) THEN 1 ELSE 0
             T == [month : Nat, days : Nat]
             turn == [s \in T |-> [month |-> s.month + 1,
                                   days |-> s.days + MonthLength(y, s.month)]]
             start == [month |-> 1, days |-> 0]
             A == After(turn, start)
  <1>1. leap \in Nat
    OBVIOUS
  <1>2. /\ \A m \in Nat : MonthLength(y, m) \in Nat
        /\ MonthLength(y, 1) = 31 /\ MonthLength(y, 2) = 28 + leap
        /\ MonthLength(y, 3) = 31 /\ MonthLength(y, 4) = 30
        /\ MonthLength(y, 5) = 31 /\ MonthLength(y, 6) = 30
        /\ MonthLength(y, 7) = 31 /\ MonthLength(y, 8) = 31
        /\ MonthLength(y, 9) = 30 /\ MonthLength(y, 10) = 31
        /\ MonthLength(y, 11) = 30
    BY DEF MonthLength
  <1> HIDE DEF leap
  <1>3. turn \in [T -> T] /\ start \in T
    BY <1>2
  <1>4. \A m \in Nat, d \in Nat :
            turn[[month |-> m, days |-> d]]
                = [month |-> m + 1, days |-> d + MonthLength(y, m)]
    OBVIOUS
  <1>5. \A m \in 1..12 : DaysBeforeMonth(y, m) = A[m - 1].days
    BY DEF DaysBeforeMonth
  <1> HIDE DEF T, turn
  <1>6. Follows(A, T, turn, start)
    BY <1>3, LoopFollows
  <1> HIDE DEF A
  <1>7. A[0] = start /\ \A n \in Nat : A[n + 1] = turn[A[n]]
    BY <1>6 DEF Follows
  <1>8. ASSUME NEW i \in Nat, NEW j \in Nat, NEW d \in Nat, j = i + 1,
               A[i] = [month |-> j, days |-> d]
        PROVE  A[j] = [month |-> j + 1, days |-> d + MonthLength(y, j)]
    <2>1. A[i + 1] = turn[A[i]]
      BY <1>7
    <2> QED BY <1>4, <1>8, <2>1
  <1>9. A[0] = [month |-> 1, days |-> 0]
    BY <1>7
  <1>10. A[1] = [month |-> 2, days |-> 31]
    <2>1. A[1] = [month |-> 1 + 1, days |-> (0) + MonthLength(y, 1)]
      BY <1>1, <1>8, <1>9
    <2> QED BY <1>1, <1>2, <2>1
  <1>11. A[2] = [month |-> 3, days |-> 59 + leap]
    <2>1. A[2] = [month |-> 2 + 1, days |-> (31) + MonthLength(y, 2)]
      BY <1>1, <1>8, <1>10
    <2> QED BY <1>1, <1>2, <2>1
  <1>12. A[3] = [month |-> 4, days |-> 90 + leap]
    <2>1. A[3] = [month |-> 3 + 1, days |-> (59 + leap) + MonthLength(y, 3)]
      BY <1>1, <1>8, <1>11
    <2> QED BY <1>1, <1>2, <2>1
  <1>13. A[4] = [month |-> 5, days |-> 120 + leap]
    <2>1. A[4] = [month |-> 4 + 1, days |-> (90 + leap) + MonthLength(y, 4)]
      BY <1>1, <1>8, <1>12
    <2> QED BY <1>1, <1>2, <2>1
  <1>14. A[5] = [month |-> 6, days |-> 151 + leap]
    <2>1. A[5] = [month |-> 5 + 1, days |-> (120 + leap) + MonthLength(y, 5)]
      BY <1>1, <1>8, <1>13
    <2> QED BY <1>1, <1>2, <2>1
  <1>15. A[6] = [month |-> 7, days |-> 181 + leap]
    <2>1. A[6] = [month |-> 6 + 1, days |-> (151 + leap) + MonthLength(y, 6)]
      BY <1>1, <1>8, <1>14
    <2> QED BY <1>1, <1>2, <2>1
  <1>16. A[7] = [month |-> 8, days |-> 212 + leap]
    <2>1. A[7] = [month |-> 7 + 1, days |-> (181 + leap) + MonthLength(y, 7)]
      BY <1>1, <1>8, <1>15
    <2> QED BY <1>1, <1>2, <2>1
  <1>17. A[8] = [month |-> 9, days |-> 243 + leap]
    <2>1. A[8] = [month |-> 8 + 1, days |-> (212 + leap) + MonthLength(y, 8)]
      BY <1>1, <1>8, <1>16
    <2> QED BY <1>1, <1>2, <2>1
  <1>18. A[9] = [month |-> 10, days |-> 273 + leap]
    <2>1. A[9] = [month |-> 9 + 1, days |-> (243 + leap) + MonthLength(y, 9)]
      BY <1>1, <1>8, <1>17
    <2> QED BY <1>1, <1>2, <2>1
  <1>19. A[10] = [month |-> 11, days |-> 304 + leap]
    <2>1. A[10] = [month |-> 10 + 1,
                   days |-> (273 + leap) + MonthLength(y, 10)]
      BY <1>1, <1>8, <1>18
    <2> QED BY <1>1, <1>2, <2>1
  <1>20. A[11] = [month |-> 12, days |-> 334 + leap]
    <2>1. A[11] = [month |-> 11 + 1,
                   days |-> (304 + leap) + MonthLength(y, 11)]
      BY <1>1, <1>8, <1>19
    <2> QED BY <1>1, <1>2, <2>1
  <1> QED
    BY <1>5, <1>9, <1>10, <1>11, <1>12, <1>13, <1>14, <1>15, <1>16, <1>17,
       <1>18, <1>19, <1>20 DEF leap

(* A day of a year that starts in March has the date the code computes.    *)
DateOf(Y, d) ==
    LET month == (535 * d + 48950) \div 16384
    IN  IF month > 12 THEN [y |-> Y + 1, m |-> month - 12]
        ELSE [y |-> Y, m |-> month]

LEMMA DayHasDate ==
    ASSUME NEW Y \in Nat, NEW D \in Nat, NEW d \in Nat, 1 <= d, d <= 366,
           DaysBeforeYear(Y + 1) = D,
           DaysBeforeYear(Y) + 59 + (IF IsLeap(Y) THEN 1 ELSE 0) = D - 306,
           d = 366 => IsLeap(Y + 1)
    PROVE  LET y == DateOf(Y, d).y
               m == DateOf(Y, d).m
           IN  /\ m \in 1..12
               /\ y = IF d > 306 THEN Y + 1 ELSE Y
               /\ d <= 31 + DayOffset[m]
               /\ d - DayOffset[m] \in 1..MonthLength(y, m)
               /\ DayNumber(y, m, d - DayOffset[m]) = D + d - 306
  <1> DEFINE month == (535 * d + 48950) \div 16384
             y == DateOf(Y, d).y
             m == DateOf(Y, d).m
             leap == IF IsLeap(Y) THEN 1 ELSE 0
             rest == d - DayOffset[m]
             Shown == /\ m \in 1..12
                      /\ y = IF d > 306 THEN Y + 1 ELSE Y
                      /\ d <= 31 + DayOffset[m]
                      /\ rest \in 1..MonthLength(y, m)
                      /\ DayNumber(y, m, rest) = D + d - 306
  <1> SUFFICES Shown
    OBVIOUS
  <1>1. /\ month > 12 => y = Y + 1 /\ m = month - 12
        /\ month <= 12 => y = Y /\ m = month
    BY DEF DateOf
  <1>2. leap \in Nat /\ DaysBeforeYear(Y) = D - 306 - 59 - leap
    <2>1. DaysBeforeYear(Y) \in Int
      BY DEF DaysBeforeYear
    <2> QED BY <2>1
  <1> HIDE DEF y, m, leap
  <1>3. CASE 0 < d /\ d <= 31
    <2>1. month = 3
      BY <1>3, MonthIsFound
    <2> HIDE DEF month
    <2>2. m = 3 /\ y = Y
      BY <1>1, <2>1
    <2>3. DayOffset[3] = 0
      BY DEF DayOffset
    <2>4. DaysBeforeMonth(Y, 3) = 59 + leap
      BY MonthsAreCounted DEF leap
    <2>5. MonthLength(Y, 3) = 31
      BY DEF MonthLength
    <2>6. rest = d - 0
      BY <2>2, <2>3
    <2> HIDE DEF rest
    <2>7. DayNumber(Y, 3, d - 0) = D + d - 306
      BY <1>2, <2>4 DEF DayNumber
    <2> QED BY <1>3, <2>2, <2>3, <2>5, <2>6, <2>7
  <1>4. CASE 31 < d /\ d <= 61
    <2>1. month = 4
      BY <1>4, MonthIsFound
    <2> HIDE DEF month
    <2>2. m = 4 /\ y = Y
      BY <1>1, <2>1
    <2>3. DayOffset[4] = 31
      BY DEF DayOffset
    <2>4. DaysBeforeMonth(Y, 4) = 90 + leap
      BY MonthsAreCounted DEF leap
    <2>5. MonthLength(Y, 4) = 30
      BY DEF MonthLength
    <2>6. rest = d - 31
      BY <2>2, <2>3
    <2> HIDE DEF rest
    <2>7. DayNumber(Y, 4, d - 31) = D + d - 306
      BY <1>2, <2>4 DEF DayNumber
    <2> QED BY <1>4, <2>2, <2>3, <2>5, <2>6, <2>7
  <1>5. CASE 61 < d /\ d <= 92
    <2>1. month = 5
      BY <1>5, MonthIsFound
    <2> HIDE DEF month
    <2>2. m = 5 /\ y = Y
      BY <1>1, <2>1
    <2>3. DayOffset[5] = 61
      BY DEF DayOffset
    <2>4. DaysBeforeMonth(Y, 5) = 120 + leap
      BY MonthsAreCounted DEF leap
    <2>5. MonthLength(Y, 5) = 31
      BY DEF MonthLength
    <2>6. rest = d - 61
      BY <2>2, <2>3
    <2> HIDE DEF rest
    <2>7. DayNumber(Y, 5, d - 61) = D + d - 306
      BY <1>2, <2>4 DEF DayNumber
    <2> QED BY <1>5, <2>2, <2>3, <2>5, <2>6, <2>7
  <1>6. CASE 92 < d /\ d <= 122
    <2>1. month = 6
      BY <1>6, MonthIsFound
    <2> HIDE DEF month
    <2>2. m = 6 /\ y = Y
      BY <1>1, <2>1
    <2>3. DayOffset[6] = 92
      BY DEF DayOffset
    <2>4. DaysBeforeMonth(Y, 6) = 151 + leap
      BY MonthsAreCounted DEF leap
    <2>5. MonthLength(Y, 6) = 30
      BY DEF MonthLength
    <2>6. rest = d - 92
      BY <2>2, <2>3
    <2> HIDE DEF rest
    <2>7. DayNumber(Y, 6, d - 92) = D + d - 306
      BY <1>2, <2>4 DEF DayNumber
    <2> QED BY <1>6, <2>2, <2>3, <2>5, <2>6, <2>7
  <1>7. CASE 122 < d /\ d <= 153
    <2>1. month = 7
      BY <1>7, MonthIsFound
    <2> HIDE DEF month
    <2>2. m = 7 /\ y = Y
      BY <1>1, <2>1
    <2>3. DayOffset[7] = 122
      BY DEF DayOffset
    <2>4. DaysBeforeMonth(Y, 7) = 181 + leap
      BY MonthsAreCounted DEF leap
    <2>5. MonthLength(Y, 7) = 31
      BY DEF MonthLength
    <2>6. rest = d - 122
      BY <2>2, <2>3
    <2> HIDE DEF rest
    <2>7. DayNumber(Y, 7, d - 122) = D + d - 306
      BY <1>2, <2>4 DEF DayNumber
    <2> QED BY <1>7, <2>2, <2>3, <2>5, <2>6, <2>7
  <1>8. CASE 153 < d /\ d <= 184
    <2>1. month = 8
      BY <1>8, MonthIsFound
    <2> HIDE DEF month
    <2>2. m = 8 /\ y = Y
      BY <1>1, <2>1
    <2>3. DayOffset[8] = 153
      BY DEF DayOffset
    <2>4. DaysBeforeMonth(Y, 8) = 212 + leap
      BY MonthsAreCounted DEF leap
    <2>5. MonthLength(Y, 8) = 31
      BY DEF MonthLength
    <2>6. rest = d - 153
      BY <2>2, <2>3
    <2> HIDE DEF rest
    <2>7. DayNumber(Y, 8, d - 153) = D + d - 306
      BY <1>2, <2>4 DEF DayNumber
    <2> QED BY <1>8, <2>2, <2>3, <2>5, <2>6, <2>7
  <1>9. CASE 184 < d /\ d <= 214
    <2>1. month = 9
      BY <1>9, MonthIsFound
    <2> HIDE DEF month
    <2>2. m = 9 /\ y = Y
      BY <1>1, <2>1
    <2>3. DayOffset[9] = 184
      BY DEF DayOffset
    <2>4. DaysBeforeMonth(Y, 9) = 243 + leap
      BY MonthsAreCounted DEF leap
    <2>5. MonthLength(Y, 9) = 30
      BY DEF MonthLength
    <2>6. rest = d - 184
      BY <2>2, <2>3
    <2> HIDE DEF rest
    <2>7. DayNumber(Y, 9, d - 184) = D + d - 306
      BY <1>2, <2>4 DEF DayNumber
    <2> QED BY <1>9, <2>2, <2>3, <2>5, <2>6, <2>7
  <1>10. CASE 214 < d /\ d <= 245
    <2>1. month = 10
      BY <1>10, MonthIsFound
    <2> HIDE DEF month
    <2>2. m = 10 /\ y = Y
      BY <1>1, <2>1
    <2>3. DayOffset[10] = 214
      BY DEF DayOffset
    <2>4. DaysBeforeMonth(Y, 10) = 273 + leap
      BY MonthsAreCounted DEF leap
    <2>5. MonthLength(Y, 10) = 31
      BY DEF MonthLength
    <2>6. rest = d - 214
      BY <2>2, <2>3
    <2> HIDE DEF rest
    <2>7. DayNumber(Y, 10, d - 214) = D + d - 306
      BY <1>2, <2>4 DEF DayNumber
    <2> QED BY <1>10, <2>2, <2>3, <2>5, <2>6, <2>7
  <1>11. CASE 245 < d /\ d <= 275
    <2>1. month = 11
      BY <1>11, MonthIsFound
    <2> HIDE DEF month
    <2>2. m = 11 /\ y = Y
      BY <1>1, <2>1
    <2>3. DayOffset[11] = 245
      BY DEF DayOffset
    <2>4. DaysBeforeMonth(Y, 11) = 304 + leap
      BY MonthsAreCounted DEF leap
    <2>5. MonthLength(Y, 11) = 30
      BY DEF MonthLength
    <2>6. rest = d - 245
      BY <2>2, <2>3
    <2> HIDE DEF rest
    <2>7. DayNumber(Y, 11, d - 245) = D + d - 306
      BY <1>2, <2>4 DEF DayNumber
    <2> QED BY <1>11, <2>2, <2>3, <2>5, <2>6, <2>7
  <1>12. CASE 275 < d /\ d <= 306
    <2>1. month = 12
      BY <1>12, MonthIsFound
    <2> HIDE DEF month
    <2>2. m = 12 /\ y = Y
      BY <1>1, <2>1
    <2>3. DayOffset[12] = 275
      BY DEF DayOffset
    <2>4. DaysBeforeMonth(Y, 12) = 334 + leap
      BY MonthsAreCounted DEF leap
    <2>5. MonthLength(Y, 12) = 31
      BY DEF MonthLength
    <2>6. rest = d - 275
      BY <2>2, <2>3
    <2> HIDE DEF rest
    <2>7. DayNumber(Y, 12, d - 275) = D + d - 306
      BY <1>2, <2>4 DEF DayNumber
    <2> QED BY <1>12, <2>2, <2>3, <2>5, <2>6, <2>7
  <1>13. CASE 306 < d /\ d <= 337
    <2>1. month = 13
      BY <1>13, MonthIsFound
    <2> HIDE DEF month
    <2>2. m = 1 /\ y = Y + 1
      BY <1>1, <2>1
    <2>3. DayOffset[1] = 306
      BY DEF DayOffset
    <2>4. DaysBeforeMonth(Y + 1, 1) = 0
      BY MonthsAreCounted
    <2>5. MonthLength(Y + 1, 1) = 31
      BY DEF MonthLength
    <2>6. rest = d - 306
      BY <2>2, <2>3
    <2> HIDE DEF rest
    <2>7. DayNumber(Y + 1, 1, d - 306) = D + d - 306
      BY <1>2, <2>4 DEF DayNumber
    <2> QED BY <1>13, <2>2, <2>3, <2>5, <2>6, <2>7
  <1>14. CASE 337 < d /\ d <= 366
    <2>1. month = 14
      BY <1>14, MonthIsFound
    <2> HIDE DEF month
    <2>2. m = 2 /\ y = Y + 1
      BY <1>1, <2>1
    <2>3. DayOffset[2] = 337
      BY DEF DayOffset
    <2>4. DaysBeforeMonth(Y + 1, 2) = 31
      BY MonthsAreCounted
    <2>5. /\ MonthLength(Y + 1, 2) \in 28..29
          /\ d = 366 => MonthLength(Y + 1, 2) = 29
      BY DEF MonthLength
    <2>6. rest = d - 337
      BY <2>2, <2>3
    <2> HIDE DEF rest
    <2>7. DayNumber(Y + 1, 2, d - 337) = D + d - 306
      BY <1>2, <2>4 DEF DayNumber
    <2> QED BY <1>14, <2>2, <2>3, <2>5, <2>6, <2>7
  <1> QED BY <1>3, <1>4, <1>5, <1>6, <1>7, <1>8, <1>9, <1>10, <1>11, <1>12,
             <1>13, <1>14

(* The day is shown with its date, or behind the year 9999 not at all.     *)
LEMMA DateIsFound ==
    ASSUME NEW day \in Nat
    PROVE  LET date == rdn_to_ymd(day)
           IN  IF day > DaysBeforeYear(10000) THEN date.rc # 0
               ELSE /\ date.rc = 0
                    /\ date.m \in 1..12
                    /\ date.d \in 1..MonthLength(date.y, date.m)
                    /\ DayNumber(date.y, date.m, date.d) = day
  <1> DEFINE Z == day + 306
             A == Centuries(Z)
             B == A - (A \div 4)
             year == (100 * B + (100 * Z - 25)) \div 36525
             days == (B + Z) - ((1461 * year) \div 4)
             date == rdn_to_ymd(day)
             IsRight == IF day > DaysBeforeYear(10000) THEN date.rc # 0
                        ELSE /\ date.rc = 0
                             /\ date.m \in 1..12
                             /\ date.d \in 1..MonthLength(date.y, date.m)
                             /\ DayNumber(date.y, date.m, date.d) = day
  <1> SUFFICES IsRight
    OBVIOUS
  <1>1. Z \in Nat \ {0} /\ Z - 1 \in Nat /\ Z - 1 = day + 305
    OBVIOUS
  <1>2. date = LET m == DateOf(year, days).m
                   y == DateOf(year, days).y
               IN  IF y > 9999 \/ m > 12 \/ days > 31 + DayOffset[m]
                   THEN NoDate ELSE Date(y, m, days - DayOffset[m])
    <2> DEFINE month == (535 * days + 48950) \div 16384
    <2> HIDE DEF Z, A, B, year, days, month
    <2>1. DateOf(year, days) = IF month > 12
                               THEN [y |-> year + 1, m |-> month - 12]
                               ELSE [y |-> year, m |-> month]
      BY DEF DateOf, month
    <2>2. date = LET y == IF month > 12 THEN year + 1 ELSE year
                     m == IF month > 12 THEN month - 12 ELSE month
                 IN  IF y > 9999 \/ m > 12 \/ days > 31 + DayOffset[m]
                     THEN NoDate ELSE Date(y, m, days - DayOffset[m])
      BY ONLY DEF rdn_to_ymd, date, month, days, year, B, A, Z
    <2> QED BY <2>1, <2>2
  <1>3. PICK q, c, f, e, d : IsPlaced(Z - 1, q, c, f, e, d)
    BY <1>1, DayIsPlaced
  <1> DEFINE Y == MarchYear(q, c, f, e)
             D == DaysBeforeMarch(q, c, f, e)
  <1>4. year = Y /\ days = d
    <2> HIDE DEF Z, Y
    <2> QED BY <1>1, <1>3, YearIsFound DEF Y
  <1> HIDE DEF Z, A, B, year, days, date
  <1>5. /\ q \in Nat /\ c \in Nat /\ c < 4 /\ f \in Nat /\ f < 25
        /\ e \in Nat /\ e < 4 /\ d \in Nat /\ 1 <= d /\ d <= 366
        /\ day = D + d - 306
    <2>1. Z - 1 = D + d - 1 /\ D \in Nat
      BY <1>3 DEF IsPlaced, DaysBeforeMarch
    <2> HIDE DEF D
    <2>2. /\ q \in Nat /\ c \in Nat /\ c < 4 /\ f \in Nat /\ f < 25
          /\ e \in Nat /\ e < 4 /\ d \in Nat /\ 1 <= d /\ d <= 366
      BY <1>3 DEF IsPlaced
    <2>3. day = D + d - 306
      BY <1>1, <2>1, <2>2 DEF Z
    <2> QED BY <2>2, <2>3
  <1>6. /\ Y \in Nat /\ D \in Nat
        /\ DaysBeforeYear(Y + 1) = D
        /\ DaysBeforeYear(Y) + 59 + (IF IsLeap(Y) THEN 1 ELSE 0) = D - 306
        /\ d = 366 => IsLeap(Y + 1)
    <2>1. D \in Nat
      BY <1>5 DEF DaysBeforeMarch
    <2> QED BY <1>3, <2>1, CalendarOfYear
  <1>7. /\ Y = 400 * q + 100 * c + 4 * f + e
        /\ D = 146097 * q + 36524 * c + 1461 * f + 365 * e
    BY DEF MarchYear, DaysBeforeMarch
  <1> HIDE DEF Y, D
  <1> DEFINE y == DateOf(Y, d).y
             m == DateOf(Y, d).m
             rest == d - DayOffset[m]
  <1>8. /\ m \in 1..12
        /\ y = IF d > 306 THEN Y + 1 ELSE Y
        /\ d <= 31 + DayOffset[m]
        /\ rest \in 1..MonthLength(y, m)
        /\ DayNumber(y, m, rest) = day
    BY <1>5, <1>6, DayHasDate
  <1>9. day > DaysBeforeYear(10000) <=> y > 9999
    <2>1. DaysBeforeYear(10000) = 3652059
      BY DEF DaysBeforeYear
    <2> HIDE DEF y, m, rest
    <2>2. CASE q > 24
      <3>1. D >= 3652425 /\ Y >= 10000
        BY <1>5, <1>7, <2>2
      <3>2. y > 9999
        BY <1>6, <1>8, <3>1
      <3> QED BY <1>5, <1>6, <2>1, <3>1, <3>2
    <2>3. CASE q <= 24 /\ Y = 9999
      <3>1. q = 24 /\ c = 3 /\ f = 24 /\ e = 3
        BY <1>5, <1>7, <2>3
      <3>2. D = 3652059
        BY <1>7, <3>1
      <3>3. day > 3652059 <=> d > 306
        BY <1>5, <3>2
      <3>4. y > 9999 <=> d > 306
        BY <1>8, <2>3
      <3> QED BY <2>1, <3>3, <3>4
    <2>4. CASE q <= 24 /\ Y # 9999
      <3>1. Y < 9999
        BY <1>5, <1>6, <1>7, <2>4
      <3>2. D <= 3652059 - 365
        BY <1>5, <1>7, <3>1
      <3>3. day <= 3652059
        BY <1>5, <1>6, <3>2
      <3>4. y <= 9999
        BY <1>6, <1>8, <3>1
      <3> QED BY <1>5, <1>6, <1>8, <2>1, <3>3, <3>4
    <2> QED BY <1>5, <2>2, <2>3, <2>4
  <1>10. date = IF y > 9999 \/ m > 12 \/ d > 31 + DayOffset[m]
                THEN NoDate ELSE Date(y, m, rest)
    BY <1>2, <1>4
  <1>11. ~(m > 12) /\ ~(d > 31 + DayOffset[m])
    <2>1. DayOffset[m] \in Nat
      BY <1>8 DEF DayOffset
    <2> HIDE DEF m
    <2> QED BY <1>5, <1>8, <2>1
  <1> HIDE DEF y, m, rest
  <1>12. CASE y > 9999
    <2>1. date = NoDate
      BY <1>10, <1>12
    <2> QED BY <1>9, <1>12, <2>1 DEF NoDate
  <1>13. CASE ~(y > 9999)
    <2>1. date = Date(y, m, rest)
      BY <1>10, <1>11, <1>13
    <2>2. date.rc = 0 /\ date.y = y /\ date.m = m /\ date.d = rest
      BY <2>1 DEF Date
    <2> QED BY <1>8, <1>9, <1>13, <2>2
  <1> QED BY <1>12, <1>13

LEMMA PartsOfDivision ==
    ASSUME NEW d \in Nat \ {0}, NEW x \in Nat
    PROVE  /\ x \div d \in Nat /\ x % d \in Nat /\ x % d < d
           /\ x = d * (x \div d) + (x % d)
  <1> DEFINE q == x \div d
             r == x % d
  <1>1. x = d * q + r /\ q \in Nat
    OBVIOUS
  <1>2. r \in Nat /\ r < d
    BY RemainderIsSmall
  <1> HIDE DEF q, r
  <1> QED BY <1>1, <1>2 DEF q, r

(* The digits of the time of a day.                                        *)
LEMMA TimeIsFound ==
    ASSUME NEW second \in Nat, second < 86400
    PROVE  LET t == TimeDigits(second)
           IN  /\ t[1] * 10 + t[2] < 24
               /\ t[3] < 6
               /\ t[5] < 6
               /\ ((t[1] * 10 + t[2]) * 60 + t[3] * 10 + t[4]) * 60
                      + t[5] * 10 + t[6] = second
  <1> DEFINE t == TimeDigits(second)
             s10 == second \div 10
             minutes == s10 \div 6
             m10 == minutes \div 10
             hours == m10 \div 6
             h == hours \div 10
  <1>1. /\ t[1] = h % 10 /\ t[2] = hours % 10 /\ t[3] = m10 % 6
        /\ t[4] = minutes % 10 /\ t[5] = s10 % 6 /\ t[6] = second % 10
    BY DEF TimeDigits
  <1> DEFINE r1 == second % 10
             r2 == s10 % 6
             r3 == minutes % 10
             r4 == m10 % 6
             r5 == hours % 10
  <1>2. s10 \in Nat /\ r1 \in Nat /\ second = 10 * s10 + r1
    BY PartsOfDivision
  <1> HIDE DEF t, s10, r1
  <1>3. /\ minutes \in Nat /\ r2 \in Nat /\ r2 < 6
        /\ s10 = 6 * minutes + r2
    BY <1>2, PartsOfDivision
  <1> HIDE DEF minutes, r2
  <1>4. m10 \in Nat /\ r3 \in Nat /\ minutes = 10 * m10 + r3
    BY <1>3, PartsOfDivision
  <1> HIDE DEF m10, r3
  <1>5. hours \in Nat /\ r4 \in Nat /\ r4 < 6 /\ m10 = 6 * hours + r4
    BY <1>4, PartsOfDivision
  <1> HIDE DEF hours, r4
  <1>6. h \in Nat /\ r5 \in Nat /\ hours = 10 * h + r5
    BY <1>5, PartsOfDivision
  <1> HIDE DEF r5
  <1>7. hours < 24
    BY <1>2, <1>3, <1>4, <1>5
  <1> HIDE DEF h
  <1>8. h % 10 = h
    <2>1. h < 10
      BY <1>6, <1>7
    <2> QED BY <1>6, <2>1, RemainderIsSmall
  <1>9. /\ t[1] = h /\ t[2] = r5 /\ t[3] = r4 /\ t[4] = r3
        /\ t[5] = r2 /\ t[6] = r1
    BY <1>1, <1>8 DEF r1, r2, r3, r4, r5
  <1>10. second = ((h * 10 + r5) * 60 + r4 * 10 + r3) * 60 + r2 * 10 + r1
    BY <1>2, <1>3, <1>4, <1>5, <1>6
  <1> QED BY <1>3, <1>5, <1>6, <1>7, <1>9, <1>10 DEF t

(* A day is shown as the date it has in the calendar, with its leap years, *)
(* a day behind the year 9999 not at all, and the seconds of the day as    *)
(* its hours, minutes and seconds (rfc3339.c:61).                          *)
THEOREM EveryDateIsExact == LibrarySpec => []DateIsExact
  <1>1. LibraryInit => DateIsExact
    BY DEF LibraryInit, NoCall, DateIsExact, Is
  <1>2. DateIsExact /\ [LibraryNext]_library => DateIsExact'
    <2> SUFFICES ASSUME DateIsExact, [LibraryNext]_library
                 PROVE  DateIsExact'
      OBVIOUS
    <2>1. CASE UNCHANGED library
      BY <2>1 DEF library, DateIsExact, Is, given
    <2>2. CASE LibraryNext
      <3> SUFFICES ASSUME Is("rfc3339_format")' PROVE DateIsExact'
        BY DEF DateIsExact
      <3>1. PICK c \in DateCalls : FormatTimestamp(c)
        BY <2>2, NameTellsCall DEF Is
      <3>2. c.day \in Nat /\ c.second \in Nat /\ c.second < 86400
        <4>1. c.day \in Days /\ c.second \in Seconds
          BY LibraryAssumption
        <4> QED BY ONLY <4>1 DEF Days, Seconds
      <3>3. /\ call'.with = c
            /\ reply'.rc = rdn_to_ymd(c.day).rc
            /\ reply'.date = rdn_to_ymd(c.day)
            /\ reply'.time = TimeDigits(c.second)
        BY <3>1 DEF FormatTimestamp, Called
      <3> QED BY <3>2, <3>3, DateIsFound, TimeIsFound DEF DateIsExact, given
    <2> QED BY <2>1, <2>2
  <1> QED BY <1>1, <1>2, PTL DEF LibrarySpec
=============================================================================
