---------------------------- MODULE DisplayProof ----------------------------
(***************************************************************************)
(* Proofs about what is displayed.  The text of every key of at most 32    *)
(* bytes in base 58 (encode_base58) fits the buffers the application keeps *)
(* for it, its characters are of the alphabet, and decoding it gives the   *)
(* key back; with that, what the display of a key and CHECK_ADDRESS        *)
(* return.  And whatever a printer writes stays in its buffer.             *)
(***************************************************************************)
EXTENDS LibraryProof

-----------------------------------------------------------------------------
(* Numbers in any base.                                                    *)

Power(base) == After([x \in Nat |-> base * x], 1)

LEMMA PowerGrows ==
    ASSUME NEW base \in Nat
    PROVE  /\ Power(base)[0] = 1
           /\ \A k \in Nat : /\ Power(base)[k] \in Nat
                             /\ Power(base)[k + 1] = base * Power(base)[k]
  <1> DEFINE T == Nat
             turn == [x \in T |-> base * x]
  <1>0. 1 \in T
    OBVIOUS
  <1>1. turn \in [T -> T]
    OBVIOUS
  <1>2. \A x \in Nat : turn[x] = base * x
    OBVIOUS
  <1>3. Power(base) = After(turn, 1)
    BY DEF Power
  <1> HIDE DEF turn, T
  <1>4. Follows(After(turn, 1), T, turn, 1)
    BY <1>0, <1>1, LoopFollows
  <1> QED BY <1>2, <1>3, <1>4 DEF T, Follows

(* A sequence is empty or has a last element behind the others.            *)
LEMMA LastIsBehind ==
    ASSUME NEW S, NEW s \in Seq(S), NEW n \in Nat, Len(s) = n + 1
    PROVE  /\ SubSeq(s, 1, n) \in Seq(S) /\ Len(SubSeq(s, 1, n)) = n
           /\ s[n + 1] \in S
           /\ s = Append(SubSeq(s, 1, n), s[n + 1])
  OBVIOUS

LEMMA BeginningGrows ==
    ASSUME NEW S, NEW s \in Seq(S)
    PROVE  /\ SubSeq(s, 1, 0) = <<>> /\ SubSeq(s, 1, Len(s)) = s
           /\ Len(s) \in Nat
           /\ \A n \in Nat : n + 1 <= Len(s) =>
                  /\ SubSeq(s, 1, n) \in Seq(S) /\ Len(SubSeq(s, 1, n)) = n
                  /\ s[n + 1] \in S
                  /\ SubSeq(s, 1, n + 1) = Append(SubSeq(s, 1, n), s[n + 1])
  OBVIOUS

LEMMA SequenceIsSplit ==
    ASSUME NEW S, NEW s \in Seq(S), NEW k \in 0..Len(s)
    PROVE  LET a == SubSeq(s, 1, k)
               b == SubSeq(s, k + 1, Len(s))
           IN  /\ a \in Seq(S) /\ Len(a) = k
               /\ b \in Seq(S) /\ Len(b) = Len(s) - k
               /\ \A i \in 1..k : a[i] = s[i]
               /\ \A i \in 1..(Len(s) - k) : b[i] = s[k + i]
               /\ s = a \o b
  <1> DEFINE a == SubSeq(s, 1, k)
             b == SubSeq(s, k + 1, Len(s))
  <1>1. /\ a \in Seq(S) /\ Len(a) = k
        /\ \A i \in 1..k : a[i] = s[i]
    OBVIOUS
  <1>2. /\ b \in Seq(S) /\ Len(b) = Len(s) - k
        /\ \A i \in 1..(Len(s) - k) : b[i] = s[k + i]
    OBVIOUS
  <1>3. s = a \o b
    <2> DEFINE c == a \o b
    <2>0. k \in Nat /\ k <= Len(s) /\ Len(s) \in Nat
      OBVIOUS
    <2> HIDE DEF a, b
    <2>1. /\ c \in Seq(S) /\ Len(c) = Len(a) + Len(b)
          /\ \A i \in 1..Len(a) : c[i] = a[i]
          /\ \A i \in 1..Len(b) : c[Len(a) + i] = b[i]
      BY <1>1, <1>2, TwoParts
    <2> HIDE DEF c
    <2>2. ASSUME NEW i \in 1..Len(s) PROVE c[i] = s[i]
      <3>1. CASE i <= k
        BY <1>1, <2>0, <2>1, <3>1
      <3>2. CASE i > k
        <4>1. i - k \in 1..(Len(s) - k) /\ i = k + (i - k)
          BY <2>0, <3>2
        <4>2. c[k + (i - k)] = b[i - k]
          BY <1>1, <1>2, <2>1, <4>1
        <4>3. b[i - k] = s[k + (i - k)]
          BY <1>2, <4>1
        <4> QED BY <4>1, <4>2, <4>3
      <3> QED BY <2>0, <3>1, <3>2
    <2>3. Len(c) = Len(s)
      BY <1>1, <1>2, <2>0, <2>1
    <2>4. c = s
      BY <2>1, <2>2, <2>3
    <2> QED BY <2>4 DEF c
  <1> QED BY <1>1, <1>2, <1>3

(* Every number of a sequence of digits is that of all but the last, with  *)
(* the last behind it.                                                     *)
LEMMA ValueIsNumber ==
    ASSUME NEW base \in Nat
    PROVE  /\ ValueOf(<<>>, base) = 0
           /\ \A s \in Seq(Nat) : ValueOf(s, base) \in Nat
           /\ \A s \in Seq(Nat), d \in Nat :
                  ValueOf(Append(s, d), base) = ValueOf(s, base) * base + d
  <1> DEFINE Values(s) == [k \in 0..Len(s) |-> ValueLoop(s, base)[k].value]
  <1>1. ASSUME NEW s \in Seq(Nat)
        PROVE  /\ Values(s) \in [0..Len(s) -> Nat] /\ Values(s)[0] = 0
               /\ \A k \in 0..(Len(s) - 1) :
                      Values(s)[k + 1] = Values(s)[k] * base + s[k + 1]
               /\ ValueOf(s, base) = Values(s)[Len(s)]
    <2> DEFINE A == ValueLoop(s, base)
    <2>1. /\ A[0] = [read |-> 0, value |-> 0]
          /\ \A n \in Nat :
                 /\ A[n] \in [read : Nat, value : Nat]
                 /\ A[n].read < Len(s) =>
                        A[n + 1] = [read |-> A[n].read + 1,
                                    value |-> A[n].value * base
                                              + s[A[n].read + 1]]
      BY DigitsAreRead
    <2>2. Values(s) = [k \in 0..Len(s) |-> A[k].value]
      OBVIOUS
    <2>3. ValueOf(s, base) = A[Len(s)].value
      BY DEF ValueOf
    <2> DEFINE N == Len(s)
    <2>4. N \in Nat
      OBVIOUS
    <2> DEFINE R == {k \in Nat : k <= N => A[k].read = k}
    <2> HIDE DEF A
    <2>5. 0 \in R
      BY <2>1
    <2>6. ASSUME NEW k \in Nat, k \in R PROVE k + 1 \in R
      <3> SUFFICES ASSUME k + 1 <= N PROVE A[k + 1].read = k + 1
        OBVIOUS
      <3>1. A[k].read = k /\ k < N
        BY <2>4, <2>6
      <3>2. A[k + 1] = [read |-> k + 1, value |-> A[k].value * base + s[k + 1]]
        BY <2>1, <3>1
      <3> QED BY <3>2
    <2>7. Nat \subseteq R
      <3> HIDE DEF R
      <3> QED BY <2>5, <2>6, SetInduction
    <2>8. ASSUME NEW k \in 0..N PROVE A[k].read = k /\ A[k].value \in Nat
      <3>1. k \in Nat /\ k <= N
        BY <2>4
      <3>2. A[k] \in [read : Nat, value : Nat]
        BY <2>1, <3>1
      <3>3. k \in R
        BY <2>7, <3>1
      <3>4. A[k].read = k
        BY <3>1, <3>3
      <3> QED BY <3>2, <3>4
    <2>9. ASSUME NEW k \in 0..(N - 1)
          PROVE  A[k + 1].value = A[k].value * base + s[k + 1]
      <3>1. k \in 0..N /\ k \in Nat /\ k < N
        BY <2>4
      <3>2. A[k].read = k
        BY <2>8, <3>1
      <3>3. A[k + 1] = [read |-> k + 1, value |-> A[k].value * base + s[k + 1]]
        BY <2>1, <3>1, <3>2
      <3> QED BY <3>3
    <2>10. \A k \in 0..(N - 1) : k \in 0..N /\ k + 1 \in 0..N
      BY <2>4
    <2>11. 0 \in 0..N /\ N \in 0..N
      BY <2>4
    <2>12. Values(s) = [k \in 0..N |-> A[k].value]
      BY <2>2
    <2> HIDE DEF Values, N, R
    <2> QED BY <2>1, <2>3, <2>8, <2>9, <2>10, <2>11, <2>12 DEF N
  <1> HIDE DEF Values
  <1>2. ASSUME NEW s \in Seq(Nat) PROVE ValueOf(s, base) \in Nat
    <2>1. Len(s) \in 0..Len(s)
      OBVIOUS
    <2> QED BY <1>1, <2>1
  <1>3. ValueOf(<<>>, base) = 0
    <2>1. <<>> \in Seq(Nat) /\ Len(<<>>) = 0
      OBVIOUS
    <2> QED BY <1>1, <2>1
  <1>4. ASSUME NEW s \in Seq(Nat), NEW d \in Nat
        PROVE  ValueOf(Append(s, d), base) = ValueOf(s, base) * base + d
    <2> DEFINE t == Append(s, d)
               N == Len(s)
               short == [k \in 0..N |-> Values(t)[k]]
    <2>1. /\ t \in Seq(Nat) /\ Len(t) = N + 1 /\ N \in Nat
          /\ t[N + 1] = d /\ \A k \in 0..(N - 1) : t[k + 1] = s[k + 1]
      OBVIOUS
    <2> HIDE DEF t
    <2>2. /\ Values(t) \in [0..(N + 1) -> Nat] /\ Values(t)[0] = 0
          /\ \A k \in 0..N : Values(t)[k + 1] = Values(t)[k] * base + t[k + 1]
          /\ ValueOf(t, base) = Values(t)[N + 1]
      <3>1. t \in Seq(Nat) /\ Len(t) = N + 1 /\ Len(t) - 1 = N
        BY <2>1
      <3>2. /\ Values(t) \in [0..Len(t) -> Nat] /\ Values(t)[0] = 0
            /\ \A k \in 0..(Len(t) - 1) :
                   Values(t)[k + 1] = Values(t)[k] * base + t[k + 1]
            /\ ValueOf(t, base) = Values(t)[Len(t)]
        BY ONLY <1>1, <3>1
      <3> HIDE DEF N
      <3> QED BY ONLY <3>1, <3>2
    <2>3. /\ short \in [0..N -> Nat] /\ short[0] = 0
          /\ short[N] = Values(t)[N]
      BY <2>1, <2>2
    <2>4. ASSUME NEW k \in 0..(N - 1)
          PROVE  short[k + 1] = short[k] * base + s[k + 1]
      <3>1. k \in 0..N /\ k + 1 \in 0..N
        BY <2>1
      <3>2. short[k] = Values(t)[k] /\ short[k + 1] = Values(t)[k + 1]
        BY <3>1
      <3> HIDE DEF short, N
      <3> QED BY <2>1, <2>2, <3>1, <3>2
    <2>5. ValueOf(s, base) = short[N]
      <3> HIDE DEF short
      <3> QED BY <2>3, <2>4, ValueIsRead
    <2>6. N \in 0..N
      BY <2>1
    <2>7. ValueOf(t, base) = Values(t)[N] * base + d
      <3> HIDE DEF N, short
      <3> QED BY <2>1, <2>2, <2>6
    <2> HIDE DEF short
    <2> QED BY <2>3, <2>5, <2>7 DEF t
  <1> QED BY <1>2, <1>3, <1>4

LEMMA NothingIsZero ==
    ASSUME NEW base \in Nat PROVE ValueOf(<<>>, base) = 0
  BY ValueIsNumber

LEMMA ValueIsNat ==
    ASSUME NEW base \in Nat, NEW s \in Seq(Nat)
    PROVE  ValueOf(s, base) \in Nat
  BY ValueIsNumber

(* A number with a digit behind it.                                        *)
Behind(number, base, d) == number * base + d

LEMMA DigitIsBehind ==
    ASSUME NEW base \in Nat, NEW s \in Seq(Nat), NEW d \in Nat
    PROVE  ValueOf(Append(s, d), base) = Behind(ValueOf(s, base), base, d)
  BY ValueIsNumber DEF Behind

LEMMA PowerIsProduct ==
    ASSUME NEW base \in Nat, NEW k \in Nat
    PROVE  /\ Power(base)[k] \in Nat
           /\ Power(base)[k + 1] = base * Power(base)[k]
  BY PowerGrows

LEMMA PowerOfZero ==
    ASSUME NEW base \in Nat PROVE Power(base)[0] = 1
  BY PowerGrows

(* Two numbers with a digit behind each.                                   *)
LEMMA DigitsAreBehind ==
    ASSUME NEW b \in Nat, NEW v \in Nat, NEW w \in Nat, NEW d \in Nat,
           NEW e \in Nat, d < b, e < b
    PROVE  /\ Behind(v, b, d) \in Nat
           /\ v < w => Behind(v, b, d) < b * w
           /\ Behind(v, b, d) = Behind(w, b, e) => v = w /\ d = e
  <1>1. v * b \in Nat /\ w * b \in Nat
    BY ProductGrows
  <1>2. ASSUME NEW x \in Nat, NEW y \in Nat, x < y
        PROVE  x * b + b <= y * b
    <2>1. (x + 1) * b <= y * b
      <3>1. x + 1 \in Nat /\ x + 1 <= y
        BY <1>2
      <3> QED BY ONLY <3>1, y \in Nat, b \in Nat, ProductGrows
    <2> QED BY <2>1
  <1>3. v < w => v * b + d < w * b
    BY <1>1, <1>2
  <1>4. w < v => w * b + e < v * b
    BY <1>1, <1>2
  <1>5. w * b = b * w
    OBVIOUS
  <1> QED BY <1>1, <1>3, <1>4, <1>5 DEF Behind

LEMMA ProductOfSum ==
    ASSUME NEW x \in Nat, NEW p \in Nat, NEW y \in Nat, NEW b \in Nat,
           NEW d \in Nat
    PROVE  Behind(x * p + y, b, d) = x * (b * p) + Behind(y, b, d)
  BY DEF Behind

LEMMA NumbersAreJoined ==
    ASSUME NEW base \in Nat, NEW s \in Seq(Nat), NEW t \in Seq(Nat)
    PROVE  ValueOf(s \o t, base)
               = ValueOf(s, base) * Power(base)[Len(t)] + ValueOf(t, base)
  <1> DEFINE V(u) == ValueOf(u, base)
             P == Power(base)
             K == {n \in Nat : \A u \in Seq(Nat) :
                      Len(u) = n => V(s \o u) = V(s) * P[n] + V(u)}
  <1>1. V(s) \in Nat
    BY ValueIsNat
  <1>3. 0 \in K
    <2> SUFFICES ASSUME NEW u \in Seq(Nat), Len(u) = 0
                 PROVE  V(s \o u) = V(s) * P[0] + V(u)
      OBVIOUS
    <2>1. u = <<>> /\ s \o u = s
      OBVIOUS
    <2>2. V(u) = 0 /\ P[0] = 1
      BY <2>1, NothingIsZero, PowerOfZero
    <2> HIDE DEF V, P
    <2> QED BY <1>1, <2>1, <2>2
  <1>4. ASSUME NEW n \in Nat, n \in K PROVE n + 1 \in K
    <2> SUFFICES ASSUME NEW u \in Seq(Nat), Len(u) = n + 1
                 PROVE  V(s \o u) = V(s) * P[n + 1] + V(u)
      OBVIOUS
    <2> DEFINE w == SubSeq(u, 1, n)
               d == u[n + 1]
    <2>1. /\ w \in Seq(Nat) /\ Len(w) = n /\ d \in Nat
          /\ u = Append(w, d)
      BY LastIsBehind
    <2> HIDE DEF w, d
    <2>2. s \o u = Append(s \o w, d) /\ (s \o w) \in Seq(Nat)
      BY ONLY <2>1, s \in Seq(Nat)
    <2>3. V(s \o w) = V(s) * P[n] + V(w)
      BY <1>4, <2>1
    <2>4. V(w) \in Nat /\ P[n] \in Nat /\ P[n + 1] = base * P[n]
      BY <2>1, ValueIsNat, PowerIsProduct
    <2> DEFINE j == s \o w
    <2> HIDE DEF j
    <2>5. V(s \o u) = Behind(V(s \o w), base, d)
      <3>1. j \in Seq(Nat) /\ s \o u = Append(j, d)
        BY <2>2 DEF j
      <3>2. V(Append(j, d)) = Behind(V(j), base, d)
        BY <2>1, <3>1, DigitIsBehind
      <3> HIDE DEF V
      <3> QED BY <3>1, <3>2 DEF j
    <2>7. V(u) = Behind(V(w), base, d)
      BY <2>1, DigitIsBehind
    <2> HIDE DEF V, P, K
    <2>6. V(s \o u) = V(s) * (base * P[n]) + Behind(V(w), base, d)
      BY ONLY <1>1, <2>1, <2>3, <2>4, <2>5, base \in Nat, ProductOfSum
    <2> QED BY <2>4, <2>6, <2>7
  <1> HIDE DEF K
  <1>5. Nat \subseteq K
    BY <1>3, <1>4, SetInduction
  <1>6. Len(t) \in Nat
    OBVIOUS
  <1> QED BY <1>5, <1>6 DEF K, V, P

(* A number is smaller than the power of its length, and has no other      *)
(* digits of that length.                                                  *)
LEMMA NumberIsBounded ==
    ASSUME NEW base \in Nat, NEW s \in Seq(Nat),
           \A i \in 1..Len(s) : s[i] < base
    PROVE  ValueOf(s, base) < Power(base)[Len(s)]
  <1> DEFINE V(u) == ValueOf(u, base)
             P == Power(base)
             K == {n \in Nat : n <= Len(s) => V(SubSeq(s, 1, n)) < P[n]}
  <1>3. 0 \in K
    <2>1. SubSeq(s, 1, 0) = <<>>
      BY BeginningGrows
    <2>2. V(<<>>) = 0 /\ P[0] = 1
      BY NothingIsZero, PowerOfZero
    <2> HIDE DEF V, P
    <2>3. V(<<>>) < P[0]
      BY <2>2
    <2>4. V(SubSeq(s, 1, 0)) = V(<<>>)
      BY ONLY <2>1, Zenon
    <2>5. V(SubSeq(s, 1, 0)) < P[0]
      BY ONLY <2>3, <2>4, Zenon
    <2> QED BY <2>5
  <1>4. ASSUME NEW n \in Nat, n \in K PROVE n + 1 \in K
    <2> SUFFICES ASSUME n + 1 <= Len(s)
                 PROVE  V(SubSeq(s, 1, n + 1)) < P[n + 1]
      OBVIOUS
    <2> DEFINE w == SubSeq(s, 1, n)
               d == s[n + 1]
    <2>1. /\ w \in Seq(Nat) /\ d \in Nat
          /\ SubSeq(s, 1, n + 1) = Append(w, d)
      BY BeginningGrows
    <2>2. d < base
      <3>1. n + 1 \in 1..Len(s)
        OBVIOUS
      <3> QED BY <3>1
    <2>3. V(w) < P[n]
      BY <1>4, BeginningGrows
    <2> HIDE DEF w, d
    <2>4. V(w) \in Nat /\ P[n] \in Nat /\ P[n + 1] = base * P[n]
      BY <2>1, ValueIsNat, PowerIsProduct
    <2>5. V(Append(w, d)) = Behind(V(w), base, d)
      BY <2>1, DigitIsBehind
    <2> HIDE DEF K, V, P
    <2>6. Behind(V(w), base, d) < base * P[n]
      BY ONLY <2>1, <2>2, <2>3, <2>4, base \in Nat, DigitsAreBehind
    <2> QED BY <2>1, <2>4, <2>5, <2>6
  <1> HIDE DEF K
  <1>5. Nat \subseteq K
    BY <1>3, <1>4, SetInduction
  <1>6. Len(s) \in Nat /\ SubSeq(s, 1, Len(s)) = s
    BY BeginningGrows
  <1>7. Len(s) \in K
    BY <1>5, <1>6
  <1>8. V(SubSeq(s, 1, Len(s))) < P[Len(s)]
    BY <1>6, <1>7 DEF K
  <1> QED BY <1>6, <1>8 DEF V, P

LEMMA DigitsAreUnique ==
    ASSUME NEW base \in Nat, NEW s \in Seq(Nat), NEW t \in Seq(Nat),
           \A i \in 1..Len(s) : s[i] < base,
           \A i \in 1..Len(t) : t[i] < base,
           Len(s) = Len(t), ValueOf(s, base) = ValueOf(t, base)
    PROVE  s = t
  <1> DEFINE V(u) == ValueOf(u, base)
             D == {u \in Seq(Nat) : \A i \in 1..Len(u) : u[i] < base}
             K == {n \in Nat : \A u, w \in D :
                      Len(u) = n /\ Len(w) = n /\ V(u) = V(w) => u = w}
  <1>2. 0 \in K
    <2> HIDE DEF V
    <2> QED OBVIOUS
  <1>3. ASSUME NEW n \in Nat, n \in K PROVE n + 1 \in K
    <2> SUFFICES ASSUME NEW u \in D, NEW w \in D,
                        Len(u) = n + 1, Len(w) = n + 1, V(u) = V(w)
                 PROVE  u = w
      BY DEF K
    <2>1. ASSUME NEW x \in D, Len(x) = n + 1
          PROVE  \E y \in D, d \in Nat :
                     /\ Len(y) = n /\ d < base /\ x = Append(y, d)
                     /\ V(x) = Behind(V(y), base, d) /\ V(y) \in Nat
      <3> DEFINE y == SubSeq(x, 1, n)
                 d == x[n + 1]
      <3>0. x \in Seq(Nat)
        OBVIOUS
      <3>1. /\ y \in Seq(Nat) /\ Len(y) = n /\ d \in Nat
            /\ x = Append(y, d)
        BY ONLY <2>1, <3>0, n \in Nat, LastIsBehind
      <3>2. d < base /\ y \in D
        <4>1. \A i \in 1..(n + 1) : x[i] < base
          BY <2>1
        <4>2. n + 1 \in 1..(n + 1) /\ \A i \in 1..n : i \in 1..(n + 1)
          OBVIOUS
        <4>3. \A i \in 1..n : y[i] = x[i]
          BY <2>1, <3>0
        <4> HIDE DEF V, y
        <4> QED BY <3>1, <4>1, <4>2, <4>3
      <3> HIDE DEF y, d
      <3>3. V(Append(y, d)) = Behind(V(y), base, d) /\ V(y) \in Nat
        BY <3>1, DigitIsBehind, ValueIsNat
      <3> HIDE DEF D, V
      <3> QED BY <3>1, <3>2, <3>3
    <2> HIDE DEF D, V
    <2>2. PICK y \in D, d \in Nat :
              /\ Len(y) = n /\ d < base /\ u = Append(y, d)
              /\ V(u) = Behind(V(y), base, d) /\ V(y) \in Nat
      BY <2>1
    <2>3. PICK z \in D, e \in Nat :
              /\ Len(z) = n /\ e < base /\ w = Append(z, e)
              /\ V(w) = Behind(V(z), base, e) /\ V(z) \in Nat
      BY <2>1
    <2>4. V(y) = V(z) /\ d = e
      <3>1. Behind(V(y), base, d) = Behind(V(z), base, e)
        BY <2>2, <2>3
      <3>2. d < base /\ e < base /\ V(y) \in Nat /\ V(z) \in Nat
        BY <2>2, <2>3
      <3> QED BY ONLY <3>1, <3>2, d \in Nat, e \in Nat, base \in Nat,
                 DigitsAreBehind
    <2>5. y = z
      BY <1>3, <2>2, <2>3, <2>4 DEF K
    <2> QED BY <2>2, <2>3, <2>4, <2>5
  <1>4. s \in D /\ t \in D /\ Len(s) \in Nat
    OBVIOUS
  <1> HIDE DEF K, D
  <1>5. Nat \subseteq K
    BY <1>2, <1>3, SetInduction
  <1>6. Len(s) \in K /\ V(s) = V(t)
    BY <1>4, <1>5 DEF V
  <1> HIDE DEF V
  <1> QED BY <1>4, <1>6 DEF K

(* Zeros in front change nothing, and a number whose first digit is not    *)
(* zero is at least the power of the others' number.                       *)
LEMMA ZerosAreNothing ==
    ASSUME NEW base \in Nat, NEW s \in Seq(Nat), NEW k \in 0..Len(s),
           \A i \in 1..k : s[i] = 0
    PROVE  ValueOf(s, base) = ValueOf(SubSeq(s, k + 1, Len(s)), base)
  <1> DEFINE V(u) == ValueOf(u, base)
             P == Power(base)
             K == {n \in Nat : n <= k => V(SubSeq(s, 1, n)) = 0}
             rest == SubSeq(s, k + 1, Len(s))
  <1>0. k \in Nat /\ k <= Len(s) /\ Len(s) \in Nat
    OBVIOUS
  <1>3. 0 \in K
    <2>1. SubSeq(s, 1, 0) = <<>>
      BY BeginningGrows
    <2>2. V(<<>>) = 0
      BY NothingIsZero
    <2> HIDE DEF V
    <2> QED BY <2>1, <2>2
  <1>4. ASSUME NEW n \in Nat, n \in K PROVE n + 1 \in K
    <2> SUFFICES ASSUME n + 1 <= k
                 PROVE  V(SubSeq(s, 1, n + 1)) = 0
      OBVIOUS
    <2> DEFINE w == SubSeq(s, 1, n)
    <2>1. n + 1 \in 1..k /\ n + 1 <= Len(s) /\ n <= k
      BY <1>0
    <2>2. w \in Seq(Nat) /\ SubSeq(s, 1, n + 1) = Append(w, s[n + 1])
      BY <2>1, BeginningGrows
    <2>3. s[n + 1] = 0
      BY <2>1
    <2>4. V(w) = 0
      BY <1>4, <2>1
    <2> HIDE DEF w
    <2>5. V(Append(w, 0)) = Behind(V(w), base, 0)
      BY <2>2, DigitIsBehind
    <2>6. Behind(0, base, 0) = 0
      BY DEF Behind
    <2> HIDE DEF V, K
    <2> QED BY <2>2, <2>3, <2>4, <2>5, <2>6
  <1>5. Nat \subseteq K
    <2> HIDE DEF K
    <2> QED BY <1>3, <1>4, SetInduction
  <1>6. /\ SubSeq(s, 1, k) \in Seq(Nat) /\ rest \in Seq(Nat)
        /\ s = SubSeq(s, 1, k) \o rest
    BY SequenceIsSplit
  <1>7. V(SubSeq(s, 1, k)) = 0
    BY <1>0, <1>5
  <1> HIDE DEF rest
  <1>8. V(s) = V(SubSeq(s, 1, k)) * P[Len(rest)] + V(rest)
    BY <1>6, NumbersAreJoined
  <1>9. P[Len(rest)] \in Nat /\ V(rest) \in Nat
    <2>1. Len(rest) \in Nat
      BY <1>6
    <2> QED BY <1>6, <2>1, ValueIsNat, PowerIsProduct
  <1>10. V(s) = V(rest)
    <2> HIDE DEF V, P
    <2> QED BY <1>7, <1>8, <1>9
  <1> QED BY <1>10 DEF rest

LEMMA FirstDigitCounts ==
    ASSUME NEW base \in Nat, NEW s \in Seq(Nat), NEW n \in Nat,
           Len(s) = n + 1
    PROVE  /\ Tail(s) \in Seq(Nat) /\ Len(Tail(s)) = n
           /\ ValueOf(s, base) = s[1] * Power(base)[n]
                                 + ValueOf(Tail(s), base)
           /\ s[1] > 0 => Power(base)[n] <= ValueOf(s, base)
  <1> DEFINE V(u) == ValueOf(u, base)
             P == Power(base)
             d == s[1]
             t == Tail(s)
  <1>1. /\ t \in Seq(Nat) /\ Len(t) = n /\ d \in Nat
        /\ s = <<d>> \o t /\ <<d>> = Append(<<>>, d) /\ <<d>> \in Seq(Nat)
        /\ <<>> \in Seq(Nat)
    OBVIOUS
  <1> HIDE DEF d, t
  <1>2. V(<<>>) = 0 /\ V(t) \in Nat /\ P[n] \in Nat
    BY <1>1, NothingIsZero, ValueIsNat, PowerIsProduct
  <1>3. V(Append(<<>>, d)) = Behind(V(<<>>), base, d)
    BY <1>1, DigitIsBehind
  <1>8. Behind(0, base, d) = d
    BY <1>1 DEF Behind
  <1>4. V(<<d>> \o t) = V(<<d>>) * P[Len(t)] + V(t)
    BY <1>1, NumbersAreJoined
  <1> HIDE DEF V, P
  <1>5. V(<<d>>) = d
    BY <1>1, <1>2, <1>3, <1>8
  <1>6. V(s) = d * P[n] + V(t)
    BY <1>1, <1>4, <1>5
  <1>7. d > 0 => P[n] <= V(s)
    <2> SUFFICES ASSUME d > 0 PROVE P[n] <= V(s)
      OBVIOUS
    <2>1. 1 * P[n] <= d * P[n] /\ d * P[n] \in Nat
      <3>1. 1 \in Nat /\ 1 <= d
        BY <1>1
      <3> QED BY ONLY <1>1, <1>2, <3>1, ProductGrows
    <2> QED BY <1>2, <1>6, <2>1
  <1> QED BY <1>1, <1>6, <1>7 DEF V, P, d, t

-----------------------------------------------------------------------------
(* Base 58.                                                                *)

Alphabet58 == {BASE58_ALPHABET[i] : i \in 1..58}

LEMMA CharactersDiffer ==
    /\ Len(BASE58_ALPHABET) = 58
    /\ \A i, j \in 1..58 :
           BASE58_ALPHABET[i] = BASE58_ALPHABET[j] => i = j
  BY SMTT(60) DEF BASE58_ALPHABET

LEMMA CharacterIsRead ==
    ASSUME NEW d \in 0..57
    PROVE  DigitOf(BASE58_ALPHABET[d + 1]) = d
  <1> DEFINE A == BASE58_ALPHABET
             I == {i \in 1..Len(A) : A[i] = A[d + 1]}
  <1>1. Len(A) = 58 /\ \A i, j \in 1..58 : A[i] = A[j] => i = j
    BY CharactersDiffer
  <1>2. d + 1 \in 1..58 /\ (d + 1) - 1 = d
    OBVIOUS
  <1>3. SelectInSeq(A, LAMBDA a : a = A[d + 1])
            = IF I # {} THEN Min(I) ELSE 0
    BY DEF SelectInSeq
  <1>5. DigitOf(A[d + 1]) = SelectInSeq(A, LAMBDA a : a = A[d + 1]) - 1
    BY DEF DigitOf
  <1> HIDE DEF A
  <1>4. I = {d + 1}
    <2>1. d + 1 \in I
      BY <1>1, <1>2
    <2>2. ASSUME NEW i \in I PROVE i = d + 1
      <3>1. i \in 1..58 /\ A[i] = A[d + 1]
        BY <1>1
      <3> QED BY <1>1, <1>2, <3>1
    <2> QED BY <2>1, <2>2
  <1>6. Min(I) \in I
    <2>1. I # {} /\ I \in SUBSET Nat
      BY <1>4
    <2> HIDE DEF I
    <2> QED BY <2>1, LeastExists
  <1> HIDE DEF I
  <1>7. I # {} /\ Min(I) = d + 1
    BY <1>4, <1>6
  <1> QED BY <1>2, <1>3, <1>5, <1>7 DEF A

LEMMA CharacterHasDigit ==
    ASSUME NEW c \in Alphabet58
    PROVE  DigitOf(c) \in 0..57 /\ BASE58_ALPHABET[DigitOf(c) + 1] = c
  <1>1. PICK i \in 1..58 : c = BASE58_ALPHABET[i]
    BY DEF Alphabet58
  <1>2. i - 1 \in 0..57 /\ (i - 1) + 1 = i
    OBVIOUS
  <1>3. DigitOf(c) = i - 1
    BY <1>1, <1>2, CharacterIsRead
  <1> QED BY <1>1, <1>2, <1>3

(* After k bytes of the number have been divided by 58.                    *)
IsDivided(tmp, k, s) ==
    /\ s.tmp \in Seq(0..255) /\ s.rest \in 0..57
    /\ Len(s.tmp) = k
    /\ ValueOf(SubSeq(tmp, 1, k), 256) =
           Behind(ValueOf(s.tmp, 256), 58, s.rest)
    /\ \A z \in 0..k :
           (\A i \in 1..z : tmp[i] = 0) =>
               /\ \A i \in 1..z : s.tmp[i] = 0
               /\ z < k => s.tmp[z + 1] = tmp[z + 1] \div 58
               /\ z = k => s.rest = 0

LEMMA OctetsAreDigits ==
    ASSUME NEW s \in Seq(0..255)
    PROVE  s \in Seq(Nat) /\ \A i \in 1..Len(s) : s[i] < 256
  <1>1. s \in Seq(Nat) /\ \A i \in 1..Len(s) : s[i] \in 0..255
    BY OctetsAreNumbers DEF Octet
  <1>2. \A x \in 0..255 : x < 256
    OBVIOUS
  <1> QED BY <1>1, <1>2

LEMMA DivisionGoesOn ==
    ASSUME NEW tmp \in Seq(0..255), NEW k \in Nat, k < Len(tmp),
           NEW s, IsDivided(tmp, k, s)
    PROVE  LET n == s.rest * 256 + tmp[Len(s.tmp) + 1]
           IN  IsDivided(tmp, k + 1,
                         [tmp |-> Append(s.tmp, n \div 58), rest |-> n % 58])
  <1> DEFINE B == 0..255
             x == tmp[k + 1]
             r0 == s.rest
             n == r0 * 256 + x
             q == n \div 58
             r == n % 58
             t == s.tmp
             next == Append(t, q)
             V(u) == ValueOf(u, 256)
  <1>1. t \in Seq(B) /\ r0 \in 0..57 /\ Len(t) = k
    BY DEF IsDivided
  <1>10. V(SubSeq(tmp, 1, k)) = Behind(V(t), 58, r0)
    BY DEF IsDivided
  <1>20. \A y \in 0..k :
             (\A i \in 1..y : tmp[i] = 0) =>
                 /\ \A i \in 1..y : t[i] = 0
                 /\ y < k => t[y + 1] = tmp[y + 1] \div 58
                 /\ y = k => r0 = 0
    BY DEF IsDivided
  <1> HIDE DEF t, r0
  <1>2. k + 1 \in 1..Len(tmp) /\ tmp \in Seq(B)
    OBVIOUS
  <1>3. x \in B
    <2> HIDE DEF B
    <2> QED BY <1>2
  <1> HIDE DEF x
  <1>4. /\ q \in B /\ r \in 0..57 /\ r0 * 256 + x = 58 * q + r
        /\ r0 = 0 => q = x \div 58
        /\ r0 = 0 /\ x = 0 => q = 0 /\ r = 0
    <2>1. x \in 0..255 /\ r0 \in 0..57
      BY <1>1, <1>3
    <2>2. n \in Nat /\ n < 14848 /\ (r0 = 0 => n = x)
      BY ONLY <2>1
    <2> HIDE DEF n
    <2>3. q \in Nat /\ r \in Nat /\ r < 58 /\ n = 58 * q + r
      <3>1. 58 \in Nat \ {0}
        OBVIOUS
      <3> QED BY ONLY <2>2, <3>1, PartsOfDivision
    <2>4. r0 = 0 => q = x \div 58
      BY <2>2
    <2> HIDE DEF q, r
    <2>5. q \in 0..255 /\ r \in 0..57
      BY <2>2, <2>3
    <2>6. r0 = 0 /\ x = 0 => q = 0 /\ r = 0
      BY <2>2, <2>3
    <2> QED BY <2>3, <2>4, <2>5, <2>6 DEF n
  <1> HIDE DEF q, r
  <1>5. /\ next \in Seq(B) /\ Len(next) = k + 1 /\ next[k + 1] = q
        /\ \A i \in 1..k : next[i] = t[i]
    <2> HIDE DEF B
    <2> QED BY <1>1, <1>4
  <1>6. tmp \in Seq(Nat) /\ t \in Seq(Nat) /\ q \in Nat /\ x \in Nat
    BY <1>1, <1>3, <1>4, OctetsAreDigits
  <1>7. V(next) = Behind(V(t), 256, q)
    BY <1>6, DigitIsBehind
  <1>8. SubSeq(tmp, 1, k + 1) = Append(SubSeq(tmp, 1, k), x)
        /\ SubSeq(tmp, 1, k) \in Seq(Nat)
    BY <1>2, <1>6, BeginningGrows DEF x
  <1>9. V(SubSeq(tmp, 1, k + 1)) = Behind(V(SubSeq(tmp, 1, k)), 256, x)
    <2> DEFINE u == SubSeq(tmp, 1, k)
    <2>1. u \in Seq(Nat) /\ SubSeq(tmp, 1, k + 1) = Append(u, x)
      BY <1>8
    <2> HIDE DEF u
    <2>2. V(Append(u, x)) = Behind(V(u), 256, x)
      BY <1>6, <2>1, DigitIsBehind
    <2> QED BY <2>1, <2>2 DEF u
  <1>11. V(t) \in Nat
    <2>1. t \in Seq(Nat) /\ 256 \in Nat
      BY <1>6
    <2> QED BY ONLY <2>1, ValueIsNat
  <1> HIDE DEF V, next
  <1>12. V(SubSeq(tmp, 1, k + 1)) = Behind(V(next), 58, r)
    <2>1. V(SubSeq(tmp, 1, k + 1))
              = (V(t) * 58 + r0) * 256 + x
      BY <1>9, <1>10 DEF Behind
    <2>2. Behind(V(next), 58, r) = (V(t) * 256 + q) * 58 + r
      BY <1>7 DEF Behind
    <2> DEFINE v == V(t)
    <2>3. v \in Nat /\ r0 \in Nat /\ r \in Nat
      BY <1>1, <1>4, <1>11
    <2>4. r0 * 256 + x = 58 * q + r
      BY <1>4
    <2> HIDE DEF v
    <2>5. (v * 58 + r0) * 256 + x = (v * 256 + q) * 58 + r
      BY ONLY <1>6, <2>3, <2>4
    <2> QED BY <2>1, <2>2, <2>5 DEF v
  <1>13. ASSUME NEW z \in 0..(k + 1), \A i \in 1..z : tmp[i] = 0
         PROVE  /\ \A i \in 1..z : next[i] = 0
                /\ z < k + 1 => next[z + 1] = tmp[z + 1] \div 58
                /\ z = k + 1 => r = 0
    <2>2. CASE z < k
      <3>1. z \in 0..k
        BY <2>2
      <3>2. (\A i \in 1..z : t[i] = 0) /\ t[z + 1] = tmp[z + 1] \div 58
        BY <1>13, <1>20, <2>2, <3>1
      <3>3. z + 1 \in 1..k /\ \A i \in 1..z : i \in 1..k
        BY <2>2
      <3> QED BY <1>5, <2>2, <3>2, <3>3
    <2>3. CASE z = k
      <3>1. z \in 0..k
        BY <2>3
      <3>2. (\A i \in 1..z : t[i] = 0) /\ r0 = 0
        BY <1>13, <1>20, <2>3, <3>1
      <3> QED BY <1>4, <1>5, <2>3, <3>2 DEF x
    <2>4. CASE z = k + 1
      <3>1. k \in 0..k /\ \A i \in 1..k : tmp[i] = 0
        BY <1>13, <2>4
      <3>2. (\A i \in 1..k : t[i] = 0) /\ r0 = 0
        BY <1>20, <3>1
      <3>3. x = 0
        BY <1>13, <2>4 DEF x
      <3>4. q = 0 /\ r = 0
        BY <1>4, <3>2, <3>3
      <3>5. \A i \in 1..(k + 1) : i \in 1..k \/ i = k + 1
        OBVIOUS
      <3> QED BY <1>5, <2>4, <3>2, <3>4, <3>5
    <2> QED BY <2>2, <2>3, <2>4
  <1> DEFINE s2 == [tmp |-> next, rest |-> r]
  <1>14. s2.tmp = next /\ s2.rest = r
    OBVIOUS
  <1> HIDE DEF s2
  <1>15. IsDivided(tmp, k + 1, s2)
    BY <1>4, <1>5, <1>12, <1>13, <1>14 DEF IsDivided, V, B
  <1>16. s2 = [tmp |-> Append(s.tmp, (s.rest * 256 + tmp[Len(s.tmp) + 1])
                                         \div 58),
               rest |-> (s.rest * 256 + tmp[Len(s.tmp) + 1]) % 58]
    BY <1>1 DEF s2, next, t, q, r, n, r0, x
  <1> QED BY <1>15, <1>16

LEMMA NumberIsDivided ==
    ASSUME NEW tmp \in Seq(0..255)
    PROVE  IsDivided(tmp, Len(tmp), Divided(tmp))
  <1> DEFINE B == 0..255
             D == 0..57
             T == [tmp : Seq(B), rest : D]
             Next58(s) ==
                 LET n == s.rest * 256 + tmp[Len(s.tmp) + 1]
                 IN  [tmp |-> Append(s.tmp, n \div 58), rest |-> n % 58]
             turn == [s \in T |-> IF Len(s.tmp) >= Len(tmp) THEN s
                                  ELSE Next58(s)]
             start == [tmp |-> <<>>, rest |-> 0]
             A == After(turn, start)
             N == Len(tmp)
  <1>1. \A x \in B, r \in D : LET n == r * 256 + x
                              IN  n \div 58 \in B /\ n % 58 \in D
    OBVIOUS
  <1>2. tmp \in Seq(B) /\ 0 \in D /\ N \in Nat
    OBVIOUS
  <1>3. turn \in [T -> T]
    <2> HIDE DEF B, D
    <2> SUFFICES ASSUME NEW s \in T PROVE turn[s] \in T
      OBVIOUS
    <2>1. CASE Len(s.tmp) >= Len(tmp)
      BY <2>1
    <2>2. CASE ~(Len(s.tmp) >= Len(tmp))
      <3> DEFINE x == tmp[Len(s.tmp) + 1]
                 n == s.rest * 256 + x
      <3>1. s.tmp \in Seq(B) /\ s.rest \in D
        OBVIOUS
      <3>2. x \in B
        <4>1. Len(s.tmp) + 1 \in 1..Len(tmp)
          BY <1>2, <2>2, <3>1
        <4> QED BY <1>2, <4>1
      <3>3. n \div 58 \in B /\ n % 58 \in D
        <4> HIDE DEF x
        <4> QED BY <1>1, <3>1, <3>2
      <3>4. turn[s] = [tmp |-> Append(s.tmp, n \div 58), rest |-> n % 58]
        BY <2>2
      <3> HIDE DEF n, turn
      <3> QED BY <3>1, <3>3, <3>4
    <2> QED BY <2>1, <2>2
  <1>4. start \in T
    <2> HIDE DEF B, D
    <2> QED BY <1>2
  <1>5. Divided(tmp) = A[N]
    BY DEF Divided
  <1>6. \A s \in T : ~(Len(s.tmp) >= N) => turn[s] = Next58(s)
    OBVIOUS
  <1> HIDE DEF turn, T, A
  <1>7. Follows(A, T, turn, start)
    BY <1>3, <1>4, LoopFollows DEF A
  <1> DEFINE K == {k \in Nat : k <= N => IsDivided(tmp, k, A[k])}
  <1>8. 0 \in K
    <2>1. A[0] = start
      BY <1>7 DEF Follows
    <2>2. IsDivided(tmp, 0, start)
      <3>1. SubSeq(tmp, 1, 0) = <<>>
        BY BeginningGrows
      <3>2. ValueOf(<<>>, 256) = 0 /\ Behind(0, 58, 0) = 0
        BY NothingIsZero DEF Behind
      <3>3. /\ start.tmp \in Seq(0..255) /\ start.rest \in 0..57
            /\ Len(start.tmp) = 0 /\ start.tmp = <<>> /\ start.rest = 0
        OBVIOUS
      <3>4. ValueOf(SubSeq(tmp, 1, 0), 256)
                = Behind(ValueOf(start.tmp, 256), 58, start.rest)
        BY ONLY <3>1, <3>2, <3>3, Zenon
      <3> HIDE DEF start
      <3>5. \A z \in 0..0 : z = 0
        OBVIOUS
      <3> QED BY <3>3, <3>4, <3>5 DEF IsDivided
    <2> QED BY <2>1, <2>2
  <1>9. ASSUME NEW k \in Nat, k \in K PROVE k + 1 \in K
    <2> SUFFICES ASSUME k + 1 <= N PROVE IsDivided(tmp, k + 1, A[k + 1])
      OBVIOUS
    <2>1. k < N
      BY <1>2
    <2>2. IsDivided(tmp, k, A[k])
      BY <1>9, <2>1
    <2> HIDE DEF Next58
    <2>3. A[k] \in T /\ A[k + 1] = turn[A[k]]
      BY <1>7 DEF Follows
    <2>4. Len(A[k].tmp) = k
      BY <2>2 DEF IsDivided
    <2>5. A[k + 1] = Next58(A[k])
      BY <1>2, <1>6, <2>1, <2>3, <2>4
    <2>6. IsDivided(tmp, k + 1, Next58(A[k]))
      BY <2>1, <2>2, DivisionGoesOn, ZenonT(60) DEF Next58
    <2> QED BY <2>5, <2>6
  <1> HIDE DEF K
  <1>10. Nat \subseteq K
    BY <1>8, <1>9, SetInduction
  <1> QED BY <1>2, <1>5, <1>10 DEF K

(* Between two passes of the division: what was divided off is in the      *)
(* digits, and every two passes leave one more byte that is zero.          *)
IsConverted(bytes, zeros, s) ==
    LET N == Len(bytes)
        L == Len(s.digits)
    IN  /\ s.tmp \in Seq(0..255) /\ Len(s.tmp) = N
        /\ s.start \in Nat /\ zeros <= s.start /\ s.start <= N
        /\ s.digits \in Seq(0..57)
        /\ \A i \in 1..s.start : s.tmp[i] = 0
        /\ ValueOf(bytes, 256)
               = ValueOf(s.tmp, 256) * Power(58)[L] + ValueOf(s.digits, 58)
        /\ L <= 2 * (s.start - zeros) + 1
        /\ L = 2 * (s.start - zeros) + 1 /\ s.start < N =>
               s.tmp[s.start + 1] < 58
        /\ L <= 2 * (N - zeros)

LEMMA DigitsAreNumbers58 ==
    ASSUME NEW s \in Seq(0..57)
    PROVE  s \in Seq(Nat) /\ \A i \in 1..Len(s) : s[i] < 58
  <1> DEFINE D == 0..57
  <1>1. s \in Seq(D) /\ \A x \in D : x \in Nat /\ x < 58
    OBVIOUS
  <1> HIDE DEF D
  <1>2. \A i \in 1..Len(s) : s[i] \in D
    BY <1>1
  <1>3. s \in Seq(Nat)
    BY <1>1, <1>2
  <1> QED BY <1>1, <1>2, <1>3

LEMMA DigitIsDividedOff ==
    ASSUME NEW v \in Nat, NEW r \in Nat, NEW p \in Nat, NEW d \in Nat
    PROVE  Behind(v, 58, r) * p + d = v * (58 * p) + (r * p + d)
  BY DEF Behind

LEMMA PassIsConverted ==
    ASSUME NEW bytes \in Seq(0..255), NEW zeros \in Nat,
           NEW s, IsConverted(bytes, zeros, s), s.start < Len(bytes),
           NEW first,
           first = IF Divided(s.tmp).tmp[s.start + 1] = 0
                   THEN s.start + 1 ELSE s.start
    PROVE  IsConverted(bytes, zeros,
                       [tmp |-> Divided(s.tmp).tmp, start |-> first,
                        digits |-> <<Divided(s.tmp).rest>> \o s.digits])
  <1> DEFINE N == Len(bytes)
             L == Len(s.digits)
             t == s.tmp
             m == s.start
             D == s.digits
             q == Divided(t).tmp
             r == Divided(t).rest
             E == <<r>> \o D
             next == [tmp |-> q, start |-> first, digits |-> E]
             V(u) == ValueOf(u, 256)
             W(u) == ValueOf(u, 58)
             P == Power(58)
  <1>1. /\ t \in Seq(0..255) /\ Len(t) = N
        /\ m \in Nat /\ zeros <= m /\ m < N /\ N \in Nat
        /\ D \in Seq(0..57) /\ L \in Nat
        /\ \A i \in 1..m : t[i] = 0
    BY DEF IsConverted
  <1>2. V(bytes) = V(t) * P[L] + W(D)
    BY DEF IsConverted
  <1>3. /\ L <= 2 * (m - zeros) + 1
        /\ L = 2 * (m - zeros) + 1 => t[m + 1] < 58
    BY <1>1 DEF IsConverted
  <1>4. L = Len(D)
    OBVIOUS
  <1>5. first = IF q[m + 1] = 0 THEN m + 1 ELSE m
    OBVIOUS
  <1>6. IsDivided(t, N, Divided(t))
    BY <1>1, NumberIsDivided
  <1> HIDE DEF t, m, D, L, N
  <1>7. /\ q \in Seq(0..255) /\ r \in 0..57 /\ Len(q) = N
        /\ V(SubSeq(t, 1, N)) = Behind(V(q), 58, r)
    BY <1>6 DEF IsDivided
  <1>8. (\A i \in 1..m : q[i] = 0) /\ q[m + 1] = t[m + 1] \div 58
    <2>1. m \in 0..N
      BY <1>1
    <2> QED BY <1>1, <1>6, <2>1 DEF IsDivided
  <1>9. SubSeq(t, 1, N) = t
    BY <1>1, BeginningGrows
  <1> HIDE DEF q, r
  <1>10. V(t) = Behind(V(q), 58, r)
    <2> HIDE DEF V
    <2> QED BY <1>7, <1>9, Zenon
  <1>11. /\ E \in Seq(0..57) /\ Len(E) = L + 1 /\ E[1] = r /\ Tail(E) = D
    BY <1>1, <1>4, <1>7
  <1> HIDE DEF E
  <1>12. W(E) = r * P[L] + W(D)
    <2>1. E \in Seq(Nat)
      BY <1>11, DigitsAreNumbers58
    <2>2. ValueOf(E, 58) = E[1] * Power(58)[L] + ValueOf(Tail(E), 58)
      <3>1. 58 \in Nat /\ Len(E) = L + 1
        BY <1>11
      <3> QED BY ONLY <1>1, <2>1, <3>1, FirstDigitCounts
    <2> QED BY <1>11, <2>2
  <1>13. /\ P[L] \in Nat /\ P[L + 1] = 58 * P[L]
         /\ V(q) \in Nat /\ W(D) \in Nat /\ r \in Nat
    <2>1. q \in Seq(Nat) /\ D \in Seq(Nat) /\ 58 \in Nat /\ 256 \in Nat
      BY <1>1, <1>7, OctetsAreDigits, DigitsAreNumbers58
    <2>2. P[L] \in Nat /\ P[L + 1] = 58 * P[L]
      BY <1>1, <2>1, PowerIsProduct
    <2>3. V(q) \in Nat /\ W(D) \in Nat
      BY <2>1, ValueIsNat
    <2>4. r \in Nat
      BY <1>7
    <2> QED BY <2>2, <2>3, <2>4
  <1> HIDE DEF V, W, P
  <1>14. V(bytes) = V(q) * P[L + 1] + W(E)
    <2>1. Behind(V(q), 58, r) * P[L] + W(D)
              = V(q) * (58 * P[L]) + (r * P[L] + W(D))
      <3> DEFINE v == V(q)
                 p == P[L]
                 d == W(D)
      <3>1. v \in Nat /\ p \in Nat /\ d \in Nat /\ r \in Nat
        BY <1>13
      <3> HIDE DEF v, p, d
      <3>2. Behind(v, 58, r) * p + d = v * (58 * p) + (r * p + d)
        BY ONLY <3>1, DigitIsDividedOff
      <3> QED BY <3>2 DEF v, p, d
    <2> QED BY <1>2, <1>10, <1>12, <1>13, <2>1
  <1>15. t[m + 1] \in 0..255
    <2> DEFINE B == 0..255
    <2>1. m + 1 \in 1..Len(t) /\ t \in Seq(B)
      BY <1>1
    <2> HIDE DEF B
    <2>2. t[m + 1] \in B
      BY ONLY <2>1, ElementIsInside
    <2> QED BY <2>2 DEF B
  <1>16. next.tmp = q /\ next.start = first /\ next.digits = E
    OBVIOUS
  <1> HIDE DEF next
  <1>17. /\ first \in Nat /\ zeros <= first /\ first <= N
         /\ \A i \in 1..first : q[i] = 0
         /\ L + 1 <= 2 * (first - zeros) + 1
         /\ L + 1 = 2 * (first - zeros) + 1 /\ first < N =>
                q[first + 1] < 58
         /\ L + 1 <= 2 * (N - zeros)
    <2>1. CASE q[m + 1] = 0
      <3>1. first = m + 1
        BY <1>5, <2>1
      <3>2. \A i \in 1..(m + 1) : i \in 1..m \/ i = m + 1
        BY <1>1
      <3>3. \A i \in 1..(m + 1) : q[i] = 0
        BY <1>8, <2>1, <3>2
      <3>4. L + 1 # 2 * (first - zeros) + 1
        BY <1>1, <1>3, <3>1
      <3>5. /\ first \in Nat /\ zeros <= first /\ first <= N
            /\ L + 1 <= 2 * (first - zeros) + 1
            /\ L + 1 <= 2 * (N - zeros)
        BY <1>1, <1>3, <3>1
      <3> QED BY <3>1, <3>3, <3>4, <3>5
    <2>2. CASE q[m + 1] # 0
      <3>1. first = m
        BY <1>5, <2>2
      <3> DEFINE x == t[m + 1]
      <3>2. x \in 0..255 /\ x \div 58 # 0
        BY <1>8, <1>15, <2>2
      <3> HIDE DEF x
      <3>3. ~(x < 58) /\ x \div 58 < 58
        BY <3>2
      <3>4. L <= 2 * (m - zeros)
        BY <1>1, <1>3, <3>3 DEF x
      <3>5. q[m + 1] < 58
        BY <1>8, <3>3 DEF x
      <3>6. /\ first \in Nat /\ zeros <= first /\ first <= N
            /\ L + 1 <= 2 * (first - zeros) + 1
            /\ L + 1 <= 2 * (N - zeros)
        BY <1>1, <3>1, <3>4
      <3> QED BY <1>8, <3>1, <3>5, <3>6
    <2> QED BY <2>1, <2>2
  <1>18. IsConverted(bytes, zeros, next)
    <2> DEFINE M == Len(next.digits)
    <2>1. /\ next.tmp \in Seq(0..255) /\ Len(next.tmp) = N
          /\ next.digits \in Seq(0..57) /\ M = L + 1
      BY <1>7, <1>11, <1>16
    <2>2. V(bytes) = V(next.tmp) * P[M] + W(next.digits)
      BY <1>14, <1>16, <2>1
    <2>3. /\ next.start \in Nat /\ zeros <= next.start /\ next.start <= N
          /\ \A i \in 1..next.start : next.tmp[i] = 0
      BY <1>16, <1>17
    <2>4. /\ M <= 2 * (next.start - zeros) + 1
          /\ M = 2 * (next.start - zeros) + 1 /\ next.start < N =>
                 next.tmp[next.start + 1] < 58
          /\ M <= 2 * (N - zeros)
      BY <1>16, <1>17, <2>1
    <2> HIDE DEF M
    <2> QED BY <2>1, <2>2, <2>3, <2>4 DEF IsConverted, V, W, P, N, M
  <1> QED BY <1>18 DEF next, q, r, t, E, D

LEMMA ConversionStarts ==
    ASSUME NEW bytes \in Seq(0..255), NEW zeros \in 0..Len(bytes),
           \A i \in 1..zeros : bytes[i] = 0
    PROVE  IsConverted(bytes, zeros,
                       [tmp |-> bytes, start |-> zeros, digits |-> <<>>])
  <1> DEFINE s == [tmp |-> bytes, start |-> zeros, digits |-> <<>>]
             N == Len(bytes)
             V(u) == ValueOf(u, 256)
  <1>1. /\ s.tmp = bytes /\ s.start = zeros /\ s.digits = <<>>
        /\ Len(s.digits) = 0 /\ s.digits \in Seq(0..57)
    OBVIOUS
  <1>2. N \in Nat /\ zeros \in Nat /\ zeros <= N /\ Len(s.tmp) = N
    BY <1>1
  <1>3. bytes \in Seq(Nat)
    BY OctetsAreDigits
  <1>4. V(bytes) \in Nat
    <2>1. 256 \in Nat
      OBVIOUS
    <2> QED BY ONLY <1>3, <2>1, ValueIsNat
  <1>5. Power(58)[0] = 1 /\ ValueOf(<<>>, 58) = 0
    <2>1. 58 \in Nat
      OBVIOUS
    <2> QED BY ONLY <2>1, PowerOfZero, NothingIsZero
  <1> HIDE DEF s, N
  <1>6. V(bytes) = V(s.tmp) * Power(58)[Len(s.digits)]
                   + ValueOf(s.digits, 58)
    <2> DEFINE v == V(bytes)
    <2>1. v \in Nat
      BY <1>4
    <2> HIDE DEF v
    <2>2. v = v * 1 + 0
      BY <2>1
    <2>3. V(s.tmp) = v /\ Power(58)[Len(s.digits)] = 1
          /\ ValueOf(s.digits, 58) = 0
      BY <1>1, <1>5 DEF v
    <2> HIDE DEF V
    <2> QED BY <2>2, <2>3 DEF v
  <1> DEFINE L == Len(s.digits)
  <1>7. /\ L = 0 /\ L <= 2 * (s.start - zeros) + 1
        /\ ~(L = 2 * (s.start - zeros) + 1)
        /\ L <= 2 * (N - zeros)
    BY <1>1, <1>2
  <1> HIDE DEF L
  <1> QED BY <1>1, <1>2, <1>6, <1>7 DEF IsConverted, s, N, V, L

(* The digits of a key, some of them leading zeros, are its number.        *)
LEMMA DigitsMakeKey ==
    ASSUME NEW bytes \in Seq(0..255), NEW zeros \in 0..Len(bytes),
           \A i \in 1..zeros : bytes[i] = 0
    PROVE  LET digits == Base58Digits(bytes, zeros)
           IN  /\ digits \in Seq(0..57)
               /\ Len(digits) <= 2 * (Len(bytes) - zeros)
               /\ ValueOf(digits, 58) = ValueOf(bytes, 256)
  <1> DEFINE B == 0..255
             D == 0..57
             T == [tmp : Seq(B), start : Nat, digits : Seq(D)]
             Turn(s) ==
                 LET next == DividedBy58(s.tmp)
                 IN  [tmp |-> next.tmp,
                      start |-> IF next.tmp[s.start + 1] = 0
                                THEN s.start + 1 ELSE s.start,
                      digits |-> <<next.rest>> \o s.digits]
             turn == [s \in T |-> IF s.start >= Len(s.tmp) THEN s
                                  ELSE Turn(s)]
             start == [tmp |-> bytes, start |-> zeros, digits |-> <<>>]
             A == After(turn, start)
             N == Len(bytes)
             last == A[2 * N + 1]
  <1>1. \A t \in Seq(B) : DividedBy58(t) \in [tmp : Seq(B), rest : D]
    BY DivisionIsTyped DEF DividedBy58
  <1>2. bytes \in Seq(B) /\ N \in Nat /\ 2 * N + 1 \in Nat /\ zeros \in Nat
        /\ zeros <= N
    OBVIOUS
  <1>3. turn \in [T -> T]
    <2> HIDE DEF B, D
    <2> SUFFICES ASSUME NEW s \in T PROVE turn[s] \in T
      OBVIOUS
    <2>1. CASE s.start >= Len(s.tmp)
      BY <2>1
    <2>2. CASE ~(s.start >= Len(s.tmp))
      <3> DEFINE next == DividedBy58(s.tmp)
                 first == IF next.tmp[s.start + 1] = 0
                          THEN s.start + 1 ELSE s.start
      <3>1. /\ s.tmp \in Seq(B) /\ s.start \in Nat /\ s.digits \in Seq(D)
            /\ first \in Nat
        OBVIOUS
      <3>2. next \in [tmp : Seq(B), rest : D]
        BY <1>1, <3>1
      <3>3. turn[s] = [tmp |-> next.tmp, start |-> first,
                       digits |-> <<next.rest>> \o s.digits]
        BY <2>2
      <3> HIDE DEF next, first, turn
      <3>4. <<next.rest>> \in Seq(D)
        BY <3>2
      <3>5. <<next.rest>> \o s.digits \in Seq(D)
        BY <3>1, <3>4
      <3> QED BY <3>1, <3>2, <3>3, <3>5
    <2> QED BY <2>1, <2>2
  <1>4. start \in T
    <2> HIDE DEF B, D
    <2> QED BY <1>2
  <1>5. Base58Digits(bytes, zeros) = last.digits
    BY DEF Base58Digits
  <1>6. \A s \in T : turn[s] = IF s.start >= Len(s.tmp) THEN s ELSE Turn(s)
    <2> HIDE DEF T, Turn
    <2> QED OBVIOUS
  <1> HIDE DEF turn, A
  <1>7. Follows(A, T, turn, start)
    <2> HIDE DEF T, start
    <2> QED BY <1>3, <1>4, LoopFollows DEF A
  <1> DEFINE Good(k) == /\ IsConverted(bytes, zeros, A[k])
                        /\ A[k].start < N => k <= Len(A[k].digits)
             K == {k \in Nat : Good(k)}
  <1>8. Good(0)
    <2>1. IsConverted(bytes, zeros, start)
      BY ConversionStarts
    <2> HIDE DEF start
    <2>2. A[0] = start
      BY <1>7 DEF Follows
    <2>3. Len(start.digits) = 0
      BY DEF start
    <2> QED BY <2>1, <2>2, <2>3
  <1> HIDE DEF start, Turn
  <1>9. ASSUME NEW k \in Nat, Good(k) PROVE Good(k + 1)
    <2> DEFINE s == A[k]
    <2>1. A[k + 1] = IF s.start >= Len(s.tmp) THEN s ELSE Turn(s)
      <3>1. s \in T /\ A[k + 1] = turn[s]
        BY <1>7, ZenonT(60) DEF Follows
      <3> HIDE DEF T, s
      <3> QED BY <1>6, <3>1
    <2>2. IsConverted(bytes, zeros, s)
      BY <1>9
    <2>3. s.start < N => k <= Len(s.digits)
      BY <1>9
    <2> HIDE DEF s
    <2>4. Len(s.tmp) = N /\ s.start \in Nat /\ s.start <= N
          /\ s.digits \in Seq(D)
      BY <2>2 DEF IsConverted
    <2>5. CASE s.start >= Len(s.tmp)
      BY <1>2, <2>1, <2>2, <2>4, <2>5
    <2>6. CASE ~(s.start >= Len(s.tmp))
      <3> DEFINE first == IF Divided(s.tmp).tmp[s.start + 1] = 0
                          THEN s.start + 1 ELSE s.start
                 E == <<Divided(s.tmp).rest>> \o s.digits
                 next == [tmp |-> Divided(s.tmp).tmp, start |-> first,
                          digits |-> E]
      <3>1. s.start < N
        BY <1>2, <2>4, <2>6
      <3>2. A[k + 1] = next
        BY <2>1, <2>6 DEF Turn, DividedBy58
      <3>3. IsConverted(bytes, zeros, next)
        <4>1. s.start < Len(bytes)
          BY <3>1
        <4>2. first = IF Divided(s.tmp).tmp[s.start + 1] = 0
                      THEN s.start + 1 ELSE s.start
          OBVIOUS
        <4> HIDE DEF first
        <4> QED BY ONLY <1>2, <2>2, <4>1, <4>2, PassIsConverted DEF B
      <3>4. Len(E) = Len(s.digits) + 1 /\ Len(s.digits) \in Nat
        <4> HIDE DEF D
        <4>1. <<Divided(s.tmp).rest>> \in Seq({Divided(s.tmp).rest} \cup D)
          OBVIOUS
        <4>2. s.digits \in Seq({Divided(s.tmp).rest} \cup D)
          BY <2>4
        <4> QED BY <4>1, <4>2
      <3>5. k <= Len(s.digits)
        BY <2>3, <3>1
      <3> HIDE DEF E, first
      <3>6. next.digits = E
        OBVIOUS
      <3> HIDE DEF next
      <3> QED BY <3>2, <3>3, <3>4, <3>5, <3>6
    <2> QED BY <2>5, <2>6
  <1> HIDE DEF Good
  <1>10. Nat \subseteq K
    <2>1. 0 \in K
      BY <1>8
    <2>2. \A k \in Nat : k \in K => k + 1 \in K
      BY <1>9
    <2> HIDE DEF K
    <2> QED BY <2>1, <2>2, SetInduction
  <1>11. Good(2 * N + 1)
    BY <1>2, <1>10
  <1>12. /\ IsConverted(bytes, zeros, last)
         /\ last.start < N => 2 * N + 1 <= Len(last.digits)
    BY <1>11 DEF Good
  <1> HIDE DEF last
  <1> DEFINE L == Len(last.digits)
  <1>13. /\ last.tmp \in Seq(0..255) /\ Len(last.tmp) = N
         /\ last.start \in Nat /\ zeros <= last.start /\ last.start <= N
         /\ last.digits \in Seq(0..57)
         /\ \A i \in 1..last.start : last.tmp[i] = 0
         /\ ValueOf(bytes, 256)
                = ValueOf(last.tmp, 256) * Power(58)[L]
                  + ValueOf(last.digits, 58)
         /\ L <= 2 * (N - zeros)
    BY <1>12 DEF IsConverted
  <1>14. L \in Nat
    BY <1>13
  <1>15. last.start = N
    <2> HIDE DEF L, N
    <2>1. ~(last.start < N)
      BY <1>2, <1>12, <1>13, <1>14 DEF L
    <2> QED BY <1>2, <1>13, <2>1
  <1>16. ValueOf(last.tmp, 256) = 0
    <2> DEFINE t == last.tmp
    <2>1. t \in Seq(Nat) /\ Len(t) = N /\ \A i \in 1..N : t[i] = 0
      BY <1>13, <1>15, OctetsAreDigits
    <2> HIDE DEF t
    <2>2. SubSeq(t, N + 1, Len(t)) = <<>>
      BY <1>2, <2>1
    <2>3. N \in 0..Len(t) /\ 256 \in Nat
      BY <1>2, <2>1
    <2> HIDE DEF N
    <2>4. ValueOf(t, 256) = ValueOf(SubSeq(t, N + 1, Len(t)), 256)
      BY ONLY <2>1, <2>3, ZerosAreNothing
    <2> QED BY <2>2, <2>3, <2>4, NothingIsZero, ZenonT(60) DEF t
  <1>17. ValueOf(bytes, 256) = ValueOf(last.digits, 58)
    <2> DEFINE p == Power(58)[L]
               w == ValueOf(last.digits, 58)
    <2>1. p \in Nat /\ w \in Nat
      <3>1. 58 \in Nat /\ last.digits \in Seq(Nat)
        BY <1>13, DigitsAreNumbers58
      <3> HIDE DEF L
      <3>2. p \in Nat
        BY ONLY <1>14, <3>1, PowerIsProduct
      <3>3. w \in Nat
        BY ONLY <3>1, ValueIsNat
      <3> QED BY <3>2, <3>3
    <2>2. ValueOf(bytes, 256) = 0 * p + w
      BY <1>13, <1>16
    <2> HIDE DEF p, w
    <2> QED BY <2>1, <2>2 DEF w
  <1> QED BY <1>5, <1>13, <1>17

(* Zeros are counted up to the first digit that is none.                   *)
LEMMA ZerosAreAtStart ==
    ASSUME NEW S, NEW s \in Seq(S)
    PROVE  /\ CountZeros(s) \in 0..Len(s)
           /\ \A i \in 1..CountZeros(s) : s[i] = 0
           /\ CountZeros(s) < Len(s) => s[CountZeros(s) + 1] # 0
  <1> DEFINE I == {i \in 1..Len(s) : s[i] # 0}
             first == SelectInSeq(s, LAMBDA b : b # 0)
  <1>1. Len(s) \in Nat /\ I \in SUBSET Nat
    OBVIOUS
  <1>2. first = IF I # {} THEN Min(I) ELSE 0
    BY DEF SelectInSeq
  <1>3. CountZeros(s) = IF first = 0 THEN Len(s) ELSE first - 1
    BY DEF CountZeros
  <1> HIDE DEF first
  <1>4. CASE I = {}
    <2>1. CountZeros(s) = Len(s)
      BY <1>2, <1>3, <1>4
    <2>2. \A i \in 1..Len(s) : s[i] = 0
      BY <1>4
    <2> QED BY <1>1, <2>1, <2>2
  <1>5. CASE I # {}
    <2> DEFINE m == Min(I)
    <2>1. m \in I /\ \A y \in I : m <= y
      <3> HIDE DEF I
      <3> QED BY <1>1, <1>5, LeastExists
    <2> HIDE DEF m
    <2>2. first = m
      BY <1>2, <1>5 DEF m
    <2>3. m \in 1..Len(s) /\ s[m] # 0
      BY <2>1
    <2>4. CountZeros(s) = m - 1
      BY <1>3, <2>2, <2>3
    <2>5. ASSUME NEW i \in 1..(m - 1) PROVE s[i] = 0
      <3>1. i \in 1..Len(s) /\ ~(m <= i)
        BY <1>1, <2>3
      <3> QED BY <2>1, <3>1
    <2>6. m - 1 \in 0..Len(s) /\ (m - 1) + 1 = m
      BY <1>1, <2>3
    <2> QED BY <2>3, <2>4, <2>5, <2>6
  <1> QED BY <1>4, <1>5

LEMMA ZerosAreUnique ==
    ASSUME NEW S, NEW s \in Seq(S), NEW z \in 0..Len(s),
           \A i \in 1..z : s[i] = 0, z < Len(s) => s[z + 1] # 0
    PROVE  CountZeros(s) = z
  <1> DEFINE c == CountZeros(s)
  <1>1. /\ c \in 0..Len(s) /\ \A i \in 1..c : s[i] = 0
        /\ c < Len(s) => s[c + 1] # 0
    BY ZerosAreAtStart
  <1> HIDE DEF c
  <1>2. Len(s) \in Nat
    OBVIOUS
  <1>3. ~(c < z)
    <2> SUFFICES ASSUME c < z PROVE FALSE
      OBVIOUS
    <2>1. c + 1 \in 1..z /\ c < Len(s)
      BY <1>1, <1>2
    <2> QED BY <1>1, <2>1
  <1>4. ~(z < c)
    <2> SUFFICES ASSUME z < c PROVE FALSE
      OBVIOUS
    <2>1. z + 1 \in 1..c /\ z < Len(s)
      BY <1>1, <1>2
    <2> QED BY <1>1, <2>1
  <1>5. c = z
    BY <1>1, <1>2, <1>3, <1>4
  <1> QED BY <1>5 DEF c

LEMMA PowerIsMonotone ==
    ASSUME NEW base \in Nat \ {0}, NEW m \in Nat, NEW n \in Nat, m <= n
    PROVE  Power(base)[m] <= Power(base)[n]
  <1> DEFINE P == Power(base)
             S == {k \in Nat : P[m] <= P[m + k]}
  <1>1. \A k \in Nat : P[k] \in Nat /\ P[k + 1] = base * P[k]
    BY PowerIsProduct
  <1> HIDE DEF P
  <1>2. 0 \in S
    BY <1>1
  <1>3. ASSUME NEW k \in Nat, k \in S PROVE k + 1 \in S
    <2>1. /\ P[m] <= P[m + k] /\ m + k \in Nat
          /\ m + (k + 1) = (m + k) + 1
      BY <1>3
    <2>2. P[m] \in Nat /\ P[m + k] \in Nat
          /\ P[(m + k) + 1] = base * P[m + k]
      BY <1>1, <2>1
    <2> DEFINE x == P[m + k]
    <2>3. x \in Nat
      BY <2>2
    <2> HIDE DEF x
    <2>4. x <= base * x /\ base * x \in Nat
      <3>1. base \in Nat /\ 1 \in Nat /\ 1 <= base
        OBVIOUS
      <3>2. 1 * x <= base * x /\ base * x \in Nat
        BY ONLY <2>3, <3>1, ProductGrows
      <3> QED BY <2>3, <3>2
    <2>5. P[m] <= P[m + (k + 1)]
      BY <2>1, <2>2, <2>4 DEF x
    <2> QED BY <2>5
  <1> HIDE DEF S
  <1>4. Nat \subseteq S
    BY <1>2, <1>3, SetInduction
  <1>5. n - m \in S /\ m + (n - m) = n
    BY <1>4
  <1> QED BY <1>5 DEF S, P

(* The digits behind the leading zeros tell how large a number is.         *)
LEMMA LengthTellsSize ==
    ASSUME NEW base \in Nat, NEW s \in Seq(Nat), NEW m \in Nat,
           \A i \in 1..Len(s) : s[i] < base,
           m = Len(s) - CountZeros(s)
    PROVE  /\ ValueOf(s, base) < Power(base)[m]
           /\ m > 0 => Power(base)[m - 1] <= ValueOf(s, base)
  <1> DEFINE z == CountZeros(s)
             t == SubSeq(s, z + 1, Len(s))
  <1>1. /\ z \in 0..Len(s) /\ \A i \in 1..z : s[i] = 0
        /\ z < Len(s) => s[z + 1] # 0
    BY ZerosAreAtStart
  <1>2. m = Len(s) - z
    OBVIOUS
  <1> HIDE DEF z
  <1>3. /\ t \in Seq(Nat) /\ Len(t) = m
        /\ \A i \in 1..m : t[i] = s[z + i]
    BY <1>1, <1>2, SequenceIsSplit
  <1>4. ValueOf(s, base) = ValueOf(t, base)
    <2> HIDE DEF t
    <2>1. ValueOf(s, base) = ValueOf(SubSeq(s, z + 1, Len(s)), base)
      BY ONLY <1>1, ZerosAreNothing, base \in Nat, s \in Seq(Nat)
    <2> QED BY <2>1 DEF t
  <1> HIDE DEF t
  <1>5. Len(s) \in Nat
    OBVIOUS
  <1>6. \A i \in 1..Len(t) : t[i] < base
    <2> SUFFICES ASSUME NEW i \in 1..m PROVE t[i] < base
      BY <1>3
    <2>1. z + i \in 1..Len(s)
      BY <1>1, <1>2, <1>5
    <2> QED BY <1>3, <2>1
  <1>7. ValueOf(t, base) < Power(base)[m]
    <2>1. ValueOf(t, base) < Power(base)[Len(t)]
      BY ONLY <1>3, <1>6, NumberIsBounded, base \in Nat
    <2> QED BY <1>3, <2>1
  <1>8. ASSUME m > 0 PROVE Power(base)[m - 1] <= ValueOf(t, base)
    <2>1. t[1] = s[z + 1] /\ z < Len(s) /\ t[1] \in Nat
      BY <1>1, <1>2, <1>3, <1>5, <1>8
    <2>2. t[1] > 0
      BY <1>1, <2>1
    <2>3. m - 1 \in Nat /\ Len(t) = (m - 1) + 1
      BY <1>3, <1>8
    <2> DEFINE n == m - 1
    <2> HIDE DEF n
    <2>4. n \in Nat /\ Len(t) = n + 1
      BY <2>3 DEF n
    <2>5. Power(base)[n] <= ValueOf(t, base)
      BY ONLY <1>3, <2>2, <2>4, FirstDigitCounts, base \in Nat
    <2> QED BY <2>5 DEF n
  <1> QED BY <1>4, <1>7, <1>8

(* Two numbers with as many leading zeros and the same value are the same, *)
(* digit by digit.                                                         *)
LEMMA NumberAndZerosAreUnique ==
    ASSUME NEW base \in Nat \ {0}, NEW s \in Seq(Nat), NEW t \in Seq(Nat),
           \A i \in 1..Len(s) : s[i] < base,
           \A i \in 1..Len(t) : t[i] < base,
           CountZeros(s) = CountZeros(t),
           ValueOf(s, base) = ValueOf(t, base)
    PROVE  s = t
  <1> DEFINE z == CountZeros(s)
             m == Len(s) - z
             n == Len(t) - z
             P == Power(base)
             v == ValueOf(s, base)
  <1>0. base \in Nat
    OBVIOUS
  <1>1. /\ z \in 0..Len(s) /\ z \in 0..Len(t)
        /\ Len(s) \in Nat /\ Len(t) \in Nat
    BY ZerosAreAtStart
  <1>2. m \in Nat /\ n \in Nat
    <2> HIDE DEF z
    <2> QED BY <1>1
  <1>3. v < P[m] /\ (m > 0 => P[m - 1] <= v)
    <2> DEFINE k == m
    <2>1. k = Len(s) - CountZeros(s) /\ k \in Nat
      BY <1>2
    <2> HIDE DEF k
    <2>2. v < P[k] /\ (k > 0 => P[k - 1] <= v)
      BY <1>0, <2>1, LengthTellsSize
    <2> QED BY <2>2 DEF k
  <1>4. v < P[n] /\ (n > 0 => P[n - 1] <= v)
    <2> DEFINE k == n
    <2>1. k = Len(t) - CountZeros(t) /\ k \in Nat
      BY <1>2
    <2> HIDE DEF k
    <2>2. ValueOf(t, base) < P[k]
          /\ (k > 0 => P[k - 1] <= ValueOf(t, base))
      BY <1>0, <2>1, LengthTellsSize
    <2> QED BY <2>2 DEF k
  <1>5. v \in Nat /\ \A k \in Nat : P[k] \in Nat
    BY <1>0, ValueIsNat, PowerIsProduct
  <1>6. \A i, j \in Nat : i <= j => P[i] <= P[j]
    BY PowerIsMonotone
  <1> HIDE DEF m, n, P, v
  <1>7. m = n
    <2>1. ~(m < n)
      <3> SUFFICES ASSUME m < n PROVE FALSE
        OBVIOUS
      <3>1. n - 1 \in Nat /\ m <= n - 1 /\ n > 0
        BY <1>2
      <3>2. P[m] <= P[n - 1] /\ P[n - 1] <= v
        BY <1>2, <1>4, <1>6, <3>1
      <3> QED BY <1>2, <1>3, <1>5, <3>1, <3>2
    <2>2. ~(n < m)
      <3> SUFFICES ASSUME n < m PROVE FALSE
        OBVIOUS
      <3>1. m - 1 \in Nat /\ n <= m - 1 /\ m > 0
        BY <1>2
      <3>2. P[n] <= P[m - 1] /\ P[m - 1] <= v
        BY <1>2, <1>3, <1>6, <3>1
      <3> QED BY <1>2, <1>4, <1>5, <3>1, <3>2
    <2> QED BY <1>2, <2>1, <2>2
  <1>8. Len(s) = Len(t)
    <2> HIDE DEF z
    <2> QED BY <1>1, <1>7 DEF m, n
  <1> HIDE DEF z
  <1> QED BY <1>0, <1>8, DigitsAreUnique

(* The digits of the text of a key: a zero for each of its zeros, and its  *)
(* number.                                                                 *)
KeyDigits(bytes) ==
    LET zeros == CountZeros(bytes)
        digits == Base58Digits(bytes, zeros)
    IN  [i \in 1..zeros |-> 0]
            \o SubSeq(digits, CountZeros(digits) + 1, Len(digits))

KeyText(bytes) ==
    [i \in 1..Len(KeyDigits(bytes)) |->
        BASE58_ALPHABET[KeyDigits(bytes)[i] + 1]]

LEMMA ZerosBefore ==
    ASSUME NEW z \in Nat
    PROVE  LET s == [i \in 1..z |-> 0]
           IN  /\ s \in Seq(0..57) /\ s \in Seq(0..255)
               /\ Len(s) = z /\ \A i \in 1..z : s[i] = 0
  <1> DEFINE s == [i \in 1..z |-> 0]
  <1>1. ASSUME NEW S, 0 \in S
        PROVE  s \in Seq(S) /\ Len(s) = z /\ \A i \in 1..z : s[i] = 0
    BY <1>1
  <1>2. 0 \in 0..57 /\ 0 \in 0..255
    OBVIOUS
  <1> HIDE DEF s
  <1>3. s \in Seq(0..57) /\ Len(s) = z /\ \A i \in 1..z : s[i] = 0
    BY <1>1, <1>2
  <1>4. s \in Seq(0..255)
    BY <1>1, <1>2
  <1> QED BY <1>3, <1>4 DEF s

LEMMA KeyDigitsAreKey ==
    ASSUME NEW bytes \in Seq(0..255)
    PROVE  /\ KeyDigits(bytes) \in Seq(0..57)
           /\ Len(KeyDigits(bytes)) <= 2 * Len(bytes)
           /\ ValueOf(KeyDigits(bytes), 58) = ValueOf(bytes, 256)
           /\ CountZeros(KeyDigits(bytes)) = CountZeros(bytes)
           /\ Len(Base58Digits(bytes, CountZeros(bytes))) <= 2 * Len(bytes)
  <1> DEFINE zeros == CountZeros(bytes)
             D == 0..57
             digits == Base58Digits(bytes, zeros)
             c == CountZeros(digits)
             t == SubSeq(digits, c + 1, Len(digits))
             o == [i \in 1..zeros |-> 0]
             E == o \o t
             N == Len(bytes)
  <1>0. KeyDigits(bytes) = E
    BY DEF KeyDigits
  <1>1. /\ zeros \in 0..N /\ \A i \in 1..zeros : bytes[i] = 0
        /\ N \in Nat
    BY ZerosAreAtStart
  <1> HIDE DEF zeros
  <1>2. /\ digits \in Seq(D) /\ Len(digits) <= 2 * (N - zeros)
        /\ ValueOf(digits, 58) = ValueOf(bytes, 256)
    <2>1. zeros \in 0..Len(bytes) /\ bytes \in Seq(0..255)
      BY <1>1
    <2>2. /\ digits \in Seq(0..57)
          /\ Len(digits) <= 2 * (Len(bytes) - zeros)
          /\ ValueOf(digits, 58) = ValueOf(bytes, 256)
      BY ONLY <1>1, <2>1, DigitsMakeKey
    <2> QED BY <2>2
  <1> HIDE DEF digits
  <1>3. /\ c \in 0..Len(digits) /\ \A i \in 1..c : digits[i] = 0
        /\ c < Len(digits) => digits[c + 1] # 0
        /\ Len(digits) \in Nat
    <2> HIDE DEF D
    <2> QED BY <1>2, ZerosAreAtStart
  <1> HIDE DEF c
  <1>4. /\ t \in Seq(D) /\ Len(t) = Len(digits) - c
        /\ \A i \in 1..(Len(digits) - c) : t[i] = digits[c + i]
    <2> HIDE DEF D
    <2> QED BY <1>2, <1>3, SequenceIsSplit
  <1>5. ValueOf(t, 58) = ValueOf(digits, 58)
    <2>1. digits \in Seq(Nat) /\ 58 \in Nat
      BY <1>2, DigitsAreNumbers58
    <2> HIDE DEF t
    <2>2. ValueOf(digits, 58) = ValueOf(SubSeq(digits, c + 1, Len(digits)), 58)
      BY ONLY <1>3, <2>1, ZerosAreNothing
    <2> QED BY <2>2 DEF t
  <1> HIDE DEF t
  <1>6. /\ o \in Seq(D) /\ Len(o) = zeros /\ \A i \in 1..zeros : o[i] = 0
        /\ zeros \in Nat
    BY <1>1, ZerosBefore
  <1> HIDE DEF o
  <1>7. /\ E \in Seq(D) /\ Len(E) = zeros + Len(t)
        /\ \A i \in 1..zeros : E[i] = 0
        /\ \A i \in 1..Len(t) : E[zeros + i] = t[i]
    <2> HIDE DEF D
    <2>1. /\ o \o t \in Seq(D) /\ Len(o \o t) = Len(o) + Len(t)
          /\ \A k \in 1..Len(o) : (o \o t)[k] = o[k]
          /\ \A k \in 1..Len(t) : (o \o t)[Len(o) + k] = t[k]
      <3>1. o \in Seq(D) /\ t \in Seq(D)
        BY <1>4, <1>6
      <3> QED BY ONLY <3>1, TwoParts
    <2> QED BY <1>6, <2>1
  <1> DEFINE L == Len(t)
  <1>8. L \in Nat /\ L = Len(digits) - c
    BY <1>3, <1>4
  <1>9. ValueOf(E, 58) = ValueOf(t, 58)
    <2> DEFINE u == SubSeq(E, zeros + 1, Len(E))
    <2> HIDE DEF E
    <2>1. zeros \in 0..Len(E)
      BY <1>1, <1>6, <1>7, <1>8
    <2>2. E \in Seq(Nat) /\ 58 \in Nat
      BY <1>7, DigitsAreNumbers58
    <2>3. ValueOf(E, 58) = ValueOf(u, 58)
      <3>1. ValueOf(E, 58) = ValueOf(SubSeq(E, zeros + 1, Len(E)), 58)
        BY ONLY <1>7, <2>1, <2>2, ZerosAreNothing
      <3> QED BY <3>1
    <2>4. /\ u \in Seq(D) /\ Len(u) = Len(E) - zeros
          /\ \A i \in 1..(Len(E) - zeros) : u[i] = E[zeros + i]
      <3> HIDE DEF D
      <3> QED BY <1>7, <2>1, SequenceIsSplit
    <2> HIDE DEF u, D
    <2>5. Len(u) = Len(t) /\ Len(E) - zeros = Len(t)
      BY <1>6, <1>7, <1>8, <2>4
    <2>6. \A i \in 1..Len(t) : u[i] = t[i]
      BY <1>7, <2>4, <2>5
    <2>7. u = t
      BY <1>4, <2>4, <2>5, <2>6
    <2> QED BY <2>3, <2>7
  <1> HIDE DEF E
  <1>10. CountZeros(E) = zeros
    <2>1. zeros \in 0..Len(E)
      BY <1>1, <1>6, <1>7, <1>8
    <2>2. ASSUME zeros < Len(E) PROVE E[zeros + 1] # 0
      <3>1. 1 \in 1..Len(t) /\ c < Len(digits)
            /\ 1 \in 1..(Len(digits) - c)
        BY <1>3, <1>6, <1>7, <1>8, <2>2
      <3> QED BY <1>3, <1>4, <1>7, <3>1
    <2> HIDE DEF D
    <2> QED BY <1>7, <2>1, <2>2, ZerosAreUnique
  <1>11. Len(E) <= 2 * N /\ Len(digits) <= 2 * N
    BY <1>1, <1>2, <1>3, <1>7, <1>8
  <1> QED BY <1>0, <1>2, <1>5, <1>7, <1>9, <1>10, <1>11 DEF zeros, digits, N

LEMMA KeyTextIsRead ==
    ASSUME NEW bytes \in Seq(0..255)
    PROVE  LET text == KeyText(bytes)
               digits == KeyDigits(bytes)
           IN  /\ text \in Seq(Alphabet58)
               /\ Len(text) = Len(digits)
               /\ [i \in 1..Len(text) |-> DigitOf(text[i])] = digits
  <1> DEFINE digits == KeyDigits(bytes)
             text == KeyText(bytes)
             D == 0..57
  <1>1. digits \in Seq(D)
    BY KeyDigitsAreKey
  <1>2. text = [i \in 1..Len(digits) |-> BASE58_ALPHABET[digits[i] + 1]]
    BY DEF KeyText
  <1> HIDE DEF digits, text
  <1>3. \A i \in 1..Len(digits) : digits[i] \in D
    <2> HIDE DEF D
    <2> QED BY <1>1
  <1>4. \A i \in 1..Len(digits) :
            BASE58_ALPHABET[digits[i] + 1] \in Alphabet58
    <2> SUFFICES ASSUME NEW i \in 1..Len(digits)
                 PROVE  BASE58_ALPHABET[digits[i] + 1] \in Alphabet58
      OBVIOUS
    <2>1. digits[i] \in D
      BY <1>3
    <2> DEFINE d == digits[i]
    <2>a. d \in 0..57
      BY <2>1
    <2> HIDE DEF d
    <2>2. d + 1 \in 1..58
      BY <2>a
    <2> QED BY <2>2 DEF Alphabet58, d
  <1>5. Len(digits) \in Nat
    <2> HIDE DEF D
    <2> QED BY <1>1
  <1>6. text \in Seq(Alphabet58) /\ Len(text) = Len(digits)
    <2> DEFINE n == Len(digits)
               C(i) == BASE58_ALPHABET[digits[i] + 1]
    <2>1. n \in Nat /\ \A i \in 1..n : C(i) \in Alphabet58
      BY <1>4, <1>5
    <2>2. text = [i \in 1..n |-> C(i)]
      BY <1>2
    <2> HIDE DEF n, C
    <2> QED BY <2>1, <2>2 DEF n
  <1>7. \A i \in 1..Len(digits) : DigitOf(text[i]) = digits[i]
    <2> SUFFICES ASSUME NEW i \in 1..Len(digits)
                 PROVE  DigitOf(text[i]) = digits[i]
      OBVIOUS
    <2>1. text[i] = BASE58_ALPHABET[digits[i] + 1]
      BY <1>2
    <2>2. digits[i] \in 0..57
      BY <1>3
    <2> QED BY <2>1, <2>2, CharacterIsRead
  <1>8. digits = [i \in 1..Len(digits) |-> digits[i]]
    <2> HIDE DEF D
    <2> QED BY <1>1
  <1>9. [i \in 1..Len(text) |-> DigitOf(text[i])] = digits
    BY <1>6, <1>7, <1>8
  <1> QED BY <1>6, <1>9 DEF digits, text

(* encode_base58 writes this text if it fits, and no more than twice as    *)
(* many bytes as it is given into its second buffer.                       *)
LEMMA KeyIsEncoded ==
    ASSUME NEW bytes \in Seq(0..255), NEW length \in Nat
    PROVE  LET encoded == encode_base58(bytes, length)
           IN  /\ encoded.used <= 2 * Len(bytes)
               /\ encoded.rc = 0 <=> Len(KeyText(bytes)) < length
               /\ encoded.rc = 0 => encoded.text = KeyText(bytes)
               /\ encoded.rc # 0 => encoded.text = <<>>
  <1> DEFINE zeros == CountZeros(bytes)
             digits == Base58Digits(bytes, zeros)
             significant == SubSeq(digits, CountZeros(digits) + 1, Len(digits))
             n == zeros + Len(significant)
             text == [i \in 1..n |->
                         BASE58_ALPHABET[IF i <= zeros THEN 1
                                         ELSE significant[i - zeros] + 1]]
             used == Most(Len(digits), Len(text))
             o == [i \in 1..zeros |-> 0]
             E == o \o significant
             encoded == encode_base58(bytes, length)
             N == Len(bytes)
             D == 0..57
  <1>1. encoded =
            IF length < Len(text) + 1
            THEN [rc |-> 1, text |-> <<>>, written |-> 0, used |-> used]
            ELSE [rc |-> 0, text |-> text, written |-> Len(text) + 1,
                  used |-> used]
    BY DEF encode_base58
  <1>2. KeyDigits(bytes) = E
    BY DEF KeyDigits
  <1>3. /\ E \in Seq(D) /\ Len(E) <= 2 * N /\ Len(digits) <= 2 * N
    BY <1>2, KeyDigitsAreKey, ZenonT(60)
  <1>4. KeyText(bytes) = [i \in 1..Len(E) |-> BASE58_ALPHABET[E[i] + 1]]
    BY <1>2 DEF KeyText
  <1>5. zeros \in Nat /\ N \in Nat
    <2>1. CountZeros(bytes) \in 0..Len(bytes) /\ Len(bytes) \in Nat
      BY ZerosAreCounted
    <2> QED BY <2>1
  <1>6. digits \in Seq(D)
    <2> HIDE DEF zeros
    <2> QED BY <1>5, DigitsAreTyped
  <1>7. significant \in Seq(D)
    <2> DEFINE c == CountZeros(digits)
    <2>1. c \in 0..Len(digits)
      <3> HIDE DEF digits, D
      <3> QED BY <1>6, ZerosAreCounted
    <2> HIDE DEF c, digits, D
    <2>2. SubSeq(digits, c + 1, Len(digits)) \in Seq(D)
      BY <1>6, <2>1, SequenceIsSplit
    <2> QED BY <2>2 DEF c
  <1>8. o \in Seq(D) /\ Len(o) = zeros /\ \A i \in 1..zeros : o[i] = 0
    BY <1>5, ZerosBefore
  <1> HIDE DEF zeros, digits, significant, o, D
  <1>9. /\ Len(E) = n /\ \A i \in 1..zeros : E[i] = 0
        /\ \A i \in 1..Len(significant) : E[zeros + i] = significant[i]
    <2>1. o \in Seq(D) /\ significant \in Seq(D)
      BY <1>7, <1>8
    <2>2. /\ Len(o \o significant) = Len(o) + Len(significant)
          /\ \A k \in 1..Len(o) : (o \o significant)[k] = o[k]
          /\ \A k \in 1..Len(significant) :
                 (o \o significant)[Len(o) + k] = significant[k]
      BY ONLY <2>1, TwoParts
    <2> QED BY <1>8, <2>2
  <1>10. n \in Nat /\ Len(significant) \in Nat
    BY <1>5, <1>7
  <1>11. \A i \in 1..n : E[i] = IF i <= zeros THEN 0 ELSE significant[i - zeros]
    <2> SUFFICES ASSUME NEW i \in 1..n
                 PROVE  E[i] = IF i <= zeros THEN 0 ELSE significant[i - zeros]
      OBVIOUS
    <2>1. CASE i <= zeros
      BY <1>5, <1>9, <2>1
    <2>2. CASE ~(i <= zeros)
      <3>1. i - zeros \in 1..Len(significant) /\ i = zeros + (i - zeros)
        BY <1>5, <1>10, <2>2
      <3>2. E[zeros + (i - zeros)] = significant[i - zeros]
        BY <1>9, <3>1
      <3> QED BY <2>2, <3>1, <3>2
    <2> QED BY <2>1, <2>2
  <1>12. 0 + 1 = 1
    OBVIOUS
  <1> HIDE DEF E
  <1>13. text = KeyText(bytes) /\ Len(text) = n
    <2>1. \A i \in 1..n :
              BASE58_ALPHABET[IF i <= zeros THEN 1
                              ELSE significant[i - zeros] + 1]
                  = BASE58_ALPHABET[E[i] + 1]
      <3> HIDE DEF n
      <3> QED BY <1>11, <1>12
    <2>2. text = [i \in 1..n |-> BASE58_ALPHABET[E[i] + 1]]
      <3> HIDE DEF n
      <3> QED BY <2>1
    <2>3. Len(text) = n
      <3> HIDE DEF n
      <3> QED BY <1>10
    <2> QED BY <1>4, <1>9, <2>2, <2>3
  <1> HIDE DEF text, n
  <1>14. encoded.used = used
    <2> HIDE DEF used
    <2> QED BY <1>1
  <1>15. used <= 2 * N
    BY <1>3, <1>9, <1>13 DEF Most
  <1> HIDE DEF used
  <1>16. /\ encoded.rc = 0 <=> ~(length < Len(text) + 1)
         /\ encoded.rc = 0 => encoded.text = text
         /\ encoded.rc # 0 => encoded.text = <<>>
    <2> HIDE DEF encoded
    <2> QED BY <1>1
  <1>17. ~(length < Len(text) + 1) <=> Len(text) < length
    BY <1>10, <1>13
  <1> QED BY <1>13, <1>14, <1>15, <1>16, <1>17

LEMMA ReverseGrows ==
    ASSUME NEW S, NEW s \in Seq(S), NEW x \in S
    PROVE  /\ Reverse(Append(s, x)) \in Seq(S)
           /\ Len(Reverse(Append(s, x))) = Len(s) + 1
           /\ Reverse(Append(s, x))[1] = x
           /\ Tail(Reverse(Append(s, x))) = Reverse(s)
           /\ Reverse(s) \in Seq(S) /\ Len(Reverse(s)) = Len(s)
  <1> DEFINE u == Append(s, x)
             r == Reverse(u)
             n == Len(s)
  <1>1. /\ u \in Seq(S) /\ Len(u) = n + 1 /\ u[n + 1] = x
        /\ \A i \in 1..n : u[i] = s[i]
        /\ n \in Nat
    OBVIOUS
  <1>2. Reverse(s) = [i \in 1..n |-> s[(n - i) + 1]]
    BY DEF Reverse
  <1>3. \A i \in 1..n : (n - i) + 1 \in 1..n
    BY <1>1
  <1>4. Reverse(s) \in Seq(S) /\ Len(Reverse(s)) = n
    <2>1. \A i \in 1..n : s[(n - i) + 1] \in S
      BY <1>3
    <2> HIDE DEF n
    <2> QED BY <1>1, <1>2, <2>1
  <1>5. r = [i \in 1..(n + 1) |-> u[((n + 1) - i) + 1]]
    BY <1>1 DEF Reverse
  <1> HIDE DEF u, r, n
  <1>6. \A i \in 1..(n + 1) : ((n + 1) - i) + 1 \in 1..(n + 1)
    BY <1>1
  <1>7. r \in Seq(S) /\ Len(r) = n + 1
    <2>1. \A i \in 1..(n + 1) : u[((n + 1) - i) + 1] \in S
      BY <1>1, <1>6
    <2> QED BY <1>1, <1>5, <2>1
  <1>8. r[1] = x
    <2>1. 1 \in 1..(n + 1) /\ ((n + 1) - 1) + 1 = n + 1
      BY <1>1
    <2> QED BY <1>1, <1>5, <2>1
  <1>9. Tail(r) \in Seq(S) /\ Len(Tail(r)) = n
        /\ \A i \in 1..n : Tail(r)[i] = r[i + 1]
    BY <1>1, <1>7
  <1>10. \A i \in 1..n : r[i + 1] = s[(n - i) + 1]
    <2> SUFFICES ASSUME NEW i \in 1..n PROVE r[i + 1] = s[(n - i) + 1]
      OBVIOUS
    <2>1. i + 1 \in 1..(n + 1) /\ ((n + 1) - (i + 1)) + 1 = (n - i) + 1
          /\ (n - i) + 1 \in 1..n
      BY <1>1
    <2> QED BY <1>1, <1>5, <2>1
  <1>11. Tail(r) = Reverse(s)
    <2> DEFINE v == Reverse(s)
               w == Tail(r)
    <2>1. \A i \in 1..n : v[i] = s[(n - i) + 1]
      BY <1>2
    <2>2. /\ v \in Seq(S) /\ Len(v) = n /\ w \in Seq(S) /\ Len(w) = n
          /\ \A i \in 1..n : w[i] = s[(n - i) + 1]
      BY <1>4, <1>9, <1>10
    <2> HIDE DEF v, w
    <2>3. w = v
      BY <2>1, <2>2
    <2> QED BY <2>3 DEF v, w
  <1> QED BY <1>4, <1>7, <1>8, <1>11 DEF r, u, n

(* The number of bytes that have the lowest first.                         *)
Low(s) == ValueOf(Reverse(s), 256)

LEMMA LowGrows ==
    ASSUME NEW s \in Seq(0..255), NEW x \in 0..255
    PROVE  /\ Low(Append(s, x)) = x * Power(256)[Len(s)] + Low(s)
           /\ Low(s) \in Nat
  <1> DEFINE B == 0..255
             n == Len(s)
             r == Reverse(Append(s, x))
  <1>1. /\ r \in Seq(B) /\ Len(r) = n + 1 /\ r[1] = x
        /\ Tail(r) = Reverse(s)
        /\ Reverse(s) \in Seq(B)
    <2> HIDE DEF B
    <2>1. s \in Seq(B) /\ x \in B
      BY DEF B
    <2> QED BY ONLY <2>1, ReverseGrows, ZenonT(60) DEF n, r
  <1>2. n \in Nat
    OBVIOUS
  <1>3. r \in Seq(Nat) /\ Reverse(s) \in Seq(Nat) /\ 256 \in Nat
    BY <1>1, OctetsAreDigits
  <1> HIDE DEF r, n
  <1>4. ValueOf(r, 256) = r[1] * Power(256)[n] + ValueOf(Tail(r), 256)
    BY ONLY <1>1, <1>2, <1>3, FirstDigitCounts
  <1>5. ValueOf(Reverse(s), 256) \in Nat
    BY ONLY <1>3, ValueIsNat
  <1> QED BY <1>1, <1>4, <1>5 DEF Low, r, n

LEMMA NothingIsLow == Low(<<>>) = 0
  <1>1. Reverse(<<>>) = <<>>
    BY DEF Reverse
  <1>2. 256 \in Nat
    OBVIOUS
  <1> QED BY <1>1, <1>2, NothingIsZero DEF Low

(* After k bytes of the number have been multiplied by 58.                 *)
IsMultiplied(bytes, digit, k, s) ==
    /\ s.done \in Seq(0..255) /\ s.carry \in Nat
    /\ Len(s.done) = k
    /\ Behind(Low(SubSeq(bytes, 1, k)), 58, digit)
           = s.carry * Power(256)[k] + Low(s.done)

LEMMA MultiplicationGoesOn ==
    ASSUME NEW bytes \in Seq(0..255), NEW digit \in Nat, NEW k \in Nat,
           k < Len(bytes), NEW s, IsMultiplied(bytes, digit, k, s)
    PROVE  LET n == 58 * bytes[Len(s.done) + 1] + s.carry
           IN  IsMultiplied(bytes, digit, k + 1,
                            [done |-> Append(s.done, n % 256),
                             carry |-> n \div 256])
  <1> DEFINE B == 0..255
             x == bytes[k + 1]
             c == s.carry
             t == s.done
             n == 58 * x + c
             q == n \div 256
             r == n % 256
             P == Power(256)
             a == Low(SubSeq(bytes, 1, k))
             next == [done |-> Append(t, r), carry |-> q]
  <1>1. /\ t \in Seq(B) /\ c \in Nat /\ Len(t) = k
        /\ Behind(a, 58, digit) = c * P[k] + Low(t)
    BY DEF IsMultiplied
  <1>2. next = [done |-> Append(s.done, (58 * bytes[Len(s.done) + 1] + s.carry)
                                            % 256),
                carry |-> (58 * bytes[Len(s.done) + 1] + s.carry) \div 256]
    BY <1>1
  <1> HIDE DEF c, t
  <1>3. /\ SubSeq(bytes, 1, k + 1) = Append(SubSeq(bytes, 1, k), x)
        /\ SubSeq(bytes, 1, k) \in Seq(B) /\ Len(SubSeq(bytes, 1, k)) = k
        /\ x \in B
    <2>1. k + 1 <= Len(bytes) /\ bytes \in Seq(B)
      OBVIOUS
    <2> HIDE DEF B
    <2> QED BY <2>1, BeginningGrows
  <1> HIDE DEF x
  <1>4. x \in Nat
    BY <1>3
  <1>5. n \in Nat
    BY <1>1, <1>4
  <1> HIDE DEF n
  <1>6. q \in Nat /\ r \in Nat /\ r < 256 /\ n = 256 * q + r
    <2>1. 256 \in Nat \ {0}
      OBVIOUS
    <2> QED BY ONLY <1>5, <2>1, PartsOfDivision
  <1> HIDE DEF q, r
  <1>7. r \in B
    BY <1>6
  <1>8. Low(SubSeq(bytes, 1, k + 1)) = x * P[k] + a /\ a \in Nat
    <2> DEFINE u == SubSeq(bytes, 1, k)
    <2>1. u \in Seq(0..255) /\ x \in 0..255 /\ Len(u) = k
      BY <1>3
    <2> HIDE DEF u
    <2>2. Low(Append(u, x)) = x * P[Len(u)] + Low(u) /\ Low(u) \in Nat
      BY ONLY <2>1, LowGrows
    <2> QED BY <1>3, <2>1, <2>2 DEF u
  <1>9. Low(Append(t, r)) = r * P[k] + Low(t) /\ Low(t) \in Nat
    BY <1>1, <1>7, LowGrows, ZenonT(60)
  <1>10. P[k] \in Nat /\ P[k + 1] = 256 * P[k]
    <2>1. 256 \in Nat
      OBVIOUS
    <2> QED BY <2>1, PowerIsProduct, ZenonT(60)
  <1>11. 58 * x + c = 256 * q + r
    BY <1>6 DEF n
  <1> HIDE DEF P, a
  <1>12. Behind(x * P[k] + a, 58, digit)
             = q * (256 * P[k]) + (r * P[k] + Low(t))
    <2> DEFINE p == P[k]
               v == Low(t)
    <2>1. p \in Nat /\ v \in Nat /\ Behind(a, 58, digit) = c * p + v
      BY <1>1, <1>9, <1>10
    <2> HIDE DEF p, v
    <2>2. Behind(x * p + a, 58, digit) = q * (256 * p) + (r * p + v)
      <3>1. c \in Nat /\ a \in Nat /\ digit \in Nat
        BY <1>1, <1>8
      <3>2. q \in Nat /\ r \in Nat
        BY <1>6
      <3>3. a * 58 + digit = c * p + v
        BY <2>1 DEF Behind
      <3>4. (x * p + a) * 58 + digit = 58 * x * p + (a * 58 + digit)
        BY ONLY <1>4, <2>1, <3>1
      <3>5. 58 * x * p + c * p = (58 * x + c) * p
        BY ONLY <1>4, <2>1, <3>1
      <3>6. (256 * q + r) * p = q * (256 * p) + r * p
        BY ONLY <2>1, <3>2
      <3>7. /\ 58 * x * p \in Nat /\ c * p \in Nat
            /\ q * (256 * p) \in Nat /\ r * p \in Nat
        BY ONLY <1>4, <2>1, <3>1, <3>2
      <3>8. (x * p + a) * 58 + digit = (58 * x + c) * p + v
        BY ONLY <2>1, <3>3, <3>4, <3>5, <3>7
      <3>9. (58 * x + c) * p = q * (256 * p) + r * p
        BY ONLY <1>11, <3>6
      <3> QED BY ONLY <2>1, <3>7, <3>8, <3>9 DEF Behind
    <2> QED BY <2>2 DEF p, v
  <1>13. Append(t, r) \in Seq(B) /\ Len(Append(t, r)) = k + 1
    <2> HIDE DEF B
    <2> QED BY <1>1, <1>7
  <1>14. next.done = Append(t, r) /\ next.carry = q
    OBVIOUS
  <1> HIDE DEF next
  <1>15. Behind(Low(SubSeq(bytes, 1, k + 1)), 58, digit)
             = next.carry * P[k + 1] + Low(next.done)
    BY <1>8, <1>9, <1>10, <1>12, <1>14
  <1>16. IsMultiplied(bytes, digit, k + 1, next)
    BY <1>6, <1>13, <1>14, <1>15 DEF IsMultiplied, P
  <1> QED BY <1>2, <1>16

LEMMA NumberIsMultiplied ==
    ASSUME NEW bytes \in Seq(0..255), NEW digit \in Nat
    PROVE  \E s : /\ IsMultiplied(bytes, digit, Len(bytes), s)
                  /\ TimesPlus(bytes, digit) = s.done
  <1> DEFINE B == 0..255
             T == [done : Seq(B), carry : Nat]
             Turn(s) ==
                 LET n == 58 * bytes[Len(s.done) + 1] + s.carry
                 IN  [done |-> Append(s.done, n % 256),
                      carry |-> n \div 256]
             turn == [s \in T |-> IF Len(s.done) >= Len(bytes) THEN s
                                  ELSE Turn(s)]
             start == [done |-> <<>>, carry |-> digit]
             A == After(turn, start)
             N == Len(bytes)
  <1>1. \A x \in Nat : x % 256 \in B /\ x \div 256 \in Nat
    OBVIOUS
  <1>2. bytes \in Seq(B) /\ N \in Nat /\ \A x \in B : x \in Nat
    OBVIOUS
  <1>3. turn \in [T -> T]
    <2> HIDE DEF B
    <2> SUFFICES ASSUME NEW s \in T PROVE turn[s] \in T
      OBVIOUS
    <2>1. CASE Len(s.done) >= Len(bytes)
      BY <2>1
    <2>2. CASE ~(Len(s.done) >= Len(bytes))
      <3> DEFINE x == bytes[Len(s.done) + 1]
                 n == 58 * x + s.carry
      <3>1. s.done \in Seq(B) /\ s.carry \in Nat
        OBVIOUS
      <3>2. x \in Nat
        <4>1. Len(s.done) + 1 \in 1..Len(bytes)
          BY <1>2, <2>2, <3>1
        <4> QED BY <1>2, <4>1
      <3>3. n % 256 \in B /\ n \div 256 \in Nat
        <4> HIDE DEF x
        <4>1. n \in Nat
          BY <3>1, <3>2
        <4> HIDE DEF n
        <4> QED BY <1>1, <4>1
      <3>4. turn[s] = [done |-> Append(s.done, n % 256), carry |-> n \div 256]
        BY <2>2
      <3> HIDE DEF n, turn
      <3> QED BY <3>1, <3>3, <3>4
    <2> QED BY <2>1, <2>2
  <1>4. start \in T
    <2> HIDE DEF B
    <2> QED BY <1>2
  <1>5. TimesPlus(bytes, digit) = A[N].done
    BY DEF TimesPlus
  <1>6. \A s \in T : ~(Len(s.done) >= N) => turn[s] = Turn(s)
    OBVIOUS
  <1> HIDE DEF turn, T, A
  <1>7. Follows(A, T, turn, start)
    BY <1>3, <1>4, LoopFollows DEF A
  <1> DEFINE K == {k \in Nat : k <= N => IsMultiplied(bytes, digit, k, A[k])}
  <1>8. 0 \in K
    <2>1. A[0] = start
      BY <1>7 DEF Follows
    <2>2. IsMultiplied(bytes, digit, 0, start)
      <3>1. SubSeq(bytes, 1, 0) = <<>>
        BY BeginningGrows
      <3>2. Low(<<>>) = 0 /\ Behind(0, 58, digit) = digit
            /\ Power(256)[0] = 1
        <4>1. 256 \in Nat
          OBVIOUS
        <4> QED BY <4>1, NothingIsLow, PowerOfZero DEF Behind
      <3>3. /\ start.done \in Seq(0..255) /\ start.carry = digit
            /\ Len(start.done) = 0 /\ start.done = <<>>
        OBVIOUS
      <3> HIDE DEF start
      <3>4. digit = digit * 1 + 0
        OBVIOUS
      <3>5. Behind(Low(SubSeq(bytes, 1, 0)), 58, digit)
                = start.carry * Power(256)[0] + Low(start.done)
        BY <3>1, <3>2, <3>3, <3>4
      <3> QED BY <3>3, <3>5 DEF IsMultiplied
    <2> QED BY <2>1, <2>2
  <1>9. ASSUME NEW k \in Nat, k \in K PROVE k + 1 \in K
    <2> SUFFICES ASSUME k + 1 <= N
                 PROVE  IsMultiplied(bytes, digit, k + 1, A[k + 1])
      OBVIOUS
    <2>1. k < N
      BY <1>2
    <2>2. IsMultiplied(bytes, digit, k, A[k])
      BY <1>9, <2>1
    <2> HIDE DEF Turn
    <2>3. A[k] \in T /\ A[k + 1] = turn[A[k]]
      BY <1>7 DEF Follows
    <2>4. Len(A[k].done) = k
      BY <2>2 DEF IsMultiplied
    <2>5. A[k + 1] = Turn(A[k])
      BY <1>2, <1>6, <2>1, <2>3, <2>4
    <2>6. IsMultiplied(bytes, digit, k + 1, Turn(A[k]))
      <3> DEFINE s == A[k]
      <3>1. k < Len(bytes) /\ IsMultiplied(bytes, digit, k, s)
        BY <2>1, <2>2
      <3> HIDE DEF A, s
      <3>2. LET n == 58 * bytes[Len(s.done) + 1] + s.carry
            IN  IsMultiplied(bytes, digit, k + 1,
                             [done |-> Append(s.done, n % 256),
                              carry |-> n \div 256])
        BY <3>1, MultiplicationGoesOn, ZenonT(60)
      <3> QED BY <3>2 DEF Turn, s
    <2> QED BY <2>5, <2>6
  <1> HIDE DEF K
  <1>10. Nat \subseteq K
    BY <1>8, <1>9, SetInduction
  <1>11. IsMultiplied(bytes, digit, N, A[N])
    BY <1>2, <1>10 DEF K
  <1> QED BY <1>5, <1>11

LEMMA NothingIsLost ==
    ASSUME NEW bytes \in Seq(0..255), NEW digit \in Nat,
           Behind(Low(bytes), 58, digit) < Power(256)[Len(bytes)]
    PROVE  /\ TimesPlus(bytes, digit) \in Seq(0..255)
           /\ Len(TimesPlus(bytes, digit)) = Len(bytes)
           /\ Low(TimesPlus(bytes, digit)) = Behind(Low(bytes), 58, digit)
  <1>1. PICK s : /\ IsMultiplied(bytes, digit, Len(bytes), s)
                 /\ TimesPlus(bytes, digit) = s.done
    BY NumberIsMultiplied
  <1> DEFINE n == Len(bytes)
             p == Power(256)[n]
             c == s.carry
             t == s.done
             v == Behind(Low(bytes), 58, digit)
  <1>2. /\ t \in Seq(0..255) /\ c \in Nat /\ Len(t) = n
        /\ Behind(Low(SubSeq(bytes, 1, n)), 58, digit) = c * p + Low(t)
    BY <1>1 DEF IsMultiplied
  <1>3. SubSeq(bytes, 1, n) = bytes
    BY BeginningGrows
  <1>4. Low(t) \in Nat /\ p \in Nat
    <2>1. 0 \in 0..255 /\ n \in Nat /\ 256 \in Nat
      OBVIOUS
    <2> HIDE DEF n, t
    <2>2. Low(t) \in Nat
      BY <1>2, <2>1, LowGrows
    <2> QED BY <2>1, <2>2, PowerIsProduct
  <1>5. v = c * p + Low(t) /\ v < p
    BY <1>2, <1>3
  <1> DEFINE w == Low(t)
  <1>6. w \in Nat /\ p \in Nat /\ c \in Nat /\ c * p + w < p
    BY <1>2, <1>4, <1>5
  <1> HIDE DEF t, c, n, p, v, w
  <1>7. c = 0
    <2> SUFFICES ASSUME c # 0 PROVE FALSE
      OBVIOUS
    <2>1. 1 <= c /\ 1 \in Nat
      BY ONLY <1>6, c # 0
    <2>2. 1 * p <= c * p /\ c * p \in Nat
      BY ONLY <1>6, <2>1, ProductGrows
    <2> QED BY ONLY <1>6, <2>2
  <1>8. v = w
    <2>1. v = c * p + w
      BY <1>5 DEF w
    <2>2. 0 * p = 0
      BY ONLY <1>6
    <2> QED BY ONLY <1>6, <1>7, <2>1, <2>2
  <1> QED BY <1>1, <1>2, <1>8 DEF t, n, v, w

(* A number in base 58 has at least as many digits as bytes.               *)
LEMMA PowerOf58IsLess ==
    ASSUME NEW k \in Nat
    PROVE  Power(58)[k] <= Power(256)[k]
  <1> DEFINE P == Power(58)
             Q == Power(256)
             K == {i \in Nat : P[i] <= Q[i]}
  <1>1. /\ P[0] = 1 /\ Q[0] = 1
        /\ \A i \in Nat : /\ P[i] \in Nat /\ P[i + 1] = 58 * P[i]
                          /\ Q[i] \in Nat /\ Q[i + 1] = 256 * Q[i]
    BY PowerOfZero, PowerIsProduct
  <1> HIDE DEF P, Q
  <1>2. 0 \in K
    BY <1>1
  <1>3. ASSUME NEW i \in Nat, i \in K PROVE i + 1 \in K
    BY <1>1, <1>3
  <1> HIDE DEF K
  <1>4. Nat \subseteq K
    BY <1>2, <1>3, SetInduction
  <1> QED BY <1>4 DEF K, P, Q

TextDigits(text) == [i \in 1..Len(text) |-> DigitOf(text[i])]

LEMMA DigitsOfText ==
    ASSUME NEW text \in Seq(Alphabet58)
    PROVE  TextDigits(text) \in Seq(0..57) /\ Len(TextDigits(text)) = Len(text)
  <1> DEFINE D == 0..57
             n == Len(text)
             d(i) == DigitOf(text[i])
  <1>1. \A i \in 1..n : d(i) \in D
    <2> SUFFICES ASSUME NEW i \in 1..n PROVE d(i) \in D
      OBVIOUS
    <2>1. text[i] \in Alphabet58
      OBVIOUS
    <2> DEFINE c == text[i]
    <2> HIDE DEF c
    <2>2. DigitOf(c) \in 0..57
      BY <2>1, CharacterHasDigit DEF c
    <2> QED BY <2>2 DEF c
  <1>2. TextDigits(text) = [i \in 1..n |-> d(i)] /\ n \in Nat
    BY DEF TextDigits
  <1> HIDE DEF D, d, n
  <1>3. TextDigits(text) \in Seq(D) /\ Len(TextDigits(text)) = n
    BY <1>1, <1>2
  <1> QED BY <1>3 DEF D, n

LEMMA NumberHasRoom ==
    ASSUME NEW s \in Seq(0..57), NEW n \in Nat, Len(s) <= n
    PROVE  ValueOf(s, 58) < Power(256)[n]
  <1> DEFINE m == Len(s)
  <1>1. /\ s \in Seq(Nat) /\ (\A i \in 1..Len(s) : s[i] < 58)
        /\ m \in Nat /\ 58 \in Nat /\ 256 \in Nat \ {0} /\ 256 \in Nat
    BY DigitsAreNumbers58
  <1>2. ValueOf(s, 58) < Power(58)[Len(s)]
    BY ONLY <1>1, NumberIsBounded
  <1>3. ValueOf(s, 58) \in Nat
    BY ONLY <1>1, ValueIsNat
  <1>4. m <= n
    OBVIOUS
  <1>5. ValueOf(s, 58) < Power(58)[m]
    BY <1>2
  <1> HIDE DEF m
  <1>6. Power(58)[m] <= Power(256)[m]
    BY ONLY <1>1, PowerOf58IsLess
  <1>7. Power(256)[m] <= Power(256)[n]
    BY ONLY <1>1, <1>4, PowerIsMonotone, n \in Nat
  <1>8. /\ Power(58)[m] \in Nat /\ Power(256)[m] \in Nat
        /\ Power(256)[n] \in Nat
    BY ONLY <1>1, PowerIsProduct, n \in Nat, ZenonT(60)
  <1> QED BY <1>3, <1>5, <1>6, <1>7, <1>8

(* A text is decoded to its number if the result has as many bytes.        *)
LEMMA TextIsDecoded ==
    ASSUME NEW text \in Seq(Alphabet58), NEW n \in Nat, Len(text) <= n
    PROVE  /\ Decoded58(text, n) \in Seq(0..255)
           /\ Len(Decoded58(text, n)) = n
           /\ Low(Decoded58(text, n)) = ValueOf(TextDigits(text), 58)
  <1> DEFINE B == 0..255
             T == [read : Nat, bytes : Seq(B)]
             Turn(s) ==
                 [read |-> s.read + 1,
                  bytes |-> TimesPlus(s.bytes, DigitOf(text[s.read + 1]))]
             turn == [s \in T |-> IF s.read >= Len(text) THEN s ELSE Turn(s)]
             o == [i \in 1..n |-> 0]
             start == [read |-> 0, bytes |-> o]
             A == After(turn, start)
             N == Len(text)
             E == TextDigits(text)
             W(k) == ValueOf(SubSeq(E, 1, k), 58)
  <1>1. N \in Nat /\ \A i \in 1..N : DigitOf(text[i]) \in Nat
    <2>1. ASSUME NEW i \in 1..N PROVE DigitOf(text[i]) \in Nat
      <3> DEFINE c == text[i]
      <3>1. c \in Alphabet58
        OBVIOUS
      <3> HIDE DEF c
      <3>2. DigitOf(c) \in 0..57
        BY <3>1, CharacterHasDigit
      <3> DEFINE e == DigitOf(c)
      <3>3. e \in 0..57
        BY <3>2
      <3> HIDE DEF e
      <3>4. e \in Nat
        BY <3>3
      <3> QED BY <3>4 DEF c, e
    <2> QED BY <2>1
  <1>2. \A b \in Seq(B), d \in Nat : TimesPlus(b, d) \in Seq(B)
    <2> SUFFICES ASSUME NEW b \in Seq(B), NEW d \in Nat
                 PROVE  TimesPlus(b, d) \in Seq(B)
      OBVIOUS
    <2>1. PICK s : /\ IsMultiplied(b, d, Len(b), s)
                   /\ TimesPlus(b, d) = s.done
      BY NumberIsMultiplied
    <2> QED BY <2>1 DEF IsMultiplied
  <1>3. o \in Seq(B) /\ Len(o) = n /\ \A i \in 1..n : o[i] = 0
    BY ZerosBefore
  <1> HIDE DEF o
  <1>4. turn \in [T -> T]
    <2> HIDE DEF B
    <2> SUFFICES ASSUME NEW s \in T PROVE turn[s] \in T
      OBVIOUS
    <2>1. CASE s.read >= Len(text)
      BY <2>1
    <2>2. CASE ~(s.read >= Len(text))
      <3> DEFINE d == DigitOf(text[s.read + 1])
      <3>1. s.read \in Nat /\ s.bytes \in Seq(B)
        OBVIOUS
      <3>2. d \in Nat
        <4>1. s.read + 1 \in 1..N
          BY <1>1, <2>2, <3>1
        <4> QED BY <1>1, <4>1
      <3>3. turn[s] = [read |-> s.read + 1, bytes |-> TimesPlus(s.bytes, d)]
        BY <2>2
      <3> DEFINE w == TimesPlus(s.bytes, d)
      <3> HIDE DEF d, turn
      <3>4. w \in Seq(B) /\ s.read + 1 \in Nat
        <4>1. s.read + 1 \in Nat
          BY <3>1
        <4> DEFINE b == s.bytes
        <4>2. b \in Seq(B)
          BY <3>1
        <4> HIDE DEF b
        <4>3. TimesPlus(b, d) \in Seq(B)
          BY ONLY <1>2, <3>2, <4>2, Zenon
        <4> QED BY <4>1, <4>3 DEF b
      <3>5. turn[s] = [read |-> s.read + 1, bytes |-> w]
        BY <3>3
      <3> HIDE DEF w
      <3> QED BY <3>4, <3>5
    <2> QED BY <2>1, <2>2
  <1>5. start \in T
    <2> HIDE DEF B
    <2> QED BY <1>3
  <1>6. Decoded58(text, n) = A[N].bytes
    BY DEF Decoded58, o
  <1>7. \A s \in T : ~(s.read >= N) => turn[s] = Turn(s)
    OBVIOUS
  <1> HIDE DEF turn, T, A
  <1>8. Follows(A, T, turn, start)
    BY <1>4, <1>5, LoopFollows DEF A
  <1>9. /\ E \in Seq(0..57) /\ Len(E) = N
        /\ \A i \in 1..N : E[i] = DigitOf(text[i])
    BY DigitsOfText DEF TextDigits
  <1> HIDE DEF E
  <1> DEFINE Good(k) == /\ A[k].read = k /\ A[k].bytes \in Seq(0..255)
                        /\ Len(A[k].bytes) = n
                        /\ Low(A[k].bytes) = W(k)
             K == {k \in Nat : k <= N => Good(k)}
  <1>10. Good(0)
    <2>1. A[0] = start
      BY <1>8 DEF Follows
    <2>2. SubSeq(E, 1, 0) = <<>>
      <3> DEFINE D == 0..57
      <3>1. E \in Seq(D)
        BY <1>9
      <3> HIDE DEF D
      <3> QED BY <3>1, BeginningGrows
    <2>3. W(0) = 0
      <3>1. 58 \in Nat
        OBVIOUS
      <3> QED BY <2>2, <3>1, NothingIsZero
    <2>4. Low(o) = 0
      <3> DEFINE r == Reverse(o)
      <3>1. r = [i \in 1..n |-> o[(n - i) + 1]]
        BY <1>3 DEF Reverse
      <3>2. \A i \in 1..n : (n - i) + 1 \in 1..n
        OBVIOUS
      <3>3. \A i \in 1..n : o[(n - i) + 1] = 0
        BY <1>3, <3>2
      <3>4. r = [i \in 1..n |-> 0]
        BY <3>1, <3>3
      <3> HIDE DEF r
      <3>5. r \in Seq(Nat) /\ Len(r) = n /\ \A i \in 1..n : r[i] = 0
        BY <3>4
      <3>6. SubSeq(r, n + 1, Len(r)) = <<>>
        BY <3>5
      <3>7. n \in 0..Len(r) /\ 256 \in Nat
        BY <3>5
      <3>8. ValueOf(r, 256) = ValueOf(SubSeq(r, n + 1, Len(r)), 256)
        BY ONLY <3>5, <3>7, ZerosAreNothing
      <3>9. ValueOf(r, 256) = 0
        BY <3>6, <3>7, <3>8, NothingIsZero, ZenonT(60)
      <3> QED BY <3>9 DEF Low, r
    <2>5. start.read = 0 /\ start.bytes = o
      OBVIOUS
    <2> HIDE DEF start, W
    <2> QED BY <1>3, <2>1, <2>3, <2>4, <2>5
  <1>11. ASSUME NEW k \in Nat, k \in K PROVE k + 1 \in K
    <2> SUFFICES ASSUME k + 1 <= N PROVE Good(k + 1)
      OBVIOUS
    <2>1. k < N /\ k + 1 \in 1..N
      BY <1>1
    <2>2. Good(k)
      BY <1>11, <2>1
    <2> DEFINE s == A[k]
               d == DigitOf(text[k + 1])
               b == s.bytes
    <2>3. A[k + 1] = [read |-> k + 1, bytes |-> TimesPlus(b, d)]
      <3>1. s \in T /\ A[k + 1] = turn[s]
        BY <1>8 DEF Follows
      <3>2. s.read = k
        BY <2>2
      <3>3. ~(s.read >= N)
        BY <1>1, <2>1, <3>2
      <3> HIDE DEF s
      <3>4. turn[s] = Turn(s)
        BY <1>7, <3>1, <3>3
      <3> QED BY <3>1, <3>2, <3>4
    <2>4. b \in Seq(0..255) /\ Len(b) = n /\ Low(b) = W(k)
      BY <2>2
    <2>5. d \in Nat /\ E[k + 1] = d
      BY <1>1, <1>9, <2>1
    <2> HIDE DEF b, d
    <2>6. W(k + 1) = Behind(W(k), 58, d)
      <3> DEFINE u == SubSeq(E, 1, k)
      <3>1. /\ u \in Seq(0..57)
            /\ SubSeq(E, 1, k + 1) = Append(u, E[k + 1])
        <4> DEFINE D == 0..57
        <4>1. E \in Seq(D) /\ k + 1 <= Len(E)
          BY <1>9
        <4> HIDE DEF D
        <4>2. /\ SubSeq(E, 1, k) \in Seq(D)
              /\ SubSeq(E, 1, k + 1) = Append(SubSeq(E, 1, k), E[k + 1])
          BY <4>1, BeginningGrows
        <4> QED BY <4>2 DEF D
      <3> HIDE DEF u
      <3>2. u \in Seq(Nat) /\ 58 \in Nat
        BY <3>1, DigitsAreNumbers58
      <3>3. ValueOf(Append(u, d), 58) = Behind(ValueOf(u, 58), 58, d)
        BY ONLY <2>5, <3>2, DigitIsBehind
      <3> QED BY <2>5, <3>1, <3>3 DEF u
    <2>7. W(k + 1) < Power(256)[n]
      <3> DEFINE u == SubSeq(E, 1, k + 1)
      <3>1. u \in Seq(0..57) /\ Len(u) = k + 1
        <4> DEFINE D == 0..57
        <4>1. E \in Seq(D) /\ k + 1 \in 0..Len(E)
          BY <1>9
        <4> HIDE DEF D
        <4>2. SubSeq(E, 1, k + 1) \in Seq(D)
              /\ Len(SubSeq(E, 1, k + 1)) = k + 1
          BY <4>1, SequenceIsSplit
        <4> QED BY <4>2 DEF D
      <3>2. Len(u) <= n
        BY <1>1, <3>1
      <3> HIDE DEF u
      <3>3. ValueOf(u, 58) < Power(256)[n]
        BY <3>1, <3>2, NumberHasRoom
      <3> QED BY <3>3 DEF u
    <2> HIDE DEF W
    <2>8. Behind(Low(b), 58, d) < Power(256)[Len(b)]
      BY <2>4, <2>6, <2>7
    <2>9. /\ TimesPlus(b, d) \in Seq(0..255)
          /\ Len(TimesPlus(b, d)) = Len(b)
          /\ Low(TimesPlus(b, d)) = Behind(Low(b), 58, d)
      BY ONLY <2>4, <2>5, <2>8, NothingIsLost
    <2> DEFINE t == A[k + 1]
    <2>10. t.read = k + 1 /\ t.bytes = TimesPlus(b, d)
      BY <2>3
    <2> HIDE DEF t
    <2> QED BY <2>4, <2>6, <2>9, <2>10 DEF t
  <1> HIDE DEF K, Good
  <1>12. Nat \subseteq K
    <2>1. 0 \in K
      BY <1>10 DEF K
    <2> QED BY <1>11, <2>1, SetInduction
  <1>13. Good(N)
    BY <1>1, <1>12 DEF K
  <1>14. SubSeq(E, 1, N) = E
    <2> DEFINE D == 0..57
    <2>1. E \in Seq(D)
      BY <1>9
    <2> HIDE DEF D
    <2> QED BY <1>9, <2>1, BeginningGrows
  <1> QED BY <1>6, <1>13, <1>14 DEF Good, E

LEMMA AlphabetIsComplete == ToSet(BASE58_ALPHABET) = Alphabet58
  <1> DEFINE A == BASE58_ALPHABET
  <1>2. DOMAIN A = 1..58
    BY SMTT(60) DEF BASE58_ALPHABET
  <1> HIDE DEF A
  <1>3. ToSet(A) = {A[i] : i \in 1..58}
    BY <1>2 DEF ToSet
  <1> QED BY <1>3 DEF A, Alphabet58

LEMMA ZerosInFront ==
    ASSUME NEW bytes \in Seq(0..255), NEW n \in Nat
    PROVE  LET s == [i \in 1..n |-> 0] \o bytes
           IN  /\ s \in Seq(0..255) /\ Len(s) = n + Len(bytes)
               /\ ValueOf(s, 256) = ValueOf(bytes, 256)
  <1> DEFINE B == 0..255
             o == [i \in 1..n |-> 0]
             s == o \o bytes
             N == Len(bytes)
             u == SubSeq(s, n + 1, Len(s))
  <1>1. o \in Seq(B) /\ Len(o) = n /\ \A i \in 1..n : o[i] = 0
    BY ZerosBefore
  <1>2. bytes \in Seq(B) /\ N \in Nat
    OBVIOUS
  <1> HIDE DEF o, B
  <1>3. /\ s \in Seq(B) /\ Len(s) = n + N
        /\ \A i \in 1..n : s[i] = 0
        /\ \A i \in 1..N : s[n + i] = bytes[i]
    <2>1. /\ o \o bytes \in Seq(B) /\ Len(o \o bytes) = Len(o) + Len(bytes)
          /\ \A k \in 1..Len(o) : (o \o bytes)[k] = o[k]
          /\ \A k \in 1..Len(bytes) : (o \o bytes)[Len(o) + k] = bytes[k]
      <3>1. o \in Seq(B) /\ bytes \in Seq(B)
        BY <1>1, <1>2
      <3> QED BY ONLY <3>1, TwoParts
    <2> QED BY <1>1, <2>1
  <1> HIDE DEF s
  <1>4. n \in 0..Len(s) /\ Len(s) - n = N
    BY <1>2, <1>3
  <1>5. /\ u \in Seq(B) /\ Len(u) = N
        /\ \A i \in 1..N : u[i] = s[n + i]
    BY <1>3, <1>4, SequenceIsSplit
  <1>6. u = bytes
    <2> HIDE DEF u
    <2> QED BY <1>2, <1>3, <1>5
  <1>7. ValueOf(s, 256) = ValueOf(u, 256)
    <2>1. s \in Seq(Nat) /\ 256 \in Nat
      BY <1>3, OctetsAreDigits DEF B
    <2> HIDE DEF u
    <2>2. ValueOf(s, 256) = ValueOf(SubSeq(s, n + 1, Len(s)), 256)
      <3>1. \A i \in 1..n : s[i] = 0
        BY <1>3
      <3> QED BY ONLY <1>4, <2>1, <3>1, ZerosAreNothing
    <2> QED BY <2>2 DEF u
  <1> QED BY <1>3, <1>6, <1>7 DEF B, s, o, N

LEMMA ReverseOfBytes ==
    ASSUME NEW S, NEW s \in Seq(S)
    PROVE  Reverse(s) \in Seq(S) /\ Len(Reverse(s)) = Len(s)
  <1> DEFINE n == Len(s)
  <1>1. Reverse(s) = [i \in 1..n |-> s[(n - i) + 1]] /\ n \in Nat
    BY DEF Reverse
  <1>2. \A i \in 1..n : (n - i) + 1 \in 1..n
    BY <1>1
  <1>3. \A i \in 1..n : s[(n - i) + 1] \in S
    BY <1>2
  <1> HIDE DEF n
  <1>4. Reverse(s) \in Seq(S) /\ Len(Reverse(s)) = n
    BY <1>1, <1>3
  <1> QED BY <1>4 DEF n

(* A text of base 58 is that of the bytes exactly if it has their number   *)
(* and their zeros.                                                        *)
LEMMA TextHasNumberAndZeros ==
    ASSUME NEW bytes \in Seq(0..255), NEW text \in Seq(Alphabet58)
    PROVE  IsTextOf(text, bytes) <=>
               /\ ValueOf(TextDigits(text), 58) = ValueOf(bytes, 256)
               /\ CountZeros(TextDigits(text)) = CountZeros(bytes)
  <1> DEFINE n == Len(text)
             m == n + Len(bytes)
             b == Decoded58(text, m)
             r == Reverse(b)
             s == [i \in 1..n |-> 0] \o bytes
             v == ValueOf(TextDigits(text), 58)
  <1>1. n \in Nat /\ Len(bytes) \in Nat /\ m \in Nat /\ n <= m
    OBVIOUS
  <1>2. ToSet(text) \subseteq ToSet(BASE58_ALPHABET)
    <2>1. \A i \in DOMAIN text : text[i] \in Alphabet58
      OBVIOUS
    <2>2. ToSet(text) \subseteq Alphabet58
      BY <2>1 DEF ToSet
    <2> QED BY <2>2, AlphabetIsComplete
  <1>3. IsTextOf(text, bytes) <=>
            r = s /\ CountZeros(TextDigits(text)) = CountZeros(bytes)
    BY <1>2 DEF IsTextOf, TextDigits
  <1>4. b \in Seq(0..255) /\ Len(b) = m /\ Low(b) = v
    <2> HIDE DEF m
    <2> QED BY <1>1, TextIsDecoded
  <1> HIDE DEF b, v
  <1>5. /\ r \in Seq(0..255) /\ Len(r) = m /\ ValueOf(r, 256) = v
    <2> DEFINE B == 0..255
    <2>1. b \in Seq(B)
      BY <1>4
    <2> HIDE DEF B
    <2>2. Reverse(b) \in Seq(B) /\ Len(Reverse(b)) = Len(b)
      BY <2>1, ReverseOfBytes
    <2> QED BY <1>4, <2>2 DEF Low, B
  <1> HIDE DEF r
  <1>6. /\ s \in Seq(0..255) /\ Len(s) = m
        /\ ValueOf(s, 256) = ValueOf(bytes, 256)
    BY <1>1, ZerosInFront
  <1> HIDE DEF s
  <1>7. r = s <=> v = ValueOf(bytes, 256)
    <2>1. ASSUME v = ValueOf(bytes, 256) PROVE r = s
      <3>1. /\ r \in Seq(Nat) /\ s \in Seq(Nat) /\ 256 \in Nat
            /\ \A i \in 1..Len(r) : r[i] < 256
            /\ \A i \in 1..Len(s) : s[i] < 256
        <4>1. r \in Seq(0..255) /\ s \in Seq(0..255)
          BY <1>5, <1>6
        <4> QED BY ONLY <4>1, OctetsAreDigits
      <3>2. Len(r) = Len(s) /\ ValueOf(r, 256) = ValueOf(s, 256)
        BY <1>5, <1>6, <2>1
      <3> QED BY ONLY <3>1, <3>2, DigitsAreUnique
    <2> QED BY <1>5, <1>6, <2>1
  <1> QED BY <1>3, <1>7 DEF v

(* There is one such text, and encode_base58 writes it.                    *)
LEMMA TextIsOfKey ==
    ASSUME NEW bytes \in Seq(0..255), NEW S, NEW text \in Seq(S)
    PROVE  IsTextOf(text, bytes) <=> text = KeyText(bytes)
  <1> DEFINE K == KeyDigits(bytes)
             t == KeyText(bytes)
  <1>1. /\ K \in Seq(0..57)
        /\ ValueOf(K, 58) = ValueOf(bytes, 256)
        /\ CountZeros(K) = CountZeros(bytes)
    BY KeyDigitsAreKey
  <1>2. t \in Seq(Alphabet58) /\ Len(t) = Len(K) /\ TextDigits(t) = K
    BY KeyTextIsRead DEF TextDigits
  <1> HIDE DEF t
  <1>3. IsTextOf(t, bytes)
    BY <1>1, <1>2, TextHasNumberAndZeros
  <1>4. ASSUME IsTextOf(text, bytes) PROVE text = t
    <2>1. ToSet(text) \subseteq Alphabet58
      BY <1>4, AlphabetIsComplete DEF IsTextOf
    <2>2. text \in Seq(Alphabet58)
      <3>1. \A i \in 1..Len(text) : text[i] \in Alphabet58
        BY <2>1 DEF ToSet
      <3> QED BY <3>1
    <2> DEFINE E == TextDigits(text)
    <2>3. E \in Seq(0..57) /\ Len(E) = Len(text)
      BY <2>2, DigitsOfText
    <2>4. ValueOf(E, 58) = ValueOf(K, 58) /\ CountZeros(E) = CountZeros(K)
      BY <1>1, <1>4, <2>2, TextHasNumberAndZeros
    <2>5. \A i \in 1..Len(text) : E[i] = DigitOf(text[i])
      BY DEF TextDigits
    <2> HIDE DEF E, K
    <2>6. E = K
      <3>1. /\ E \in Seq(Nat) /\ K \in Seq(Nat) /\ 58 \in Nat \ {0}
            /\ \A i \in 1..Len(E) : E[i] < 58
            /\ \A i \in 1..Len(K) : K[i] < 58
        BY <1>1, <2>3, DigitsAreNumbers58
      <3> QED BY ONLY <2>4, <3>1, NumberAndZerosAreUnique
    <2>7. \A i \in 1..Len(t) : K[i] = DigitOf(t[i])
      <3>1. K = [i \in 1..Len(t) |-> DigitOf(t[i])]
        BY <1>2 DEF TextDigits
      <3> QED BY <3>1
    <2>8. ASSUME NEW i \in 1..Len(text) PROVE text[i] = t[i]
      <3> DEFINE c == text[i]
                 d == t[i]
      <3>1. i \in 1..Len(t)
        BY <1>2, <2>3, <2>6
      <3>2. c \in Alphabet58 /\ d \in Alphabet58
        BY <1>2, <2>2, <3>1
      <3>3. DigitOf(c) = DigitOf(d)
        BY <2>5, <2>6, <2>7, <3>1
      <3> HIDE DEF c, d
      <3>4. c = d
        BY <3>2, <3>3, CharacterHasDigit
      <3> QED BY <3>4 DEF c, d
    <2>9. Len(text) = Len(t)
      BY <1>2, <2>3, <2>6
    <2> QED BY <1>2, <2>2, <2>8, <2>9
  <1> QED BY <1>3, <1>4 DEF t

(* Eight bytes have no more values than eleven characters.                 *)
LEMMA BytesNeedCharacters ==
    ASSUME NEW k \in Nat, NEW j \in Nat, Power(256)[k] <= Power(58)[j]
    PROVE  Power(256)[k + 8] <= Power(58)[j + 11]
  <1> DEFINE b == Power(256)
             p == Power(58)
  <1>1. \A i \in Nat : /\ b[i] \in Nat /\ b[i + 1] = 256 * b[i]
                       /\ p[i] \in Nat /\ p[i + 1] = 58 * p[i]
    BY PowerIsProduct
  <1>2. b[k] <= p[j]
    OBVIOUS
  <1> HIDE DEF b, p
  <1>3. ASSUME NEW i \in Nat
        PROVE  b[i + 4] = 256 * (256 * (256 * (256 * b[i])))
               /\ b[i + 4] \in Nat /\ b[i] \in Nat
    <2>1. /\ i + 1 \in Nat /\ i + 2 \in Nat /\ i + 3 \in Nat
          /\ (i + 1) + 1 = i + 2 /\ (i + 2) + 1 = i + 3
          /\ (i + 3) + 1 = i + 4
      OBVIOUS
    <2> QED BY <1>1, <2>1
  <1>4. ASSUME NEW i \in Nat
        PROVE  p[i + 4] = 58 * (58 * (58 * (58 * p[i])))
               /\ p[i + 3] = 58 * (58 * (58 * p[i]))
               /\ p[i + 4] \in Nat /\ p[i + 3] \in Nat /\ p[i] \in Nat
    <2>1. /\ i + 1 \in Nat /\ i + 2 \in Nat /\ i + 3 \in Nat
          /\ (i + 1) + 1 = i + 2 /\ (i + 2) + 1 = i + 3
          /\ (i + 3) + 1 = i + 4
      OBVIOUS
    <2> QED BY <1>1, <2>1
  <1>5. /\ k + 4 \in Nat /\ (k + 4) + 4 = k + 8
        /\ j + 4 \in Nat /\ j + 8 \in Nat /\ (j + 4) + 4 = j + 8
        /\ (j + 8) + 3 = j + 11
    OBVIOUS
  <1>6. /\ b[k + 8] = 4294967296 * (4294967296 * b[k]) /\ b[k] \in Nat
        /\ p[j + 8] = 11316496 * (11316496 * p[j]) /\ p[j] \in Nat
        /\ p[j + 11] = 195112 * p[j + 8] /\ p[j + 8] \in Nat
    <2>1. b[k + 8] = 4294967296 * (4294967296 * b[k]) /\ b[k] \in Nat
      BY <1>3, <1>5
    <2>2. p[j + 8] = 11316496 * (11316496 * p[j]) /\ p[j] \in Nat
      BY <1>4, <1>5
    <2>3. p[j + 11] = 195112 * p[j + 8] /\ p[j + 8] \in Nat
      BY <1>4, <1>5
    <2> QED BY <2>1, <2>2, <2>3
  <1>7. b[k + 8] <= p[j + 11]
    BY <1>2, <1>6
  <1> QED BY <1>7 DEF b, p

(* A key with z zeros has no more values than what remains of 44           *)
(* characters.                                                             *)
LEMMA CharactersHaveRoom ==
    ASSUME NEW z \in 0..32
    PROVE  Power(256)[32 - z] <= Power(58)[44 - z]
  <1> DEFINE b == Power(256)
             p == Power(58)
             S == {i \in Nat : i <= 32 => b[32 - i] <= p[44 - i]}
  <1>1. \A i \in Nat : /\ b[i] \in Nat /\ b[i + 1] = 256 * b[i]
                       /\ p[i] \in Nat /\ p[i + 1] = 58 * p[i]
    BY PowerIsProduct
  <1>2. b[32] <= p[44]
    <2>1. b[0] <= p[0]
      BY PowerOfZero
    <2>2. b[8] <= p[11]
      <3>1. b[0 + 8] <= p[0 + 11]
        BY <2>1, BytesNeedCharacters
      <3> QED BY <3>1
    <2>3. b[16] <= p[22]
      <3>1. b[8 + 8] <= p[11 + 11]
        BY <2>2, BytesNeedCharacters
      <3> QED BY <3>1
    <2>4. b[24] <= p[33]
      <3>1. b[16 + 8] <= p[22 + 11]
        BY <2>3, BytesNeedCharacters
      <3> QED BY <3>1
    <2>5. b[24 + 8] <= p[33 + 11]
      BY <2>4, BytesNeedCharacters
    <2> QED BY <2>5
  <1> HIDE DEF b, p
  <1>3. 0 \in S
    BY <1>2
  <1>4. ASSUME NEW i \in Nat, i \in S PROVE i + 1 \in S
    <2> SUFFICES ASSUME i + 1 <= 32
                 PROVE  b[32 - (i + 1)] <= p[44 - (i + 1)]
      OBVIOUS
    <2> DEFINE k == 32 - (i + 1)
               j == 44 - (i + 1)
    <2>1. k \in Nat /\ j \in Nat /\ k + 1 = 32 - i /\ j + 1 = 44 - i
      OBVIOUS
    <2>2. b[32 - i] <= p[44 - i]
      BY <1>4
    <2> HIDE DEF k, j
    <2>3. b[k + 1] <= p[j + 1]
      BY <2>1, <2>2
    <2>4. b[k] <= p[j]
      BY <1>1, <2>1, <2>3
    <2> QED BY <2>4 DEF k, j
  <1> HIDE DEF S
  <1>5. Nat \subseteq S
    BY <1>3, <1>4, SetInduction
  <1> QED BY <1>5 DEF S, b, p

(* 44 characters are enough for every key (printer.h:9).                   *)
LEMMA KeyTextIsShort ==
    ASSUME NEW bytes, IsKey(bytes)
    PROVE  /\ KeyText(bytes) \in Seq(Alphabet58)
           /\ Len(KeyText(bytes)) \in Nat /\ Len(KeyText(bytes)) <= 44
  <1> DEFINE K == KeyDigits(bytes)
             z == CountZeros(bytes)
             m == Len(bytes) - z
             k == Len(K) - z
             v == ValueOf(bytes, 256)
  <1>1. bytes \in Seq(0..255) /\ Len(bytes) <= 32
    BY DEF IsKey
  <1>2. /\ K \in Seq(0..57) /\ ValueOf(K, 58) = v
        /\ CountZeros(K) = z
    BY <1>1, KeyDigitsAreKey
  <1>3. KeyText(bytes) \in Seq(Alphabet58) /\ Len(KeyText(bytes)) = Len(K)
    BY <1>1, KeyTextIsRead
  <1> HIDE DEF K
  <1>4. z \in 0..Len(bytes) /\ Len(bytes) \in Nat
    BY <1>1, ZerosAreAtStart
  <1>5. z \in 0..Len(K) /\ Len(K) \in Nat
    <2> DEFINE D == 0..57
    <2>1. K \in Seq(D)
      BY <1>2
    <2> HIDE DEF D
    <2>2. CountZeros(K) \in 0..Len(K)
      BY <2>1, ZerosAreAtStart
    <2> QED BY <1>2, <2>1, <2>2
  <1> HIDE DEF z
  <1>6. m \in Nat /\ k \in Nat /\ z \in 0..32 /\ m <= 32 - z
        /\ 32 - z \in Nat /\ 44 - z \in Nat /\ Len(K) = k + z
    BY <1>1, <1>4, <1>5
  <1>7. v < Power(256)[m]
    <2>1. /\ bytes \in Seq(Nat) /\ 256 \in Nat
          /\ \A i \in 1..Len(bytes) : bytes[i] < 256
      BY <1>1, OctetsAreDigits
    <2>2. m = Len(bytes) - CountZeros(bytes)
      BY DEF z
    <2> HIDE DEF m
    <2> QED BY ONLY <1>6, <2>1, <2>2, LengthTellsSize
  <1>8. k > 0 => Power(58)[k - 1] <= v
    <2>1. /\ K \in Seq(Nat) /\ 58 \in Nat
          /\ \A i \in 1..Len(K) : K[i] < 58
      BY <1>2, DigitsAreNumbers58
    <2>2. k = Len(K) - CountZeros(K)
      BY <1>2
    <2> HIDE DEF k, v
    <2>3. k > 0 => Power(58)[k - 1] <= ValueOf(K, 58)
      BY ONLY <1>6, <2>1, <2>2, LengthTellsSize
    <2> QED BY <1>2, <2>3
  <1>9. v \in Nat
    <2>1. bytes \in Seq(Nat) /\ 256 \in Nat
      BY <1>1, OctetsAreDigits
    <2> QED BY ONLY <2>1, ValueIsNat
  <1> HIDE DEF m, k, v
  <1> DEFINE u == 32 - z
             w == 44 - z
  <1>10. Power(256)[u] <= Power(58)[w]
    BY <1>6, CharactersHaveRoom
  <1>11. u \in Nat /\ w \in Nat /\ m <= u
    BY <1>6
  <1>12. Len(K) = k + z /\ w = 44 - z /\ z \in Nat
    BY <1>6
  <1> HIDE DEF u, w
  <1>13. Power(256)[m] <= Power(256)[u]
    <2>1. 256 \in Nat \ {0}
      OBVIOUS
    <2> QED BY <1>6, <1>11, <2>1, PowerIsMonotone
  <1>14. \A i \in Nat : Power(256)[i] \in Nat /\ Power(58)[i] \in Nat
    BY PowerIsProduct
  <1>15. v < Power(58)[w]
    BY <1>6, <1>7, <1>9, <1>10, <1>11, <1>13, <1>14
  <1>16. k <= w
    <2> SUFFICES ASSUME ~(k <= w) PROVE FALSE
      OBVIOUS
    <2> DEFINE h == k - 1
    <2>1. h \in Nat /\ w <= h /\ k > 0
      BY <1>6, <1>11
    <2>2. Power(58)[h] <= v
      BY <1>8, <2>1
    <2> HIDE DEF h
    <2>3. Power(58)[w] <= Power(58)[h]
      <3>1. 58 \in Nat \ {0}
        OBVIOUS
      <3> QED BY <1>11, <2>1, <3>1, PowerIsMonotone
    <2> QED BY <1>9, <1>11, <1>14, <1>15, <2>1, <2>2, <2>3
  <1>17. Len(K) <= 44
    BY <1>6, <1>11, <1>12, <1>16
  <1> QED BY <1>3, <1>5, <1>17

LEMMA KeyFits ==
    ASSUME NEW bytes, IsKey(bytes), NEW length \in Nat, length >= 45
    PROVE  /\ encode_base58(bytes, length).rc = 0
           /\ encode_base58(bytes, length).text = KeyText(bytes)
           /\ Len(KeyText(bytes)) < length
  <1>1. bytes \in Seq(0..255)
    BY DEF IsKey
  <1>2. Len(KeyText(bytes)) < length
    BY KeyTextIsShort
  <1> QED BY <1>1, <1>2, KeyIsEncoded

(* A key or hash is displayed with its text.                               *)
LEMMA KeyIsDisplayed ==
    ASSUME NEW c \in DisplayCalls,
           \/ c.item.kind = "Pubkey" /\ c.long
           \/ c.item.kind = "Hash"
    PROVE  /\ IsKey(c.item.bytes)
           /\ Displayed(c.item, c.long).rc = 0
           /\ Displayed(c.item, c.long).text = KeyText(c.item.bytes)
  <1> DEFINE item == c.item
             bytes == item.bytes
             L == BASE58_PUBKEY_LENGTH
             whole == encode_base58(bytes, L)
             text == KeyText(bytes)
  <1>1. item \in SummaryItem
    BY LibraryAssumption
  <1>2. IsKey(bytes)
    <2> HIDE DEF item
    <2>1. item.kind = "Pubkey" \/ item.kind = "Hash"
      BY DEF item
    <2> QED BY <1>1, <2>1 DEF SummaryItem
  <1>3. L \in Nat /\ L >= 45 /\ TEXT_BUFFER_LENGTH = L
    BY SwapParametersAssumption DEF TEXT_BUFFER_LENGTH
  <1> HIDE DEF L, bytes
  <1>4. whole.rc = 0 /\ whole.text = text /\ Len(text) < L
    BY <1>2, <1>3, KeyFits
  <1>5. CASE item.kind = "Hash"
    <2>1. Displayed(item, c.long) = whole
      BY <1>3, <1>5 DEF Displayed, bytes
    <2> QED BY <1>2, <1>4, <2>1 DEF bytes
  <1>6. CASE item.kind = "Pubkey" /\ c.long
    <2>1. Displayed(item, c.long) =
              IF whole.rc # 0 THEN whole ELSE print_string(whole.text, L)
      BY <1>3, <1>6 DEF Displayed, bytes, L
    <2>2. Displayed(item, c.long) = print_string(text, L)
      BY <1>4, <2>1
    <2>3. print_string(text, L).rc = 0 /\ print_string(text, L).text = text
      <3> HIDE DEF text
      <3> QED BY <1>4 DEF print_string, Text
    <2> QED BY <1>2, <2>2, <2>3 DEF bytes
  <1> QED BY <1>5, <1>6

(* Every key and every hash of 32 bytes or less is shown in full as what   *)
(* it is: its text fits the buffer, can be decoded to every byte of it,    *)
(* and its computation stays in the second buffer (printer.c:125).         *)
THEOREM EveryKeyIsExact == LibrarySpec => []Base58IsExact
  <1>1. LibraryInit => Base58IsExact
    <2>1. LibraryInit => ~Is("display")
      BY DEF LibraryInit, NoCall, Is
    <2>2. ~Is("display") => Base58IsExact
      BY Zenon DEF Base58IsExact
    <2> QED BY <2>1, <2>2
  <1>2. Base58IsExact /\ [LibraryNext]_library => Base58IsExact'
    <2> SUFFICES ASSUME Base58IsExact, [LibraryNext]_library
                 PROVE  Base58IsExact'
      OBVIOUS
    <2>1. CASE UNCHANGED library
      BY <2>1 DEF library, Base58IsExact, Is, given
    <2>2. CASE LibraryNext
      <3> DEFINE bytes == given'.item.bytes
      <3> SUFFICES ASSUME Is("display")',
                          \/ given'.item.kind = "Pubkey" /\ given'.long
                          \/ given'.item.kind = "Hash"
                   PROVE  /\ reply'.rc = 0
                          /\ IsTextOf(reply'.text, bytes)
                          /\ encode_base58(bytes, Len(reply'.text) + 1).used
                                 <= 2 * Len(bytes)
        BY DEF Base58IsExact
      <3>1. PICK c \in DisplayCalls : DisplayItem(c)
        BY <2>2, NameTellsCall DEF Is
      <3>2. given' = c /\ reply' = Displayed(c.item, c.long)
        BY <3>1 DEF DisplayItem, Called, given
      <3> DEFINE b == c.item.bytes
                 t == KeyText(b)
      <3>3. /\ IsKey(b) /\ reply'.rc = 0 /\ reply'.text = t
            /\ bytes = b
        BY <3>2, KeyIsDisplayed
      <3> HIDE DEF b, bytes
      <3>4. b \in Seq(0..255) /\ t \in Seq(Alphabet58) /\ Len(t) \in Nat
        BY <3>3, KeyTextIsShort DEF IsKey
      <3>5. IsTextOf(t, b)
        BY <3>4, TextIsOfKey
      <3>6. encode_base58(b, Len(t) + 1).used <= 2 * Len(b)
        <4> DEFINE n == Len(t) + 1
        <4>1. n \in Nat
          BY <3>4
        <4> HIDE DEF n
        <4>2. encode_base58(b, n).used <= 2 * Len(b)
          BY <3>4, <4>1, KeyIsEncoded
        <4> QED BY <4>2 DEF n
      <3> QED BY <3>3, <3>5, <3>6
    <2> QED BY <2>1, <2>2
  <1> QED BY <1>1, <1>2, PTL DEF LibrarySpec

(* Exchange is told that an address belongs to a path exactly if it is the *)
(* text of the path's key, whatever the keys and the address               *)
(* (handle_check_address.c:66).                                            *)
THEOREM EveryAddressIsOfKey == LibrarySpec => []AddressIsOfKey
  <1>1. LibraryInit => AddressIsOfKey
    BY DEF LibraryInit, NoCall, AddressIsOfKey, Is
  <1>2. AddressIsOfKey /\ [LibraryNext]_library => AddressIsOfKey'
    <2> SUFFICES ASSUME AddressIsOfKey, [LibraryNext]_library
                 PROVE  AddressIsOfKey'
      OBVIOUS
    <2>1. CASE UNCHANGED library
      BY <2>1 DEF library, AddressIsOfKey, Is, given
    <2>2. CASE LibraryNext
      <3> SUFFICES ASSUME Is("check_address")' PROVE AddressIsOfKey'
        BY DEF AddressIsOfKey
      <3>1. PICK c \in AddressCalls : CheckAddress(c)
        BY <2>2, NameTellsCall DEF Is
      <3>2. given' = c /\ reply'.rc = handle_check_address(c)
        BY <3>1 DEF CheckAddress, Called, given
      <3>3. c.address \in Seq(STRING) /\ c.extraId \in ExtraId
        BY LibraryAssumption
      <3>4. ASSUME c.path \in DOMAIN Keys
            PROVE  LET own == encode_base58(Keys[c.path],
                                            BASE58_PUBKEY_LENGTH)
                   IN  /\ c.path # "null"
                       /\ own.rc = 0
                       /\ c.address = own.text <=>
                              IsTextOf(c.address, Keys[c.path])
        <4> DEFINE b == Keys[c.path]
                   L == BASE58_PUBKEY_LENGTH
        <4>1. L \in Nat /\ L >= 45 /\ IsKey(b) /\ c.path # "null"
          BY <3>4, SwapParametersAssumption
        <4> HIDE DEF b, L
        <4>2. encode_base58(b, L).rc = 0
              /\ encode_base58(b, L).text = KeyText(b)
          BY <4>1, KeyFits
        <4>3. b \in Seq(0..255)
          BY <4>1 DEF IsKey
        <4>4. IsTextOf(c.address, b) <=> c.address = KeyText(b)
          BY <3>3, <4>3, TextIsOfKey
        <4> QED BY <4>1, <4>2, <4>4 DEF b, L
      <3>5. handle_check_address(c) = 1 <=>
                /\ ~c.coinConfiguration
                /\ c.extraId = "empty"
                /\ c.path \in DOMAIN Keys
                /\ IsTextOf(c.address, Keys[c.path])
        BY <3>4 DEF handle_check_address
      <3> QED BY <3>2, <3>5 DEF AddressIsOfKey, given
    <2> QED BY <2>1, <2>2
  <1> QED BY <1>1, <1>2, PTL DEF LibrarySpec

-----------------------------------------------------------------------------
(* Buffers.                                                                *)

(* What is left in a buffer of this length: bytes up to its end, and a     *)
(* text that ends before it.                                               *)
StaysIn(printed, length) ==
    /\ printed.written <= length
    /\ printed.text = <<>> \/ Len(printed.text) < length

(* The loop of print_token_amount looks at the length before a turn; a     *)
(* turn writes two bytes only at the point.                                *)
LEMMA AmountStaysInside ==
    ASSUME NEW value \in Nat, NEW decimals \in Nat,
           NEW length \in Nat \ {0, 1}
    PROVE  \/ Len(AmountTurns(value, decimals, length)) <= length
           \/ decimals = length - 1
  <1> DEFINE T == Printing
             Goes(s) == /\ s.rest > 0 \/ Len(s.out) < decimals + 1
                        /\ Len(s.out) < length
             turn == [s \in T |->
                         IF Goes(s) THEN AmountTurn(s, decimals) ELSE s]
             start == AmountTurn(Unprinted(value), decimals)
             A == AmountLoop(value, decimals, length)
  <1> SUFFICES ASSUME decimals # length - 1
               PROVE  Len(AmountTurns(value, decimals, length)) <= length
    OBVIOUS
  <1>1. /\ Unprinted(value) \in T /\ Len(Unprinted(value).out) = 0
    BY DEF Unprinted, Printing
  <1>2. start \in T /\ Len(start.out) <= 2
    <2> DEFINE u == Unprinted(value)
    <2>1. u \in Printing /\ Len(u.out) = 0
      BY <1>1
    <2> HIDE DEF u
    <2>2. LET n == Len(u.out)
              k == IF n = decimals THEN n + 1 ELSE n
          IN  /\ AmountTurn(u, decimals) \in Printing
              /\ Len(AmountTurn(u, decimals).out) = k + 1
      BY <2>1, AmountGrows
    <2>3. /\ AmountTurn(u, decimals) \in Printing
          /\ Len(AmountTurn(u, decimals).out) <= 2
      BY <2>1, <2>2
    <2> QED BY <2>3 DEF u
  <1>3. turn \in [T -> T]
    <2> SUFFICES ASSUME NEW s \in T PROVE turn[s] \in T
      OBVIOUS
    <2>1. AmountTurn(s, decimals) \in T
      BY AmountGrows
    <2> QED BY <2>1
  <1>4. A = After(turn, start)
    BY DEF AmountLoop
  <1>5. Follows(A, T, turn, start)
    <2> HIDE DEF T, turn, start, A
    <2>1. Follows(After(turn, start), T, turn, start)
      BY <1>2, <1>3, LoopFollows
    <2> QED BY <1>4, <2>1
  <1> HIDE DEF A
  <1> DEFINE S == {m \in Nat : Len(A[m].out) <= length}
  <1>6. 0 \in S
    <2>1. A[0] = start
      BY <1>5 DEF Follows
    <2>2. Len(start.out) \in Nat
      BY <1>2 DEF Printing
    <2> HIDE DEF start
    <2> QED BY <1>2, <2>1, <2>2
  <1>7. ASSUME NEW m \in Nat, m \in S PROVE m + 1 \in S
    <2> DEFINE s == A[m]
               n == Len(s.out)
    <2>1. A[m + 1] = turn[s] /\ s \in T
      BY <1>5 DEF Follows
    <2>2. n <= length /\ n \in Nat
      BY <1>7, <2>1 DEF Printing
    <2>3. CASE ~Goes(s)
      <3>1. A[m + 1] = s
        BY <2>1, <2>3
      <3> QED BY <2>2, <3>1
    <2>4. CASE Goes(s)
      <3> DEFINE next == AmountTurn(s, decimals)
      <3>1. A[m + 1] = next /\ n < length
        BY <2>1, <2>4
      <3>2. Len(next.out) = (IF n = decimals THEN n + 1 ELSE n) + 1
        BY <2>1, AmountGrows
      <3> HIDE DEF next, n, s
      <3>3. Len(next.out) <= length
        BY <2>2, <3>1, <3>2
      <3> QED BY <3>1, <3>3
    <2> QED BY <2>3, <2>4
  <1> HIDE DEF S
  <1>8. length \in S
    BY <1>6, <1>7, SetInduction
  <1> QED BY <1>8 DEF S, AmountTurns, A

(* An amount is no longer than its decimals, or the largest amount without *)
(* any.                                                                    *)
LEMMA AmountIsBounded ==
    ASSUME NEW most \in Nat, NEW value \in 0..most, NEW decimals \in Nat,
           NEW length \in Nat \ {0, 1}, NEW m \in Nat,
           m = Len(AmountTurns(most, 0, length)), m < length
    PROVE  /\ Len(AmountTurns(value, decimals, length)) \in Nat
           /\ \/ Len(AmountTurns(value, decimals, length)) <= m
              \/ Len(AmountTurns(value, decimals, length)) <= decimals + 2
  <1> DEFINE out == AmountTurns(value, decimals, length)
             longest == AmountTurns(most, 0, length)
             L == Len(out)
  <1>1. longest \in Seq(Numerals \cup {"."}) /\ Complete(longest, most, 0)
    <2>1. 0 \in Nat
      OBVIOUS
    <2> QED BY <2>1, AmountIsComplete
  <1>2. /\ out \in Seq(Numerals \cup {"."})
        /\ L > decimals + 2 => Rest(value)[L - 2] > 0
    <2>1. value \in Nat
      OBVIOUS
    <2> QED BY <2>1, AmountIsComplete
  <1>3. m >= 2 /\ Rest(most)[m - 1] = 0
    BY <1>1 DEF Complete
  <1> HIDE DEF out, longest
  <1>4. L \in Nat
    BY <1>2
  <1> HIDE DEF L
  <1>5. ASSUME L > decimals + 2, L > m PROVE FALSE
    <2> DEFINE k == L - 2
               h == m - 1
    <2>1. k \in Nat /\ h \in Nat /\ h <= k /\ value \in Nat /\ value <= most
      BY <1>3, <1>4, <1>5
    <2>2. Rest(value)[k] > 0 /\ Rest(most)[h] = 0
      BY <1>2, <1>3, <1>5
    <2> HIDE DEF k, h
    <2>3. Rest(most)[k] = 0
      BY <2>1, <2>2, NothingIsLeft
    <2>4. Rest(value)[k] <= Rest(most)[k]
      BY <2>1, RestIsMonotone
    <2>5. Rest(value)[k] \in Nat
      BY <2>1, RestIsDivided
    <2> QED BY <2>2, <2>3, <2>4, <2>5
  <1>6. L <= m \/ L <= decimals + 2
    BY <1>4, <1>5
  <1> QED BY <1>4, <1>6 DEF L, out

(* print_token_amount, for every amount and every buffer.                  *)
LEMMA TokenAmountStays ==
    ASSUME NEW A, NEW amount \in Nat, NEW asset \in Seq(A),
           NEW decimals \in Nat, NEW length \in Nat \ {0, 1}
    PROVE  LET printed == print_token_amount(amount, asset, decimals, length)
               out == AmountTurns(amount, decimals, length)
           IN  /\ printed.written <= length \/ decimals = length - 1
               /\ printed.text = <<>> \/ Len(printed.text) < length
               /\ printed.rc # 0 => Len(out) + Len(asset) + 2 > length
  <1> DEFINE out == AmountTurns(amount, decimals, length)
             r == Reverse(out)
             t == Stripped(r)
             space == " "
             named == t \o <<space>> \o asset
             printed == print_token_amount(amount, asset, decimals, length)
             C == Numerals \cup {"."}
             S == C \cup {space} \cup A
  <1>1. printed = IF Len(out) >= length THEN NoText(Len(out))
                  ELSE IF asset = <<>>
                       THEN Text(t, Most(Len(out), Len(t) + 1))
                  ELSE IF Len(named) + 1 > length THEN NoText(Len(out))
                  ELSE Text(named, Most(Len(out), Len(named) + 1))
    <2>1. length > 1
      OBVIOUS
    <2> HIDE DEF printed
    <2> QED BY <2>1 DEF print_token_amount, printed
  <1>2. out \in Seq(C) /\ Len(out) \in Nat
    BY AmountIsComplete
  <1>3. Len(out) <= length \/ decimals = length - 1
    BY AmountStaysInside
  <1>4. ASSUME Len(out) < length
        PROVE  /\ Len(t) \in Nat /\ Len(t) <= Len(out)
               /\ Len(named) = Len(t) + 1 + Len(asset)
    <2>1. Unstripped(r, amount, Len(r) - decimals)
      BY <1>4, AmountIsReversed
    <2>2. Len(r) = Len(out)
      BY <1>2 DEF Reverse
    <2> HIDE DEF r
    <2>3. Len(t) <= Len(out) /\ t \in Seq(C)
      BY <2>1, <2>2, StrippedIsShorter, StrippedIsAmount DEF t, C
    <2> HIDE DEF t, C, space
    <2>4. t \in Seq(S) /\ <<space>> \in Seq(S) /\ asset \in Seq(S)
      BY <2>3
    <2> HIDE DEF S
    <2> QED BY <2>3, <2>4
  <1>5. Len(asset) \in Nat /\ Len(<<>>) = 0
    OBVIOUS
  <1> HIDE DEF printed, out, r, t, named, C, S, space
  <1> DEFINE n == Len(out)
             x == Len(t)
             y == Len(named)
  <1>6. /\ n \in Nat
        /\ n < length => x \in Nat /\ x <= n /\ y = x + 1 + Len(asset)
    BY <1>2, <1>4
  <1> HIDE DEF n
  <1>7. CASE n >= length
    <2>1. printed = NoText(n)
      BY <1>1, <1>7 DEF n
    <2> QED BY <1>3, <1>5, <1>6, <1>7, <2>1 DEF NoText, printed, out, n
  <1>8. CASE n < length /\ asset = <<>>
    <2>1. printed = Text(t, Most(n, x + 1))
      BY <1>1, <1>6, <1>8 DEF n
    <2>2. Most(n, x + 1) <= length
      BY <1>6, <1>8 DEF Most
    <2> QED BY <1>6, <1>8, <2>1, <2>2 DEF Text, printed
  <1>9. CASE n < length /\ asset # <<>> /\ y + 1 > length
    <2>1. printed = NoText(n)
      BY <1>1, <1>6, <1>9 DEF n
    <2> QED BY <1>5, <1>6, <1>9, <2>1 DEF NoText, printed, out, n
  <1>10. CASE n < length /\ asset # <<>> /\ y + 1 <= length
    <2>1. printed = Text(named, Most(n, y + 1))
      BY <1>1, <1>5, <1>6, <1>10 DEF n
    <2>2. Most(n, y + 1) <= length /\ y < length
      BY <1>5, <1>6, <1>10 DEF Most
    <2> QED BY <1>6, <1>10, <2>1, <2>2 DEF Text, printed
  <1>11. y \in Nat \/ ~(n < length)
    BY <1>5, <1>6
  <1> HIDE DEF x, y
  <1> QED BY <1>6, <1>7, <1>8, <1>9, <1>10, <1>11

(* print_u64, for every number and every buffer.                           *)
LEMMA NumberStays ==
    ASSUME NEW value \in Nat, NEW length \in Nat
    PROVE  LET printed == print_u64(value, length)
           IN  /\ StaysIn(printed, length)
               /\ printed.written \in Nat
               /\ printed.rc # 0 => printed.text = <<>>
               /\ printed.rc = 0 => Len(printed.text) < length
               /\ printed.text \in Seq(Numerals \cup {"."})
  <1> DEFINE out == IF length > 1 THEN NumberTurns(value, length) ELSE <<>>
             printed == print_u64(value, length)
             C == Numerals \cup {"."}
             n == Len(out)
  <1>1. printed = IF n >= length THEN NoText(n)
                  ELSE Text(Reverse(out), n + 1)
    BY DEF print_u64
  <1>2. out \in Seq(C) /\ n \in Nat /\ n <= length
    <2>1. CASE length > 1
      <3> DEFINE s == NumberLoop(value, length)[length]
      <3>1. s \in Printing /\ Len(s.out) \in 1..length
        <4>1. length \in Nat \ {0} /\ length \in Nat
          BY <2>1
        <4> QED BY <4>1, NumberStates
      <3>2. out = s.out
        BY <2>1 DEF NumberTurns
      <3> HIDE DEF s, out
      <3>3. s.out \in Seq(C)
        BY <3>1 DEF Printing
      <3> QED BY <3>1, <3>2, <3>3
    <2>2. CASE ~(length > 1)
      <3>1. out = <<>>
        BY <2>2
      <3> HIDE DEF out, C
      <3> QED BY <3>1
    <2> QED BY <2>1, <2>2
  <1> HIDE DEF printed, out
  <1>3. Len(Reverse(out)) = n /\ Reverse(out) \in Seq(C)
    <2> HIDE DEF C
    <2> QED BY <1>2 DEF Reverse
  <1> HIDE DEF n
  <1>4. CASE n >= length
    <2>1. printed = NoText(n)
      BY <1>1, <1>4
    <2> QED BY <1>2, <2>1 DEF StaysIn, NoText, printed
  <1>5. CASE ~(n >= length)
    <2>1. printed = Text(Reverse(out), n + 1)
      BY <1>1, <1>5
    <2>2. n + 1 <= length /\ n < length /\ n + 1 \in Nat
      BY <1>2, <1>5
    <2> HIDE DEF C
    <2>3. /\ printed.rc = 0 /\ printed.text = Reverse(out)
          /\ printed.written = n + 1
      BY <2>1 DEF Text
    <2> QED BY <1>3, <2>2, <2>3 DEF StaysIn, printed, C
  <1> QED BY <1>4, <1>5

(* A number that may be as large as the amounts is printed wherever the    *)
(* largest amount has room.                                                *)
LEMMA NumberHasRoomToo ==
    ASSUME NEW most \in Nat, NEW value \in 0..most, NEW room \in Nat \ {0, 1},
           NEW m \in Nat, m = Len(AmountTurns(most, 0, room)), m < room,
           NEW length \in Nat \ {0, 1}, m <= length
    PROVE  print_u64(value, length).rc = 0
  <1> DEFINE longest == AmountTurns(most, 0, room)
             s == NumberLoop(value, length)[length]
             n == Len(s.out)
  <1>1. Complete(longest, most, 0)
    <2>1. 0 \in Nat
      OBVIOUS
    <2> QED BY <2>1, AmountIsComplete
  <1>2. m >= 2 /\ Rest(most)[m - 1] = 0
    BY <1>1 DEF Complete
  <1>3. n \in 1..length /\ (n > 1 => Rest(value)[n - 1] > 0)
    <2>1. value \in Nat /\ length \in Nat \ {0} /\ length \in Nat
      OBVIOUS
    <2> QED BY <2>1, NumberStates
  <1>4. print_u64(value, length).rc = IF n >= length THEN 1 ELSE 0
    BY DEF print_u64, NumberTurns, Text, NoText
  <1> HIDE DEF n, longest
  <1>5. ASSUME n > 1, n >= m PROVE FALSE
    <2> DEFINE k == n - 1
               h == m - 1
    <2>1. k \in Nat /\ h \in Nat /\ h <= k /\ value \in Nat /\ value <= most
      BY <1>2, <1>3, <1>5
    <2>2. Rest(value)[k] > 0 /\ Rest(most)[h] = 0
      BY <1>2, <1>3, <1>5
    <2> HIDE DEF k, h
    <2>3. Rest(most)[k] = 0
      BY <2>1, <2>2, NothingIsLeft
    <2>4. Rest(value)[k] <= Rest(most)[k]
      BY <2>1, RestIsMonotone
    <2>5. Rest(value)[k] \in Nat
      BY <2>1, RestIsDivided
    <2> QED BY <2>2, <2>3, <2>4, <2>5
  <1>6. n < length
    BY <1>2, <1>3, <1>5
  <1> QED BY <1>3, <1>4, <1>6

LEMMA MagnitudeIsWord ==
    ASSUME NEW value \in Signed64
    PROVE  Magnitude(value) \in 0..(Values64 - 1)
  <1> DEFINE V == Values64
             u == value % V
  <1>1. V \in Nat /\ V > 0 /\ value \in Int
    BY PrinterAssumption DEF Signed64
  <1>2. Magnitude(value) = IF value < 0 THEN ((V - 1) - u + 1) % V ELSE u
    BY DEF Magnitude
  <1> HIDE DEF V
  <1>3. u \in 0..(V - 1)
    BY <1>1
  <1> HIDE DEF u
  <1>4. ((V - 1) - u + 1) % V \in 0..(V - 1)
    <2> DEFINE w == (V - 1) - u + 1
    <2>1. w \in Int
      BY <1>1, <1>3
    <2> HIDE DEF w
    <2>2. w % V \in 0..(V - 1)
      BY <1>1, <2>1
    <2> QED BY <2>2 DEF w
  <1> QED BY <1>2, <1>3, <1>4 DEF V

(* print_i64, for every number and every buffer.                           *)
LEMMA SignedNumberStays ==
    ASSUME NEW value \in Signed64, NEW length \in Nat
    PROVE  StaysIn(print_i64(value, length), length)
  <1> DEFINE sign == IF value < 0 THEN 1 ELSE 0
             number == print_u64(Magnitude(value), length - sign)
             minus == IF sign = 1 THEN <<"-">> ELSE <<>>
             printed == print_i64(value, length)
             C == Numerals \cup {"."}
  <1>1. printed =
            IF length < 1 THEN NoText(0)
            ELSE IF number.rc # 0 THEN NoText(sign + number.written)
            ELSE Text(minus \o number.text, sign + number.written)
    BY DEF print_i64
  <1>2. sign \in {0, 1} /\ (sign = 1 => minus = <<"-">>)
        /\ (sign = 0 => minus = <<>>)
    OBVIOUS
  <1>3. Magnitude(value) \in Nat
    BY MagnitudeIsAbsolute
  <1> HIDE DEF printed, sign, minus, C
  <1>4. CASE length < 1
    BY <1>1, <1>4 DEF StaysIn, NoText, printed
  <1>5. CASE ~(length < 1)
    <2>1. length - sign \in Nat
      BY <1>2, <1>5
    <2>2. /\ number.written \in Nat /\ number.written <= length - sign
          /\ number.rc = 0 => Len(number.text) < length - sign
          /\ number.text \in Seq(C)
      <3> DEFINE w == Magnitude(value)
                 l == length - sign
      <3>1. w \in Nat /\ l \in Nat /\ number = print_u64(w, l)
        BY <1>3, <2>1
      <3> HIDE DEF w, l, number
      <3>2. /\ StaysIn(number, l) /\ number.written \in Nat
            /\ number.rc = 0 => Len(number.text) < l
            /\ number.text \in Seq(Numerals \cup {"."})
        BY <3>1, NumberStays
      <3> QED BY <3>2 DEF StaysIn, l, C
    <2> HIDE DEF number
    <2>3. CASE number.rc # 0
      <3>1. printed = NoText(sign + number.written)
        BY <1>1, <1>5, <2>3
      <3> QED BY <1>2, <1>5, <2>2, <3>1 DEF StaysIn, NoText, printed
    <2>4. CASE number.rc = 0
      <3>1. printed = Text(minus \o number.text, sign + number.written)
        BY <1>1, <1>5, <2>4
      <3> DEFINE dash == "-"
                 D == C \cup {dash}
      <3>2. minus \in Seq(D) /\ Len(minus) = sign
        <4>1. sign = 1 => minus = <<dash>>
          BY <1>2
        <4>2. dash \in D
          OBVIOUS
        <4> HIDE DEF dash, D
        <4>3. CASE sign = 1
          <5>1. <<dash>> \in Seq(D) /\ Len(<<dash>>) = 1
            BY <4>2
          <5> QED BY <4>1, <4>3, <5>1
        <4>4. CASE sign = 0
          <5>1. minus = <<>>
            BY <1>2, <4>4
          <5> QED BY <4>4, <5>1
        <4> QED BY <1>2, <4>3, <4>4
      <3>a. number.text \in Seq(D)
        <4> HIDE DEF dash
        <4> QED BY <2>2
      <3> HIDE DEF D
      <3>3. Len(minus \o number.text) = sign + Len(number.text)
            /\ Len(number.text) \in Nat
        BY <3>2, <3>a
      <3>4. Len(minus \o number.text) < length
            /\ sign + number.written <= length
        BY <1>2, <2>2, <2>4, <3>3
      <3> QED BY <3>1, <3>4 DEF StaysIn, Text, printed
    <2> QED BY <2>3, <2>4
  <1> QED BY <1>4, <1>5

(* A string that is cut ends in its mark, inside the buffer.               *)
LEMMA MarkedStays ==
    ASSUME NEW S, NEW text \in Seq(S), NEW length \in Nat \ {0, 1},
           Len(text) >= length - 2
    PROVE  Len(Marked(text, length)) = length - 1
  <1> DEFINE mark == "~"
  <1>1. Marked(text, length) = SubSeq(text, 1, length - 2) \o <<mark>>
    <2>1. length > 1
      OBVIOUS
    <2> QED BY <2>1, Zenon DEF Marked
  <1> HIDE DEF mark
  <1>2. Len(SubSeq(text, 1, length - 2) \o <<mark>>) = length - 1
    BY MarkEndsText
  <1> QED BY <1>1, <1>2

(* The printers of strings, for every string and every buffer.             *)
LEMMA StringStays ==
    ASSUME NEW S, NEW string \in Seq(S), NEW length \in Nat \ {0, 1}
    PROVE  /\ print_string(string, length).written <= length
           /\ Len(print_string(string, length).text) < length
  <1>1. Len(string) \in Nat
    OBVIOUS
  <1>2. CASE Len(string) < length
    <2>1. print_string(string, length) = Text(string, length)
      BY <1>2 DEF print_string
    <2> QED BY <1>2, <2>1 DEF Text
  <1>3. CASE ~(Len(string) < length)
    <2>1. /\ print_string(string, length).text = Marked(string, length)
          /\ print_string(string, length).written = length
      BY <1>3 DEF print_string
    <2>2. Len(string) >= length - 2
      BY <1>1, <1>3
    <2>3. Len(Marked(string, length)) = length - 1
      BY <2>2, MarkedStays
    <2> QED BY <2>1, <2>3
  <1> QED BY <1>2, <1>3

LEMMA SizedStringStays ==
    ASSUME NEW string \in Seq(STRING), NEW length \in Nat \ {0, 1}
    PROVE  /\ print_sized_string(string, length).written <= length
           /\ Len(print_sized_string(string, length).text) < length
  <1> DEFINE copied == UpToNul(string)
             n == Len(string)
             m == Len(copied)
  <1>1. /\ copied \in Seq(STRING) /\ n \in Nat /\ m \in Nat /\ m <= n
    <2>1. copied \in Seq(STRING) /\ m <= n
      BY VisibleIsBeginning
    <2> HIDE DEF copied
    <2> QED BY <2>1
  <1>2. CASE n < length
    <2>1. print_sized_string(string, length) = Text(copied, n + 1)
      BY <1>2 DEF print_sized_string
    <2> HIDE DEF copied
    <2>2. m < length /\ n + 1 <= length
      BY <1>1, <1>2
    <2> QED BY <2>1, <2>2 DEF Text
  <1>3. CASE ~(n < length)
    <2>1. /\ print_sized_string(string, length).text =
                 IF m < length - 2 THEN copied ELSE Marked(copied, length)
          /\ print_sized_string(string, length).written = length
      BY <1>3 DEF print_sized_string
    <2> HIDE DEF copied
    <2>2. CASE m < length - 2
      BY <1>1, <2>1, <2>2
    <2>3. CASE ~(m < length - 2)
      <3>1. Len(copied) >= length - 2
        BY <1>1, <2>3
      <3>2. Len(Marked(copied, length)) = length - 1
        BY <1>1, <3>1, MarkedStays
      <3> QED BY <2>1, <2>3, <3>2
    <2> QED BY <2>2, <2>3
  <1> QED BY <1>2, <1>3

(* A shortened key has as many characters on either side as are asked for. *)
LEMMA SummaryStays ==
    ASSUME NEW S, NEW string \in Seq(S), NEW side \in Nat,
           NEW length \in Nat, length = side + 2 + side + 1
    PROVE  LET printed == print_summary(string, length, side, side)
           IN  /\ printed.rc = 0
               /\ printed.written <= length
               /\ Len(printed.text) < length
  <1> DEFINE dot == "."
             n == Len(string)
             front == SubSeq(string, 1, side)
             back == SubSeq(string, n - side + 1, n)
             printed == print_summary(string, length, side, side)
  <1>1. n \in Nat /\ ~(length <= side + side + 2)
    OBVIOUS
  <1>2. CASE n + 1 <= length
    <2>1. printed = Text(string, length)
      <3>1. printed = print_string(string, length)
        BY <1>1, <1>2 DEF print_summary
      <3>2. n < length
        BY <1>1, <1>2
      <3> QED BY <3>1, <3>2 DEF print_string
    <2> QED BY <1>1, <1>2, <2>1 DEF Text
  <1>3. CASE ~(n + 1 <= length)
    <2>1. printed = Text(front \o <<dot, dot>> \o back, side + side + 3)
      BY <1>1, <1>3 DEF print_summary
    <2> DEFINE T == S \cup {dot}
    <2>2. string \in Seq(T) /\ <<dot, dot>> \in Seq(T)
          /\ Len(<<dot, dot>>) = 2
      <3> HIDE DEF dot
      <3> QED OBVIOUS
    <2> HIDE DEF T, dot
    <2>3. side <= n /\ n - side + 1 \in 1..(n + 1)
      BY <1>1, <1>3
    <2>4. front \in Seq(T) /\ Len(front) = side
      BY <2>2, <2>3
    <2>5. back \in Seq(T) /\ Len(back) = side
      BY <1>1, <2>2, <2>3
    <2> HIDE DEF front, back, printed
    <2>6. Len(front \o <<dot, dot>> \o back) = side + 2 + side
      BY <2>2, <2>4, <2>5
    <2> QED BY <2>1, <2>6 DEF Text, printed
  <1> QED BY <1>2, <1>3

LEMMA EncodedIsWritten ==
    ASSUME NEW bytes, NEW length
    PROVE  LET encoded == encode_base58(bytes, length)
           IN  encoded.rc = 0 => encoded.written = Len(encoded.text) + 1
  <1> DEFINE zeros == CountZeros(bytes)
             digits == Base58Digits(bytes, zeros)
             significant == SubSeq(digits, CountZeros(digits) + 1, Len(digits))
             text == [i \in 1..(zeros + Len(significant)) |->
                         BASE58_ALPHABET[IF i <= zeros THEN 1
                                         ELSE significant[i - zeros] + 1]]
             used == Most(Len(digits), Len(text))
             encoded == encode_base58(bytes, length)
  <1>1. encoded = IF length < Len(text) + 1
                  THEN [rc |-> 1, text |-> <<>>, written |-> 0, used |-> used]
                  ELSE [rc |-> 0, text |-> text, written |-> Len(text) + 1,
                        used |-> used]
    BY Zenon DEF encode_base58
  <1> HIDE DEF encoded, text, used
  <1>2. CASE length < Len(text) + 1
    BY <1>1, <1>2 DEF encoded
  <1>3. CASE ~(length < Len(text) + 1)
    BY <1>1, <1>3 DEF encoded
  <1> QED BY <1>2, <1>3

(* The largest amount without decimals.                                    *)
LongestAmount == Len(AmountTurns(Values64 - 1, 0, BASE58_PUBKEY_LENGTH))

LEMMA Room ==
    /\ BASE58_PUBKEY_LENGTH \in Nat /\ BASE58_PUBKEY_LENGTH >= 45
    /\ TEXT_BUFFER_LENGTH = BASE58_PUBKEY_LENGTH
    /\ Values64 - 1 \in Nat
    /\ MAX_SYMBOL_LENGTH \in Nat
    /\ LongestAmount \in Nat
    /\ LongestAmount + MAX_SYMBOL_LENGTH + 2 <= BASE58_PUBKEY_LENGTH
    /\ BASE58_PUBKEY_SHORT <= BASE58_PUBKEY_LENGTH
    /\ SUMMARY_LENGTH \in Nat
    /\ BASE58_PUBKEY_SHORT = SUMMARY_LENGTH + 2 + SUMMARY_LENGTH + 1
  <1>1. BASE58_PUBKEY_LENGTH \in Nat /\ BASE58_PUBKEY_LENGTH >= 45
        /\ Values64 - 1 \in Nat
    BY SwapParametersAssumption, PrinterAssumption
  <1>2. LongestAmount \in Nat
    <2> DEFINE most == Values64 - 1
               L == BASE58_PUBKEY_LENGTH
    <2>1. most \in Nat /\ 0 \in Nat /\ L \in Nat \ {0, 1}
      BY <1>1
    <2> HIDE DEF most, L
    <2>2. AmountTurns(most, 0, L) \in Seq(Numerals \cup {"."})
      BY <2>1, AmountIsComplete
    <2> QED BY <2>2 DEF most, L, LongestAmount
  <1>3. LongestAmount + MAX_SYMBOL_LENGTH + 2 <= BASE58_PUBKEY_LENGTH
    BY LibraryAssumption DEF HasRoomForSymbols, LongestAmount
  <1> QED BY <1>1, <1>2, <1>3, LibraryAssumption DEF TEXT_BUFFER_LENGTH

(* What becomes of the buffers when an item is displayed.                  *)
ItemStays(item, long) ==
    LET shown == Displayed(item, long)
        B == TEXT_BUFFER_LENGTH
    IN  /\ shown.rc # 0 => /\ item.kind = "TokenAmount"
                           /\ item.decimals + Len(item.symbol) + 4 > B
        /\ Len(shown.text) < IF item.kind = "Pubkey" /\ ~long
                             THEN BASE58_PUBKEY_SHORT ELSE B
        /\ \/ shown.written <= B
           \/ item.kind = "TokenAmount" /\ item.decimals = B - 1

LEMMA TokenItemStays ==
    ASSUME NEW item \in SummaryItem, NEW long, item.kind = "TokenAmount"
    PROVE  ItemStays(item, long)
  <1> DEFINE B == BASE58_PUBKEY_LENGTH
             value == item.value
             symbol == item.symbol
             decimals == item.decimals
             most == Values64 - 1
             m == LongestAmount
             out == AmountTurns(value, decimals, B)
             printed == print_token_amount(value, symbol, decimals, B)
  <1>1. /\ value \in 0..most /\ symbol \in Seq(STRING)
        /\ Len(symbol) <= MAX_SYMBOL_LENGTH /\ decimals \in Nat
    BY DEF SummaryItem
  <1>2. /\ B \in Nat \ {0, 1} /\ most \in Nat /\ m \in Nat
        /\ m + MAX_SYMBOL_LENGTH + 2 <= B /\ MAX_SYMBOL_LENGTH \in Nat
        /\ TEXT_BUFFER_LENGTH = B /\ m = Len(AmountTurns(most, 0, B))
    BY Room DEF LongestAmount
  <1>3. Displayed(item, long) = printed
    BY <1>2 DEF Displayed
  <1>4. Len(symbol) \in Nat /\ value \in Nat
    BY <1>1
  <1> HIDE DEF B, value, symbol, decimals, most, m
  <1>5. /\ printed.written <= B \/ decimals = B - 1
        /\ printed.text = <<>> \/ Len(printed.text) < B
        /\ printed.rc # 0 => Len(out) + Len(symbol) + 2 > B
    BY <1>1, <1>2, <1>4, TokenAmountStays
  <1>6. Len(out) \in Nat /\ (Len(out) <= m \/ Len(out) <= decimals + 2)
    <2>1. m < B
      BY <1>2
    <2> QED BY <1>1, <1>2, <2>1, AmountIsBounded
  <1> HIDE DEF printed, out
  <1>7. ASSUME printed.rc # 0 PROVE decimals + Len(symbol) + 4 > B
    BY <1>1, <1>2, <1>4, <1>5, <1>6, <1>7
  <1>8. Len(printed.text) < B
    BY <1>2, <1>5
  <1>9. ~(item.kind = "Pubkey" /\ ~long)
    OBVIOUS
  <1> QED BY <1>2, <1>3, <1>5, <1>7, <1>8, <1>9
          DEF ItemStays, symbol, decimals

LEMMA AmountItemStays ==
    ASSUME NEW item \in SummaryItem, NEW long, item.kind = "Amount"
    PROVE  ItemStays(item, long)
  <1> DEFINE B == BASE58_PUBKEY_LENGTH
             value == item.value
             printed == print_amount(value, B)
             A == {"S", "O", "L"}
  <1>1. value \in 0..(Values64 - 1)
    BY DEF SummaryItem
  <1>2. /\ B \in Nat \ {0, 1} /\ B >= 45 /\ TEXT_BUFFER_LENGTH = B
        /\ HasRoom(B)
    BY Room, SwapParametersAssumption
  <1>3. Displayed(item, long) = printed
    BY <1>2 DEF Displayed
  <1>4. SOL \in Seq(A) /\ SOL_DECIMALS \in Nat /\ SOL_DECIMALS = 9
        /\ value \in Nat
    BY <1>1 DEF SOL, SOL_DECIMALS
  <1>5. printed = print_token_amount(value, SOL, SOL_DECIMALS, B)
    BY DEF print_amount
  <1> HIDE DEF B, value, A, printed
  <1>6. /\ printed.written <= B \/ SOL_DECIMALS = B - 1
        /\ printed.text = <<>> \/ Len(printed.text) < B
    BY <1>2, <1>4, <1>5, TokenAmountStays
  <1>7. printed.rc = 0
    BY <1>1, <1>2, LamportsArePrinted DEF printed
  <1>8. printed.written <= B /\ Len(printed.text) < B
    BY <1>2, <1>4, <1>6
  <1>9. ~(item.kind = "Pubkey" /\ ~long)
    OBVIOUS
  <1> QED BY <1>2, <1>3, <1>7, <1>8, <1>9 DEF ItemStays

LEMMA NumberItemStays ==
    ASSUME NEW item \in SummaryItem, NEW long, item.kind \in {"U64", "I64"}
    PROVE  ItemStays(item, long)
  <1> DEFINE B == BASE58_PUBKEY_LENGTH
             value == item.value
             most == Values64 - 1
             m == LongestAmount
             shown == Displayed(item, long)
  <1>1. /\ B \in Nat \ {0, 1} /\ B >= 45 /\ TEXT_BUFFER_LENGTH = B
        /\ most \in Nat /\ m \in Nat /\ m < B /\ m <= B - 1
        /\ m = Len(AmountTurns(most, 0, B)) /\ B - 1 \in Nat \ {0, 1}
    BY Room DEF LongestAmount
  <1>2. shown.rc = 0 /\ StaysIn(shown, B)
    <2>1. CASE item.kind = "U64"
      <3>1. value \in 0..most
        BY <2>1 DEF SummaryItem
      <3>2. shown = print_u64(value, B)
        BY <1>1, <2>1 DEF Displayed
      <3> HIDE DEF B, value, most, m, shown
      <3>3. value \in Nat /\ B \in Nat /\ m <= B
        BY <1>1, <3>1
      <3>4. StaysIn(print_u64(value, B), B)
        BY <3>3, NumberStays
      <3>5. print_u64(value, B).rc = 0
        BY <1>1, <3>1, <3>3, NumberHasRoomToo
      <3> QED BY <3>2, <3>4, <3>5
    <2>2. CASE item.kind = "I64"
      <3>1. value \in Signed64
        BY <2>2 DEF SummaryItem
      <3>2. shown = print_i64(value, B)
        BY <1>1, <2>2 DEF Displayed
      <3> DEFINE w == Magnitude(value)
                 sign == IF value < 0 THEN 1 ELSE 0
                 l == B - sign
                 number == print_u64(w, l)
      <3>3. w \in 0..most
        BY <3>1, MagnitudeIsWord
      <3>4. print_i64(value, B).rc =
                IF B < 1 THEN 1 ELSE IF number.rc # 0 THEN 1 ELSE 0
        BY DEF print_i64, NoText, Text
      <3>5. l \in Nat \ {0, 1} /\ m <= l
        BY <1>1
      <3> HIDE DEF B, value, most, m, shown, w, l
      <3>6. number.rc = 0
        BY <1>1, <3>3, <3>5, NumberHasRoomToo
      <3>7. StaysIn(print_i64(value, B), B)
        <4>1. B \in Nat
          BY <1>1
        <4> QED BY <3>1, <4>1, SignedNumberStays
      <3> HIDE DEF number
      <3>8. print_i64(value, B).rc = 0
        BY <1>1, <3>4, <3>6
      <3> QED BY <3>2, <3>7, <3>8
    <2> QED BY <2>1, <2>2
  <1> HIDE DEF shown, B
  <1>3. shown.written <= B /\ Len(shown.text) < B
    BY <1>1, <1>2 DEF StaysIn
  <1>4. ~(item.kind = "Pubkey" /\ ~long)
    OBVIOUS
  <1> QED BY <1>1, <1>2, <1>3, <1>4 DEF ItemStays, shown

LEMMA KeyItemStays ==
    ASSUME NEW item \in SummaryItem, NEW long \in BOOLEAN,
           item.kind \in {"Pubkey", "Hash"}
    PROVE  ItemStays(item, long)
  <1> DEFINE B == BASE58_PUBKEY_LENGTH
             bytes == item.bytes
             whole == encode_base58(bytes, B)
             text == KeyText(bytes)
             shown == Displayed(item, long)
  <1>1. IsKey(bytes)
    BY DEF SummaryItem
  <1>2. B \in Nat /\ B >= 45 /\ B \in Nat \ {0, 1} /\ TEXT_BUFFER_LENGTH = B
    BY Room
  <1>4. shown = IF item.kind = "Hash" THEN whole
                ELSE IF whole.rc # 0 THEN whole
                ELSE IF long THEN print_string(whole.text, B)
                ELSE print_summary(whole.text, BASE58_PUBKEY_SHORT,
                                   SUMMARY_LENGTH, SUMMARY_LENGTH)
    BY <1>2 DEF Displayed
  <1> HIDE DEF B, bytes, shown
  <1>5. whole.rc = 0 /\ whole.text = text /\ Len(text) < B
    BY <1>1, <1>2, KeyFits
  <1>6. text \in Seq(Alphabet58) /\ Len(text) \in Nat
    BY <1>1, KeyTextIsShort
  <1>7. whole.written = Len(text) + 1
    BY <1>5, EncodedIsWritten
  <1> HIDE DEF text, whole
  <1>8. CASE item.kind = "Hash"
    <2>1. shown = whole /\ whole.written <= B
      BY <1>2, <1>4, <1>5, <1>6, <1>7, <1>8
    <2>2. ~(item.kind = "Pubkey" /\ ~long)
      BY <1>8
    <2> QED BY <1>2, <1>5, <2>1, <2>2 DEF ItemStays, shown
  <1>9. CASE item.kind = "Pubkey" /\ long
    <2>1. shown = print_string(text, B)
      BY <1>4, <1>5, <1>9
    <2>2. shown.rc = 0 /\ shown.text = text /\ shown.written = B
      BY <1>5, <2>1 DEF print_string, Text
    <2>3. ~(item.kind = "Pubkey" /\ ~long) /\ B <= B
      BY <1>2, <1>9
    <2> QED BY <1>2, <1>5, <2>2, <2>3 DEF ItemStays, shown
  <1>10. CASE item.kind = "Pubkey" /\ ~long
    <2> DEFINE side == SUMMARY_LENGTH
               K == BASE58_PUBKEY_SHORT
    <2>1. shown = print_summary(text, K, side, side)
      BY <1>4, <1>5, <1>10
    <2>2. side \in Nat /\ K \in Nat /\ K = side + 2 + side + 1 /\ K <= B
      BY Room DEF B
    <2> HIDE DEF side, K
    <2>3. shown.rc = 0 /\ shown.written <= K /\ Len(shown.text) < K
      BY <1>6, <2>1, <2>2, SummaryStays
    <2>4. shown.written <= B
      <3>1. shown.written \in Int
        BY <2>1, <2>2 DEF print_summary, print_string, Text, NoText
      <3> QED BY <1>2, <2>2, <2>3, <3>1
    <2> QED BY <1>2, <1>10, <2>3, <2>4 DEF ItemStays, shown, K
  <1> QED BY <1>8, <1>9, <1>10

LEMMA StringItemStays ==
    ASSUME NEW item \in SummaryItem, NEW long,
           item.kind \in {"String", "SizedString"}
    PROVE  ItemStays(item, long)
  <1> DEFINE B == BASE58_PUBKEY_LENGTH
             text == item.text
             shown == Displayed(item, long)
  <1>1. text \in Seq(STRING)
    BY DEF SummaryItem
  <1>2. B \in Nat \ {0, 1} /\ TEXT_BUFFER_LENGTH = B
    BY Room
  <1>3. shown.rc = 0 /\ shown.written <= B /\ Len(shown.text) < B
    <2>1. CASE item.kind = "String"
      <3> DEFINE printed == print_string(text, B)
      <3>1. shown = [printed EXCEPT !.rc = 0]
        BY <1>2, <2>1 DEF Displayed
      <3>2. DOMAIN printed = {"rc", "text", "written"}
        BY DEF print_string, Text
      <3>3. printed.written <= B /\ Len(printed.text) < B
        <4> HIDE DEF B, text
        <4> QED BY <1>1, <1>2, StringStays
      <3> HIDE DEF printed, shown
      <3> QED BY <3>1, <3>2, <3>3
    <2>2. CASE item.kind = "SizedString"
      <3> DEFINE printed == print_sized_string(text, B)
      <3>1. shown = [printed EXCEPT !.rc = 0]
        BY <1>2, <2>2 DEF Displayed
      <3>2. DOMAIN printed = {"rc", "text", "written"}
        BY DEF print_sized_string, Text
      <3>3. printed.written <= B /\ Len(printed.text) < B
        <4> HIDE DEF B, text
        <4> QED BY <1>1, <1>2, SizedStringStays
      <3> HIDE DEF printed, shown
      <3> QED BY <3>1, <3>2, <3>3
    <2> QED BY <2>1, <2>2
  <1>4. ~(item.kind = "Pubkey" /\ ~long)
    OBVIOUS
  <1> HIDE DEF shown, B
  <1> QED BY <1>2, <1>3, <1>4 DEF ItemStays, shown

(* No printer writes behind its buffer, but print_token_amount where the   *)
(* point takes the last byte, for all numbers, strings, keys and lengths;  *)
(* and every item of the summary is displayed, but token amounts with more *)
(* decimals than the buffer has room for (printer.c:24,                    *)
(* transaction_summary.c:150).                                             *)
THEOREM EveryTextStaysInBuffer == LibrarySpec => []TextStaysInBuffer
  <1>1. LibraryInit => TextStaysInBuffer
    BY DEF LibraryInit, NoCall, TextStaysInBuffer, Is
  <1>2. TextStaysInBuffer /\ [LibraryNext]_library => TextStaysInBuffer'
    <2> SUFFICES ASSUME TextStaysInBuffer, [LibraryNext]_library
                 PROVE  TextStaysInBuffer'
      OBVIOUS
    <2>1. CASE UNCHANGED library
      BY <2>1 DEF library, TextStaysInBuffer, Is, given
    <2>2. CASE LibraryNext
      <3>1. CASE Is("print_token_amount")'
        <4>1. PICK c \in AmountCalls : PrintTokenAmount(c)
          BY <2>2, <3>1, NameTellsCall DEF Is
        <4>2. /\ c.amount \in Nat /\ c.asset \in Seq(STRING)
              /\ c.decimals \in Nat /\ c.length \in Nat \ {0, 1}
          BY LibraryAssumption
        <4>3. given' = c /\ reply' = print_token_amount(c.amount, c.asset,
                                                        c.decimals, c.length)
          BY <4>1 DEF PrintTokenAmount, Called, given
        <4>4. /\ reply'.written <= c.length \/ c.decimals = c.length - 1
              /\ reply'.text = <<>> \/ Len(reply'.text) < c.length
          BY <4>2, <4>3, TokenAmountStays
        <4> QED BY <3>1, <4>3, <4>4 DEF TextStaysInBuffer, Is
      <3>2. CASE Is("print_i64")'
        <4>1. PICK c \in NumberCalls : PrintNumber(c)
          BY <2>2, <3>2, NameTellsCall DEF Is
        <4>2. c.value \in Signed64 /\ c.length \in Nat
          BY LibraryAssumption
        <4>3. given' = c /\ reply' = print_i64(c.value, c.length)
          BY <4>1 DEF PrintNumber, Called, given
        <4>4. StaysIn(reply', c.length)
          BY <4>2, <4>3, SignedNumberStays
        <4> QED BY <3>2, <4>3, <4>4 DEF TextStaysInBuffer, Is, StaysIn
      <3>3. CASE Is("print_sized_string")'
        <4>1. PICK c \in StringCalls : PrintSizedString(c)
          BY <2>2, <3>3, NameTellsCall DEF Is
        <4>2. c.text \in Seq(STRING) /\ c.length \in Nat \ {0, 1}
          BY LibraryAssumption
        <4>3. given' = c /\ reply' = print_sized_string(c.text, c.length)
          BY <4>1 DEF PrintSizedString, Called, given
        <4>4. reply'.written <= c.length /\ Len(reply'.text) < c.length
          BY <4>2, <4>3, SizedStringStays
        <4> QED BY <3>3, <4>3, <4>4 DEF TextStaysInBuffer, Is
      <3>4. CASE Is("display")'
        <4>1. PICK c \in DisplayCalls : DisplayItem(c)
          BY <2>2, <3>4, NameTellsCall DEF Is
        <4>2. c.item \in SummaryItem /\ c.long \in BOOLEAN
          BY LibraryAssumption
        <4>3. given' = c /\ reply' = Displayed(c.item, c.long)
          BY <4>1 DEF DisplayItem, Called, given
        <4>4. c.item.kind \in {"Amount", "U64", "I64", "TokenAmount",
                               "Pubkey", "Hash", "String", "SizedString"}
          BY <4>2 DEF SummaryItem
        <4>5. ItemStays(c.item, c.long)
          BY <4>2, <4>4, TokenItemStays, AmountItemStays, NumberItemStays,
             KeyItemStays, StringItemStays
        <4> QED BY <3>4, <4>3, <4>5, Zenon
                DEF TextStaysInBuffer, Is, ItemStays
      <3> QED BY <3>1, <3>2, <3>3, <3>4 DEF TextStaysInBuffer, Is
    <2> QED BY <2>1, <2>2
  <1> QED BY <1>1, <1>2, PTL DEF LibrarySpec
=============================================================================
