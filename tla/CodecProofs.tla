---------------------------- MODULE CodecProofs -----------------------------
(***************************************************************************)
(* What Codec.tla computes, for every width of its numbers and every input *)
(* its assumptions allow.  Induction and sums are those of PowProofs.      *)
(***************************************************************************)
EXTENDS Codec, SequenceTheorems, PowProofs

-----------------------------------------------------------------------------
(***************************************************************************)
(* The sums of a payment.  A number within the range of an int64_t stays   *)
(* what it is, so that SumInt64 adds without overflow as long as no sum on *)
(* the way leaves the range.                                               *)
(***************************************************************************)
LEMMA Remainder ==
  ASSUME NEW b \in Nat \ {0}, NEW a \in 0 .. b - 1
  PROVE  a % b = a
  OBVIOUS

LEMMA Int64Keeps ==
  ASSUME NEW n \in -INT64_MAX .. INT64_MAX
  PROVE  int64(n) = n
<1> DEFINE b == 2 * (INT64_MAX + 1)
           a == n + INT64_MAX + 1
<1>1. INT64_MAX \in Nat
  BY CodecAssumption
<1>2. b \in Nat \ {0} /\ a \in 0 .. b - 1 /\ a - (INT64_MAX + 1) = n
  BY <1>1
<1>3. int64(n) = (a % b) - (INT64_MAX + 1)
  BY DEF int64
<1> HIDE DEF a, b
<1>4. a % b = a
  BY <1>2, Remainder
<1> QED
  BY <1>2, <1>3, <1>4

IsTotal(t, values) ==
  t = [k \in 0 .. Len(values) |-> IF k = 0 THEN 0 ELSE int64(t[k - 1] + values[k])]

(***************************************************************************)
(* The running totals of numbers that never add up to more than INT64_MAX  *)
(* are their sums.                                                         *)
(***************************************************************************)
Summable(values) ==
  values \in Seq(Nat)
    /\ \A k \in 0 .. Len(values) : SumFunctionOnSet(values, 1 .. k) \in 0 .. INT64_MAX

LEMMA SumsAreTotal ==
  ASSUME NEW values, Summable(values)
  PROVE  IsTotal([k \in 0 .. Len(values) |-> SumFunctionOnSet(values, 1 .. k)], values)
<1> DEFINE t == [k \in 0 .. Len(values) |-> SumFunctionOnSet(values, 1 .. k)]
<1>1. Len(values) \in Nat /\ INT64_MAX \in Nat
  BY CodecAssumption DEF Summable
<1>2. ASSUME NEW k \in 0 .. Len(values), k # 0
      PROVE  t[k] = int64(t[k - 1] + values[k])
  <2>1. PICK j \in Nat : k = j + 1
    BY <1>2
  <2>2. \A i \in 1 .. j + 1 : values[i] \in Int
    BY <1>1, <2>1 DEF Summable
  <2>3. t[k] = values[k] + t[k - 1]
    BY <1>1, <2>1, <2>2, SumLast
  <2>4. t[k] \in 0 .. INT64_MAX
    BY DEF Summable
  <2>5. t[k - 1] + values[k] = t[k]
    <3>1. t[k - 1] \in Int /\ values[k] \in Int
      BY <1>1, <1>2, <2>1, <2>2 DEF Summable
    <3> HIDE DEF t
    <3> QED
      BY <2>3, <3>1
  <2> HIDE DEF t
  <2>6. t[k] \in -INT64_MAX .. INT64_MAX
    BY <1>1, <2>4
  <2> QED
    BY <2>5, <2>6, Int64Keeps
<1>3. t[0] = 0
  BY <1>1, SumNone
<1>4. t = [k \in 0 .. Len(values) |-> IF k = 0 THEN 0 ELSE int64(t[k - 1] + values[k])]
  BY <1>2, <1>3
<1> QED
  BY <1>4 DEF IsTotal

LEMMA TotalUnique ==
  ASSUME NEW values, Len(values) \in Nat, NEW t, NEW u,
         IsTotal(t, values), IsTotal(u, values)
  PROVE  t[Len(values)] = u[Len(values)]
<1> DEFINE T == {k \in Nat : k <= Len(values) => t[k] = u[k]}
<1>1. 0 \in T
  BY DEF IsTotal
<1>2. ASSUME NEW k \in Nat, k \in T PROVE k + 1 \in T
  <2>1. CASE k + 1 <= Len(values)
    <3>1. k + 1 \in 0 .. Len(values) /\ k + 1 # 0 /\ (k + 1) - 1 = k
      BY <2>1
    <3>2. t[k + 1] = int64(t[k] + values[k + 1]) /\ u[k + 1] = int64(u[k] + values[k + 1])
      BY <3>1 DEF IsTotal
    <3> QED
      BY <1>2, <2>1, <3>2
  <2> QED
    BY <2>1
<1> HIDE DEF T
<1>3. Len(values) \in T
  BY <1>1, <1>2, InductionSet
<1> QED
  BY <1>3 DEF T

LEMMA SumInt64IsSum ==
  ASSUME NEW values, Summable(values)
  PROVE  /\ SumInt64(values) = SumFunctionOnSet(values, 1 .. Len(values))
         /\ SumInt64(values) \in 0 .. INT64_MAX
<1> DEFINE u == CHOOSE t : t = [k \in 0 .. Len(values) |->
                                  IF k = 0 THEN 0 ELSE int64(t[k - 1] + values[k])]
           t == [k \in 0 .. Len(values) |-> SumFunctionOnSet(values, 1 .. k)]
<1>1. SumInt64(values) = u[Len(values)]
  BY DEF SumInt64
<1>2. Len(values) \in Nat
  BY DEF Summable
<1>3. IsTotal(t, values)
  BY SumsAreTotal
<1>4. t[Len(values)] = SumFunctionOnSet(values, 1 .. Len(values))
  BY <1>2
<1> HIDE DEF t
<1>5. IsTotal(u, values)
  BY <1>3 DEF IsTotal
<1> HIDE DEF u
<1>6. u[Len(values)] = t[Len(values)]
  BY <1>2, <1>3, <1>5, TotalUnique
<1>7. t[Len(values)] \in 0 .. INT64_MAX
  BY <1>2, <1>4 DEF Summable
<1> QED
  BY <1>1, <1>4, <1>6, <1>7

-----------------------------------------------------------------------------
(***************************************************************************)
(* The outputs of a wallet in map order.                                   *)
(***************************************************************************)
First(purse, k) == SumFunctionOnSet(purse, 1 .. k)

LEMMA PurseSums ==
  ASSUME NEW purse \in Purses
  PROVE  /\ purse \in Seq(Nat) /\ Len(purse) \in Nat /\ DOMAIN purse = 1 .. Len(purse)
         /\ First(purse, 0) = 0
         /\ \A k \in 0 .. Len(purse) : First(purse, k) \in Nat
         /\ \A k \in 0 .. Len(purse) - 1 : First(purse, k) <= First(purse, k + 1)
         /\ SumFunction(purse) = First(purse, Len(purse))
         /\ First(purse, Len(purse)) <= INT64_MAX
<1>1. purse \in Seq(Nat) /\ SumFunction(purse) <= INT64_MAX
  BY CodecAssumption
<1>2. Len(purse) \in Nat /\ DOMAIN purse = 1 .. Len(purse)
      /\ \A i \in 1 .. Len(purse) : purse[i] \in Nat
  BY <1>1
<1>3. SumFunction(purse) = First(purse, Len(purse))
  BY <1>2 DEF SumFunction, First
<1>4. First(purse, 0) = 0
  BY SumNone DEF First
<1>5. ASSUME NEW k \in 0 .. Len(purse) - 1
      PROVE  First(purse, k + 1) = purse[k + 1] + First(purse, k) /\ purse[k + 1] \in Nat
  <2>1. k \in Nat /\ \A i \in 1 .. k + 1 : purse[i] \in Int
    BY <1>2
  <2> QED
    BY <1>2, <2>1, SumLast DEF First
<1> DEFINE T == {k \in Nat : k <= Len(purse) => First(purse, k) \in Nat}
<1>6. 0 \in T
  BY <1>4
<1>7. ASSUME NEW k \in Nat, k \in T PROVE k + 1 \in T
  <2>1. CASE k + 1 <= Len(purse)
    <3>1. k \in 0 .. Len(purse) - 1 /\ First(purse, k) \in Nat
      BY <1>2, <1>7, <2>1
    <3> QED
      BY <1>5, <3>1
  <2> QED
    BY <2>1
<1> HIDE DEF T
<1>8. Nat \subseteq T
  BY <1>6, <1>7, InductionSet
<1>9. \A k \in 0 .. Len(purse) : First(purse, k) \in Nat
  BY <1>8 DEF T
<1>10. \A k \in 0 .. Len(purse) - 1 : First(purse, k) <= First(purse, k + 1)
  <2> TAKE k \in 0 .. Len(purse) - 1
  <2>1. k \in 0 .. Len(purse)
    BY <1>2
  <2> QED
    BY <1>5, <1>9, <2>1
<1> QED
  BY <1>1, <1>2, <1>3, <1>4, <1>9, <1>10

LEMMA FirstGrows ==
  ASSUME NEW purse \in Purses, NEW k \in 0 .. Len(purse)
  PROVE  First(purse, k) <= First(purse, Len(purse)) /\ First(purse, k) \in 0 .. INT64_MAX
<1>1. Len(purse) \in Nat /\ INT64_MAX \in Nat
  BY PurseSums, CodecAssumption
<1> DEFINE n == Len(purse)
           T == {j \in Nat : j <= n => First(purse, n - j) <= First(purse, n)}
<1>2. 0 \in T
  <2>1. n - 0 = n /\ First(purse, n) \in Nat
    BY <1>1, PurseSums
  <2> QED
    BY <2>1
<1>3. ASSUME NEW j \in Nat, j \in T PROVE j + 1 \in T
  <2>1. CASE j + 1 <= n
    <3>1. PICK i : i = n - (j + 1)
      OBVIOUS
    <3>2. i \in 0 .. n - 1 /\ i + 1 = n - j /\ i \in 0 .. n /\ i + 1 \in 0 .. n /\ n \in 0 .. n
      BY <1>1, <2>1, <3>1
    <3>3. First(purse, i) <= First(purse, i + 1) /\ First(purse, i + 1) <= First(purse, n)
      <4>1. j <= n /\ First(purse, n - j) <= First(purse, n)
        BY <1>1, <1>3, <2>1
      <4>2. First(purse, i) <= First(purse, i + 1)
        BY <3>2, PurseSums
      <4> QED
        BY <3>2, <4>1, <4>2
    <3>4. First(purse, i) \in Nat /\ First(purse, i + 1) \in Nat /\ First(purse, n) \in Nat
      BY <3>2, PurseSums
    <3>5. First(purse, i) <= First(purse, n)
      BY <3>3, <3>4
    <3> QED
      BY <3>1, <3>5
  <2> QED
    BY <2>1
<1> HIDE DEF T
<1>4. Nat \subseteq T
  BY <1>2, <1>3, InductionSet
<1>5. n - k \in Nat /\ n - (n - k) = k /\ n - k <= n
  BY <1>1
<1>6. First(purse, k) <= First(purse, n)
  BY <1>4, <1>5 DEF T
<1>7. First(purse, k) \in Nat /\ First(purse, n) \in Nat /\ First(purse, n) <= INT64_MAX
  BY <1>1, PurseSums
<1> QED
  BY <1>1, <1>6, <1>7

LEMMA PartIsSummable ==
  ASSUME NEW purse \in Purses, NEW k \in 0 .. Len(purse)
  PROVE  /\ SumInt64(SubSeq(purse, 1, k)) = First(purse, k)
         /\ Len(SubSeq(purse, 1, k)) = k
<1>1. purse \in Seq(Nat) /\ Len(purse) \in Nat
  BY PurseSums
<1>2. PICK s : s = SubSeq(purse, 1, k)
  OBVIOUS
<1>3. s \in Seq(Nat) /\ Len(s) = k /\ \A i \in 1 .. k : s[i] = purse[i]
  BY <1>1, <1>2
<1>4. ASSUME NEW j \in 0 .. k PROVE SumFunctionOnSet(s, 1 .. j) = First(purse, j)
  <2>1. \A i \in 1 .. j : s[i] = purse[i]
    BY <1>3
  <2>2. IsFiniteSet(1 .. j)
    BY RangeFinite
  <2> QED
    BY <2>1, <2>2, SumCongruence DEF First, Agree
<1>5. \A j \in 0 .. Len(s) : SumFunctionOnSet(s, 1 .. j) \in 0 .. INT64_MAX
  BY <1>1, <1>3, <1>4, FirstGrows
<1>6. SumInt64(s) = SumFunctionOnSet(s, 1 .. Len(s))
  BY <1>3, <1>5, SumInt64IsSum DEF Summable
<1> QED
  BY <1>2, <1>3, <1>4, <1>6

(***************************************************************************)
(* The loop of Wallet::CreateTransaction ends: with the first outputs that *)
(* cover what is needed, or with all of them.                              *)
(***************************************************************************)
LEMMA SelectedCovers ==
  ASSUME NEW purse \in Purses, NEW amount \in Amounts, amount + DEFAULT_FEE <= INT64_MAX,
         NEW k, k = Selected(purse, amount, DEFAULT_FEE)
  PROVE  /\ k \in 0 .. Len(purse)
         /\ k = Len(purse) \/ (k > 0 /\ First(purse, k) >= amount + DEFAULT_FEE)
<1>1. Len(purse) \in Nat /\ amount \in Nat /\ DEFAULT_FEE \in Nat /\ INT64_MAX \in Nat
  BY PurseSums, CodecAssumption
<1>2. PICK need : need = amount + DEFAULT_FEE
  OBVIOUS
<1>3. int64(amount + DEFAULT_FEE) = need /\ need \in Nat
  <2>1. need \in -INT64_MAX .. INT64_MAX
    BY <1>1, <1>2
  <2> QED
    BY <1>1, <1>2, <2>1, Int64Keeps
<1> DEFINE Sum(j) == SumInt64(SubSeq(purse, 1, j))
           Ends(j) == /\ j = Len(purse) \/ (j > 0 /\ Sum(j) >= need)
                      /\ \A i \in 1 .. j - 1 : Sum(i) < need
<1>4. \A j \in 0 .. Len(purse) : Sum(j) = First(purse, j) /\ Sum(j) \in Nat
  BY PartIsSummable, PurseSums
<1>5. k = CHOOSE j \in 0 .. Len(purse) : Ends(j)
  BY <1>3 DEF Selected
<1> HIDE DEF Sum
<1>6. \E j \in 0 .. Len(purse) : Ends(j)
  <2> DEFINE T == {j \in 1 .. Len(purse) : Sum(j) >= need}
  <2>1. CASE T = {}
    <3>1. \A i \in 1 .. Len(purse) - 1 : i \in 1 .. Len(purse) /\ i \in 0 .. Len(purse)
      BY <1>1
    <3>2. \A i \in 1 .. Len(purse) - 1 : Sum(i) < need
      BY <1>3, <1>4, <2>1, <3>1
    <3>3. Len(purse) \in 0 .. Len(purse)
      BY <1>1
    <3> QED
      BY <3>2, <3>3
  <2>2. CASE T # {}
    <3>1. T \subseteq Nat
      BY <1>1
    <3>2. PICK j \in T : \A i \in T : j <= i
      BY <2>2, <3>1, LeastMember
    <3>3. j \in 1 .. Len(purse) /\ Sum(j) >= need
      OBVIOUS
    <3>4. ASSUME NEW i \in 1 .. j - 1 PROVE Sum(i) < need
      <4>1. i \in 1 .. Len(purse) /\ i \in 0 .. Len(purse) /\ i < j
        BY <1>1, <3>3
      <4>2. i \notin T
        BY <1>1, <3>2, <4>1
      <4> QED
        BY <1>3, <1>4, <4>1, <4>2
    <3>5. Ends(j)
      BY <3>3, <3>4
    <3>6. j \in 0 .. Len(purse)
      BY <1>1, <3>3
    <3> QED
      BY <3>5, <3>6
  <2> QED
    BY <2>1, <2>2
<1> HIDE DEF Ends
<1>7. k \in 0 .. Len(purse) /\ Ends(k)
  BY <1>5, <1>6
<1> QED
  BY <1>2, <1>4, <1>7 DEF Ends

LEMMA SumOfTwo ==
  /\ \A a \in 0 .. INT64_MAX : SumInt64(<<a>>) = a
  /\ \A a, b \in 0 .. INT64_MAX : a + b <= INT64_MAX => SumInt64(<<a, b>>) = a + b
<1>1. INT64_MAX \in Nat
  BY CodecAssumption
<1>2. \A f : SumFunctionOnSet(f, 1 .. 0) = 0
  BY SumNone
<1>3. ASSUME NEW f, f[1] \in Nat PROVE SumFunctionOnSet(f, 1 .. 1) = f[1]
  BY <1>3, SumOne
<1>4. ASSUME NEW f, f[1] \in Nat, f[2] \in Nat
      PROVE  SumFunctionOnSet(f, 1 .. 2) = f[2] + f[1]
  <2>1. 1 + 1 = 2 /\ \A i \in 1 .. 1 + 1 : f[i] \in Int
    BY <1>4
  <2>2. SumFunctionOnSet(f, 1 .. 1 + 1) = f[1 + 1] + SumFunctionOnSet(f, 1 .. 1)
    BY <2>1, SumLast
  <2> QED
    BY <1>3, <1>4, <2>1, <2>2
<1>5. ASSUME NEW a \in 0 .. INT64_MAX PROVE SumInt64(<<a>>) = a
  <2>1. PICK s : s = <<a>>
    OBVIOUS
  <2>2. s \in Seq(Nat) /\ Len(s) = 1 /\ s[1] = a /\ a \in Nat
    BY <1>1, <2>1
  <2>3. SumFunctionOnSet(s, 1 .. 1) = a
    BY <1>3, <2>2
  <2>4. \A k \in 0 .. 1 : SumFunctionOnSet(s, 1 .. k) \in 0 .. INT64_MAX
    <3> TAKE k \in 0 .. 1
    <3>1. CASE k = 0
      <4>1. SumFunctionOnSet(s, 1 .. 0) = 0
        BY <1>2
      <4> QED
        BY <1>1, <3>1, <4>1
    <3>2. CASE k = 1
      BY <1>1, <2>3, <3>2
    <3> QED
      BY <3>1, <3>2
  <2>5. Summable(s)
    BY <2>2, <2>4 DEF Summable
  <2> QED
    BY <2>1, <2>2, <2>3, <2>5, SumInt64IsSum
<1>6. ASSUME NEW a \in 0 .. INT64_MAX, NEW b \in 0 .. INT64_MAX, a + b <= INT64_MAX
      PROVE  SumInt64(<<a, b>>) = a + b
  <2>1. PICK s : s = <<a, b>>
    OBVIOUS
  <2>2. s \in Seq(Nat) /\ Len(s) = 2 /\ s[1] = a /\ s[2] = b /\ a \in Nat /\ b \in Nat
    BY <1>1, <2>1
  <2>3. SumFunctionOnSet(s, 1 .. 1) = a /\ SumFunctionOnSet(s, 1 .. 2) = a + b
    BY <1>3, <1>4, <2>2
  <2>4. \A k \in 0 .. 2 : SumFunctionOnSet(s, 1 .. k) \in 0 .. INT64_MAX
    <3> TAKE k \in 0 .. 2
    <3>1. CASE k = 0
      <4>1. SumFunctionOnSet(s, 1 .. 0) = 0
        BY <1>2
      <4> QED
        BY <1>1, <3>1, <4>1
    <3>2. CASE k = 1
      BY <1>1, <2>3, <3>2
    <3>3. CASE k = 2
      <4>1. a + b \in 0 .. INT64_MAX
        BY <1>1, <1>6
      <4> QED
        BY <2>3, <3>3, <4>1
    <3> QED
      BY <3>1, <3>2, <3>3
  <2>5. Summable(s)
    BY <2>2, <2>4 DEF Summable
  <2> QED
    BY <2>1, <2>2, <2>3, <2>5, SumInt64IsSum
<1> QED
  BY <1>5, <1>6

(***************************************************************************)
(* A payment the wallet makes, in exact numbers.                           *)
(***************************************************************************)
LEMMA PaymentIsExact ==
  ASSUME NEW purse \in Purses, NEW amount \in Amounts, amount + DEFAULT_FEE <= INT64_MAX,
         NEW tx, tx = CreateTransaction(purse, amount, DEFAULT_FEE),
         NEW paid, paid = get_fee(tx.vin, tx.vout)
  PROVE  /\ tx.ok = (SumFunction(purse) >= amount + DEFAULT_FEE)
         /\ tx.ok => /\ tx.vout[1] = amount
                     /\ paid >= DEFAULT_FEE
                     /\ DUST_THRESHOLD > 0 => paid < DEFAULT_FEE + DUST_THRESHOLD
<1>1. PICK k, need, fee : /\ k = Selected(purse, amount, DEFAULT_FEE)
                          /\ need = amount + DEFAULT_FEE /\ fee = DEFAULT_FEE
  OBVIOUS
<1>2. /\ Len(purse) \in Nat /\ amount \in 1 .. INT64_MAX /\ fee \in Nat
      /\ INT64_MAX \in Nat /\ DUST_THRESHOLD \in Nat /\ need \in 1 .. INT64_MAX
  BY <1>1, PurseSums, CodecAssumption
<1>3. k \in 0 .. Len(purse) /\ (k = Len(purse) \/ First(purse, k) >= need)
  BY <1>1, SelectedCovers
<1>4. PICK in, total : in = SubSeq(purse, 1, k) /\ total = SumInt64(in)
  OBVIOUS
<1>5. total = First(purse, k) /\ Len(in) = k
  BY <1>3, <1>4, PartIsSummable
<1>6. PICK funds : funds = First(purse, Len(purse))
  OBVIOUS
<1>7. total \in 0 .. INT64_MAX /\ total <= funds /\ funds \in Nat /\ SumFunction(purse) = funds
  <2>1. Len(purse) \in 0 .. Len(purse)
    BY <1>2
  <2> QED
    BY <1>3, <1>5, <1>6, <2>1, FirstGrows, PurseSums
<1>8. int64(need) = need
  <2>1. need \in -INT64_MAX .. INT64_MAX
    BY <1>2
  <2> QED
    BY <2>1, Int64Keeps
<1>9. tx.ok = (total >= need)
  BY <1>1, <1>4, <1>8 DEF CreateTransaction
<1>10. total >= need <=> funds >= need
  BY <1>2, <1>3, <1>5, <1>6, <1>7
<1>11. ASSUME total >= need
       PROVE  /\ tx.vout[1] = amount
              /\ paid >= fee
              /\ DUST_THRESHOLD > 0 => paid < fee + DUST_THRESHOLD
  <2>1. PICK change : change = total - amount - fee
    OBVIOUS
  <2>2. change \in 0 .. INT64_MAX /\ total - amount \in 0 .. INT64_MAX
    BY <1>1, <1>2, <1>7, <1>11, <2>1
  <2>3. int64(int64(total - amount) - fee) = change
    <3>1. total - amount \in -INT64_MAX .. INT64_MAX /\ change \in -INT64_MAX .. INT64_MAX
      BY <1>2, <2>2
    <3>2. int64(total - amount) = total - amount /\ int64(change) = change
      BY <3>1, Int64Keeps
    <3> QED
      BY <2>1, <3>2
  <2>4. tx.vin = in
    BY <1>1, <1>4 DEF CreateTransaction
  <2>5. tx.vout = <<amount>> \o (IF change >= DUST_THRESHOLD THEN <<change>> ELSE <<>>)
    BY <1>1, <1>4, <2>3 DEF CreateTransaction
  <2>6. in # <<>>
    <3>1. k # 0
      BY <1>2, <1>5, <1>11, PurseSums
    <3> QED
      BY <1>5, <3>1
  <2>7. ASSUME NEW out \in 0 .. total, SumInt64(tx.vout) = out
        PROVE  paid = total - out
    <3>1. ~(out > total) /\ total - out \in -INT64_MAX .. INT64_MAX
      BY <1>2, <1>7
    <3>2. int64(total - out) = total - out
      BY <3>1, Int64Keeps
    <3> QED
      BY <1>4, <2>4, <2>6, <2>7, <3>1, <3>2 DEF get_fee
  <2>8. CASE change >= DUST_THRESHOLD
    <3>1. tx.vout = <<amount, change>>
      <4>1. tx.vout = <<amount>> \o <<change>>
        BY <2>5, <2>8
      <4>2. ASSUME NEW a \in Int, NEW b \in Int PROVE <<a>> \o <<b>> = <<a, b>>
        <5>1. PICK s, u : s = <<a>> \o <<b>> /\ u = <<a, b>>
          OBVIOUS
        <5>2. u \in Seq(Int) /\ Len(u) = 2 /\ u[1] = a /\ u[2] = b
          BY <5>1
        <5>3. s \in Seq(Int) /\ Len(s) = 2 /\ s[1] = a /\ s[2] = b
          BY <5>1
        <5>4. \A i \in 1 .. 2 : i = 1 \/ i = 2
          OBVIOUS
        <5>5. \A i \in 1 .. 2 : s[i] = u[i]
          BY <5>2, <5>3, <5>4
        <5>6. s = u
          BY <5>2, <5>3, <5>5, SeqEqual
        <5> QED
          BY <5>1, <5>6
      <4>3. amount \in Int /\ change \in Int
        BY <1>2, <2>2
      <4> QED
        BY <4>1, <4>2, <4>3
    <3>2. /\ amount + change = total - fee /\ amount + change <= INT64_MAX
          /\ amount \in 0 .. INT64_MAX /\ amount + change \in 0 .. total
      BY <1>2, <1>7, <2>1, <2>2
    <3>3. SumInt64(tx.vout) = amount + change
      BY <2>2, <3>1, <3>2, SumOfTwo
    <3>4. paid = total - (amount + change)
      BY <2>7, <3>2, <3>3
    <3>5. paid = fee
      BY <1>2, <1>7, <3>2, <3>4
    <3> QED
      BY <1>2, <3>1, <3>5
  <2>9. CASE ~(change >= DUST_THRESHOLD)
    <3>1. tx.vout = <<amount>>
      BY <2>5, <2>9
    <3>2. amount \in 0 .. INT64_MAX /\ amount \in 0 .. total
      BY <1>1, <1>2, <1>7, <1>11
    <3>3. SumInt64(tx.vout) = amount
      BY <3>1, <3>2, SumOfTwo
    <3>4. paid = total - amount
      BY <2>7, <3>2, <3>3
    <3>5. paid = change + fee
      BY <1>2, <1>7, <2>1, <3>4
    <3>6. paid >= fee /\ paid < fee + DUST_THRESHOLD
      BY <1>2, <2>2, <2>9, <3>5
    <3> QED
      BY <3>1, <3>6
  <2> QED
    BY <2>8, <2>9
<1>12. tx.ok = (SumFunction(purse) >= amount + DEFAULT_FEE)
  <2>1. (total >= need) = (funds >= need)
    BY <1>10
  <2> QED
    BY <1>1, <1>7, <1>9, <2>1
<1>13. ASSUME tx.ok
       PROVE  /\ tx.vout[1] = amount
              /\ paid >= DEFAULT_FEE
              /\ DUST_THRESHOLD > 0 => paid < DEFAULT_FEE + DUST_THRESHOLD
  <2>1. total >= need
    BY <1>9, <1>13
  <2>2. fee = DEFAULT_FEE
    BY <1>1
  <2> QED
    BY <1>11, <2>1, <2>2
<1> QED
  BY <1>12, <1>13

-----------------------------------------------------------------------------
(***************************************************************************)
(* What has been picked is one of the inputs.                              *)
(***************************************************************************)
PickedOK ==
  /\ picked.kind = "bytes"    => picked.of \in ByteStrings
  /\ picked.kind = "string"   => picked.of \in Base58Strings
  /\ picked.kind = "address"  => picked.of \in Addresses
  /\ picked.kind = "chain"    => picked.of \in Chains
  /\ picked.kind = "mempool"  => picked.of \in Mempools
  /\ picked.kind = "utxos"    => picked.of \in UtxoLists
  /\ picked.kind = "messages" => picked.of \in Messages \X Messages
  /\ picked.kind = "spend"    => picked.of \in Spends
  /\ picked.kind = "payment"  => picked.of \in [purse : Purses, amount : Amounts]

LEMMA AlwaysPicked == Spec => []PickedOK
<1>1. Init => PickedOK
  BY DEF Init, PickedOK
<1>2. PickedOK /\ [Next]_picked => PickedOK'
  <2> SUFFICES ASSUME PickedOK, [Next]_picked PROVE PickedOK'
    OBVIOUS
  <2>1. CASE UNCHANGED picked
    BY <2>1 DEF PickedOK
  <2>2. CASE SaveChain \/ SaveMempool \/ SaveUtxos
    BY <2>2 DEF SaveChain, SaveMempool, SaveUtxos, Picks, PickedOK
  <2>3. CASE SendTwo \/ VerifySpend \/ Pay
    BY <2>3 DEF SendTwo, VerifySpend, Pay, Picks, PickedOK
  <2>4. CASE EncodeBytes \/ DecodeString \/ PrintAddress
    BY <2>4 DEF EncodeBytes, DecodeString, PrintAddress, Picks, PickedOK
  <2> QED
    BY <2>1, <2>2, <2>3, <2>4 DEF Next
<1> QED
  BY <1>1, <1>2, PTL DEF Spec

(***************************************************************************)
(* Whatever the width of the sums: while amount + fee fits, the wallet     *)
(* makes a payment exactly when its outputs cover it, in every order of    *)
(* the map, and validate_and_get_fee finds the promised fee in it, or less *)
(* than a dust change above it.  No sum on the way overflows.              *)
(***************************************************************************)
THEOREM PaymentsAreExact == Spec => []PaymentsExact
<1>1. PickedOK => PaymentsExact
  <2> SUFFICES ASSUME PickedOK, picked.kind = "payment",
                      picked.of.amount + DEFAULT_FEE <= INT64_MAX
               PROVE  PaymentsExact
    BY DEF PaymentsExact
  <2>1. picked.of.purse \in Purses /\ picked.of.amount \in Amounts
    BY DEF PickedOK
  <2> QED
    BY <2>1, PaymentIsExact DEF PaymentsExact
<1> QED
  BY <1>1, AlwaysPicked, PTL

-----------------------------------------------------------------------------
(***************************************************************************)
(* Sequences of anything.                                                  *)
(***************************************************************************)
IsSeq(s) == \E S : s \in Seq(S)

LEMMA SharedElements ==
  ASSUME NEW s, NEW t, IsSeq(s), IsSeq(t)
  PROVE  \E S : s \in Seq(S) /\ t \in Seq(S)
<1>1. PICK S : s \in Seq(S)
  BY DEF IsSeq
<1>2. PICK T : t \in Seq(T)
  BY DEF IsSeq
<1>3. s \in Seq(S \cup T) /\ t \in Seq(S \cup T)
  <2>1. S \subseteq S \cup T /\ T \subseteq S \cup T
    OBVIOUS
  <2> QED
    BY <1>1, <1>2, <2>1, SeqMonotonic
<1> QED
  BY <1>3

LEMMA Concatenated ==
  ASSUME NEW s, NEW t, IsSeq(s), IsSeq(t)
  PROVE  /\ IsSeq(s \o t)
         /\ Len(s) \in Nat /\ Len(t) \in Nat
         /\ Len(s \o t) = Len(s) + Len(t)
         /\ \A i \in 1 .. Len(s) : (s \o t)[i] = s[i]
         /\ \A i \in 1 .. Len(t) : (s \o t)[Len(s) + i] = t[i]
<1>1. PICK S : s \in Seq(S) /\ t \in Seq(S)
  BY SharedElements
<1>2. Len(s) \in Nat /\ Len(t) \in Nat
  BY <1>1
<1>3. s \o t \in Seq(S) /\ Len(s \o t) = Len(s) + Len(t)
      /\ \A i \in 1 .. Len(s) + Len(t) :
           (s \o t)[i] = IF i <= Len(s) THEN s[i] ELSE t[i - Len(s)]
  BY <1>1, ConcatProperties
<1>4. \A i \in 1 .. Len(s) : i \in 1 .. Len(s) + Len(t) /\ i <= Len(s)
  BY <1>2
<1>5. \A i \in 1 .. Len(t) : /\ Len(s) + i \in 1 .. Len(s) + Len(t)
                             /\ ~(Len(s) + i <= Len(s)) /\ (Len(s) + i) - Len(s) = i
  BY <1>2
<1> QED
  BY <1>2, <1>3, <1>4, <1>5 DEF IsSeq

LEMMA SameSeq ==
  ASSUME NEW s, NEW t, IsSeq(s), IsSeq(t), Len(s) = Len(t),
         \A i \in 1 .. Len(s) : s[i] = t[i]
  PROVE  s = t
<1>1. PICK S : s \in Seq(S) /\ t \in Seq(S)
  BY SharedElements
<1> QED
  BY <1>1, SeqEqual

LEMMA Associative ==
  ASSUME NEW s, NEW t, NEW u, IsSeq(s), IsSeq(t), IsSeq(u)
  PROVE  (s \o t) \o u = s \o (t \o u)
<1>1. PICK S : s \in Seq(S) /\ t \in Seq(S)
  BY SharedElements
<1>2. PICK T : u \in Seq(T)
  BY DEF IsSeq
<1>3. s \in Seq(S \cup T) /\ t \in Seq(S \cup T) /\ u \in Seq(S \cup T)
  <2>1. S \subseteq S \cup T /\ T \subseteq S \cup T
    OBVIOUS
  <2> QED
    BY <1>1, <1>2, <2>1, SeqMonotonic
<1> QED
  BY <1>3, ConcatAssociative

LEMMA Single ==
  ASSUME NEW x
  PROVE  IsSeq(<<x>>) /\ Len(<<x>>) = 1 /\ <<x>>[1] = x
<1>1. <<x>> \in Seq({x})
  OBVIOUS
<1> QED
  BY <1>1 DEF IsSeq

LEMMA EmptyIsSeq == IsSeq(<<>>) /\ Len(<<>>) = 0
  BY EmptySeq DEF IsSeq

LEMMA WithEmpty ==
  ASSUME NEW s, IsSeq(s) PROVE s \o <<>> = s /\ <<>> \o s = s
  BY ConcatEmptySeq DEF IsSeq

LEMMA Appended ==
  ASSUME NEW s, NEW x, IsSeq(s)
  PROVE  Append(s, x) = s \o <<x>>
<1>1. PICK S : s \in Seq(S)
  BY DEF IsSeq
<1>2. s \in Seq(S \cup {x}) /\ x \in S \cup {x}
  <2>1. S \subseteq S \cup {x}
    OBVIOUS
  <2> QED
    BY <1>1, <2>1, SeqMonotonic
<1> QED
  BY <1>2, AppendIsConcat

\* What follows the first n elements, and what they are.
LEMMA Parts ==
  ASSUME NEW s, NEW t, IsSeq(s), IsSeq(t)
  PROVE  /\ SubSeq(s \o t, 1, Len(s)) = s
         /\ SubSeq(s \o t, Len(s) + 1, Len(s) + Len(t)) = t
<1>1. PICK S : s \in Seq(S) /\ t \in Seq(S)
  BY SharedElements
<1>2. /\ s \o t \in Seq(S) /\ Len(s) \in Nat /\ Len(t) \in Nat
      /\ Len(s \o t) = Len(s) + Len(t)
      /\ \A i \in 1 .. Len(s) : (s \o t)[i] = s[i]
      /\ \A i \in 1 .. Len(t) : (s \o t)[Len(s) + i] = t[i]
  BY <1>1, ConcatProperties, Concatenated DEF IsSeq
<1>3. \A i \in 1 .. Len(s) + Len(t) : (s \o t)[i] \in S
  BY <1>2, ElementOfSeq
<1>4. SubSeq(s \o t, 1, Len(s)) = s
  <2> DEFINE p == SubSeq(s \o t, 1, Len(s))
  <2>1. \A i \in 1 .. Len(s) : (s \o t)[i] \in S
    BY <1>2, <1>3
  <2>2. /\ p \in Seq(S) /\ Len(p) = (IF 1 <= Len(s) THEN Len(s) - 1 + 1 ELSE 0)
        /\ \A i \in 1 .. Len(s) - 1 + 1 : p[i] = (s \o t)[1 + i - 1]
    BY <1>2, <2>1, SubSeqProperties
  <2> HIDE DEF p
  <2>3. Len(p) = Len(s) /\ Len(s) - 1 + 1 = Len(s)
    BY <1>2, <2>2
  <2>4. \A i \in 1 .. Len(s) : 1 + i - 1 = i
    BY <1>2
  <2>5. \A i \in 1 .. Len(p) : p[i] = s[i]
    BY <1>2, <2>2, <2>3, <2>4
  <2>6. p = s
    BY <1>1, <2>2, <2>3, <2>5, SeqEqual
  <2> QED
    BY <2>6 DEF p
<1>5. SubSeq(s \o t, Len(s) + 1, Len(s) + Len(t)) = t
  <2> DEFINE m == Len(s) + 1
             n == Len(s) + Len(t)
             p == SubSeq(s \o t, m, n)
  <2>1. m \in Int /\ n \in Int /\ \A i \in m .. n : (s \o t)[i] \in S
    BY <1>2, <1>3
  <2>2. n - m + 1 = Len(t) /\ (~(m <= n) => Len(t) = 0)
    BY <1>2
  <2>3. \A i \in 1 .. Len(t) : m + i - 1 = Len(s) + i
    BY <1>2
  <2>4. PICK q : q = s \o t
    OBVIOUS
  <2>5. p = SubSeq(q, m, n)
    BY <2>4
  <2> HIDE DEF m, n, p
  <2>6. /\ p \in Seq(S) /\ Len(p) = (IF m <= n THEN n - m + 1 ELSE 0)
        /\ \A i \in 1 .. n - m + 1 : p[i] = q[m + i - 1]
    <3>1. \A i \in m .. n : q[i] \in S
      BY <2>1, <2>4
    <3> QED
      BY <2>1, <2>5, <3>1, SubSeqProperties
  <2>7. Len(p) = Len(t)
    BY <2>2, <2>6
  <2>8. \A i \in 1 .. Len(p) : p[i] = t[i]
    BY <1>2, <2>2, <2>3, <2>4, <2>6, <2>7
  <2>9. p = t
    BY <1>1, <2>6, <2>7, <2>8, SeqEqual
  <2> QED
    BY <2>9 DEF p, m, n
<1> QED
  BY <1>4, <1>5

-----------------------------------------------------------------------------
(***************************************************************************)
(* Readers.  A cursor that has read n more bytes has pushed what they      *)
(* stand for; one that has thrown is of no use to any reader after it.     *)
(***************************************************************************)
IsRecord(c) ==
  \E A, B, V : c \in [in : A, offset : B, ok : BOOLEAN, vals : V]

IsCursor(c) ==
  /\ IsRecord(c)
  /\ c.ok = TRUE
  /\ c.in \in Seq(Int) /\ Len(c.in) \in Nat
  /\ c.offset \in Nat /\ c.offset <= Len(c.in)
  /\ IsSeq(c.vals)

Failed(c) == IsRecord(c) /\ c.ok = FALSE

Pushed(c, n, vs) ==
  [in |-> c.in, offset |-> c.offset + n, ok |-> TRUE, vals |-> c.vals \o vs]

\* The bytes b come next, or the beginning of b does and then the buffer ends.
Follows(c, b) ==
  /\ IsCursor(c)
  /\ b \in Seq(Int)
  /\ \A i \in 1 .. Len(b) : c.offset + i <= Len(c.in) => c.in[c.offset + i] = b[i]

Reads(c, b) == Follows(c, b) /\ c.offset + Len(b) <= Len(c.in)
Short(c, b) == Follows(c, b) /\ c.offset + Len(b) > Len(c.in)

\* Reading b at c, with the result r, yields the values vs.
Reader(c, b, r, vs) ==
  /\ IsSeq(vs) /\ b \in Seq(Int)
  /\ Reads(c, b) => r = Pushed(c, Len(b), vs)
  /\ Short(c, b) => Failed(r)
  /\ Failed(c) => Failed(r)

LEMMA CursorFields ==
  ASSUME NEW c, IsCursor(c)
  PROVE  /\ IsRecord(c) /\ c.ok = TRUE /\ c.in \in Seq(Int) /\ Len(c.in) \in Nat
         /\ c.offset \in Nat /\ c.offset <= Len(c.in) /\ IsSeq(c.vals)
  BY DEF IsCursor

LEMMA SameRecord ==
  ASSUME NEW c, IsRecord(c), NEW d, IsRecord(d),
         c.in = d.in, c.offset = d.offset, c.ok = d.ok, c.vals = d.vals
  PROVE  c = d
<1>1. PICK A, B, V : c \in [in : A, offset : B, ok : BOOLEAN, vals : V]
  BY DEF IsRecord
<1>2. PICK X, Y, Z : d \in [in : X, offset : Y, ok : BOOLEAN, vals : Z]
  BY DEF IsRecord
<1>3. /\ c \in [in : A \cup X, offset : B \cup Y, ok : BOOLEAN, vals : V \cup Z]
      /\ d \in [in : A \cup X, offset : B \cup Y, ok : BOOLEAN, vals : V \cup Z]
  BY <1>1, <1>2
<1> QED
  BY <1>3

LEMMA ThrownIsFailed ==
  ASSUME NEW c, IsRecord(c)
  PROVE  Failed([c EXCEPT !.ok = FALSE])
<1>1. PICK A, B, V : c \in [in : A, offset : B, ok : BOOLEAN, vals : V]
  BY DEF IsRecord
<1>2. PICK d : d = [c EXCEPT !.ok = FALSE]
  OBVIOUS
<1>3. d \in [in : A, offset : B, ok : BOOLEAN, vals : V] /\ d.ok = FALSE
  BY <1>1, <1>2
<1>4. Failed(d)
  BY <1>3 DEF Failed, IsRecord
<1> QED
  BY <1>2, <1>4

\* A cursor with another offset and other values.
Moved(c, o, v) == [c EXCEPT !.offset = o, !.vals = v]

LEMMA MovedFields ==
  ASSUME NEW c, IsRecord(c), NEW o, NEW v
  PROVE  /\ IsRecord(Moved(c, o, v)) /\ Moved(c, o, v).in = c.in
         /\ Moved(c, o, v).offset = o /\ Moved(c, o, v).ok = c.ok /\ Moved(c, o, v).vals = v
<1>1. PICK A, B, V : c \in [in : A, offset : B, ok : BOOLEAN, vals : V]
  BY DEF IsRecord
<1>2. c \in [in : A, offset : B \cup {o}, ok : BOOLEAN, vals : V \cup {v}]
      /\ o \in B \cup {o} /\ v \in V \cup {v}
  BY <1>1
<1>3. PICK d : d = Moved(c, o, v)
  OBVIOUS
<1>4. d \in [in : A, offset : B \cup {o}, ok : BOOLEAN, vals : V \cup {v}]
      /\ d.in = c.in /\ d.offset = o /\ d.ok = c.ok /\ d.vals = v
  BY <1>2, <1>3 DEF Moved
<1> QED
  BY <1>3, <1>4 DEF IsRecord

\* A cursor with other values.
Revalued(c, v) == [c EXCEPT !.vals = v]

LEMMA RevaluedFields ==
  ASSUME NEW c, IsRecord(c), NEW v
  PROVE  /\ IsRecord(Revalued(c, v)) /\ Revalued(c, v).in = c.in
         /\ Revalued(c, v).offset = c.offset /\ Revalued(c, v).ok = c.ok
         /\ Revalued(c, v).vals = v
<1>1. PICK A, B, V : c \in [in : A, offset : B, ok : BOOLEAN, vals : V]
  BY DEF IsRecord
<1>2. c \in [in : A, offset : B, ok : BOOLEAN, vals : V \cup {v}] /\ v \in V \cup {v}
  BY <1>1
<1>3. PICK d : d = Revalued(c, v)
  OBVIOUS
<1>4. d \in [in : A, offset : B, ok : BOOLEAN, vals : V \cup {v}]
      /\ d.in = c.in /\ d.offset = c.offset /\ d.ok = c.ok /\ d.vals = v
  BY <1>2, <1>3 DEF Revalued
<1> QED
  BY <1>3, <1>4 DEF IsRecord

LEMMA PushedFields ==
  ASSUME NEW c, IsCursor(c), NEW n \in Nat, NEW vs, IsSeq(vs)
  PROVE  /\ IsRecord(Pushed(c, n, vs)) /\ Pushed(c, n, vs).in = c.in
         /\ Pushed(c, n, vs).offset = c.offset + n /\ Pushed(c, n, vs).ok = TRUE
         /\ Pushed(c, n, vs).vals = c.vals \o vs
<1>1. PICK a, b, v : a = c.in /\ b = c.offset + n /\ v = c.vals \o vs
  OBVIOUS
<1>2. PICK d : d = Pushed(c, n, vs)
  OBVIOUS
<1>3. d = [in |-> a, offset |-> b, ok |-> TRUE, vals |-> v]
  BY <1>1, <1>2 DEF Pushed
<1>4. d.in = a /\ d.offset = b /\ d.ok = TRUE /\ d.vals = v
      /\ d \in [in : {a}, offset : {b}, ok : BOOLEAN, vals : {v}]
  BY <1>3
<1> QED
  BY <1>1, <1>2, <1>4 DEF IsRecord

LEMMA PushedIsCursor ==
  ASSUME NEW c, IsCursor(c), NEW n \in Nat, c.offset + n <= Len(c.in), NEW vs, IsSeq(vs)
  PROVE  IsCursor(Pushed(c, n, vs))
<1>1. c.in \in Seq(Int) /\ c.offset \in Nat /\ IsSeq(c.vals) /\ Len(c.in) \in Nat
  BY DEF IsCursor
<1>2. IsSeq(c.vals \o vs)
  BY <1>1, Concatenated
<1>3. c.offset + n \in Nat
  BY <1>1
<1>4. PICK d : d = Pushed(c, n, vs)
  OBVIOUS
<1>5. IsRecord(d) /\ d.in = c.in /\ d.offset = c.offset + n /\ d.ok = TRUE
      /\ d.vals = c.vals \o vs
  BY <1>4, PushedFields
<1>6. IsCursor(d)
  BY <1>1, <1>2, <1>3, <1>5 DEF IsCursor
<1> QED
  BY <1>4, <1>6

LEMMA PushedTwice ==
  ASSUME NEW c, IsCursor(c), NEW m \in Nat, NEW n \in Nat,
         NEW vs, IsSeq(vs), NEW ws, IsSeq(ws)
  PROVE  Pushed(Pushed(c, m, vs), n, ws) = Pushed(c, m + n, vs \o ws)
<1>1. c.offset \in Nat /\ IsSeq(c.vals)
  BY CursorFields
<1>2. (c.offset + m) + n = c.offset + (m + n)
  BY <1>1
<1>3. (c.vals \o vs) \o ws = c.vals \o (vs \o ws)
  <2>1. PICK v : v = c.vals
    OBVIOUS
  <2>2. (v \o vs) \o ws = v \o (vs \o ws)
    <3>1. IsSeq(v)
      BY <1>1, <2>1
    <3> QED
      BY <3>1, Associative
  <2> QED
    BY <2>1, <2>2
<1> QED
  BY <1>2, <1>3 DEF Pushed

\* What is next after a, when a and b are next.
LEMMA NextParts ==
  ASSUME NEW c, NEW a \in Seq(Int), NEW b \in Seq(Int), Follows(c, a \o b)
  PROVE  /\ Follows(c, a)
         /\ Reads(c, a) => \A vs : IsSeq(vs) => Follows(Pushed(c, Len(a), vs), b)
<1>1. /\ Len(a) \in Nat /\ Len(b) \in Nat /\ Len(a \o b) = Len(a) + Len(b)
      /\ \A i \in 1 .. Len(a) : (a \o b)[i] = a[i]
      /\ \A i \in 1 .. Len(b) : (a \o b)[Len(a) + i] = b[i]
  BY Concatenated DEF IsSeq
<1>2. IsCursor(c) /\ c.offset \in Nat /\ Len(c.in) \in Nat
  BY CursorFields DEF Follows
<1>3. \A i \in 1 .. Len(a) + Len(b) :
         c.offset + i <= Len(c.in) => c.in[c.offset + i] = (a \o b)[i]
  BY <1>1 DEF Follows
<1>4. \A i \in 1 .. Len(a) : i \in 1 .. Len(a) + Len(b)
  BY <1>1
<1>5. Follows(c, a)
  BY <1>1, <1>2, <1>3, <1>4 DEF Follows
<1>6. ASSUME Reads(c, a), NEW vs, IsSeq(vs) PROVE Follows(Pushed(c, Len(a), vs), b)
  <2>1. PICK d : d = Pushed(c, Len(a), vs)
    OBVIOUS
  <2>2. IsCursor(d) /\ d.in = c.in /\ d.offset = c.offset + Len(a)
    <3>1. IsCursor(d)
      BY <1>1, <1>2, <1>6, <2>1, PushedIsCursor DEF Reads
    <3>2. d.in = c.in /\ d.offset = c.offset + Len(a)
      BY <2>1 DEF Pushed
    <3> QED
      BY <3>1, <3>2
  <2>3. ASSUME NEW i \in 1 .. Len(b), d.offset + i <= Len(d.in)
        PROVE  d.in[d.offset + i] = b[i]
    <3>1. PICK k : k = Len(a) + i
      OBVIOUS
    <3>2. k \in 1 .. Len(a) + Len(b) /\ d.offset + i = c.offset + k
      BY <1>1, <1>2, <2>2, <3>1
    <3>3. c.in[c.offset + k] = (a \o b)[k]
      BY <1>3, <2>2, <2>3, <3>2
    <3> QED
      BY <1>1, <2>2, <3>1, <3>2, <3>3
  <2>4. Follows(d, b)
    BY <2>2, <2>3 DEF Follows
  <2> QED
    BY <2>1, <2>4
<1> QED
  BY <1>5, <1>6

(***************************************************************************)
(* One reader after the other.  What the second is, may depend on what the *)
(* first has read, as long as a failure of the first is one of the whole.  *)
(***************************************************************************)
LEMMA Followed ==
  ASSUME NEW c, NEW a \in Seq(Int), NEW b \in Seq(Int),
         NEW vs, IsSeq(vs), NEW ws, IsSeq(ws), NEW q,
         Short(c, a) \/ Failed(c) => Failed(q),
         Reads(c, a) => Reader(Pushed(c, Len(a), vs), b, q, ws)
  PROVE  Reader(c, a \o b, q, vs \o ws)
<1>1. /\ a \o b \in Seq(Int) /\ Len(a) \in Nat /\ Len(b) \in Nat
      /\ Len(a \o b) = Len(a) + Len(b)
  BY ConcatProperties
<1>2. IsSeq(vs \o ws)
  BY Concatenated
<1>3. PICK r : r = Pushed(c, Len(a), vs)
  OBVIOUS
<1>4. ASSUME Follows(c, a \o b)
      PROVE  /\ IsCursor(c) /\ c.offset \in Nat /\ Len(c.in) \in Nat /\ Follows(c, a)
             /\ Reads(c, a) => Follows(r, b) /\ r.in = c.in /\ r.offset = c.offset + Len(a)
  <2>1. IsCursor(c) /\ c.offset \in Nat /\ Len(c.in) \in Nat
    BY <1>4, CursorFields DEF Follows
  <2>2. Follows(c, a)
    BY <1>4, NextParts
  <2>3. Reads(c, a) => Follows(r, b)
    BY <1>3, <1>4, NextParts
  <2>4. r.in = c.in /\ r.offset = c.offset + Len(a)
    BY <1>3 DEF Pushed
  <2> QED
    BY <2>1, <2>2, <2>3, <2>4
<1>5. ASSUME Reads(c, a \o b) PROVE q = Pushed(c, Len(a \o b), vs \o ws)
  <2>1. Follows(c, a \o b) /\ c.offset + Len(a \o b) <= Len(c.in)
    BY <1>5 DEF Reads
  <2>2. Reads(c, a)
    BY <1>1, <1>4, <2>1 DEF Reads
  <2>3. Reads(r, b)
    BY <1>1, <1>4, <2>1, <2>2 DEF Reads
  <2>4. q = Pushed(r, Len(b), ws)
    BY <1>3, <2>2, <2>3 DEF Reader
  <2> QED
    BY <1>1, <1>3, <1>4, <2>1, <2>4, PushedTwice
<1>6. ASSUME Short(c, a \o b) PROVE Failed(q)
  <2>1. Follows(c, a \o b) /\ c.offset + Len(a \o b) > Len(c.in)
    BY <1>6 DEF Short
  <2>2. CASE Reads(c, a)
    <3>1. Short(r, b)
      BY <1>1, <1>4, <2>1, <2>2 DEF Short
    <3> QED
      BY <1>3, <2>2, <3>1 DEF Reader
  <2>3. Short(c, a) \/ Reads(c, a)
    BY <1>1, <1>4, <2>1 DEF Short, Reads
  <2> QED
    BY <2>2, <2>3
<1> QED
  BY <1>1, <1>2, <1>5, <1>6 DEF Reader

LEMMA Chained ==
  ASSUME NEW c, NEW a, NEW b, NEW r, NEW q, NEW vs, NEW ws,
         Reader(c, a, r, vs), Reader(r, b, q, ws)
  PROVE  Reader(c, a \o b, q, vs \o ws)
<1>1. IsSeq(vs) /\ IsSeq(ws) /\ a \in Seq(Int) /\ b \in Seq(Int)
  BY DEF Reader
<1>2. Short(c, a) \/ Failed(c) => Failed(q)
  BY DEF Reader
<1>3. Reads(c, a) => Reader(Pushed(c, Len(a), vs), b, q, ws)
  BY DEF Reader
<1> QED
  BY <1>1, <1>2, <1>3, Followed

-----------------------------------------------------------------------------
(***************************************************************************)
(* Division with remainder.                                                *)
(***************************************************************************)
LEMMA Divided ==
  ASSUME NEW a \in Int, NEW b \in Nat \ {0}
  PROVE  a \div b \in Int /\ a % b \in 0 .. b - 1 /\ a = b * (a \div b) + (a % b)
  OBVIOUS

LEMMA RemainderUnique ==
  ASSUME NEW a \in Int, NEW b \in Nat \ {0}, NEW q \in Int, NEW r \in 0 .. b - 1, a = b * q + r
  PROVE  a % b = r
<1>1. PICK p, s : p = a \div b /\ s = a % b
  OBVIOUS
<1>2. p \in Int /\ s \in 0 .. b - 1 /\ a = b * p + s
  BY <1>1, Divided
<1>3. ASSUME NEW x \in Int, NEW y \in Int, NEW u \in 0 .. b - 1, NEW v \in 0 .. b - 1,
             b * x + u = b * y + v, x < y
      PROVE  FALSE
  <2>1. b * (x + 1) <= b * y
    <3>1. x + 1 <= y
      BY <1>3
    <3>2. \A k, l \in Int : k <= l => b * k <= b * l
      OBVIOUS
    <3> QED
      BY <3>1, <3>2
  <2>2. b * (x + 1) = b * x + b
    OBVIOUS
  <2>3. b * x \in Int /\ b * y \in Int
    OBVIOUS
  <2> QED
    BY <1>3, <2>1, <2>2, <2>3
<1>4. ~(p < q) /\ ~(q < p)
  BY <1>2, <1>3
<1>5. p = q
  BY <1>2, <1>4
<1>6. b * p \in Int
  BY <1>2
<1> QED
  BY <1>1, <1>2, <1>5, <1>6

\* The remainder by a product, from the digit above it.
LEMMA RemainderStep ==
  ASSUME NEW x \in Int, NEW b \in Nat \ {0}, NEW p \in Nat \ {0}
  PROVE  x % (b * p) = ((x \div p) % b) * p + (x % p)
<1>1. PICK q, r : q = x \div p /\ r = x % p
  OBVIOUS
<1>2. q \in Int /\ r \in 0 .. p - 1 /\ x = p * q + r
  BY <1>1, Divided
<1>3. PICK t, s : t = q \div b /\ s = q % b
  OBVIOUS
<1>4. t \in Int /\ s \in 0 .. b - 1 /\ q = b * t + s
  BY <1>2, <1>3, Divided
<1>5. PICK n, m : n = b * p /\ m = s * p + r
  OBVIOUS
<1>6. n \in Nat \ {0}
  BY <1>5, ProductPositive
<1>7. m \in 0 .. n - 1
  <2>1. s * p \in Nat /\ s * p <= (b - 1) * p
    <3>1. s <= b - 1 /\ s \in Nat /\ b - 1 \in Nat
      BY <1>4
    <3>2. \A k, l \in Nat : k <= l => k * p <= l * p
      OBVIOUS
    <3> QED
      BY <3>1, <3>2
  <2>2. (b - 1) * p = n - p
    BY <1>5
  <2> QED
    BY <1>2, <1>5, <1>6, <2>1, <2>2
<1>8. x = n * t + m
  <2>1. p * q = p * (b * t) + p * s
    BY <1>4
  <2>2. p * (b * t) = n * t
    BY <1>4, <1>5
  <2>3. p * s = s * p
    BY <1>4
  <2>4. n * t \in Int /\ s * p \in Int
    BY <1>4, <1>6
  <2> QED
    BY <1>2, <1>5, <2>1, <2>2, <2>3, <2>4
<1>9. x % n = m
  BY <1>4, <1>6, <1>7, <1>8, RemainderUnique
<1> QED
  BY <1>1, <1>3, <1>5, <1>9

(***************************************************************************)
(* The little-endian digits of a number add up to it.                      *)
(***************************************************************************)
LEMMA BytePowers == BYTE \in Nat \ {0, 1} /\ \A k \in Nat : Power(BYTE, k) \in Nat \ {0}
<1>1. BYTE \in Nat \ {0, 1} /\ BYTE \in Nat \ {0}
  BY CodecAssumption
<1> QED
  BY <1>1, PowerPositive

LEMMA DigitsAddUp ==
  ASSUME NEW x \in Int, NEW width \in Nat, NEW f,
         \A i \in 1 .. width : f[i] = ((x \div Power(BYTE, i - 1)) % BYTE) * Power(BYTE, i - 1)
  PROVE  SumFunctionOnSet(f, 1 .. width) = x % Power(BYTE, width)
<1> DEFINE T == {k \in Nat : k <= width => SumFunctionOnSet(f, 1 .. k) = x % Power(BYTE, k)}
<1>1. 0 \in T
  <2>1. x % 1 = 0
    OBVIOUS
  <2> QED
    BY <2>1, SumNone, PowerZero
<1>2. ASSUME NEW i \in 1 .. width PROVE f[i] \in Int
  <2>1. PICK p : p = Power(BYTE, i - 1)
    OBVIOUS
  <2>2. p \in Nat \ {0} /\ BYTE \in Nat \ {0}
    <3>1. i - 1 \in Nat
      OBVIOUS
    <3> QED
      BY <2>1, <3>1, BytePowers
  <2>3. x \div p \in Int
    BY <2>2, Divided
  <2>4. (x \div p) % BYTE \in Int
    BY <2>2, <2>3, Divided
  <2>5. \A a, b \in Int : a * b \in Int
    OBVIOUS
  <2> QED
    BY <2>1, <2>2, <2>4, <2>5
<1>3. ASSUME NEW k \in Nat, k \in T PROVE k + 1 \in T
  <2>1. CASE k + 1 <= width
    <3>1. \A i \in 1 .. k + 1 : f[i] \in Int
      BY <1>2, <2>1
    <3>2. SumFunctionOnSet(f, 1 .. k + 1) = f[k + 1] + SumFunctionOnSet(f, 1 .. k)
      BY <3>1, SumLast
    <3>3. PICK p : p = Power(BYTE, k)
      OBVIOUS
    <3>4. Power(BYTE, k + 1) = BYTE * p /\ p \in Nat \ {0} /\ BYTE \in Nat \ {0}
      BY <3>3, PowerStep, BytePowers
    <3>5. f[k + 1] = ((x \div p) % BYTE) * p
      <4>1. k + 1 \in 1 .. width /\ (k + 1) - 1 = k
        BY <2>1
      <4> QED
        BY <3>3, <4>1
    <3>6. SumFunctionOnSet(f, 1 .. k) = x % p
      BY <1>3, <2>1, <3>3
    <3>7. x % (BYTE * p) = ((x \div p) % BYTE) * p + (x % p)
      BY <3>4, RemainderStep
    <3>8. SumFunctionOnSet(f, 1 .. k + 1) = x % Power(BYTE, k + 1)
      BY <3>2, <3>4, <3>5, <3>6, <3>7
    <3> QED
      BY <3>8
  <2> QED
    BY <2>1
<1> HIDE DEF T
<1>4. width \in T
  BY <1>1, <1>3, InductionSet
<1> QED
  BY <1>4 DEF T

LEMMA WrittenUint ==
  ASSUME NEW x \in Int, NEW width \in Nat
  PROVE  /\ write_uint(x, width) \in Seq(Byte) /\ write_uint(x, width) \in Seq(Int)
         /\ Len(write_uint(x, width)) = width
         /\ DOMAIN write_uint(x, width) = 1 .. width
<1>1. ASSUME NEW i \in 1 .. width
      PROVE  (x \div Power(BYTE, i - 1)) % BYTE \in Byte
  <2>1. PICK p : p = Power(BYTE, i - 1)
    OBVIOUS
  <2>2. p \in Nat \ {0} /\ BYTE \in Nat \ {0}
    <3>1. i - 1 \in Nat
      OBVIOUS
    <3> QED
      BY <2>1, <3>1, BytePowers
  <2>3. x \div p \in Int
    BY <2>2, Divided
  <2>4. (x \div p) % BYTE \in Byte
    BY <2>2, <2>3, Divided DEF Byte
  <2> QED
    BY <2>1, <2>4
<1>2. write_uint(x, width) \in [1 .. width -> Byte]
  BY <1>1 DEF write_uint
<1>3. Byte \subseteq Int
  BY BytePowers DEF Byte
<1>4. write_uint(x, width) \in Seq(Byte)
  BY <1>2
<1>5. write_uint(x, width) \in Seq(Int)
  BY <1>3, <1>4, SeqMonotonic
<1>6. DOMAIN write_uint(x, width) = 1 .. width
  BY <1>2
<1>7. Len(write_uint(x, width)) = width
  BY <1>4, <1>6, LenProperties
<1> QED
  BY <1>4, <1>5, <1>6, <1>7

LEMMA ReadBackUint ==
  ASSUME NEW x \in Int, NEW width \in Nat, NEW b, b = write_uint(x, width)
  PROVE  SumFunction([i \in DOMAIN b |-> b[i] * Power(BYTE, i - 1)]) = x % Power(BYTE, width)
<1>1. DOMAIN b = 1 .. width
  BY WrittenUint
<1>2. PICK f : f = [i \in 1 .. width |-> b[i] * Power(BYTE, i - 1)]
  OBVIOUS
<1>3. \A i \in 1 .. width : f[i] = ((x \div Power(BYTE, i - 1)) % BYTE) * Power(BYTE, i - 1)
  BY <1>2 DEF write_uint
<1>4. SumFunctionOnSet(f, 1 .. width) = x % Power(BYTE, width)
  BY <1>3, DigitsAddUp
<1>5. DOMAIN f = 1 .. width
  BY <1>2
<1>6. SumFunction(f) = SumFunctionOnSet(f, 1 .. width)
  BY <1>5 DEF SumFunction
<1> QED
  BY <1>1, <1>2, <1>4, <1>6

-----------------------------------------------------------------------------
(***************************************************************************)
(* The readers of bytes and numbers.                                       *)
(***************************************************************************)
LEMMA NextBytes ==
  ASSUME NEW c, NEW b, Reads(c, b)
  PROVE  SubSeq(c.in, c.offset + 1, c.offset + Len(b)) = b
<1>1. /\ IsCursor(c) /\ b \in Seq(Int) /\ c.offset + Len(b) <= Len(c.in)
      /\ \A i \in 1 .. Len(b) : c.offset + i <= Len(c.in) => c.in[c.offset + i] = b[i]
  BY DEF Reads, Follows
<1>2. c.in \in Seq(Int) /\ Len(c.in) \in Nat /\ c.offset \in Nat
  BY <1>1, CursorFields
<1>3. PICK in, m, n : in = c.in /\ m = c.offset + 1 /\ n = c.offset + Len(b)
  OBVIOUS
<1>4. Len(b) \in Nat /\ m \in Int /\ n \in Int /\ n - m + 1 = Len(b) /\ (~(m <= n) => Len(b) = 0)
  <2>1. PICK l, o : l = Len(b) /\ o = c.offset
    OBVIOUS
  <2>2. l \in Nat /\ o \in Nat /\ m = o + 1 /\ n = o + l
    BY <1>1, <1>2, <1>3, <2>1
  <2>3. m \in Int /\ n \in Int /\ n - m + 1 = l /\ (~(m <= n) => l = 0)
    BY <2>2
  <2> QED
    BY <2>1, <2>2, <2>3
<1>5. \A i \in m .. n : in[i] \in Int
  BY <1>1, <1>2, <1>3, ElementOfSeq
<1>6. PICK p : p = SubSeq(in, m, n)
  OBVIOUS
<1>7. /\ p \in Seq(Int) /\ Len(p) = (IF m <= n THEN n - m + 1 ELSE 0)
      /\ \A i \in 1 .. n - m + 1 : p[i] = in[m + i - 1]
  BY <1>4, <1>5, <1>6, SubSeqProperties
<1>8. Len(p) = Len(b)
  BY <1>4, <1>7
<1>9. \A i \in 1 .. Len(p) : p[i] = b[i]
  <2> TAKE i \in 1 .. Len(p)
  <2>1. p[i] = in[m + i - 1] /\ m + i - 1 = c.offset + i /\ c.offset + i <= Len(c.in)
    <3>1. i \in 1 .. Len(b) /\ i \in 1 .. n - m + 1
      BY <1>4, <1>8
    <3>2. i \in Nat /\ i <= Len(b)
      BY <1>4, <3>1
    <3>3. PICK l, o : l = Len(b) /\ o = c.offset
      OBVIOUS
    <3>4. m = o + 1 /\ o \in Nat /\ l \in Nat /\ i <= l /\ o + l <= Len(c.in)
      BY <1>1, <1>2, <1>3, <1>4, <3>2, <3>3
    <3>5. m + i - 1 = o + i /\ o + i <= Len(c.in)
      BY <1>2, <3>2, <3>4
    <3> QED
      BY <1>7, <3>1, <3>3, <3>5
  <2> QED
    BY <1>1, <1>3, <1>8, <2>1
<1>10. p = b
  BY <1>1, <1>7, <1>8, <1>9, SeqEqual
<1> QED
  BY <1>3, <1>6, <1>10

LEMMA ReadsBytes ==
  ASSUME NEW c, NEW b \in Seq(Int), NEW n, n = Len(b)
  PROVE  Reader(c, b, read_bytes(c, n), <<b>>)
<1>1. ASSUME Reads(c, b) PROVE read_bytes(c, n) = Pushed(c, Len(b), <<b>>)
  <2>1. IsCursor(c) /\ c.offset + Len(b) <= Len(c.in)
    BY <1>1 DEF Reads, Follows
  <2>2. c.ok = TRUE /\ IsSeq(c.vals)
    BY <2>1, CursorFields
  <2>3. SubSeq(c.in, c.offset + 1, c.offset + n) = b
    BY <1>1, NextBytes
  <2>4. read_bytes(c, n) = Moved(c, c.offset + n, Append(c.vals, b))
    BY <2>1, <2>2, <2>3 DEF read_bytes, Moved
  <2>5. Append(c.vals, b) = c.vals \o <<b>>
    BY <2>2, Appended
  <2>6. IsRecord(c)
    BY <2>1 DEF IsCursor
  <2>7. PICK d, r : d = Pushed(c, n, <<b>>) /\ r = Moved(c, c.offset + n, Append(c.vals, b))
    OBVIOUS
  <2>8. IsRecord(d) /\ d.in = c.in /\ d.offset = c.offset + n /\ d.ok = TRUE
        /\ d.vals = c.vals \o <<b>>
    <3>1. n \in Nat /\ IsSeq(<<b>>)
      BY Single
    <3> QED
      BY <2>1, <2>7, <3>1, PushedFields
  <2>9. IsRecord(r) /\ r.in = c.in /\ r.offset = c.offset + n /\ r.ok = c.ok
        /\ r.vals = Append(c.vals, b)
    <3>1. PICK o, v : o = c.offset + n /\ v = Append(c.vals, b)
      OBVIOUS
    <3>2. IsRecord(Moved(c, o, v)) /\ Moved(c, o, v).in = c.in
          /\ Moved(c, o, v).offset = o /\ Moved(c, o, v).ok = c.ok /\ Moved(c, o, v).vals = v
      BY <2>6, MovedFields
    <3> QED
      BY <2>7, <3>1, <3>2
  <2>10. r = d
    BY <2>2, <2>5, <2>8, <2>9, SameRecord
  <2> QED
    BY <2>4, <2>7, <2>10
<1>2. ASSUME Short(c, b) PROVE Failed(read_bytes(c, n))
  <2>1. IsCursor(c) /\ c.offset + Len(b) > Len(c.in)
    BY <1>2 DEF Short, Follows
  <2>2. ~(c.offset + n <= Len(c.in))
    <3>1. c.offset \in Nat /\ Len(c.in) \in Nat
      BY <2>1, CursorFields
    <3>2. Len(b) \in Nat
      OBVIOUS
    <3> QED
      BY <2>1, <3>1, <3>2
  <2>3. read_bytes(c, n) = [c EXCEPT !.ok = FALSE]
    BY <2>2 DEF read_bytes
  <2> QED
    BY <2>1, <2>3, ThrownIsFailed DEF IsCursor
<1>3. ASSUME Failed(c) PROVE Failed(read_bytes(c, n))
  <2>1. read_bytes(c, n) = [c EXCEPT !.ok = FALSE]
    BY <1>3 DEF Failed, read_bytes
  <2> QED
    BY <1>3, <2>1, ThrownIsFailed DEF Failed
<1> QED
  BY <1>1, <1>2, <1>3, Single DEF Reader

(***************************************************************************)
(* The values pushed last, and what takes their place.                     *)
(***************************************************************************)
LEMMA LastPart ==
  ASSUME NEW s, NEW vs, IsSeq(s), IsSeq(vs)
  PROVE  /\ Len(s \o vs) \in Nat /\ Len(vs) \in Nat /\ Len(s \o vs) - Len(vs) = Len(s)
         /\ \A i \in 1 .. Len(vs) : (s \o vs)[Len(s \o vs) - Len(vs) + i] = vs[i]
         /\ SubSeq(s \o vs, 1, Len(s \o vs) - Len(vs)) = s
         /\ SubSeq(s \o vs, Len(s \o vs) - Len(vs) + 1, Len(s \o vs)) = vs
<1>1. /\ Len(s) \in Nat /\ Len(vs) \in Nat /\ Len(s \o vs) = Len(s) + Len(vs)
      /\ \A i \in 1 .. Len(vs) : (s \o vs)[Len(s) + i] = vs[i]
  BY Concatenated
<1>2. /\ SubSeq(s \o vs, 1, Len(s)) = s
      /\ SubSeq(s \o vs, Len(s) + 1, Len(s) + Len(vs)) = vs
  BY Parts
<1>3. Len(s \o vs) - Len(vs) = Len(s) /\ Len(s \o vs) \in Nat
  BY <1>1
<1> QED
  BY <1>1, <1>2, <1>3

LEMMA JoinsValues ==
  ASSUME NEW c, NEW b, NEW r, NEW vs, Reader(c, b, r, vs), NEW n, n = Len(vs), NEW v, NEW w,
         Reads(c, b) => w = v
  PROVE  Reader(c, b, Joined(r, n, w), <<v>>)
<1>1. IsSeq(vs) /\ b \in Seq(Int)
  BY DEF Reader
<1>2. ASSUME Reads(c, b) PROVE Joined(r, n, w) = Pushed(c, Len(b), <<v>>)
  <2>1. r = Pushed(c, Len(b), vs) /\ IsSeq(c.vals) /\ IsCursor(c) /\ Len(b) \in Nat
    BY <1>1, <1>2 DEF Reader, Reads, Follows, IsCursor
  <2>2. IsRecord(r) /\ r.in = c.in /\ r.offset = c.offset + Len(b) /\ r.ok = TRUE
        /\ r.vals = c.vals \o vs
    BY <1>1, <2>1, PushedFields
  <2>3. SubSeq(r.vals, 1, Len(r.vals) - n) = c.vals
    BY <1>1, <2>1, <2>2, LastPart
  <2>4. Joined(r, n, w) = Revalued(r, Append(c.vals, v))
    BY <1>2, <2>2, <2>3 DEF Joined, Revalued
  <2>5. Append(c.vals, v) = c.vals \o <<v>>
    BY <2>1, Appended
  <2>6. PICK d, q : d = Pushed(c, Len(b), <<v>>) /\ q = Revalued(r, Append(c.vals, v))
    OBVIOUS
  <2>7. IsRecord(d) /\ d.in = c.in /\ d.offset = c.offset + Len(b) /\ d.ok = TRUE
        /\ d.vals = c.vals \o <<v>>
    <3>1. IsSeq(<<v>>)
      BY Single
    <3> QED
      BY <2>1, <2>6, <3>1, PushedFields
  <2>8. IsRecord(q) /\ q.in = r.in /\ q.offset = r.offset /\ q.ok = r.ok
        /\ q.vals = Append(c.vals, v)
    BY <2>2, <2>6, RevaluedFields
  <2>9. q = d
    BY <2>2, <2>5, <2>7, <2>8, SameRecord
  <2> QED
    BY <2>4, <2>6, <2>9
<1>3. ASSUME Failed(r) PROVE Failed(Joined(r, n, w))
  <2>1. Joined(r, n, w) = r
    BY <1>3 DEF Failed, Joined
  <2> QED
    BY <1>3, <2>1
<1> QED
  BY <1>1, <1>2, <1>3, Single DEF Reader

\* The last of the values a reader pushed.
LEMMA LastPushed ==
  ASSUME NEW c, NEW b, NEW r, NEW v, Reader(c, b, r, <<v>>), Reads(c, b)
  PROVE  Last(r.vals) = v
<1>1. r = Pushed(c, Len(b), <<v>>) /\ IsSeq(c.vals)
  BY DEF Reader, Reads, Follows, IsCursor
<1>2. r.vals = c.vals \o <<v>>
  BY <1>1 DEF Pushed
<1>3. PICK s, vs : s = c.vals /\ vs = <<v>>
  OBVIOUS
<1>4. IsSeq(vs) /\ Len(vs) = 1 /\ vs[1] = v /\ IsSeq(s)
  BY <1>1, <1>3, Single
<1>5. (s \o vs)[Len(s) + 1] = v /\ Len(s \o vs) = Len(s) + 1
  <2>1. IsSeq(s) /\ IsSeq(vs)
    BY <1>4
  <2>2. /\ Len(s \o vs) = Len(s) + Len(vs)
        /\ \A i \in 1 .. Len(vs) : (s \o vs)[Len(s) + i] = vs[i]
    BY <2>1, Concatenated
  <2>3. 1 \in 1 .. Len(vs)
    BY <1>4
  <2> QED
    BY <1>4, <2>2, <2>3
<1> QED
  BY <1>2, <1>3, <1>5 DEF Last

LEMMA UnsignedReader ==
  ASSUME NEW c, NEW width \in Nat, NEW x \in Int
  PROVE  Reader(c, write_uint(x, width), read_uint(c, width), <<x % Power(BYTE, width)>>)
<1>1. PICK b, r : b = write_uint(x, width) /\ r = read_bytes(c, width)
  OBVIOUS
<1>2. b \in Seq(Int) /\ Len(b) = width
  BY <1>1, WrittenUint
<1>3. Reader(c, b, r, <<b>>)
  BY <1>1, <1>2, ReadsBytes
<1> DEFINE Value(s) == SumFunction([i \in DOMAIN s |-> s[i] * Power(BYTE, i - 1)])
<1>4. Value(b) = x % Power(BYTE, width)
  BY <1>1, ReadBackUint
<1>5. read_uint(c, width) = Joined(r, 1, Value(Last(r.vals)))
  BY <1>1 DEF read_uint, Unsigned
<1> HIDE DEF Value
<1>6. Reads(c, b) => Value(Last(r.vals)) = x % Power(BYTE, width)
  BY <1>3, <1>4, LastPushed
<1>7. Len(<<b>>) = 1
  BY Single
<1>8. Reader(c, b, Joined(r, 1, Value(Last(r.vals))), <<x % Power(BYTE, width)>>)
  BY <1>3, <1>6, <1>7, JoinsValues
<1> QED
  BY <1>1, <1>5, <1>8

LEMMA ReadsUint ==
  ASSUME NEW c, NEW width \in Nat, NEW x \in UIntOf(width)
  PROVE  Reader(c, write_uint(x, width), read_uint(c, width), <<x>>)
<1>1. PICK p : p = Power(BYTE, width)
  OBVIOUS
<1>2. p \in Nat \ {0}
  BY <1>1, BytePowers
<1>3. x \in 0 .. p - 1 /\ x \in Int
  BY <1>1, <1>2 DEF UIntOf
<1>4. x % p = x
  BY <1>2, <1>3, Remainder
<1> QED
  BY <1>1, <1>3, <1>4, UnsignedReader

LEMMA ReadsInt ==
  ASSUME NEW c, NEW width \in Nat, NEW x \in IntOf(width)
  PROVE  Reader(c, write_uint(x, width), read_int(c, width), <<x>>)
<1>1. PICK p, y, b, r : /\ p = Power(BYTE, width) /\ y = x % p
                        /\ b = write_uint(x, width) /\ r = read_uint(c, width)
  OBVIOUS
<1>2. p \in Nat \ {0}
  BY <1>1, BytePowers
<1>3. x \in Int /\ -p <= 2 * x /\ 2 * x < p
  BY <1>1, <1>2 DEF IntOf
<1>4. y = (IF x < 0 THEN x + p ELSE x)
  <2>1. CASE x < 0
    <3>1. x + p \in 0 .. p - 1 /\ x = p * (-1) + (x + p)
      BY <1>2, <1>3, <2>1
    <3>2. x % p = x + p
      BY <1>2, <1>3, <3>1, RemainderUnique
    <3> QED
      BY <1>1, <2>1, <3>2
  <2>2. CASE ~(x < 0)
    <3>1. x \in 0 .. p - 1
      BY <1>2, <1>3, <2>2
    <3>2. x % p = x
      BY <1>2, <3>1, Remainder
    <3> QED
      BY <1>1, <2>2, <3>2
  <2> QED
    BY <2>1, <2>2
<1>5. (IF 2 * y >= p THEN y - p ELSE y) = x
  BY <1>2, <1>3, <1>4
<1>6. Reader(c, b, r, <<y>>)
  BY <1>1, <1>3, UnsignedReader
<1> DEFINE Value(v) == IF 2 * v >= p THEN v - p ELSE v
<1>7. read_int(c, width) = Joined(r, 1, Value(Last(r.vals)))
  BY <1>1 DEF read_int, Signed
<1>8. Value(y) = x
  BY <1>5
<1> HIDE DEF Value
<1>9. Reads(c, b) => Value(Last(r.vals)) = x
  BY <1>6, <1>8, LastPushed
<1>10. Len(<<y>>) = 1
  BY Single
<1>11. Reader(c, b, Joined(r, 1, Value(Last(r.vals))), <<x>>)
  BY <1>6, <1>9, <1>10, JoinsValues
<1> QED
  BY <1>1, <1>7, <1>11

LEMMA ReadsUint32 ==
  ASSUME NEW c, NEW x \in UIntOf(UINT32_BYTES)
  PROVE  /\ Reader(c, write_uint_32LE(x), read_uint_32LE(c), <<x>>)
         /\ Reader(c, write_var_int32(x), read_var_int32(c), <<x>>)
<1>1. UINT32_BYTES \in Nat
  BY CodecAssumption
<1> QED
  BY <1>1, ReadsUint DEF write_uint_32LE, read_uint_32LE, write_var_int32, read_var_int32

(***************************************************************************)
(* A count that has been read is taken away again.                         *)
(***************************************************************************)
LEMMA CountTaken ==
  ASSUME NEW c, NEW b, NEW r, NEW n, Reader(c, b, r, <<n>>), Reads(c, b)
  PROVE  r.ok = TRUE /\ Count(r) = n /\ Counted(r) = Pushed(c, Len(b), <<>>)
<1>1. r = Pushed(c, Len(b), <<n>>) /\ IsCursor(c) /\ b \in Seq(Int) /\ Len(b) \in Nat
  BY DEF Reader, Reads, Follows
<1>2. IsSeq(<<n>>) /\ IsSeq(<<>>) /\ Len(<<n>>) = 1 /\ IsSeq(c.vals)
  BY <1>1, Single, EmptyIsSeq, CursorFields
<1>3. IsRecord(r) /\ r.in = c.in /\ r.offset = c.offset + Len(b) /\ r.ok = TRUE
      /\ r.vals = c.vals \o <<n>>
  BY <1>1, <1>2, PushedFields
<1>4. Count(r) = n
  BY LastPushed DEF Count
<1>5. Front(r.vals) = c.vals /\ c.vals \o <<>> = c.vals
  <2>1. SubSeq(c.vals \o <<n>>, 1, Len(c.vals \o <<n>>) - Len(<<n>>)) = c.vals
    BY <1>2, LastPart
  <2> QED
    BY <1>2, <1>3, <2>1, WithEmpty DEF Front
<1>6. PICK d, q : d = Pushed(c, Len(b), <<>>) /\ q = Counted(r)
  OBVIOUS
<1>7. IsRecord(d) /\ d.in = c.in /\ d.offset = c.offset + Len(b) /\ d.ok = TRUE
      /\ d.vals = c.vals \o <<>>
  BY <1>1, <1>2, <1>6, PushedFields
<1>8. q = Revalued(r, c.vals)
  BY <1>5, <1>6 DEF Counted, Revalued
<1>9. IsRecord(q) /\ q.in = r.in /\ q.offset = r.offset /\ q.ok = r.ok /\ q.vals = c.vals
  BY <1>3, <1>8, RevaluedFields
<1>10. q = d
  BY <1>3, <1>5, <1>7, <1>9, SameRecord
<1> QED
  BY <1>3, <1>4, <1>6, <1>10

LEMMA BytesAreInts ==
  ASSUME NEW s \in Seq(Byte) PROVE s \in Seq(Int)
<1>1. Byte \subseteq Int
  BY BytePowers DEF Byte
<1> QED
  BY <1>1, SeqMonotonic

LEMMA ReadsScript ==
  ASSUME NEW c, NEW s \in VectorOf(Byte)
  PROVE  Reader(c, write_script(s), read_script(c), <<s>>)
<1>1. s \in Seq(Int) /\ Len(s) \in UIntOf(UINT32_BYTES)
  BY BytesAreInts DEF VectorOf
<1>2. PICK b, r : b = write_var_int32(Len(s)) /\ r = read_var_int32(c)
  OBVIOUS
<1>3. Reader(c, b, r, <<Len(s)>>) /\ b \in Seq(Int)
  BY <1>1, <1>2, ReadsUint32 DEF Reader
<1>4. PICK q : q = read_script(c)
  OBVIOUS
<1>5. q = IF r.ok THEN read_bytes(Counted(r), Count(r)) ELSE r
  BY <1>2, <1>4 DEF read_script, BytesOfCount
<1>6. Short(c, b) \/ Failed(c) => Failed(q)
  <2>1. Short(c, b) \/ Failed(c) => Failed(r)
    BY <1>3 DEF Reader
  <2>2. Failed(r) => q = r
    BY <1>5 DEF Failed
  <2> QED
    BY <2>1, <2>2
<1>7. ASSUME Reads(c, b) PROVE Reader(Pushed(c, Len(b), <<>>), s, q, <<s>>)
  <2>1. r.ok = TRUE /\ Count(r) = Len(s) /\ Counted(r) = Pushed(c, Len(b), <<>>)
    BY <1>3, <1>7, CountTaken
  <2>2. q = read_bytes(Pushed(c, Len(b), <<>>), Len(s))
    BY <1>5, <2>1
  <2> QED
    BY <1>1, <2>2, ReadsBytes
<1>8. IsSeq(<<>>) /\ IsSeq(<<s>>) /\ <<>> \o <<s>> = <<s>>
  BY EmptyIsSeq, Single, WithEmpty
<1>9. Reader(c, b \o s, q, <<>> \o <<s>>)
  BY <1>1, <1>3, <1>6, <1>7, <1>8, Followed
<1> QED
  BY <1>2, <1>4, <1>8, <1>9 DEF write_script

-----------------------------------------------------------------------------
(***************************************************************************)
(* Records.  Each field has its place among the names.                     *)
(***************************************************************************)
Place(names, name) == SelectInSeq(names, LAMBDA x : x = name)

LEMMA PlaceOf ==
  ASSUME NEW names, Len(names) \in Nat, NEW i \in 1 .. Len(names),
         \A j \in 1 .. Len(names) : names[j] = names[i] => j = i
  PROVE  Place(names, names[i]) = i
<1> DEFINE I == {j \in 1 .. Len(names) : names[j] = names[i]}
<1>1. I = {i}
  OBVIOUS
<1>2. Place(names, names[i]) = IF I # {} THEN Min(I) ELSE 0
  BY DEF Place, SelectInSeq
<1>3. Min({i}) = i
  <2>1. i <= i
    OBVIOUS
  <2> QED
    BY <2>1 DEF Min
<1> QED
  BY <1>1, <1>2, <1>3

\* The names are those of different fields.
Distinct(names) ==
  /\ Len(names) \in Nat /\ DOMAIN names = 1 .. Len(names)
  /\ \A i, j \in 1 .. Len(names) : names[i] = names[j] => i = j

RecordOf(names, vs) == [name \in ToSet(names) |-> vs[Place(names, name)]]

LEMMA RecordFields ==
  ASSUME NEW names, Distinct(names), NEW vs
  PROVE  /\ DOMAIN RecordOf(names, vs) = ToSet(names)
         /\ \A i \in 1 .. Len(names) : RecordOf(names, vs)[names[i]] = vs[i]
<1>1. \A i \in 1 .. Len(names) : names[i] \in ToSet(names) /\ Place(names, names[i]) = i
  BY PlaceOf DEF Distinct, ToSet
<1> QED
  BY <1>1 DEF RecordOf

LEMMA MakesRecord ==
  ASSUME NEW c, NEW b, NEW r, NEW vs, Reader(c, b, r, vs),
         NEW names, Distinct(names), Len(names) = Len(vs)
  PROVE  Reader(c, b, AsRecord(r, names), <<RecordOf(names, vs)>>)
<1> DEFINE w == [name \in ToSet(names) |->
                   r.vals[Len(r.vals) - Len(names) + Place(names, name)]]
<1>1. AsRecord(r, names) = Joined(r, Len(names), w)
  BY DEF AsRecord, Place
<1>2. ASSUME Reads(c, b) PROVE w = RecordOf(names, vs)
  <2>1. r = Pushed(c, Len(b), vs) /\ IsSeq(c.vals) /\ IsSeq(vs)
    BY <1>2 DEF Reader, Reads, Follows, IsCursor
  <2>2. r.vals = c.vals \o vs
    BY <2>1 DEF Pushed
  <2>3. \A i \in 1 .. Len(vs) : r.vals[Len(r.vals) - Len(vs) + i] = vs[i]
    BY <2>1, <2>2, LastPart
  <2>4. ASSUME NEW name \in ToSet(names)
        PROVE  Place(names, name) \in 1 .. Len(names)
    <3>1. PICK i \in 1 .. Len(names) : name = names[i]
      BY DEF ToSet, Distinct
    <3>2. Place(names, names[i]) = i
      BY PlaceOf DEF Distinct
    <3> QED
      BY <3>1, <3>2
  <2>5. \A name \in ToSet(names) :
          r.vals[Len(r.vals) - Len(names) + Place(names, name)] = vs[Place(names, name)]
    BY <2>3, <2>4
  <2> QED
    BY <2>5 DEF RecordOf
<1> HIDE DEF w
<1>3. Reader(c, b, Joined(r, Len(names), w), <<RecordOf(names, vs)>>)
  BY <1>2, JoinsValues
<1> QED
  BY <1>1, <1>3

(***************************************************************************)
(* Sequences, element by element.                                          *)
(***************************************************************************)
LEMMA MakesSequence ==
  ASSUME NEW c, NEW b, NEW r, NEW vs, Reader(c, b, r, vs), NEW n, n = Len(vs)
  PROVE  Reader(c, b, AsSequence(r, n), <<vs>>)
<1>1. PICK w : w = SubSeq(r.vals, Len(r.vals) - n + 1, Len(r.vals))
  OBVIOUS
<1>2. ASSUME Reads(c, b) PROVE w = vs
  <2>1. r = Pushed(c, Len(b), vs) /\ IsSeq(c.vals) /\ IsSeq(vs)
    BY <1>2 DEF Reader, Reads, Follows, IsCursor
  <2>2. r.vals = c.vals \o vs
    BY <2>1 DEF Pushed
  <2>3. SubSeq(c.vals \o vs, Len(c.vals \o vs) - Len(vs) + 1, Len(c.vals \o vs)) = vs
    BY <2>1, LastPart
  <2> QED
    BY <1>1, <2>2, <2>3
<1>3. Reader(c, b, Joined(r, n, w), <<vs>>)
  BY <1>2, JoinsValues
<1> QED
  BY <1>1, <1>3 DEF AsSequence

IsFlat(g, parts, n) ==
  g = [i \in 1 .. n |-> IF i = 1 THEN parts[i] ELSE g[i - 1] \o parts[i]]

LEMMA FlatExists ==
  ASSUME NEW parts
  PROVE  \A n \in Nat : \E g : IsFlat(g, parts, n)
<1> DEFINE T == {n \in Nat : \E g : IsFlat(g, parts, n)}
<1>1. 0 \in T
  <2> DEFINE g == [i \in 1 .. 0 |-> parts[i]]
  <2>1. IsFlat(g, parts, 0)
    BY DEF IsFlat
  <2> HIDE DEF g
  <2> QED
    BY <2>1
<1>2. ASSUME NEW n \in Nat, n \in T PROVE n + 1 \in T
  <2>1. PICK g : IsFlat(g, parts, n)
    BY <1>2
  <2> DEFINE h == [i \in 1 .. n + 1 |-> IF i = 1 THEN parts[i] ELSE g[i - 1] \o parts[i]]
  <2>2. \A i \in 1 .. n : h[i] = g[i]
    <3> TAKE i \in 1 .. n
    <3>1. i \in 1 .. n + 1
      OBVIOUS
    <3>2. h[i] = IF i = 1 THEN parts[i] ELSE g[i - 1] \o parts[i]
      BY <3>1
    <3>3. g[i] = IF i = 1 THEN parts[i] ELSE g[i - 1] \o parts[i]
      <4> HIDE DEF h
      <4> QED
        BY <2>1 DEF IsFlat
    <3> HIDE DEF h
    <3> QED
      BY <3>2, <3>3
  <2>3. \A i \in 1 .. n + 1 : i # 1 => i - 1 \in 1 .. n
    OBVIOUS
  <2>4. IsFlat(h, parts, n + 1)
    BY <2>2, <2>3 DEF IsFlat
  <2> HIDE DEF h
  <2> QED
    BY <2>4
<1> HIDE DEF T
<1>3. Nat \subseteq T
  BY <1>1, <1>2, InductionSet
<1> QED
  BY <1>3 DEF T

LEMMA FlattenUnfolds ==
  ASSUME NEW parts, IsSeq(parts), Len(parts) # 0
  PROVE  \E g : IsFlat(g, parts, Len(parts)) /\ FlattenSeq(parts) = g[Len(parts)]
<1> DEFINE g == CHOOSE f : f = [i \in 1 .. Len(parts) |->
                                  IF i = 1 THEN parts[i] ELSE f[i - 1] \o parts[i]]
<1>1. FlattenSeq(parts) = g[Len(parts)]
  BY DEF FlattenSeq
<1>2. Len(parts) \in Nat
  BY DEF IsSeq
<1>3. IsFlat(g, parts, Len(parts))
  BY <1>2, FlatExists DEF IsFlat
<1> QED
  BY <1>1, <1>3

\* A loop that reads one part after the other, from after[0] on.
LEMMA ReadsParts ==
  ASSUME NEW parts, IsSeq(parts), NEW items, IsSeq(items), NEW n, n = Len(parts), n = Len(items),
         NEW after,
         \A k \in 1 .. n : Reader(after[k - 1], parts[k], after[k], <<items[k]>>)
  PROVE  Reader(after[0], FlattenSeq(parts), after[n], items)
<1>1. n \in Nat
  BY DEF IsSeq
<1>2. CASE n = 0
  <2>1. parts = <<>> /\ items = <<>>
    <3>1. ASSUME NEW s, IsSeq(s), Len(s) = 0 PROVE s = <<>>
      BY <3>1, EmptySeq DEF IsSeq
    <3> QED
      BY <1>2, <3>1
  <2>2. FlattenSeq(parts) = <<>>
    BY <1>2, <2>1 DEF FlattenSeq
  <2>3. PICK c : c = after[0]
    OBVIOUS
  <2>4. <<>> \in Seq(Int) /\ Len(<<>>) = 0 /\ IsSeq(<<>>)
    BY EmptySeq DEF IsSeq
  <2>5. ASSUME Reads(c, <<>>) PROVE c = Pushed(c, 0, <<>>)
    <3>1. IsCursor(c) /\ 0 \in Nat
      BY <2>5 DEF Reads, Follows
    <3>2. c.offset + 0 = c.offset /\ c.vals \o <<>> = c.vals /\ IsRecord(c) /\ c.ok = TRUE
      <4>1. IsSeq(c.vals) /\ c.offset \in Nat /\ IsRecord(c) /\ c.ok = TRUE
        BY <3>1, CursorFields
      <4> QED
        BY <4>1, WithEmpty
    <3>3. PICK d : d = Pushed(c, 0, <<>>)
      OBVIOUS
    <3>4. IsRecord(d) /\ d.in = c.in /\ d.offset = c.offset + 0 /\ d.ok = TRUE
          /\ d.vals = c.vals \o <<>>
      BY <2>4, <3>1, <3>3, PushedFields
    <3>5. c = d
      BY <3>2, <3>4, SameRecord
    <3> QED
      BY <3>3, <3>5
  <2>6. ~Short(c, <<>>)
    <3>1. ASSUME Short(c, <<>>) PROVE FALSE
      <4>1. IsCursor(c) /\ c.offset + 0 > Len(c.in)
        BY <2>4, <3>1 DEF Short, Follows
      <4>2. c.offset \in Nat /\ Len(c.in) \in Nat /\ c.offset <= Len(c.in)
        BY <4>1, CursorFields
      <4> QED
        BY <4>1, <4>2
    <3> QED
      BY <3>1
  <2>7. Reader(c, <<>>, c, <<>>)
    BY <2>4, <2>5, <2>6 DEF Reader
  <2> QED
    BY <1>2, <2>1, <2>2, <2>3, <2>7
<1>3. CASE n # 0
  <2>1. PICK g : IsFlat(g, parts, n) /\ FlattenSeq(parts) = g[n]
    BY <1>3, FlattenUnfolds
  <2> DEFINE T == {k \in Nat : k + 1 <= n =>
                     Reader(after[0], g[k + 1], after[k + 1], SubSeq(items, 1, k + 1))}
  <2>2. PICK S : items \in Seq(S)
    BY DEF IsSeq
  <2>3. ASSUME NEW k \in 1 .. n
        PROVE  SubSeq(items, 1, k) = SubSeq(items, 1, k - 1) \o <<items[k]>>
    <3>1. 1 \in 1 .. Len(items) /\ k \in 1 .. Len(items)
      BY <1>1
    <3> QED
      BY <2>2, <3>1, SubSeqRecursiveSecond
  <2>4. 0 \in T
    <3>1. 1 \in 1 .. n /\ 1 - 1 = 0 /\ 0 + 1 = 1
      BY <1>1, <1>3
    <3>2. g[1] = parts[1]
      BY <2>1, <3>1 DEF IsFlat
    <3>3. SubSeq(items, 1, 1) = <<items[1]>>
      <4>1. SubSeq(items, 1, 0) = <<>>
        BY SubSeqEmpty
      <4>2. SubSeq(items, 1, 1) = <<>> \o <<items[1]>>
        BY <2>3, <3>1, <4>1
      <4>3. <<>> \o <<items[1]>> = <<items[1]>>
        BY Single, WithEmpty
      <4> QED
        BY <4>2, <4>3
    <3>4. Reader(after[0], parts[1], after[1], <<items[1]>>)
      BY <3>1
    <3> QED
      BY <3>1, <3>2, <3>3, <3>4
  <2>5. ASSUME NEW k \in Nat, k \in T PROVE k + 1 \in T
    <3>1. CASE (k + 1) + 1 <= n
      <4>1. PICK j : j = k + 1
        OBVIOUS
      <4>2. j \in Nat /\ j + 1 \in 1 .. n /\ (j + 1) - 1 = j /\ j + 1 # 1 /\ j <= n
        BY <1>1, <3>1, <4>1
      <4>3. Reader(after[0], g[j], after[j], SubSeq(items, 1, j))
        BY <2>5, <4>1, <4>2
      <4>4. Reader(after[j], parts[j + 1], after[j + 1], <<items[j + 1]>>)
        BY <4>2
      <4>5. g[j + 1] = g[j] \o parts[j + 1]
        BY <2>1, <4>2 DEF IsFlat
      <4>6. SubSeq(items, 1, j + 1) = SubSeq(items, 1, j) \o <<items[j + 1]>>
        BY <2>3, <4>2
      <4>7. Reader(after[0], g[j + 1], after[j + 1], SubSeq(items, 1, j + 1))
        BY <4>3, <4>4, <4>5, <4>6, Chained
      <4> QED
        BY <4>1, <4>7
    <3> QED
      BY <3>1
  <2> HIDE DEF T
  <2>6. PICK m \in Nat : m + 1 = n
    <3>1. n - 1 \in Nat /\ (n - 1) + 1 = n
      BY <1>1, <1>3
    <3> QED
      BY <3>1
  <2>7. m \in T
    BY <2>4, <2>5, InductionSet
  <2>8. Reader(after[0], g[n], after[n], SubSeq(items, 1, n))
    BY <2>6, <2>7 DEF T
  <2>9. SubSeq(items, 1, n) = items
    BY <2>2, SubSeqFull
  <2> QED
    BY <2>1, <2>8, <2>9
<1> QED
  BY <1>2, <1>3

IsFcn(v) == v = [x \in DOMAIN v |-> v[x]]

\* The fields of v are what has been read, in the order of the names.
FieldsRead(v, names, vs) ==
  /\ IsFcn(v) /\ DOMAIN v = ToSet(names) /\ Distinct(names) /\ Len(names) = Len(vs)
  /\ \A i \in 1 .. Len(names) : v[names[i]] = vs[i]

LEMMA RecordRead ==
  ASSUME NEW c, NEW b, NEW r, NEW vs, Reader(c, b, r, vs), NEW names, NEW v,
         FieldsRead(v, names, vs)
  PROVE  Reader(c, b, AsRecord(r, names), <<v>>)
<1>1. /\ IsFcn(v) /\ DOMAIN v = ToSet(names) /\ Distinct(names) /\ Len(names) = Len(vs)
      /\ \A i \in 1 .. Len(names) : v[names[i]] = vs[i]
  BY DEF FieldsRead
<1>2. \A x \in ToSet(names) : \E i \in 1 .. Len(names) : x = names[i]
  BY <1>1 DEF ToSet, Distinct
<1>3. PICK w : w = RecordOf(names, vs)
  OBVIOUS
<1>4. DOMAIN w = ToSet(names) /\ \A i \in 1 .. Len(names) : w[names[i]] = vs[i]
  BY <1>1, <1>3, RecordFields
<1>5. \A x \in ToSet(names) : w[x] = v[x]
  BY <1>1, <1>2, <1>4
<1>6. w = [x \in ToSet(names) |-> w[x]]
  BY <1>3 DEF RecordOf
<1>7. w = v
  BY <1>1, <1>5, <1>6 DEF IsFcn
<1> QED
  BY <1>1, <1>3, <1>7, MakesRecord

LEMMA Extended ==
  ASSUME NEW s, IsSeq(s), NEW x
  PROVE  /\ IsSeq(s \o <<x>>) /\ Len(s \o <<x>>) = Len(s) + 1
         /\ (s \o <<x>>)[Len(s) + 1] = x
         /\ \A j \in 1 .. Len(s) : (s \o <<x>>)[j] = s[j]
<1>1. PICK t : t = <<x>>
  OBVIOUS
<1>2. IsSeq(t) /\ Len(t) = 1 /\ t[1] = x /\ 1 \in 1 .. 1
  BY <1>1, Single
<1>a. IsSeq(t)
  BY <1>2
<1>3. /\ IsSeq(s \o t)
      /\ Len(s) \in Nat /\ Len(t) \in Nat
      /\ Len(s \o t) = Len(s) + Len(t)
      /\ \A i \in 1 .. Len(s) : (s \o t)[i] = s[i]
      /\ \A i \in 1 .. Len(t) : (s \o t)[Len(s) + i] = t[i]
  BY <1>a, Concatenated
<1>4. (s \o t)[Len(s) + 1] = x
  BY <1>2, <1>3
<1> QED
  BY <1>1, <1>2, <1>3, <1>4

LEMMA TwoFields ==
  ASSUME NEW c, NEW b, NEW r, NEW x1, NEW x2,
         Reader(c, b, r, <<x1>> \o <<x2>>),
         NEW v, IsFcn(v), NEW p1, NEW p2,
         DOMAIN v = {p1, p2},
         p1 # p2,
         v[p1] = x1, v[p2] = x2
  PROVE  Reader(c, b, AsRecord(r, <<p1, p2>>), <<v>>)
<1>1. PICK names : names = <<p1, p2>>
  OBVIOUS
<1>2. names \in Seq({p1, p2}) /\ Len(names) = 2
      /\ names[1] = p1 /\ names[2] = p2
  BY <1>1
<1>3. DOMAIN names = 1 .. 2
  BY <1>2
<1>4. \A i \in 1 .. 2 : i = 1 \/ i = 2
  OBVIOUS
<1>5. Distinct(names)
  BY <1>2, <1>3, <1>4 DEF Distinct
<1>6. ToSet(names) = {p1, p2}
  BY <1>2, <1>3, <1>4 DEF ToSet
<1>7. PICK s1, s2 :
        s1 = <<x1>> /\ s2 = s1 \o <<x2>>
  OBVIOUS
<1>8. IsSeq(s1) /\ Len(s1) = 1 /\ s1[1] = x1
  BY <1>7, Single
<1>9. IsSeq(s2) /\ Len(s2) = 2 /\ s2[1] = x1 /\ s2[2] = x2
  <2>1. IsSeq(s2) /\ Len(s2) = Len(s1) + 1 /\ s2[Len(s1) + 1] = x2
        /\ \A j \in 1 .. Len(s1) : s2[j] = s1[j]
    <3>1. IsSeq(s1)
      BY <1>8
    <3>2. /\ IsSeq(s1 \o <<x2>>) /\ Len(s1 \o <<x2>>) = Len(s1) + 1
          /\ (s1 \o <<x2>>)[Len(s1) + 1] = x2
          /\ \A j \in 1 .. Len(s1) : (s1 \o <<x2>>)[j] = s1[j]
      BY <3>1, Extended
    <3> QED
      BY <1>7, <3>2
  <2> QED
    BY <1>8, <2>1
<1>10. \A i \in 1 .. Len(names) : v[names[i]] = s2[i]
  BY <1>2, <1>4, <1>9
<1>11. FieldsRead(v, names, s2)
  BY <1>2, <1>5, <1>6, <1>9, <1>10 DEF FieldsRead
<1>12. Reader(c, b, r, s2)
  BY <1>7
<1>13. Reader(c, b, AsRecord(r, names), <<v>>)
  BY <1>11, <1>12, RecordRead
<1> QED
  BY <1>1, <1>13

LEMMA ThreeFields ==
  ASSUME NEW c, NEW b, NEW r, NEW x1, NEW x2, NEW x3,
         Reader(c, b, r, <<x1>> \o <<x2>> \o <<x3>>),
         NEW v, IsFcn(v), NEW p1, NEW p2, NEW p3,
         DOMAIN v = {p1, p2, p3},
         p1 # p2, p1 # p3,
         p2 # p3,
         v[p1] = x1, v[p2] = x2, v[p3] = x3
  PROVE  Reader(c, b, AsRecord(r, <<p1, p2, p3>>), <<v>>)
<1>1. PICK names : names = <<p1, p2, p3>>
  OBVIOUS
<1>2. names \in Seq({p1, p2, p3}) /\ Len(names) = 3
      /\ names[1] = p1 /\ names[2] = p2 /\ names[3] = p3
  BY <1>1
<1>3. DOMAIN names = 1 .. 3
  BY <1>2
<1>4. \A i \in 1 .. 3 : i = 1 \/ i = 2 \/ i = 3
  OBVIOUS
<1>5. Distinct(names)
  BY <1>2, <1>3, <1>4 DEF Distinct
<1>6. ToSet(names) = {p1, p2, p3}
  BY <1>2, <1>3, <1>4 DEF ToSet
<1>7. PICK s1, s2, s3 :
        s1 = <<x1>> /\ s2 = s1 \o <<x2>> /\ s3 = s2 \o <<x3>>
  OBVIOUS
<1>8. IsSeq(s1) /\ Len(s1) = 1 /\ s1[1] = x1
  BY <1>7, Single
<1>9. IsSeq(s2) /\ Len(s2) = 2 /\ s2[1] = x1 /\ s2[2] = x2
  <2>1. IsSeq(s2) /\ Len(s2) = Len(s1) + 1 /\ s2[Len(s1) + 1] = x2
        /\ \A j \in 1 .. Len(s1) : s2[j] = s1[j]
    <3>1. IsSeq(s1)
      BY <1>8
    <3>2. /\ IsSeq(s1 \o <<x2>>) /\ Len(s1 \o <<x2>>) = Len(s1) + 1
          /\ (s1 \o <<x2>>)[Len(s1) + 1] = x2
          /\ \A j \in 1 .. Len(s1) : (s1 \o <<x2>>)[j] = s1[j]
      BY <3>1, Extended
    <3> QED
      BY <1>7, <3>2
  <2> QED
    BY <1>8, <2>1
<1>10. IsSeq(s3) /\ Len(s3) = 3 /\ s3[1] = x1 /\ s3[2] = x2 /\ s3[3] = x3
  <2>1. IsSeq(s3) /\ Len(s3) = Len(s2) + 1 /\ s3[Len(s2) + 1] = x3
        /\ \A j \in 1 .. Len(s2) : s3[j] = s2[j]
    <3>1. IsSeq(s2)
      BY <1>9
    <3>2. /\ IsSeq(s2 \o <<x3>>) /\ Len(s2 \o <<x3>>) = Len(s2) + 1
          /\ (s2 \o <<x3>>)[Len(s2) + 1] = x3
          /\ \A j \in 1 .. Len(s2) : (s2 \o <<x3>>)[j] = s2[j]
      BY <3>1, Extended
    <3> QED
      BY <1>7, <3>2
  <2> QED
    BY <1>9, <2>1
<1>11. \A i \in 1 .. Len(names) : v[names[i]] = s3[i]
  BY <1>2, <1>4, <1>10
<1>12. FieldsRead(v, names, s3)
  BY <1>2, <1>5, <1>6, <1>10, <1>11 DEF FieldsRead
<1>13. Reader(c, b, r, s3)
  BY <1>7
<1>14. Reader(c, b, AsRecord(r, names), <<v>>)
  BY <1>12, <1>13, RecordRead
<1> QED
  BY <1>1, <1>14

LEMMA FourFields ==
  ASSUME NEW c, NEW b, NEW r, NEW x1, NEW x2, NEW x3, NEW x4,
         Reader(c, b, r, <<x1>> \o <<x2>> \o <<x3>> \o <<x4>>),
         NEW v, IsFcn(v), NEW p1, NEW p2, NEW p3, NEW p4,
         DOMAIN v = {p1, p2, p3, p4},
         p1 # p2, p1 # p3, p1 # p4,
         p2 # p3, p2 # p4,
         p3 # p4,
         v[p1] = x1, v[p2] = x2, v[p3] = x3, v[p4] = x4
  PROVE  Reader(c, b, AsRecord(r, <<p1, p2, p3, p4>>), <<v>>)
<1>1. PICK names : names = <<p1, p2, p3, p4>>
  OBVIOUS
<1>2. names \in Seq({p1, p2, p3, p4}) /\ Len(names) = 4
      /\ names[1] = p1 /\ names[2] = p2 /\ names[3] = p3
      /\ names[4] = p4
  BY <1>1
<1>3. DOMAIN names = 1 .. 4
  BY <1>2
<1>4. \A i \in 1 .. 4 : i = 1 \/ i = 2 \/ i = 3 \/ i = 4
  OBVIOUS
<1>5. Distinct(names)
  BY <1>2, <1>3, <1>4 DEF Distinct
<1>6. ToSet(names) = {p1, p2, p3, p4}
  BY <1>2, <1>3, <1>4 DEF ToSet
<1>7. PICK s1, s2, s3, s4 :
        s1 = <<x1>> /\ s2 = s1 \o <<x2>> /\ s3 = s2 \o <<x3>> /\ s4 = s3 \o <<x4>>
  OBVIOUS
<1>8. IsSeq(s1) /\ Len(s1) = 1 /\ s1[1] = x1
  BY <1>7, Single
<1>9. IsSeq(s2) /\ Len(s2) = 2 /\ s2[1] = x1 /\ s2[2] = x2
  <2>1. IsSeq(s2) /\ Len(s2) = Len(s1) + 1 /\ s2[Len(s1) + 1] = x2
        /\ \A j \in 1 .. Len(s1) : s2[j] = s1[j]
    <3>1. IsSeq(s1)
      BY <1>8
    <3>2. /\ IsSeq(s1 \o <<x2>>) /\ Len(s1 \o <<x2>>) = Len(s1) + 1
          /\ (s1 \o <<x2>>)[Len(s1) + 1] = x2
          /\ \A j \in 1 .. Len(s1) : (s1 \o <<x2>>)[j] = s1[j]
      BY <3>1, Extended
    <3> QED
      BY <1>7, <3>2
  <2> QED
    BY <1>8, <2>1
<1>10. IsSeq(s3) /\ Len(s3) = 3 /\ s3[1] = x1 /\ s3[2] = x2 /\ s3[3] = x3
  <2>1. IsSeq(s3) /\ Len(s3) = Len(s2) + 1 /\ s3[Len(s2) + 1] = x3
        /\ \A j \in 1 .. Len(s2) : s3[j] = s2[j]
    <3>1. IsSeq(s2)
      BY <1>9
    <3>2. /\ IsSeq(s2 \o <<x3>>) /\ Len(s2 \o <<x3>>) = Len(s2) + 1
          /\ (s2 \o <<x3>>)[Len(s2) + 1] = x3
          /\ \A j \in 1 .. Len(s2) : (s2 \o <<x3>>)[j] = s2[j]
      BY <3>1, Extended
    <3> QED
      BY <1>7, <3>2
  <2> QED
    BY <1>9, <2>1
<1>11. IsSeq(s4) /\ Len(s4) = 4 /\ s4[1] = x1 /\ s4[2] = x2 /\ s4[3] = x3 /\ s4[4] = x4
  <2>1. IsSeq(s4) /\ Len(s4) = Len(s3) + 1 /\ s4[Len(s3) + 1] = x4
        /\ \A j \in 1 .. Len(s3) : s4[j] = s3[j]
    <3>1. IsSeq(s3)
      BY <1>10
    <3>2. /\ IsSeq(s3 \o <<x4>>) /\ Len(s3 \o <<x4>>) = Len(s3) + 1
          /\ (s3 \o <<x4>>)[Len(s3) + 1] = x4
          /\ \A j \in 1 .. Len(s3) : (s3 \o <<x4>>)[j] = s3[j]
      BY <3>1, Extended
    <3> QED
      BY <1>7, <3>2
  <2> QED
    BY <1>10, <2>1
<1>12. \A i \in 1 .. Len(names) : v[names[i]] = s4[i]
  BY <1>2, <1>4, <1>11
<1>13. FieldsRead(v, names, s4)
  BY <1>2, <1>5, <1>6, <1>11, <1>12 DEF FieldsRead
<1>14. Reader(c, b, r, s4)
  BY <1>7
<1>15. Reader(c, b, AsRecord(r, names), <<v>>)
  BY <1>13, <1>14, RecordRead
<1> QED
  BY <1>1, <1>15

LEMMA SixFields ==
  ASSUME NEW c, NEW b, NEW r, NEW x1, NEW x2, NEW x3, NEW x4, NEW x5, NEW x6,
         Reader(c, b, r, <<x1>> \o <<x2>> \o <<x3>> \o <<x4>> \o <<x5>> \o <<x6>>),
         NEW v, IsFcn(v), NEW p1, NEW p2, NEW p3, NEW p4, NEW p5, NEW p6,
         DOMAIN v = {p1, p2, p3, p4, p5, p6},
         p1 # p2, p1 # p3, p1 # p4, p1 # p5, p1 # p6,
         p2 # p3, p2 # p4, p2 # p5, p2 # p6,
         p3 # p4, p3 # p5, p3 # p6,
         p4 # p5, p4 # p6,
         p5 # p6,
         v[p1] = x1, v[p2] = x2, v[p3] = x3, v[p4] = x4, v[p5] = x5, v[p6] = x6
  PROVE  Reader(c, b, AsRecord(r, <<p1, p2, p3, p4, p5, p6>>), <<v>>)
<1>1. PICK names : names = <<p1, p2, p3, p4, p5, p6>>
  OBVIOUS
<1>2. names \in Seq({p1, p2, p3, p4, p5, p6}) /\ Len(names) = 6
      /\ names[1] = p1 /\ names[2] = p2 /\ names[3] = p3
      /\ names[4] = p4 /\ names[5] = p5 /\ names[6] = p6
  BY <1>1
<1>3. DOMAIN names = 1 .. 6
  BY <1>2
<1>4. \A i \in 1 .. 6 : i = 1 \/ i = 2 \/ i = 3 \/ i = 4 \/ i = 5 \/ i = 6
  OBVIOUS
<1>5. Distinct(names)
  BY <1>2, <1>3, <1>4 DEF Distinct
<1>6. ToSet(names) = {p1, p2, p3, p4, p5, p6}
  BY <1>2, <1>3, <1>4 DEF ToSet
<1>7. PICK s1, s2, s3, s4, s5, s6 :
        s1 = <<x1>> /\ s2 = s1 \o <<x2>> /\ s3 = s2 \o <<x3>> /\ s4 = s3 \o <<x4>> /\ s5 = s4 \o <<x5>> /\ s6 = s5 \o <<x6>>
  OBVIOUS
<1>8. IsSeq(s1) /\ Len(s1) = 1 /\ s1[1] = x1
  BY <1>7, Single
<1>9. IsSeq(s2) /\ Len(s2) = 2 /\ s2[1] = x1 /\ s2[2] = x2
  <2>1. IsSeq(s2) /\ Len(s2) = Len(s1) + 1 /\ s2[Len(s1) + 1] = x2
        /\ \A j \in 1 .. Len(s1) : s2[j] = s1[j]
    <3>1. IsSeq(s1)
      BY <1>8
    <3>2. /\ IsSeq(s1 \o <<x2>>) /\ Len(s1 \o <<x2>>) = Len(s1) + 1
          /\ (s1 \o <<x2>>)[Len(s1) + 1] = x2
          /\ \A j \in 1 .. Len(s1) : (s1 \o <<x2>>)[j] = s1[j]
      BY <3>1, Extended
    <3> QED
      BY <1>7, <3>2
  <2> QED
    BY <1>8, <2>1
<1>10. IsSeq(s3) /\ Len(s3) = 3 /\ s3[1] = x1 /\ s3[2] = x2 /\ s3[3] = x3
  <2>1. IsSeq(s3) /\ Len(s3) = Len(s2) + 1 /\ s3[Len(s2) + 1] = x3
        /\ \A j \in 1 .. Len(s2) : s3[j] = s2[j]
    <3>1. IsSeq(s2)
      BY <1>9
    <3>2. /\ IsSeq(s2 \o <<x3>>) /\ Len(s2 \o <<x3>>) = Len(s2) + 1
          /\ (s2 \o <<x3>>)[Len(s2) + 1] = x3
          /\ \A j \in 1 .. Len(s2) : (s2 \o <<x3>>)[j] = s2[j]
      BY <3>1, Extended
    <3> QED
      BY <1>7, <3>2
  <2> QED
    BY <1>9, <2>1
<1>11. IsSeq(s4) /\ Len(s4) = 4 /\ s4[1] = x1 /\ s4[2] = x2 /\ s4[3] = x3 /\ s4[4] = x4
  <2>1. IsSeq(s4) /\ Len(s4) = Len(s3) + 1 /\ s4[Len(s3) + 1] = x4
        /\ \A j \in 1 .. Len(s3) : s4[j] = s3[j]
    <3>1. IsSeq(s3)
      BY <1>10
    <3>2. /\ IsSeq(s3 \o <<x4>>) /\ Len(s3 \o <<x4>>) = Len(s3) + 1
          /\ (s3 \o <<x4>>)[Len(s3) + 1] = x4
          /\ \A j \in 1 .. Len(s3) : (s3 \o <<x4>>)[j] = s3[j]
      BY <3>1, Extended
    <3> QED
      BY <1>7, <3>2
  <2> QED
    BY <1>10, <2>1
<1>12. IsSeq(s5) /\ Len(s5) = 5 /\ s5[1] = x1 /\ s5[2] = x2 /\ s5[3] = x3 /\ s5[4] = x4 /\ s5[5] = x5
  <2>1. IsSeq(s5) /\ Len(s5) = Len(s4) + 1 /\ s5[Len(s4) + 1] = x5
        /\ \A j \in 1 .. Len(s4) : s5[j] = s4[j]
    <3>1. IsSeq(s4)
      BY <1>11
    <3>2. /\ IsSeq(s4 \o <<x5>>) /\ Len(s4 \o <<x5>>) = Len(s4) + 1
          /\ (s4 \o <<x5>>)[Len(s4) + 1] = x5
          /\ \A j \in 1 .. Len(s4) : (s4 \o <<x5>>)[j] = s4[j]
      BY <3>1, Extended
    <3> QED
      BY <1>7, <3>2
  <2> QED
    BY <1>11, <2>1
<1>13. IsSeq(s6) /\ Len(s6) = 6 /\ s6[1] = x1 /\ s6[2] = x2 /\ s6[3] = x3 /\ s6[4] = x4 /\ s6[5] = x5 /\ s6[6] = x6
  <2>1. IsSeq(s6) /\ Len(s6) = Len(s5) + 1 /\ s6[Len(s5) + 1] = x6
        /\ \A j \in 1 .. Len(s5) : s6[j] = s5[j]
    <3>1. IsSeq(s5)
      BY <1>12
    <3>2. /\ IsSeq(s5 \o <<x6>>) /\ Len(s5 \o <<x6>>) = Len(s5) + 1
          /\ (s5 \o <<x6>>)[Len(s5) + 1] = x6
          /\ \A j \in 1 .. Len(s5) : (s5 \o <<x6>>)[j] = s5[j]
      BY <3>1, Extended
    <3> QED
      BY <1>7, <3>2
  <2> QED
    BY <1>12, <2>1
<1>14. \A i \in 1 .. Len(names) : v[names[i]] = s6[i]
  BY <1>2, <1>4, <1>13
<1>15. FieldsRead(v, names, s6)
  BY <1>2, <1>5, <1>6, <1>13, <1>14 DEF FieldsRead
<1>16. Reader(c, b, r, s6)
  BY <1>7
<1>17. Reader(c, b, AsRecord(r, names), <<v>>)
  BY <1>15, <1>16, RecordRead
<1> QED
  BY <1>1, <1>17

LEMMA OutPointFormat ==
  ASSUME NEW c, NEW o \in COutPoint
  PROVE  Reader(c, COutPoint_Serialize(o), COutPoint_Deserialize(c), <<o>>)
<1>1. o.txid \in Seq(Int) /\ Len(o.txid) = HASH_BYTES /\ o.n \in UIntOf(UINT32_BYTES)
  BY BytesAreInts DEF COutPoint, Hash
<1>2. PICK r, q : r = read_bytes(c, HASH_BYTES) /\ q = read_uint_32LE(r)
  OBVIOUS
<1>3. Reader(c, o.txid, r, <<o.txid>>)
  BY <1>1, <1>2, ReadsBytes
<1>4. Reader(r, write_uint_32LE(o.n), q, <<o.n>>)
  BY <1>1, <1>2, ReadsUint32
<1>5. Reader(c, o.txid \o write_uint_32LE(o.n), q, <<o.txid>> \o <<o.n>>)
  BY <1>3, <1>4, Chained
<1>6. IsFcn(o) /\ DOMAIN o = {"txid", "n"} /\ "txid" # "n"
      /\ o["txid"] = o.txid /\ o["n"] = o.n
  BY DEF COutPoint, IsFcn
<1>7. Reader(c, o.txid \o write_uint_32LE(o.n), AsRecord(q, <<"txid", "n">>), <<o>>)
  BY <1>5, <1>6, TwoFields
<1> QED
  BY <1>2, <1>7 DEF COutPoint_Serialize, COutPoint_Deserialize
-----------------------------------------------------------------------------
(***************************************************************************)
(* Vectors.  Item is a turn of the loop of read_items, by the kind of the  *)
(* items.                                                                  *)
(***************************************************************************)
Item(kind, c) ==
  CASE kind = "txin"  -> CTxIn_Deserialize(c)
    [] kind = "txout" -> CTxOut_Deserialize(c)
    [] kind = "tx"    -> Transaction_Deserialize(c)
    [] kind = "block" -> CBlock_Deserialize(c)
    [] kind = "utxo"  -> UtxoEntry_Deserialize(c)

IsLoop(f, kind, x, n) ==
  f = [k \in 0 .. n |-> IF k = 0 THEN x ELSE Item(kind, f[k - 1])]

LEMMA LoopExists ==
  ASSUME NEW kind, NEW x
  PROVE  \A n \in Nat : \E f : IsLoop(f, kind, x, n)
<1> DEFINE T == {n \in Nat : \E f : IsLoop(f, kind, x, n)}
<1>1. 0 \in T
  <2> DEFINE f == [k \in 0 .. 0 |-> x]
  <2>1. IsLoop(f, kind, x, 0)
    BY DEF IsLoop
  <2> HIDE DEF f
  <2> QED
    BY <2>1
<1>2. ASSUME NEW n \in Nat, n \in T PROVE n + 1 \in T
  <2>1. PICK f : IsLoop(f, kind, x, n)
    BY <1>2
  <2> DEFINE h == [k \in 0 .. n + 1 |-> IF k = 0 THEN x ELSE Item(kind, f[k - 1])]
  <2>2. \A k \in 0 .. n : h[k] = f[k]
    <3> TAKE k \in 0 .. n
    <3>1. k \in 0 .. n + 1
      OBVIOUS
    <3>2. h[k] = IF k = 0 THEN x ELSE Item(kind, f[k - 1])
      BY <3>1
    <3>3. f[k] = IF k = 0 THEN x ELSE Item(kind, f[k - 1])
      <4> HIDE DEF h
      <4> QED
        BY <2>1 DEF IsLoop
    <3> HIDE DEF h
    <3> QED
      BY <3>2, <3>3
  <2>3. \A k \in 0 .. n + 1 : k # 0 => k - 1 \in 0 .. n
    OBVIOUS
  <2>4. IsLoop(h, kind, x, n + 1)
    BY <2>2, <2>3 DEF IsLoop
  <2> HIDE DEF h
  <2> QED
    BY <2>4
<1> HIDE DEF T
<1>3. Nat \subseteq T
  BY <1>1, <1>2, InductionSet
<1> QED
  BY <1>3 DEF T

LEMMA LoopTurns ==
  ASSUME NEW f, NEW kind, NEW x, NEW n \in Nat, IsLoop(f, kind, x, n)
  PROVE  f[0] = x /\ \A k \in 1 .. n : f[k] = Item(kind, f[k - 1])
<1>1. 0 \in 0 .. n /\ \A k \in 1 .. n : k \in 0 .. n /\ k # 0
  OBVIOUS
<1> QED
  BY <1>1 DEF IsLoop

LEMMA ListIsSeq ==
  ASSUME NEW f, NEW n \in Nat, IsFcn(f), DOMAIN f = 1 .. n
  PROVE  IsSeq(f) /\ Len(f) = n
<1> DEFINE S == {f[i] : i \in 1 .. n}
<1>1. \A i \in 1 .. n : f[i] \in S
  OBVIOUS
<1>2. f \in [1 .. n -> S]
  <2> HIDE DEF S
  <2> QED
    BY <1>1 DEF IsFcn
<1> HIDE DEF S
<1>3. f \in Seq(S) /\ Len(f) = n
  BY <1>2
<1> QED
  BY <1>3 DEF IsSeq

LEMMA FlatInts ==
  ASSUME NEW parts, IsSeq(parts), \A k \in 1 .. Len(parts) : parts[k] \in Seq(Int)
  PROVE  FlattenSeq(parts) \in Seq(Int)
<1>1. PICK n : n = Len(parts)
  OBVIOUS
<1>2. n \in Nat
  BY <1>1 DEF IsSeq
<1>3. CASE n = 0
  <2>1. parts = <<>>
    BY <1>1, <1>3, EmptySeq DEF IsSeq
  <2>2. FlattenSeq(parts) = <<>>
    BY <1>1, <1>3, <2>1 DEF FlattenSeq
  <2> QED
    BY <2>2, EmptySeq
<1>4. CASE n # 0
  <2>1. PICK g : IsFlat(g, parts, n) /\ FlattenSeq(parts) = g[n]
    BY <1>1, <1>4, FlattenUnfolds
  <2> DEFINE T == {k \in Nat : k + 1 <= n => g[k + 1] \in Seq(Int)}
  <2>2. 0 \in T
    <3>1. 1 \in 1 .. n /\ 0 + 1 = 1
      BY <1>2, <1>4
    <3>2. g[1] = parts[1]
      BY <2>1, <3>1 DEF IsFlat
    <3> QED
      BY <1>1, <3>1, <3>2
  <2>3. ASSUME NEW k \in Nat, k \in T PROVE k + 1 \in T
    <3>1. CASE (k + 1) + 1 <= n
      <4>1. PICK j : j = k + 1
        OBVIOUS
      <4>2. j \in Nat /\ j + 1 \in 1 .. n /\ (j + 1) - 1 = j /\ j + 1 # 1 /\ j <= n
        BY <1>2, <3>1, <4>1
      <4>3. g[j] \in Seq(Int) /\ parts[j + 1] \in Seq(Int)
        BY <1>1, <2>3, <4>1, <4>2
      <4>4. g[j + 1] = g[j] \o parts[j + 1]
        BY <2>1, <4>2 DEF IsFlat
      <4>5. g[j + 1] \in Seq(Int)
        BY <4>3, <4>4, ConcatProperties
      <4> QED
        BY <4>1, <4>5
    <3> QED
      BY <3>1
  <2> HIDE DEF T
  <2>4. PICK m \in Nat : m + 1 = n
    <3>1. n - 1 \in Nat /\ (n - 1) + 1 = n
      BY <1>2, <1>4
    <3> QED
      BY <3>1
  <2>5. m \in T
    BY <2>2, <2>3, InductionSet
  <2> QED
    BY <2>1, <2>4, <2>5 DEF T
<1> QED
  BY <1>3, <1>4

\* q is what the loop makes of the count in r: a vector of the items.
LEMMA ReadsVector ==
  ASSUME NEW c, NEW items, IsSeq(items), Len(items) \in UIntOf(UINT32_BYTES),
         NEW parts, IsSeq(parts), Len(parts) = Len(items),
         \A k \in 1 .. Len(parts) : parts[k] \in Seq(Int),
         NEW r, Reader(c, write_var_int32(Len(items)), r, <<Len(items)>>),
         NEW q, r.ok = FALSE => q = r,
         r.ok = TRUE /\ Count(r) = Len(items) =>
           \E after : /\ after[0] = Counted(r)
                      /\ q = AsSequence(after[Len(items)], Len(items))
                      /\ \A k \in 1 .. Len(items) :
                           Reader(after[k - 1], parts[k], after[k], <<items[k]>>)
  PROVE  Reader(c, write_var_int32(Len(items)) \o FlattenSeq(parts), q, <<items>>)
<1>0. FlattenSeq(parts) \in Seq(Int)
  BY FlatInts
<1>1. PICK b : b = write_var_int32(Len(items))
  OBVIOUS
<1>2. Reader(c, b, r, <<Len(items)>>) /\ b \in Seq(Int)
  BY <1>1 DEF Reader
<1>3. Short(c, b) \/ Failed(c) => Failed(q)
  <2>1. Short(c, b) \/ Failed(c) => Failed(r)
    BY <1>2 DEF Reader
  <2>2. Failed(r) => q = r
    BY DEF Failed
  <2> QED
    BY <2>1, <2>2
<1>4. ASSUME Reads(c, b)
      PROVE  Reader(Pushed(c, Len(b), <<>>), FlattenSeq(parts), q, <<items>>)
  <2>1. r.ok = TRUE /\ Count(r) = Len(items) /\ Counted(r) = Pushed(c, Len(b), <<>>)
    BY <1>2, <1>4, CountTaken
  <2>2. PICK after : /\ after[0] = Counted(r)
                     /\ q = AsSequence(after[Len(items)], Len(items))
                     /\ \A k \in 1 .. Len(items) :
                          Reader(after[k - 1], parts[k], after[k], <<items[k]>>)
    BY <2>1
  <2>3. Reader(after[0], FlattenSeq(parts), after[Len(items)], items)
    BY <2>2, ReadsParts
  <2>4. Reader(after[0], FlattenSeq(parts), q, <<items>>)
    BY <2>2, <2>3, MakesSequence
  <2> QED
    BY <2>1, <2>2, <2>4
<1>5. IsSeq(<<>>) /\ IsSeq(<<items>>) /\ <<>> \o <<items>> = <<items>>
  BY EmptyIsSeq, Single, WithEmpty
<1>6. Reader(c, b \o FlattenSeq(parts), q, <<>> \o <<items>>)
  BY <1>0, <1>2, <1>3, <1>4, <1>5, Followed
<1> QED
  BY <1>1, <1>5, <1>6
LEMMA TxInFormat ==
  ASSUME NEW c, NEW v \in CTxIn
  PROVE  Reader(c, CTxIn_Serialize(v), CTxIn_Deserialize(c), <<v>>)
<1>1. v.prevout \in COutPoint /\ v.scriptSig \in VectorOf(Byte)
      /\ v.nSequence \in UIntOf(UINT32_BYTES)
  BY DEF CTxIn
<1>2. PICK r1, r2, r3 : /\ r1 = COutPoint_Deserialize(c) /\ r2 = read_script(r1)
                        /\ r3 = read_uint_32LE(r2)
  OBVIOUS
<1>3. Reader(c, COutPoint_Serialize(v.prevout), r1, <<v.prevout>>)
  BY <1>1, <1>2, OutPointFormat
<1>4. Reader(r1, write_script(v.scriptSig), r2, <<v.scriptSig>>)
  BY <1>1, <1>2, ReadsScript
<1>5. Reader(r2, write_uint_32LE(v.nSequence), r3, <<v.nSequence>>)
  BY <1>1, <1>2, ReadsUint32
<1>6. Reader(c, COutPoint_Serialize(v.prevout) \o write_script(v.scriptSig), r2,
             <<v.prevout>> \o <<v.scriptSig>>)
  BY <1>3, <1>4, Chained
<1>7. Reader(c, COutPoint_Serialize(v.prevout) \o write_script(v.scriptSig)
                  \o write_uint_32LE(v.nSequence), r3,
             <<v.prevout>> \o <<v.scriptSig>> \o <<v.nSequence>>)
  BY <1>5, <1>6, Chained
<1>8. /\ IsFcn(v) /\ DOMAIN v = {"prevout", "scriptSig", "nSequence"}
      /\ "prevout" # "scriptSig" /\ "prevout" # "nSequence" /\ "scriptSig" # "nSequence"
      /\ v["prevout"] = v.prevout /\ v["scriptSig"] = v.scriptSig /\ v["nSequence"] = v.nSequence
  BY DEF CTxIn, IsFcn
<1>9. Reader(c, COutPoint_Serialize(v.prevout) \o write_script(v.scriptSig)
                  \o write_uint_32LE(v.nSequence),
             AsRecord(r3, <<"prevout", "scriptSig", "nSequence">>), <<v>>)
  BY <1>7, <1>8, ThreeFields
<1> QED
  BY <1>2, <1>9 DEF CTxIn_Serialize, CTxIn_Deserialize

LEMMA ReadsInputs ==
  ASSUME NEW c, NEW items \in VectorOf(CTxIn)
  PROVE  Reader(c, write_items(items, CTxIn_Serialize), read_items(c, CTxIn_Deserialize),
                <<items>>)
<1>1. PICK n : n = Len(items)
  OBVIOUS
<1>2. /\ items \in Seq(CTxIn) /\ IsSeq(items) /\ n \in Nat /\ Len(items) \in UIntOf(UINT32_BYTES)
      /\ \A k \in 1 .. n : items[k] \in CTxIn
  BY <1>1, ElementOfSeq DEF VectorOf, IsSeq
<1>3. PICK parts : parts = [i \in 1 .. Len(items) |-> CTxIn_Serialize(items[i])]
  OBVIOUS
<1>4. IsSeq(parts) /\ Len(parts) = n /\ \A k \in 1 .. n : parts[k] = CTxIn_Serialize(items[k])
  <2>1. IsFcn(parts) /\ DOMAIN parts = 1 .. n
        /\ \A k \in 1 .. n : parts[k] = CTxIn_Serialize(items[k])
    BY <1>1, <1>3 DEF IsFcn
  <2> QED
    BY <1>2, <2>1, ListIsSeq
<1>5. \A d : \A k \in 1 .. n : Reader(d, parts[k], CTxIn_Deserialize(d), <<items[k]>>)
  BY <1>2, <1>4, TxInFormat
<1>6. \A k \in 1 .. Len(parts) : parts[k] \in Seq(Int)
  BY <1>4, <1>5 DEF Reader
<1>7. PICK r, q : r = read_var_int32(c) /\ q = ItemsOfCount(r, CTxIn_Deserialize)
  OBVIOUS
<1>8. Reader(c, write_var_int32(Len(items)), r, <<Len(items)>>)
  BY <1>2, <1>7, ReadsUint32
<1>9. r.ok = FALSE => q = r
  BY <1>7 DEF ItemsOfCount
<1>10. ASSUME r.ok = TRUE, Count(r) = Len(items)
       PROVE  \E after : /\ after[0] = Counted(r)
                         /\ q = AsSequence(after[Len(items)], Len(items))
                         /\ \A k \in 1 .. Len(items) :
                              Reader(after[k - 1], parts[k], after[k], <<items[k]>>)
  <2> DEFINE Turns(f) == f = [k \in 0 .. Count(r) |->
                                IF k = 0 THEN Counted(r) ELSE CTxIn_Deserialize(f[k - 1])]
             f == CHOOSE f : Turns(f)
  <2>1. q = AsSequence(f[Count(r)], Count(r))
    BY <1>7, <1>10 DEF ItemsOfCount
  <2>2. \A d : Item("txin", d) = CTxIn_Deserialize(d)
    BY DEF Item
  <2>3. \E g : Turns(g)
    <3>1. PICK g : IsLoop(g, "txin", Counted(r), n)
      BY <1>2, LoopExists
    <3>2. Turns(g)
      BY <1>1, <1>10, <2>2, <3>1 DEF IsLoop
    <3> QED
      BY <3>2
  <2>4. Turns(f)
    BY <2>3
  <2>5. f = [k \in 0 .. n |-> IF k = 0 THEN Counted(r) ELSE CTxIn_Deserialize(f[k - 1])]
    BY <1>1, <1>10, <2>4
  <2> HIDE DEF f, Turns
  <2>6. f[0] = Counted(r) /\ \A k \in 1 .. n : f[k] = CTxIn_Deserialize(f[k - 1])
    <3>1. 0 \in 0 .. n /\ \A k \in 1 .. n : k \in 0 .. n /\ k # 0
      BY <1>2
    <3> QED
      BY <2>5, <3>1
  <2>7. \A k \in 1 .. n : Reader(f[k - 1], parts[k], f[k], <<items[k]>>)
    BY <1>5, <2>6
  <2> QED
    BY <1>1, <1>10, <2>1, <2>6, <2>7
<1>11. Reader(c, write_var_int32(Len(items)) \o FlattenSeq(parts), q, <<items>>)
  BY <1>1, <1>2, <1>4, <1>6, <1>8, <1>9, <1>10, ReadsVector
<1> QED
  BY <1>3, <1>7, <1>11 DEF write_items, read_items
LEMMA ReadsInt32 ==
  ASSUME NEW c, NEW x \in IntOf(UINT32_BYTES)
  PROVE  Reader(c, write_uint_32LE(x), read_int(c, UINT32_BYTES), <<x>>)
<1>1. UINT32_BYTES \in Nat
  BY CodecAssumption
<1> QED
  BY <1>1, ReadsInt DEF write_uint_32LE

LEMMA ReadsInt64 ==
  ASSUME NEW c, NEW x \in IntOf(UINT64_BYTES)
  PROVE  Reader(c, write_uint_64LE(x), read_int(c, UINT64_BYTES), <<x>>)
<1>1. UINT64_BYTES \in Nat
  BY CodecAssumption
<1> QED
  BY <1>1, ReadsInt DEF write_uint_64LE

LEMMA TxOutFormat ==
  ASSUME NEW c, NEW v \in CTxOut
  PROVE  Reader(c, CTxOut_Serialize(v), CTxOut_Deserialize(c), <<v>>)
<1>1. /\ v.nValue \in IntOf(UINT64_BYTES)
      /\ v.scriptPubKey \in VectorOf(Byte)
  BY DEF CTxOut
<1>2. PICK r1, r2 :
        /\ r1 = read_int(c, UINT64_BYTES)
        /\ r2 = read_script(r1)
  OBVIOUS
<1>3. Reader(c, write_uint_64LE(v.nValue), r1, <<v.nValue>>)
  BY <1>1, <1>2, ReadsInt64
<1>4. Reader(r1, write_script(v.scriptPubKey), r2, <<v.scriptPubKey>>)
  BY <1>1, <1>2, ReadsScript
<1>5. Reader(c, write_uint_64LE(v.nValue)
                  \o write_script(v.scriptPubKey), r2,
             <<v.nValue>> \o <<v.scriptPubKey>>)
  BY <1>3, <1>4, Chained
<1>6. /\ IsFcn(v) /\ DOMAIN v = {"nValue", "scriptPubKey"}
      /\ "nValue" # "scriptPubKey"
      /\ v["nValue"] = v.nValue
      /\ v["scriptPubKey"] = v.scriptPubKey
  BY DEF CTxOut, IsFcn
<1>7. Reader(c, write_uint_64LE(v.nValue)
                  \o write_script(v.scriptPubKey),
             AsRecord(r2, <<"nValue", "scriptPubKey">>), <<v>>)
  BY <1>5, <1>6, TwoFields
<1> QED
  BY <1>2, <1>7 DEF CTxOut_Serialize, CTxOut_Deserialize

LEMMA ReadsOutputs ==
  ASSUME NEW c, NEW items \in VectorOf(CTxOut)
  PROVE  Reader(c, write_items(items, CTxOut_Serialize), read_items(c, CTxOut_Deserialize),
                <<items>>)
<1>1. PICK n : n = Len(items)
  OBVIOUS
<1>2. /\ items \in Seq(CTxOut) /\ IsSeq(items) /\ n \in Nat /\ Len(items) \in UIntOf(UINT32_BYTES)
      /\ \A k \in 1 .. n : items[k] \in CTxOut
  BY <1>1, ElementOfSeq DEF VectorOf, IsSeq
<1>3. PICK parts : parts = [i \in 1 .. Len(items) |-> CTxOut_Serialize(items[i])]
  OBVIOUS
<1>4. IsSeq(parts) /\ Len(parts) = n /\ \A k \in 1 .. n : parts[k] = CTxOut_Serialize(items[k])
  <2>1. IsFcn(parts) /\ DOMAIN parts = 1 .. n
        /\ \A k \in 1 .. n : parts[k] = CTxOut_Serialize(items[k])
    BY <1>1, <1>3 DEF IsFcn
  <2> QED
    BY <1>2, <2>1, ListIsSeq
<1>5. \A d : \A k \in 1 .. n : Reader(d, parts[k], CTxOut_Deserialize(d), <<items[k]>>)
  BY <1>2, <1>4, TxOutFormat
<1>6. \A k \in 1 .. Len(parts) : parts[k] \in Seq(Int)
  BY <1>4, <1>5 DEF Reader
<1>7. PICK r, q : r = read_var_int32(c) /\ q = ItemsOfCount(r, CTxOut_Deserialize)
  OBVIOUS
<1>8. Reader(c, write_var_int32(Len(items)), r, <<Len(items)>>)
  BY <1>2, <1>7, ReadsUint32
<1>9. r.ok = FALSE => q = r
  BY <1>7 DEF ItemsOfCount
<1>10. ASSUME r.ok = TRUE, Count(r) = Len(items)
       PROVE  \E after : /\ after[0] = Counted(r)
                         /\ q = AsSequence(after[Len(items)], Len(items))
                         /\ \A k \in 1 .. Len(items) :
                              Reader(after[k - 1], parts[k], after[k], <<items[k]>>)
  <2> DEFINE Turns(f) == f = [k \in 0 .. Count(r) |->
                                IF k = 0 THEN Counted(r) ELSE CTxOut_Deserialize(f[k - 1])]
             f == CHOOSE f : Turns(f)
  <2>1. q = AsSequence(f[Count(r)], Count(r))
    BY <1>7, <1>10 DEF ItemsOfCount
  <2>2. \A d : Item("txout", d) = CTxOut_Deserialize(d)
    BY DEF Item
  <2>3. \E g : Turns(g)
    <3>1. PICK g : IsLoop(g, "txout", Counted(r), n)
      BY <1>2, LoopExists
    <3>2. Turns(g)
      BY <1>1, <1>10, <2>2, <3>1 DEF IsLoop
    <3> QED
      BY <3>2
  <2>4. Turns(f)
    BY <2>3
  <2>5. f = [k \in 0 .. n |-> IF k = 0 THEN Counted(r) ELSE CTxOut_Deserialize(f[k - 1])]
    BY <1>1, <1>10, <2>4
  <2> HIDE DEF f, Turns
  <2>6. f[0] = Counted(r) /\ \A k \in 1 .. n : f[k] = CTxOut_Deserialize(f[k - 1])
    <3>1. 0 \in 0 .. n /\ \A k \in 1 .. n : k \in 0 .. n /\ k # 0
      BY <1>2
    <3> QED
      BY <2>5, <3>1
  <2>7. \A k \in 1 .. n : Reader(f[k - 1], parts[k], f[k], <<items[k]>>)
    BY <1>5, <2>6
  <2> QED
    BY <1>1, <1>10, <2>1, <2>6, <2>7
<1>11. Reader(c, write_var_int32(Len(items)) \o FlattenSeq(parts), q, <<items>>)
  BY <1>1, <1>2, <1>4, <1>6, <1>8, <1>9, <1>10, ReadsVector
<1> QED
  BY <1>3, <1>7, <1>11 DEF write_items, read_items

LEMMA TransactionFormat ==
  ASSUME NEW c, NEW v \in Transaction
  PROVE  Reader(c, Transaction_Serialize(v), Transaction_Deserialize(c), <<v>>)
<1>1. /\ v.nVersion \in IntOf(UINT32_BYTES)
      /\ v.vin \in VectorOf(CTxIn)
      /\ v.vout \in VectorOf(CTxOut)
      /\ v.nLockTime \in UIntOf(UINT32_BYTES)
  BY DEF Transaction
<1>2. PICK r1, r2, r3, r4 :
        /\ r1 = read_int(c, UINT32_BYTES)
        /\ r2 = read_items(r1, CTxIn_Deserialize)
        /\ r3 = read_items(r2, CTxOut_Deserialize)
        /\ r4 = read_uint_32LE(r3)
  OBVIOUS
<1>3. Reader(c, write_uint_32LE(v.nVersion), r1, <<v.nVersion>>)
  BY <1>1, <1>2, ReadsInt32
<1>4. Reader(r1, write_items(v.vin, CTxIn_Serialize), r2, <<v.vin>>)
  BY <1>1, <1>2, ReadsInputs
<1>5. Reader(r2, write_items(v.vout, CTxOut_Serialize), r3, <<v.vout>>)
  BY <1>1, <1>2, ReadsOutputs
<1>6. Reader(r3, write_uint_32LE(v.nLockTime), r4, <<v.nLockTime>>)
  BY <1>1, <1>2, ReadsUint32
<1>7. Reader(c, write_uint_32LE(v.nVersion)
                  \o write_items(v.vin, CTxIn_Serialize), r2,
             <<v.nVersion>> \o <<v.vin>>)
  BY <1>3, <1>4, Chained
<1>8. Reader(c, write_uint_32LE(v.nVersion)
                  \o write_items(v.vin, CTxIn_Serialize)
                  \o write_items(v.vout, CTxOut_Serialize), r3,
             <<v.nVersion>> \o <<v.vin>> \o <<v.vout>>)
  BY <1>7, <1>5, Chained
<1>9. Reader(c, write_uint_32LE(v.nVersion)
                  \o write_items(v.vin, CTxIn_Serialize)
                  \o write_items(v.vout, CTxOut_Serialize)
                  \o write_uint_32LE(v.nLockTime), r4,
             <<v.nVersion>> \o <<v.vin>> \o <<v.vout>> \o <<v.nLockTime>>)
  BY <1>8, <1>6, Chained
<1>10. /\ IsFcn(v) /\ DOMAIN v = {"nVersion", "vin", "vout", "nLockTime"}
      /\ "nVersion" # "vin" /\ "nVersion" # "vout" /\ "nVersion" # "nLockTime"
      /\ "vin" # "vout" /\ "vin" # "nLockTime"
      /\ "vout" # "nLockTime"
      /\ v["nVersion"] = v.nVersion
      /\ v["vin"] = v.vin
      /\ v["vout"] = v.vout
      /\ v["nLockTime"] = v.nLockTime
  BY DEF Transaction, IsFcn
<1>11. Reader(c, write_uint_32LE(v.nVersion)
                  \o write_items(v.vin, CTxIn_Serialize)
                  \o write_items(v.vout, CTxOut_Serialize)
                  \o write_uint_32LE(v.nLockTime),
             AsRecord(r4, <<"nVersion", "vin", "vout", "nLockTime">>), <<v>>)
  BY <1>9, <1>10, FourFields
<1> QED
  BY <1>2, <1>11 DEF Transaction_Serialize, Transaction_Deserialize

LEMMA ReadsTransactions ==
  ASSUME NEW c, NEW items \in VectorOf(Transaction)
  PROVE  Reader(c, write_items(items, Transaction_Serialize), read_items(c, Transaction_Deserialize),
                <<items>>)
<1>1. PICK n : n = Len(items)
  OBVIOUS
<1>2. /\ items \in Seq(Transaction) /\ IsSeq(items) /\ n \in Nat /\ Len(items) \in UIntOf(UINT32_BYTES)
      /\ \A k \in 1 .. n : items[k] \in Transaction
  BY <1>1, ElementOfSeq DEF VectorOf, IsSeq
<1>3. PICK parts : parts = [i \in 1 .. Len(items) |-> Transaction_Serialize(items[i])]
  OBVIOUS
<1>4. IsSeq(parts) /\ Len(parts) = n /\ \A k \in 1 .. n : parts[k] = Transaction_Serialize(items[k])
  <2>1. IsFcn(parts) /\ DOMAIN parts = 1 .. n
        /\ \A k \in 1 .. n : parts[k] = Transaction_Serialize(items[k])
    BY <1>1, <1>3 DEF IsFcn
  <2> QED
    BY <1>2, <2>1, ListIsSeq
<1>5. \A d : \A k \in 1 .. n : Reader(d, parts[k], Transaction_Deserialize(d), <<items[k]>>)
  BY <1>2, <1>4, TransactionFormat
<1>6. \A k \in 1 .. Len(parts) : parts[k] \in Seq(Int)
  BY <1>4, <1>5 DEF Reader
<1>7. PICK r, q : r = read_var_int32(c) /\ q = ItemsOfCount(r, Transaction_Deserialize)
  OBVIOUS
<1>8. Reader(c, write_var_int32(Len(items)), r, <<Len(items)>>)
  BY <1>2, <1>7, ReadsUint32
<1>9. r.ok = FALSE => q = r
  BY <1>7 DEF ItemsOfCount
<1>10. ASSUME r.ok = TRUE, Count(r) = Len(items)
       PROVE  \E after : /\ after[0] = Counted(r)
                         /\ q = AsSequence(after[Len(items)], Len(items))
                         /\ \A k \in 1 .. Len(items) :
                              Reader(after[k - 1], parts[k], after[k], <<items[k]>>)
  <2> DEFINE Turns(f) == f = [k \in 0 .. Count(r) |->
                                IF k = 0 THEN Counted(r) ELSE Transaction_Deserialize(f[k - 1])]
             f == CHOOSE f : Turns(f)
  <2>1. q = AsSequence(f[Count(r)], Count(r))
    BY <1>7, <1>10 DEF ItemsOfCount
  <2>2. \A d : Item("tx", d) = Transaction_Deserialize(d)
    BY DEF Item
  <2>3. \E g : Turns(g)
    <3>1. PICK g : IsLoop(g, "tx", Counted(r), n)
      BY <1>2, LoopExists
    <3>2. Turns(g)
      BY <1>1, <1>10, <2>2, <3>1 DEF IsLoop
    <3> QED
      BY <3>2
  <2>4. Turns(f)
    BY <2>3
  <2>5. f = [k \in 0 .. n |-> IF k = 0 THEN Counted(r) ELSE Transaction_Deserialize(f[k - 1])]
    BY <1>1, <1>10, <2>4
  <2> HIDE DEF f, Turns
  <2>6. f[0] = Counted(r) /\ \A k \in 1 .. n : f[k] = Transaction_Deserialize(f[k - 1])
    <3>1. 0 \in 0 .. n /\ \A k \in 1 .. n : k \in 0 .. n /\ k # 0
      BY <1>2
    <3> QED
      BY <2>5, <3>1
  <2>7. \A k \in 1 .. n : Reader(f[k - 1], parts[k], f[k], <<items[k]>>)
    BY <1>5, <2>6
  <2> QED
    BY <1>1, <1>10, <2>1, <2>6, <2>7
<1>11. Reader(c, write_var_int32(Len(items)) \o FlattenSeq(parts), q, <<items>>)
  BY <1>1, <1>2, <1>4, <1>6, <1>8, <1>9, <1>10, ReadsVector
<1> QED
  BY <1>3, <1>7, <1>11 DEF write_items, read_items

LEMMA HeaderFormat ==
  ASSUME NEW c, NEW v \in CBlockHeader
  PROVE  Reader(c, CBlockHeader_Serialize(v), CBlockHeader_Deserialize(c), <<v>>)
<1>1. /\ v.nVersion \in IntOf(UINT32_BYTES)
      /\ v.hashPrevBlock \in Seq(Int) /\ Len(v.hashPrevBlock) = HASH_BYTES
      /\ v.hashMerkleRoot \in Seq(Int) /\ Len(v.hashMerkleRoot) = HASH_BYTES
      /\ v.nTime \in UIntOf(UINT32_BYTES)
      /\ v.nBits \in UIntOf(UINT32_BYTES)
      /\ v.nNonce \in UIntOf(UINT32_BYTES)
  BY BytesAreInts DEF CBlockHeader, Hash
<1>2. PICK r1, r2, r3, r4, r5, r6 :
        /\ r1 = read_int(c, UINT32_BYTES)
        /\ r2 = read_bytes(r1, HASH_BYTES)
        /\ r3 = read_bytes(r2, HASH_BYTES)
        /\ r4 = read_uint_32LE(r3)
        /\ r5 = read_uint_32LE(r4)
        /\ r6 = read_uint_32LE(r5)
  OBVIOUS
<1>3. Reader(c, write_uint_32LE(v.nVersion), r1, <<v.nVersion>>)
  BY <1>1, <1>2, ReadsInt32
<1>4. Reader(r1, v.hashPrevBlock, r2, <<v.hashPrevBlock>>)
  BY <1>1, <1>2, ReadsBytes
<1>5. Reader(r2, v.hashMerkleRoot, r3, <<v.hashMerkleRoot>>)
  BY <1>1, <1>2, ReadsBytes
<1>6. Reader(r3, write_uint_32LE(v.nTime), r4, <<v.nTime>>)
  BY <1>1, <1>2, ReadsUint32
<1>7. Reader(r4, write_uint_32LE(v.nBits), r5, <<v.nBits>>)
  BY <1>1, <1>2, ReadsUint32
<1>8. Reader(r5, write_uint_32LE(v.nNonce), r6, <<v.nNonce>>)
  BY <1>1, <1>2, ReadsUint32
<1>9. Reader(c, write_uint_32LE(v.nVersion)
                  \o v.hashPrevBlock, r2,
             <<v.nVersion>> \o <<v.hashPrevBlock>>)
  BY <1>3, <1>4, Chained
<1>10. Reader(c, write_uint_32LE(v.nVersion)
                  \o v.hashPrevBlock
                  \o v.hashMerkleRoot, r3,
             <<v.nVersion>> \o <<v.hashPrevBlock>> \o <<v.hashMerkleRoot>>)
  BY <1>9, <1>5, Chained
<1>11. Reader(c, write_uint_32LE(v.nVersion)
                  \o v.hashPrevBlock
                  \o v.hashMerkleRoot
                  \o write_uint_32LE(v.nTime), r4,
             <<v.nVersion>> \o <<v.hashPrevBlock>> \o <<v.hashMerkleRoot>> \o <<v.nTime>>)
  BY <1>10, <1>6, Chained
<1>12. Reader(c, write_uint_32LE(v.nVersion)
                  \o v.hashPrevBlock
                  \o v.hashMerkleRoot
                  \o write_uint_32LE(v.nTime)
                  \o write_uint_32LE(v.nBits), r5,
             <<v.nVersion>> \o <<v.hashPrevBlock>> \o <<v.hashMerkleRoot>> \o <<v.nTime>> \o <<v.nBits>>)
  BY <1>11, <1>7, Chained
<1>13. Reader(c, write_uint_32LE(v.nVersion)
                  \o v.hashPrevBlock
                  \o v.hashMerkleRoot
                  \o write_uint_32LE(v.nTime)
                  \o write_uint_32LE(v.nBits)
                  \o write_uint_32LE(v.nNonce), r6,
             <<v.nVersion>> \o <<v.hashPrevBlock>> \o <<v.hashMerkleRoot>> \o <<v.nTime>> \o <<v.nBits>> \o <<v.nNonce>>)
  BY <1>12, <1>8, Chained
<1>14. /\ IsFcn(v) /\ DOMAIN v = {"nVersion", "hashPrevBlock", "hashMerkleRoot", "nTime", "nBits", "nNonce"}
      /\ "nVersion" # "hashPrevBlock" /\ "nVersion" # "hashMerkleRoot" /\ "nVersion" # "nTime" /\ "nVersion" # "nBits" /\ "nVersion" # "nNonce"
      /\ "hashPrevBlock" # "hashMerkleRoot" /\ "hashPrevBlock" # "nTime" /\ "hashPrevBlock" # "nBits" /\ "hashPrevBlock" # "nNonce"
      /\ "hashMerkleRoot" # "nTime" /\ "hashMerkleRoot" # "nBits" /\ "hashMerkleRoot" # "nNonce"
      /\ "nTime" # "nBits" /\ "nTime" # "nNonce"
      /\ "nBits" # "nNonce"
      /\ v["nVersion"] = v.nVersion
      /\ v["hashPrevBlock"] = v.hashPrevBlock
      /\ v["hashMerkleRoot"] = v.hashMerkleRoot
      /\ v["nTime"] = v.nTime
      /\ v["nBits"] = v.nBits
      /\ v["nNonce"] = v.nNonce
  BY DEF CBlockHeader, IsFcn
<1>15. Reader(c, write_uint_32LE(v.nVersion)
                  \o v.hashPrevBlock
                  \o v.hashMerkleRoot
                  \o write_uint_32LE(v.nTime)
                  \o write_uint_32LE(v.nBits)
                  \o write_uint_32LE(v.nNonce),
             AsRecord(r6, <<"nVersion", "hashPrevBlock", "hashMerkleRoot", "nTime", "nBits", "nNonce">>), <<v>>)
  BY <1>13, <1>14, SixFields
<1> QED
  BY <1>2, <1>15 DEF CBlockHeader_Serialize, CBlockHeader_Deserialize

LEMMA BlockFormat ==
  ASSUME NEW c, NEW v \in CBlock
  PROVE  Reader(c, CBlock_Serialize(v), CBlock_Deserialize(c), <<v>>)
<1>1. /\ v.header \in CBlockHeader
      /\ v.vtx \in VectorOf(Transaction)
  BY DEF CBlock
<1>2. PICK r1, r2 :
        /\ r1 = CBlockHeader_Deserialize(c)
        /\ r2 = read_items(r1, Transaction_Deserialize)
  OBVIOUS
<1>3. Reader(c, CBlockHeader_Serialize(v.header), r1, <<v.header>>)
  BY <1>1, <1>2, HeaderFormat
<1>4. Reader(r1, write_items(v.vtx, Transaction_Serialize), r2, <<v.vtx>>)
  BY <1>1, <1>2, ReadsTransactions
<1>5. Reader(c, CBlockHeader_Serialize(v.header)
                  \o write_items(v.vtx, Transaction_Serialize), r2,
             <<v.header>> \o <<v.vtx>>)
  BY <1>3, <1>4, Chained
<1>6. /\ IsFcn(v) /\ DOMAIN v = {"header", "vtx"}
      /\ "header" # "vtx"
      /\ v["header"] = v.header
      /\ v["vtx"] = v.vtx
  BY DEF CBlock, IsFcn
<1>7. Reader(c, CBlockHeader_Serialize(v.header)
                  \o write_items(v.vtx, Transaction_Serialize),
             AsRecord(r2, <<"header", "vtx">>), <<v>>)
  BY <1>5, <1>6, TwoFields
<1> QED
  BY <1>2, <1>7 DEF CBlock_Serialize, CBlock_Deserialize

LEMMA ReadsBlocks ==
  ASSUME NEW c, NEW items \in VectorOf(CBlock)
  PROVE  Reader(c, write_items(items, CBlock_Serialize), read_items(c, CBlock_Deserialize),
                <<items>>)
<1>1. PICK n : n = Len(items)
  OBVIOUS
<1>2. /\ items \in Seq(CBlock) /\ IsSeq(items) /\ n \in Nat /\ Len(items) \in UIntOf(UINT32_BYTES)
      /\ \A k \in 1 .. n : items[k] \in CBlock
  BY <1>1, ElementOfSeq DEF VectorOf, IsSeq
<1>3. PICK parts : parts = [i \in 1 .. Len(items) |-> CBlock_Serialize(items[i])]
  OBVIOUS
<1>4. IsSeq(parts) /\ Len(parts) = n /\ \A k \in 1 .. n : parts[k] = CBlock_Serialize(items[k])
  <2>1. IsFcn(parts) /\ DOMAIN parts = 1 .. n
        /\ \A k \in 1 .. n : parts[k] = CBlock_Serialize(items[k])
    BY <1>1, <1>3 DEF IsFcn
  <2> QED
    BY <1>2, <2>1, ListIsSeq
<1>5. \A d : \A k \in 1 .. n : Reader(d, parts[k], CBlock_Deserialize(d), <<items[k]>>)
  BY <1>2, <1>4, BlockFormat
<1>6. \A k \in 1 .. Len(parts) : parts[k] \in Seq(Int)
  BY <1>4, <1>5 DEF Reader
<1>7. PICK r, q : r = read_var_int32(c) /\ q = ItemsOfCount(r, CBlock_Deserialize)
  OBVIOUS
<1>8. Reader(c, write_var_int32(Len(items)), r, <<Len(items)>>)
  BY <1>2, <1>7, ReadsUint32
<1>9. r.ok = FALSE => q = r
  BY <1>7 DEF ItemsOfCount
<1>10. ASSUME r.ok = TRUE, Count(r) = Len(items)
       PROVE  \E after : /\ after[0] = Counted(r)
                         /\ q = AsSequence(after[Len(items)], Len(items))
                         /\ \A k \in 1 .. Len(items) :
                              Reader(after[k - 1], parts[k], after[k], <<items[k]>>)
  <2> DEFINE Turns(f) == f = [k \in 0 .. Count(r) |->
                                IF k = 0 THEN Counted(r) ELSE CBlock_Deserialize(f[k - 1])]
             f == CHOOSE f : Turns(f)
  <2>1. q = AsSequence(f[Count(r)], Count(r))
    BY <1>7, <1>10 DEF ItemsOfCount
  <2>2. \A d : Item("block", d) = CBlock_Deserialize(d)
    BY DEF Item
  <2>3. \E g : Turns(g)
    <3>1. PICK g : IsLoop(g, "block", Counted(r), n)
      BY <1>2, LoopExists
    <3>2. Turns(g)
      BY <1>1, <1>10, <2>2, <3>1 DEF IsLoop
    <3> QED
      BY <3>2
  <2>4. Turns(f)
    BY <2>3
  <2>5. f = [k \in 0 .. n |-> IF k = 0 THEN Counted(r) ELSE CBlock_Deserialize(f[k - 1])]
    BY <1>1, <1>10, <2>4
  <2> HIDE DEF f, Turns
  <2>6. f[0] = Counted(r) /\ \A k \in 1 .. n : f[k] = CBlock_Deserialize(f[k - 1])
    <3>1. 0 \in 0 .. n /\ \A k \in 1 .. n : k \in 0 .. n /\ k # 0
      BY <1>2
    <3> QED
      BY <2>5, <3>1
  <2>7. \A k \in 1 .. n : Reader(f[k - 1], parts[k], f[k], <<items[k]>>)
    BY <1>5, <2>6
  <2> QED
    BY <1>1, <1>10, <2>1, <2>6, <2>7
<1>11. Reader(c, write_var_int32(Len(items)) \o FlattenSeq(parts), q, <<items>>)
  BY <1>1, <1>2, <1>4, <1>6, <1>8, <1>9, <1>10, ReadsVector
<1> QED
  BY <1>3, <1>7, <1>11 DEF write_items, read_items

LEMMA UtxoEntryFormat ==
  ASSUME NEW c, NEW v \in UtxoEntry
  PROVE  Reader(c, UtxoEntry_Serialize(v), UtxoEntry_Deserialize(c), <<v>>)
<1>1. /\ v.outpoint \in COutPoint
      /\ v.txout \in CTxOut
  BY DEF UtxoEntry
<1>2. PICK r1, r2 :
        /\ r1 = COutPoint_Deserialize(c)
        /\ r2 = CTxOut_Deserialize(r1)
  OBVIOUS
<1>3. Reader(c, COutPoint_Serialize(v.outpoint), r1, <<v.outpoint>>)
  BY <1>1, <1>2, OutPointFormat
<1>4. Reader(r1, CTxOut_Serialize(v.txout), r2, <<v.txout>>)
  BY <1>1, <1>2, TxOutFormat
<1>5. Reader(c, COutPoint_Serialize(v.outpoint)
                  \o CTxOut_Serialize(v.txout), r2,
             <<v.outpoint>> \o <<v.txout>>)
  BY <1>3, <1>4, Chained
<1>6. /\ IsFcn(v) /\ DOMAIN v = {"outpoint", "txout"}
      /\ "outpoint" # "txout"
      /\ v["outpoint"] = v.outpoint
      /\ v["txout"] = v.txout
  BY DEF UtxoEntry, IsFcn
<1>7. Reader(c, COutPoint_Serialize(v.outpoint)
                  \o CTxOut_Serialize(v.txout),
             AsRecord(r2, <<"outpoint", "txout">>), <<v>>)
  BY <1>5, <1>6, TwoFields
<1> QED
  BY <1>2, <1>7 DEF UtxoEntry_Serialize, UtxoEntry_Deserialize

LEMMA ReadsUtxoEntries ==
  ASSUME NEW c, NEW items \in VectorOf(UtxoEntry)
  PROVE  Reader(c, write_items(items, UtxoEntry_Serialize), read_items(c, UtxoEntry_Deserialize),
                <<items>>)
<1>1. PICK n : n = Len(items)
  OBVIOUS
<1>2. /\ items \in Seq(UtxoEntry) /\ IsSeq(items) /\ n \in Nat /\ Len(items) \in UIntOf(UINT32_BYTES)
      /\ \A k \in 1 .. n : items[k] \in UtxoEntry
  BY <1>1, ElementOfSeq DEF VectorOf, IsSeq
<1>3. PICK parts : parts = [i \in 1 .. Len(items) |-> UtxoEntry_Serialize(items[i])]
  OBVIOUS
<1>4. IsSeq(parts) /\ Len(parts) = n /\ \A k \in 1 .. n : parts[k] = UtxoEntry_Serialize(items[k])
  <2>1. IsFcn(parts) /\ DOMAIN parts = 1 .. n
        /\ \A k \in 1 .. n : parts[k] = UtxoEntry_Serialize(items[k])
    BY <1>1, <1>3 DEF IsFcn
  <2> QED
    BY <1>2, <2>1, ListIsSeq
<1>5. \A d : \A k \in 1 .. n : Reader(d, parts[k], UtxoEntry_Deserialize(d), <<items[k]>>)
  BY <1>2, <1>4, UtxoEntryFormat
<1>6. \A k \in 1 .. Len(parts) : parts[k] \in Seq(Int)
  BY <1>4, <1>5 DEF Reader
<1>7. PICK r, q : r = read_var_int32(c) /\ q = ItemsOfCount(r, UtxoEntry_Deserialize)
  OBVIOUS
<1>8. Reader(c, write_var_int32(Len(items)), r, <<Len(items)>>)
  BY <1>2, <1>7, ReadsUint32
<1>9. r.ok = FALSE => q = r
  BY <1>7 DEF ItemsOfCount
<1>10. ASSUME r.ok = TRUE, Count(r) = Len(items)
       PROVE  \E after : /\ after[0] = Counted(r)
                         /\ q = AsSequence(after[Len(items)], Len(items))
                         /\ \A k \in 1 .. Len(items) :
                              Reader(after[k - 1], parts[k], after[k], <<items[k]>>)
  <2> DEFINE Turns(f) == f = [k \in 0 .. Count(r) |->
                                IF k = 0 THEN Counted(r) ELSE UtxoEntry_Deserialize(f[k - 1])]
             f == CHOOSE f : Turns(f)
  <2>1. q = AsSequence(f[Count(r)], Count(r))
    BY <1>7, <1>10 DEF ItemsOfCount
  <2>2. \A d : Item("utxo", d) = UtxoEntry_Deserialize(d)
    BY DEF Item
  <2>3. \E g : Turns(g)
    <3>1. PICK g : IsLoop(g, "utxo", Counted(r), n)
      BY <1>2, LoopExists
    <3>2. Turns(g)
      BY <1>1, <1>10, <2>2, <3>1 DEF IsLoop
    <3> QED
      BY <3>2
  <2>4. Turns(f)
    BY <2>3
  <2>5. f = [k \in 0 .. n |-> IF k = 0 THEN Counted(r) ELSE UtxoEntry_Deserialize(f[k - 1])]
    BY <1>1, <1>10, <2>4
  <2> HIDE DEF f, Turns
  <2>6. f[0] = Counted(r) /\ \A k \in 1 .. n : f[k] = UtxoEntry_Deserialize(f[k - 1])
    <3>1. 0 \in 0 .. n /\ \A k \in 1 .. n : k \in 0 .. n /\ k # 0
      BY <1>2
    <3> QED
      BY <2>5, <3>1
  <2>7. \A k \in 1 .. n : Reader(f[k - 1], parts[k], f[k], <<items[k]>>)
    BY <1>5, <2>6
  <2> QED
    BY <1>1, <1>10, <2>1, <2>6, <2>7
<1>11. Reader(c, write_var_int32(Len(items)) \o FlattenSeq(parts), q, <<items>>)
  BY <1>1, <1>2, <1>4, <1>6, <1>8, <1>9, <1>10, ReadsVector
<1> QED
  BY <1>3, <1>7, <1>11 DEF write_items, read_items
-----------------------------------------------------------------------------
(***************************************************************************)
(* Files: a cursor at the beginning of one has nothing else to read.       *)
(***************************************************************************)
LEMMA CursorOf ==
  ASSUME NEW bytes \in Seq(Int)
  PROVE  /\ IsCursor(Cursor(bytes)) /\ Cursor(bytes).in = bytes
         /\ Cursor(bytes).offset = 0 /\ Cursor(bytes).vals = <<>>
<1>1. PICK c : c = Cursor(bytes)
  OBVIOUS
<1>2. /\ c \in [in : {bytes}, offset : {0}, ok : BOOLEAN, vals : {<<>>}]
      /\ c.in = bytes /\ c.offset = 0 /\ c.ok = TRUE /\ c.vals = <<>>
  BY <1>1 DEF Cursor
<1>3. IsRecord(c)
  BY <1>2 DEF IsRecord
<1>4. Len(bytes) \in Nat /\ 0 \in Nat /\ 0 <= Len(bytes)
  OBVIOUS
<1>5. IsCursor(c)
  BY <1>2, <1>3, <1>4, EmptyIsSeq DEF IsCursor
<1> QED
  BY <1>1, <1>2, <1>5

LEMMA WholeFile ==
  ASSUME NEW bytes, NEW r, NEW v, Reader(Cursor(bytes), bytes, r, <<v>>)
  PROVE  r.ok = TRUE /\ r.vals = <<v>> /\ r.offset = Len(bytes)
<1>1. bytes \in Seq(Int)
  BY DEF Reader
<1>2. PICK c : c = Cursor(bytes)
  OBVIOUS
<1>3. IsCursor(c) /\ c.in = bytes /\ c.offset = 0 /\ c.vals = <<>> /\ Len(bytes) \in Nat
  BY <1>1, <1>2, CursorOf
<1>4. Reads(c, bytes)
  <2>1. \A i \in 1 .. Len(bytes) : 0 + i = i
    BY <1>3
  <2> QED
    BY <1>1, <1>3, <2>1 DEF Reads, Follows
<1>5. r = Pushed(c, Len(bytes), <<v>>)
  BY <1>2, <1>4 DEF Reader
<1>6. IsSeq(<<v>>) /\ <<>> \o <<v>> = <<v>>
  BY Single, WithEmpty
<1>7. r.ok = TRUE /\ r.vals = c.vals \o <<v>> /\ r.offset = c.offset + Len(bytes)
  BY <1>3, <1>5, <1>6, PushedFields
<1> QED
  BY <1>3, <1>6, <1>7

LEMMA CutFile ==
  ASSUME NEW bytes, NEW n \in Nat, n < Len(bytes), NEW r, NEW v,
         Reader(Cursor(SubSeq(bytes, 1, n)), bytes, r, <<v>>)
  PROVE  r.ok = FALSE
<1>1. bytes \in Seq(Int) /\ Len(bytes) \in Nat
  BY DEF Reader
<1>2. PICK cut, c : cut = SubSeq(bytes, 1, n) /\ c = Cursor(cut)
  OBVIOUS
<1>3. cut \in Seq(Int) /\ Len(cut) = n /\ \A i \in 1 .. n : cut[i] = bytes[i]
  BY <1>1, <1>2
<1>4. IsCursor(c) /\ c.in = cut /\ c.offset = 0
  BY <1>2, <1>3, CursorOf
<1>5. Short(c, bytes)
  <2>1. \A i \in 1 .. Len(bytes) : 0 + i = i /\ (i <= n => i \in 1 .. n)
    BY <1>1
  <2>2. 0 + Len(bytes) > n
    BY <1>1
  <2> QED
    BY <1>1, <1>3, <1>4, <2>1, <2>2 DEF Short, Follows
<1> QED
  BY <1>2, <1>5 DEF Reader, Failed

\* What a loader makes of bytes that begin with a saved file.
LEMMA LoaderReads ==
  ASSUME PickedOK, IsFile, NEW buffer
  PROVE  Reader(Cursor(buffer), Saved(picked.kind, picked.of), Loaded(picked.kind, buffer),
                <<picked.of>>)
<1>1. CASE picked.kind = "chain"
  <2>1. picked.of \in VectorOf(CBlock)
    BY <1>1, FormatAssumption DEF PickedOK
  <2>2. Reader(Cursor(buffer), write_items(picked.of, CBlock_Serialize),
               read_items(Cursor(buffer), CBlock_Deserialize), <<picked.of>>)
    BY <2>1, ReadsBlocks
  <2>3. Saved(picked.kind, picked.of) = write_items(picked.of, CBlock_Serialize)
    BY <1>1 DEF Saved, serialize_chain
  <2>4. Loaded(picked.kind, buffer) = read_items(Cursor(buffer), CBlock_Deserialize)
    BY <1>1 DEF Loaded, deserialize_chain
  <2> QED
    BY <2>2, <2>3, <2>4
<1>2. CASE picked.kind = "mempool"
  <2>1. picked.of \in VectorOf(Transaction)
    BY <1>2, FormatAssumption DEF PickedOK
  <2>2. Reader(Cursor(buffer), write_items(picked.of, Transaction_Serialize),
               read_items(Cursor(buffer), Transaction_Deserialize), <<picked.of>>)
    BY <2>1, ReadsTransactions
  <2>3. Saved(picked.kind, picked.of) = write_items(picked.of, Transaction_Serialize)
    BY <1>2 DEF Saved, save_mempool
  <2>4. Loaded(picked.kind, buffer) = read_items(Cursor(buffer), Transaction_Deserialize)
    BY <1>2 DEF Loaded, load_mempool
  <2> QED
    BY <2>2, <2>3, <2>4
<1>3. CASE picked.kind = "utxos"
  <2>1. picked.of \in VectorOf(UtxoEntry)
    BY <1>3, FormatAssumption DEF PickedOK
  <2>2. Reader(Cursor(buffer), write_items(picked.of, UtxoEntry_Serialize),
               read_items(Cursor(buffer), UtxoEntry_Deserialize), <<picked.of>>)
    BY <2>1, ReadsUtxoEntries
  <2>3. Saved(picked.kind, picked.of) = write_items(picked.of, UtxoEntry_Serialize)
    BY <1>3 DEF Saved, save_utxo_set
  <2>4. Loaded(picked.kind, buffer) = read_items(Cursor(buffer), UtxoEntry_Deserialize)
    BY <1>3 DEF Loaded, load_utxo_set
  <2> QED
    BY <2>2, <2>3, <2>4
<1> QED
  BY <1>1, <1>2, <1>3 DEF IsFile

(***************************************************************************)
(* Whatever the widths, the counts and the values: what save_chain,        *)
(* save_mempool and save_utxo_set write is what their loaders read, to the *)
(* last byte.                                                              *)
(***************************************************************************)
THEOREM FilesAreReadBack == Spec => []FilesReadBack
<1>1. PickedOK => FilesReadBack
  <2> SUFFICES ASSUME PickedOK, IsFile PROVE FilesReadBack
    BY DEF FilesReadBack
  <2>1. PICK bytes, read : /\ bytes = Saved(picked.kind, picked.of)
                           /\ read = Loaded(picked.kind, bytes)
    OBVIOUS
  <2>2. Reader(Cursor(bytes), bytes, read, <<picked.of>>)
    BY <2>1, LoaderReads
  <2>3. read.ok = TRUE /\ read.vals = <<picked.of>> /\ read.offset = Len(bytes)
    BY <2>2, WholeFile
  <2> QED
    BY <2>1, <2>3 DEF FilesReadBack
<1> QED
  BY <1>1, AlwaysPicked, PTL

(***************************************************************************)
(* A file cut anywhere by a crash inside write_file is refused: the        *)
(* deserialiser that meets the end throws, whatever it has read before.    *)
(***************************************************************************)
THEOREM TornFilesAreRefused == Spec => []TornFilesRefused
<1>1. PickedOK => TornFilesRefused
  <2> SUFFICES ASSUME PickedOK, IsFile PROVE TornFilesRefused
    BY DEF TornFilesRefused
  <2>1. PICK bytes : bytes = Saved(picked.kind, picked.of)
    OBVIOUS
  <2>2. ASSUME NEW n \in 0 .. Len(bytes) - 1
        PROVE  ~Loaded(picked.kind, SubSeq(bytes, 1, n)).ok
    <3>1. PICK cut, read : /\ cut = SubSeq(bytes, 1, n)
                           /\ read = Loaded(picked.kind, cut)
      OBVIOUS
    <3>2. Reader(Cursor(cut), bytes, read, <<picked.of>>)
      BY <2>1, <3>1, LoaderReads
    <3>3. Len(bytes) \in Nat
      BY <3>2 DEF Reader
    <3>4. n \in Nat /\ n < Len(bytes)
      BY <3>3
    <3>5. read.ok = FALSE
      BY <3>1, <3>2, <3>4, CutFile
    <3> QED
      BY <3>1, <3>5
  <2> QED
    BY <2>1, <2>2 DEF TornFilesRefused
<1> QED
  BY <1>1, AlwaysPicked, PTL
-----------------------------------------------------------------------------
(***************************************************************************)
(* Messages.                                                               *)
(***************************************************************************)
IsMix(f, s, n) ==
  f = [k \in 0 .. n |-> IF k = 0 THEN 1 ELSE (3 * f[k - 1] + s[k] + 1) % BYTE]

LEMMA MixExists ==
  ASSUME NEW s
  PROVE  \A n \in Nat : \E f : IsMix(f, s, n)
<1> DEFINE T == {n \in Nat : \E f : IsMix(f, s, n)}
<1>1. 0 \in T
  <2> DEFINE f == [k \in 0 .. 0 |-> 1]
  <2>1. IsMix(f, s, 0)
    BY DEF IsMix
  <2> HIDE DEF f
  <2> QED
    BY <2>1
<1>2. ASSUME NEW n \in Nat, n \in T PROVE n + 1 \in T
  <2>1. PICK f : IsMix(f, s, n)
    BY <1>2
  <2> DEFINE h == [k \in 0 .. n + 1 |-> IF k = 0 THEN 1 ELSE (3 * f[k - 1] + s[k] + 1) % BYTE]
  <2>2. \A k \in 0 .. n : h[k] = f[k]
    <3> TAKE k \in 0 .. n
    <3>1. k \in 0 .. n + 1
      OBVIOUS
    <3>2. h[k] = IF k = 0 THEN 1 ELSE (3 * f[k - 1] + s[k] + 1) % BYTE
      BY <3>1
    <3>3. f[k] = IF k = 0 THEN 1 ELSE (3 * f[k - 1] + s[k] + 1) % BYTE
      <4> HIDE DEF h
      <4> QED
        BY <2>1 DEF IsMix
    <3> HIDE DEF h
    <3> QED
      BY <3>2, <3>3
  <2>3. \A k \in 0 .. n + 1 : k # 0 => k - 1 \in 0 .. n
    OBVIOUS
  <2>4. IsMix(h, s, n + 1)
    BY <2>2, <2>3 DEF IsMix
  <2> HIDE DEF h
  <2> QED
    BY <2>4
<1> HIDE DEF T
<1>3. Nat \subseteq T
  BY <1>1, <1>2, InductionSet
<1> QED
  BY <1>3 DEF T

LEMMA ChecksumIsBytes ==
  ASSUME NEW s \in Seq(Int)
  PROVE  message_checksum(s) \in Seq(Int) /\ Len(message_checksum(s)) = 1
<1> DEFINE f == CHOOSE f : f = [k \in 0 .. Len(s) |->
                    IF k = 0 THEN 1 ELSE (3 * f[k - 1] + s[k] + 1) % BYTE]
<1>1. message_checksum(s) = <<f[Len(s)]>>
  BY DEF message_checksum
<1>2. Len(s) \in Nat
  OBVIOUS
<1>3. IsMix(f, s, Len(s))
  BY <1>2, MixExists DEF IsMix
<1> HIDE DEF f
<1> DEFINE T == {k \in Nat : k <= Len(s) => f[k] \in Int}
<1>4. 0 \in T
  <2>1. 0 \in 0 .. Len(s)
    BY <1>2
  <2> QED
    BY <1>3, <2>1 DEF IsMix
<1>5. ASSUME NEW k \in Nat, k \in T PROVE k + 1 \in T
  <2>1. CASE k + 1 <= Len(s)
    <3>1. k + 1 \in 0 .. Len(s) /\ k + 1 \in 1 .. Len(s) /\ (k + 1) - 1 = k /\ k + 1 # 0 /\ k <= Len(s)
      BY <1>2, <2>1
    <3>2. PICK x, y : x = f[k] /\ y = s[k + 1]
      OBVIOUS
    <3>3. f[k + 1] = (3 * x + y + 1) % BYTE
      BY <1>3, <3>1, <3>2 DEF IsMix
    <3>4. x \in Int /\ y \in Int
      BY <1>5, <3>1, <3>2, ElementOfSeq
    <3>5. (3 * x + y + 1) \in Int /\ BYTE \in Nat \ {0}
      BY <3>4, BytePowers
    <3>6. (3 * x + y + 1) % BYTE \in Int
      <4>1. PICK a : a = 3 * x + y + 1
        OBVIOUS
      <4>2. a \in Int
        BY <3>5, <4>1
      <4>3. a % BYTE \in 0 .. BYTE - 1
        BY <3>5, <4>2, Divided
      <4> QED
        BY <3>5, <4>1, <4>3
    <3> QED
      BY <3>3, <3>6
  <2> QED
    BY <2>1
<1> HIDE DEF T
<1>6. Len(s) \in T
  BY <1>2, <1>4, <1>5, InductionSet
<1>7. f[Len(s)] \in Int
  BY <1>2, <1>6 DEF T
<1> QED
  BY <1>1, <1>7

\* The field of a command.
Padded(command) == [i \in 1 .. COMMAND_SIZE |-> IF i <= Len(command) THEN command[i] ELSE 0]

LEMMA CommandReadBack ==
  ASSUME NEW command \in Seq(Byte \ {0}), Len(command) <= COMMAND_SIZE
  PROVE  /\ Padded(command) \in Seq(Int) /\ Len(Padded(command)) = COMMAND_SIZE
         /\ trimmed(Padded(command)) = command
<1>1. PICK f, n : f = Padded(command) /\ n = Len(command)
  OBVIOUS
<1>2. COMMAND_SIZE \in Nat /\ n \in Nat /\ n <= COMMAND_SIZE /\ Byte \subseteq Int
  BY <1>1, CodecAssumption, BytePowers DEF Byte
<1>3. \A i \in 1 .. n : command[i] \in Int /\ command[i] # 0
  <2>1. \A i \in 1 .. n : command[i] \in Byte \ {0}
    BY <1>1
  <2> QED
    BY <1>2, <2>1
<1>4. f = [i \in 1 .. COMMAND_SIZE |-> IF i <= n THEN command[i] ELSE 0]
  BY <1>1 DEF Padded
<1>5. \A i \in 1 .. COMMAND_SIZE : f[i] = (IF i <= n THEN command[i] ELSE 0)
  BY <1>4
<1>6. \A i \in 1 .. COMMAND_SIZE : i <= n => i \in 1 .. n
  BY <1>2
<1>7. f \in [1 .. COMMAND_SIZE -> Int]
  BY <1>3, <1>4, <1>6
<1>8. f \in Seq(Int) /\ Len(f) = COMMAND_SIZE
  BY <1>2, <1>7
<1>9. \A i \in 1 .. COMMAND_SIZE : f[i] = 0 <=> i > n
  BY <1>2, <1>3, <1>5, <1>6
<1> DEFINE I == {i \in 1 .. COMMAND_SIZE : f[i] = 0}
<1>10. SelectInSeq(f, LAMBDA b : b = 0) = IF I # {} THEN Min(I) ELSE 0
  BY <1>8 DEF SelectInSeq
<1>11. I = n + 1 .. COMMAND_SIZE
  BY <1>2, <1>9
<1>12. \A i \in 1 .. n : f[i] = command[i]
  <2>1. \A i \in 1 .. n : i \in 1 .. COMMAND_SIZE /\ i <= n
    BY <1>2
  <2> QED
    BY <1>5, <2>1
<1>13. command \in Seq(Int)
  <2>1. Byte \ {0} \subseteq Int
    BY <1>2
  <2> QED
    BY <2>1, SeqMonotonic
<1>14. CASE n = COMMAND_SIZE
  <2>1. I = {}
    BY <1>2, <1>11, <1>14
  <2>2. trimmed(f) = f
    BY <1>10, <2>1 DEF trimmed
  <2>3. f = command
    BY <1>1, <1>8, <1>12, <1>13, <1>14, SeqEqual
  <2> QED
    BY <1>1, <1>8, <2>2, <2>3
<1>15. CASE n # COMMAND_SIZE
  <2>1. n + 1 \in I /\ \A i \in I : n + 1 <= i
    BY <1>2, <1>11, <1>15
  <2>2. Min(I) = n + 1
    <3>1. \A x \in I : x \in Int
      BY <1>2, <1>11
    <3> HIDE DEF I
    <3>2. \A x \in I : (\A y \in I : x <= y) => x = n + 1
      <4> SUFFICES ASSUME NEW x \in I, \A y \in I : x <= y PROVE x = n + 1
        OBVIOUS
      <4>1. x <= n + 1 /\ n + 1 <= x /\ x \in Int
        BY <2>1, <3>1
      <4> QED
        BY <1>2, <4>1
    <3> QED
      BY <2>1, <3>2 DEF Min
  <2>3. I # {}
    BY <2>1
  <2>4. trimmed(f) = SubSeq(f, 1, (n + 1) - 1)
    <3>1. n + 1 # 0
      BY <1>2
    <3> HIDE DEF I
    <3> QED
      BY <1>10, <2>2, <2>3, <3>1 DEF trimmed
  <2>5. (n + 1) - 1 = n
    BY <1>2
  <2>6. PICK u : u = SubSeq(f, 1, n)
    OBVIOUS
  <2>7. u \in Seq(Int) /\ Len(u) = n /\ \A i \in 1 .. n : u[i] = f[i]
    BY <1>2, <1>8, <2>6
  <2>8. u = command
    BY <1>1, <1>12, <1>13, <2>7, SeqEqual
  <2> QED
    BY <1>1, <1>8, <2>4, <2>5, <2>6, <2>8
<1> QED
  BY <1>14, <1>15
\* The header of a message as it is sent and as it is read.
HeaderBytes(command, payload) ==
  MAGIC_BYTES \o Padded(command) \o write_uint_32LE(Len(payload)) \o message_checksum(payload)

HeaderRead(c) ==
  AsRecord(read_bytes(read_uint_32LE(read_bytes(read_bytes(c, Len(MAGIC_BYTES)), COMMAND_SIZE)), 1),
           <<"magic", "command", "length", "checksum">>)

HeaderOf(command, payload) ==
  [magic |-> MAGIC_BYTES, command |-> Padded(command), length |-> Len(payload),
   checksum |-> message_checksum(payload)]

LEMMA MessageHeaderFormat ==
  ASSUME NEW c, NEW command \in Seq(Byte \ {0}), Len(command) <= COMMAND_SIZE,
         NEW payload \in VectorOf(Byte)
  PROVE  Reader(c, HeaderBytes(command, payload), HeaderRead(c), <<HeaderOf(command, payload)>>)
<1>1. PICK m, f, n, s, v : /\ m = MAGIC_BYTES /\ f = Padded(command) /\ n = Len(payload)
                           /\ s = message_checksum(payload) /\ v = HeaderOf(command, payload)
  OBVIOUS
<1>2. PICK r1, r2, r3, r4 : /\ r1 = read_bytes(c, Len(m)) /\ r2 = read_bytes(r1, COMMAND_SIZE)
                            /\ r3 = read_uint_32LE(r2) /\ r4 = read_bytes(r3, 1)
  OBVIOUS
<1>3. m \in Seq(Int)
  BY <1>1 DEF MAGIC_BYTES
<1>4. f \in Seq(Int) /\ Len(f) = COMMAND_SIZE
  BY <1>1, CommandReadBack
<1>5. n \in UIntOf(UINT32_BYTES) /\ payload \in Seq(Int)
  BY <1>1, BytesAreInts DEF VectorOf
<1>6. s \in Seq(Int) /\ Len(s) = 1
  BY <1>1, <1>5, ChecksumIsBytes
<1>7. Reader(c, m, r1, <<m>>)
  BY <1>2, <1>3, ReadsBytes
<1>8. Reader(r1, f, r2, <<f>>)
  BY <1>2, <1>4, ReadsBytes
<1>9. Reader(r2, write_uint_32LE(n), r3, <<n>>)
  BY <1>2, <1>5, ReadsUint32
<1>10. Reader(r3, s, r4, <<s>>)
  BY <1>2, <1>6, ReadsBytes
<1>11. Reader(c, m \o f, r2, <<m>> \o <<f>>)
  BY <1>7, <1>8, Chained
<1>12. Reader(c, m \o f \o write_uint_32LE(n), r3, <<m>> \o <<f>> \o <<n>>)
  BY <1>9, <1>11, Chained
<1>13. Reader(c, m \o f \o write_uint_32LE(n) \o s, r4, <<m>> \o <<f>> \o <<n>> \o <<s>>)
  BY <1>10, <1>12, Chained
<1>14. v = [magic |-> m, command |-> f, length |-> n, checksum |-> s]
  BY <1>1 DEF HeaderOf
<1>15. /\ IsFcn(v) /\ DOMAIN v = {"magic", "command", "length", "checksum"}
       /\ "magic" # "command" /\ "magic" # "length" /\ "magic" # "checksum"
       /\ "command" # "length" /\ "command" # "checksum"
       /\ "length" # "checksum"
       /\ v["magic"] = m /\ v["command"] = f /\ v["length"] = n /\ v["checksum"] = s
  BY <1>14 DEF IsFcn
<1>16. Reader(c, m \o f \o write_uint_32LE(n) \o s,
              AsRecord(r4, <<"magic", "command", "length", "checksum">>), <<v>>)
  BY <1>13, <1>15, FourFields
<1> QED
  BY <1>1, <1>2, <1>16 DEF HeaderBytes, HeaderRead

LEMMA MessageBytes ==
  ASSUME NEW cmd \in Seq(Byte \ {0}), Len(cmd) <= COMMAND_SIZE, NEW pl \in VectorOf(Byte)
  PROVE  /\ HeaderBytes(cmd, pl) \in Seq(Int) /\ pl \in Seq(Int)
         /\ send_message(cmd, pl) = HeaderBytes(cmd, pl) \o pl
         /\ send_message(cmd, pl) \in Seq(Int) /\ Len(send_message(cmd, pl)) # 0
<1>1. PICK x1, x2, x3, x4 : /\ x1 = MAGIC_BYTES /\ x2 = Padded(cmd)
                            /\ x3 = write_uint_32LE(Len(pl)) /\ x4 = message_checksum(pl)
  OBVIOUS
<1>2. x1 \in Seq(Int) /\ Len(x1) = 2
  BY <1>1 DEF MAGIC_BYTES
<1>3. x2 \in Seq(Int)
  BY <1>1, CommandReadBack
<1>4. pl \in Seq(Int) /\ Len(pl) \in UIntOf(UINT32_BYTES)
  BY BytesAreInts DEF VectorOf
<1>5. x3 \in Seq(Int)
  BY <1>1, <1>4, ReadsUint32 DEF Reader
<1>6. x4 \in Seq(Int)
  BY <1>1, <1>4, ChecksumIsBytes
<1>7. ASSUME NEW s \in Seq(Int), NEW u \in Seq(Int), Len(s) # 0
      PROVE  s \o u \in Seq(Int) /\ Len(s \o u) # 0
  <2>1. s \o u \in Seq(Int) /\ Len(s \o u) = Len(s) + Len(u) /\ Len(s) \in Nat /\ Len(u) \in Nat
    BY ConcatProperties
  <2> QED
    BY <1>7, <2>1
<1>8. PICK y : y = x1 \o x2
  OBVIOUS
<1>9. y \in Seq(Int) /\ Len(y) # 0
  <2>1. Len(x1) # 0
    BY <1>2
  <2> QED
    BY <1>2, <1>3, <1>7, <1>8, <2>1
<1>10. PICK z : z = y \o x3
  OBVIOUS
<1>11. z \in Seq(Int) /\ Len(z) # 0
  BY <1>5, <1>7, <1>9, <1>10
<1>12. PICK b : b = z \o x4
  OBVIOUS
<1>13. b \in Seq(Int) /\ Len(b) # 0
  BY <1>6, <1>7, <1>11, <1>12
<1>14. b = HeaderBytes(cmd, pl) /\ send_message(cmd, pl) = b \o pl
  BY <1>1, <1>8, <1>10, <1>12 DEF HeaderBytes, send_message, Padded
<1> QED
  BY <1>4, <1>7, <1>13, <1>14

\* The message is received, or the code throws if the payload is over the limit.
LEMMA MessageFormat ==
  ASSUME NEW c, NEW m \in Messages
  PROVE  /\ Len(m.payload) <= MAX_PAYLOAD_SIZE =>
              Reader(c, send_message(m.command, m.payload), receive_message(c), <<m>>)
         /\ Len(m.payload) > MAX_PAYLOAD_SIZE
              /\ Follows(c, send_message(m.command, m.payload)) => Failed(receive_message(c))
<1>1. /\ m \in [command : Seq(Byte \ {0}), payload : VectorOf(Byte)]
      /\ Len(m.command) <= COMMAND_SIZE
  BY FormatAssumption
<1>2. PICK cmd, pl : cmd = m.command /\ pl = m.payload
  OBVIOUS
<1>3. /\ cmd \in Seq(Byte \ {0}) /\ pl \in VectorOf(Byte) /\ Len(cmd) <= COMMAND_SIZE
      /\ m = [command |-> cmd, payload |-> pl]
  BY <1>1, <1>2
<1>4. pl \in Seq(Int) /\ Len(pl) \in Nat
  BY <1>3, BytesAreInts DEF VectorOf
<1>5. PICK b, header, v, r : /\ b = HeaderBytes(cmd, pl) /\ header = HeaderRead(c)
                             /\ v = HeaderOf(cmd, pl) /\ r = receive_message(c)
  OBVIOUS
<1>6. Reader(c, b, header, <<v>>) /\ b \in Seq(Int) /\ Len(b) \in Nat
  <2>1. Reader(c, b, header, <<v>>)
    BY <1>3, <1>5, MessageHeaderFormat
  <2>2. b \in Seq(Int)
    BY <2>1 DEF Reader
  <2> QED
    BY <2>1, <2>2
<1>7. send_message(cmd, pl) = b \o pl
  BY <1>5 DEF send_message, HeaderBytes, Padded
<1>8. PICK h, p : h = Last(header.vals) /\ p = read_bytes(header, h.length)
  OBVIOUS
<1>9. PICK good : good = (/\ header.ok /\ h.magic = MAGIC_BYTES /\ h.length <= MAX_PAYLOAD_SIZE
                          /\ p.ok /\ h.checksum = message_checksum(Last(p.vals)))
  OBVIOUS
<1>10. r = IF good THEN Joined(p, 2, [command |-> trimmed(h.command), payload |-> Last(p.vals)])
           ELSE [c EXCEPT !.ok = FALSE]
  BY <1>5, <1>8, <1>9 DEF receive_message, HeaderRead
<1>11. /\ v.magic = MAGIC_BYTES /\ v.command = Padded(cmd) /\ v.length = Len(pl)
       /\ v.checksum = message_checksum(pl)
  BY <1>5 DEF HeaderOf
<1>12. ASSUME Reads(c, b) PROVE h = v /\ header = Pushed(c, Len(b), <<v>>) /\ header.ok = TRUE
  <2>1. h = v
    BY <1>6, <1>8, <1>12, LastPushed
  <2>2. header = Pushed(c, Len(b), <<v>>)
    BY <1>6, <1>12 DEF Reader
  <2> QED
    BY <2>1, <2>2 DEF Pushed
<1>13. ASSUME Failed(header) PROVE ~good
  BY <1>9, <1>13 DEF Failed
<1>14. ASSUME ~good, IsRecord(c) PROVE Failed(r)
  BY <1>10, <1>14, ThrownIsFailed
<1>15. ASSUME Follows(c, b \o pl)
       PROVE  IsRecord(c) /\ Follows(c, b) /\ (Reads(c, b) \/ Short(c, b))
  <2>1. IsCursor(c) /\ Follows(c, b)
    BY <1>4, <1>6, <1>15, NextParts DEF Follows
  <2>2. IsRecord(c) /\ c.offset \in Nat /\ Len(c.in) \in Nat
    BY <2>1, CursorFields
  <2> QED
    BY <1>6, <2>1, <2>2 DEF Reads, Short
<1>16. b \o pl \in Seq(Int)
  BY <1>3, <1>5, <1>7, MessageBytes
<1>17. ASSUME Len(pl) > MAX_PAYLOAD_SIZE, Follows(c, b \o pl) PROVE Failed(r)
  <2>1. CASE Reads(c, b)
    <3>1. h.length = Len(pl) /\ MAX_PAYLOAD_SIZE \in Nat
      BY <1>11, <1>12, <2>1, CodecAssumption
    <3>2. ~(h.length <= MAX_PAYLOAD_SIZE)
      BY <1>4, <1>17, <3>1
    <3> QED
      BY <1>9, <1>14, <1>15, <1>17, <3>2
  <2>2. CASE Short(c, b)
    BY <1>6, <1>13, <1>14, <1>15, <1>17, <2>2 DEF Reader
  <2> QED
    BY <1>15, <1>17, <2>1, <2>2
<1>18. ASSUME Len(pl) <= MAX_PAYLOAD_SIZE PROVE Reader(c, b \o pl, r, <<m>>)
  <2>1. PICK q : q = read_bytes(header, Len(pl))
    OBVIOUS
  <2>2. Reader(header, pl, q, <<pl>>)
    BY <1>4, <2>1, ReadsBytes
  <2>3. Reader(c, b \o pl, q, <<v>> \o <<pl>>)
    BY <1>6, <2>2, Chained
  <2>4. ASSUME Reads(c, b) PROVE p = q
    BY <1>8, <1>11, <1>12, <2>1, <2>4
  <2>5. ASSUME Reads(c, b \o pl)
        PROVE  /\ good
               /\ p = q /\ trimmed(h.command) = cmd /\ Last(p.vals) = pl
    <3>1. Follows(c, b \o pl) /\ c.offset + Len(b \o pl) <= Len(c.in)
      BY <2>5 DEF Reads
    <3>2. Reads(c, b)
      <4>1. Len(b \o pl) = Len(b) + Len(pl)
        BY <1>4, <1>6, ConcatProperties
      <4>2. c.offset \in Nat /\ Len(c.in) \in Nat
        BY <3>1, CursorFields DEF Follows
      <4> QED
        BY <1>4, <1>6, <1>15, <3>1, <4>1, <4>2 DEF Reads
    <3>3. h = v /\ header.ok = TRUE /\ p = q
      BY <1>12, <2>4, <3>2
    <3>4. Reads(header, pl)
      <4>1. header = Pushed(c, Len(b), <<v>>) /\ IsSeq(<<v>>)
        BY <1>12, <3>2, Single
      <4>2. Follows(header, pl)
        BY <1>4, <1>6, <3>1, <3>2, <4>1, NextParts
      <4>3. header.offset = c.offset + Len(b) /\ header.in = c.in
        BY <4>1 DEF Pushed
      <4>4. Len(b \o pl) = Len(b) + Len(pl)
        BY <1>4, <1>6, ConcatProperties
      <4>5. c.offset \in Nat /\ Len(c.in) \in Nat
        BY <3>1, CursorFields DEF Follows
      <4>6. header.offset + Len(pl) <= Len(header.in)
        BY <1>4, <1>6, <3>1, <4>3, <4>4, <4>5
      <4> QED
        BY <4>2, <4>6 DEF Reads
    <3>5. Last(q.vals) = pl /\ q.ok = TRUE
      <4>1. Last(q.vals) = pl
        BY <2>2, <3>4, LastPushed
      <4>2. q = Pushed(header, Len(pl), <<pl>>)
        BY <2>2, <3>4 DEF Reader
      <4> QED
        BY <4>1, <4>2 DEF Pushed
    <3>6. good
      BY <1>9, <1>11, <1>18, <3>3, <3>5
    <3>7. trimmed(Padded(cmd)) = cmd
      BY <1>3, CommandReadBack
    <3> QED
      BY <1>11, <3>3, <3>5, <3>6, <3>7
  <2>6. ASSUME Reads(c, b \o pl) PROVE r = Pushed(c, Len(b \o pl), <<m>>)
    <3>1. Len(<<v>> \o <<pl>>) = 2
      <4>1. IsSeq(<<v>>) /\ Len(<<v>>) = 1 /\ IsSeq(<<pl>>) /\ Len(<<pl>>) = 1
        BY Single
      <4>2. PICK s, t : s = <<v>> /\ t = <<pl>>
        OBVIOUS
      <4>3. Len(s \o t) = Len(s) + Len(t)
        BY <4>1, <4>2, Concatenated
      <4> QED
        BY <4>1, <4>2, <4>3
    <3>2. Reader(c, b \o pl, Joined(q, 2, m), <<m>>)
      BY <2>3, <3>1, JoinsValues
    <3>3. r = Joined(q, 2, m)
      BY <1>3, <1>10, <2>5, <2>6
    <3> QED
      BY <2>6, <3>2, <3>3 DEF Reader
  <2>7. ASSUME Short(c, b \o pl) PROVE Failed(r)
    <3>1. Follows(c, b \o pl)
      BY <2>7 DEF Short
    <3>2. CASE Short(c, b)
      BY <1>6, <1>13, <1>14, <1>15, <3>1, <3>2 DEF Reader
    <3>3. CASE Reads(c, b)
      <4>1. p = q /\ Failed(q)
        BY <2>3, <2>4, <2>7, <3>3 DEF Reader
      <4>2. ~good
        BY <1>9, <4>1 DEF Failed
      <4> QED
        BY <1>14, <1>15, <3>1, <4>2
    <3> QED
      BY <1>15, <3>1, <3>2, <3>3
  <2>8. ASSUME Failed(c) PROVE Failed(r)
    BY <1>6, <1>13, <1>14, <2>8 DEF Reader, Failed
  <2>9. IsSeq(<<m>>)
    BY Single
  <2> QED
    BY <1>16, <2>6, <2>7, <2>8, <2>9 DEF Reader
<1> QED
  BY <1>2, <1>5, <1>7, <1>16, <1>17, <1>18
(***************************************************************************)
(* Two messages on a stream.                                               *)
(***************************************************************************)
\* The cursor on a stream that ends earlier.
Reframed(c, s) == [c EXCEPT !.in = s]

LEMMA ReframedFields ==
  ASSUME NEW c, IsRecord(c), NEW s
  PROVE  /\ IsRecord(Reframed(c, s)) /\ Reframed(c, s).in = s
         /\ Reframed(c, s).offset = c.offset /\ Reframed(c, s).ok = c.ok
         /\ Reframed(c, s).vals = c.vals
<1>1. PICK A, B, V : c \in [in : A, offset : B, ok : BOOLEAN, vals : V]
  BY DEF IsRecord
<1>2. c \in [in : A \cup {s}, offset : B, ok : BOOLEAN, vals : V] /\ s \in A \cup {s}
  BY <1>1
<1>3. PICK d : d = Reframed(c, s)
  OBVIOUS
<1>4. d \in [in : A \cup {s}, offset : B, ok : BOOLEAN, vals : V]
      /\ d.in = s /\ d.offset = c.offset /\ d.ok = c.ok /\ d.vals = c.vals
  BY <1>2, <1>3 DEF Reframed
<1> QED
  BY <1>3, <1>4 DEF IsRecord

Sent(m) == send_message(m.command, m.payload)
FirstOf(m, n) == receive_message(Cursor(Sent(m) \o Sent(n)))

LEMMA StreamsKept ==
  ASSUME NEW m \in Messages, NEW n \in Messages
  PROVE  /\ Len(m.payload) > MAX_PAYLOAD_SIZE => Failed(FirstOf(m, n))
         /\ Len(m.payload) <= MAX_PAYLOAD_SIZE =>
              /\ FirstOf(m, n).ok = TRUE /\ Last(FirstOf(m, n).vals) = m
              /\ Len(n.payload) > MAX_PAYLOAD_SIZE => Failed(receive_message(FirstOf(m, n)))
              /\ Len(n.payload) <= MAX_PAYLOAD_SIZE =>
                   /\ receive_message(FirstOf(m, n)).ok = TRUE
                   /\ Last(receive_message(FirstOf(m, n)).vals) = n
                   /\ receive_message(FirstOf(m, n)).offset = Len(Sent(m) \o Sent(n))
              /\ Failed(receive_message(Reframed(FirstOf(m, n), Front(Sent(m) \o Sent(n)))))
<1>0. PICK a, b : a = Sent(m) /\ b = Sent(n)
  OBVIOUS
<1>1. a \in Seq(Int) /\ b \in Seq(Int) /\ Len(b) # 0 /\ Len(a) \in Nat /\ Len(b) \in Nat
  <2>1. ASSUME NEW x \in Messages PROVE Sent(x) \in Seq(Int) /\ Len(Sent(x)) # 0
    <3>1. /\ x \in [command : Seq(Byte \ {0}), payload : VectorOf(Byte)]
          /\ Len(x.command) <= COMMAND_SIZE
      BY FormatAssumption
    <3>2. x.command \in Seq(Byte \ {0}) /\ x.payload \in VectorOf(Byte)
      BY <3>1
    <3> QED
      BY <3>1, <3>2, MessageBytes DEF Sent
  <2>2. a \in Seq(Int) /\ b \in Seq(Int) /\ Len(b) # 0
    BY <1>0, <2>1
  <2> QED
    BY <2>2
<1>2. PICK s : s = a \o b
  OBVIOUS
<1>a. PICK c, first : c = Cursor(s) /\ first = receive_message(c)
  OBVIOUS
<1>3. /\ s \in Seq(Int) /\ Len(s) = Len(a) + Len(b) /\ Len(s) \in Nat
      /\ \A i \in 1 .. Len(a) : s[i] = a[i]
      /\ \A i \in 1 .. Len(b) : s[Len(a) + i] = b[i]
  <2>1. IsSeq(a) /\ IsSeq(b)
    BY <1>1 DEF IsSeq
  <2>2. s \in Seq(Int)
    BY <1>1, <1>2, ConcatProperties
  <2> QED
    BY <1>2, <2>1, <2>2, Concatenated
<1>4. IsCursor(c) /\ c.in = s /\ c.offset = 0 /\ c.vals = <<>>
  BY <1>a, <1>3, CursorOf
<1>5. Follows(c, s)
  <2>1. \A i \in 1 .. Len(s) : 0 + i = i
    BY <1>3
  <2> QED
    BY <1>3, <1>4, <2>1 DEF Follows
<1>6. Reads(c, a)
  <2>1. Follows(c, a)
    BY <1>1, <1>2, <1>5, NextParts
  <2>2. c.offset + Len(a) <= Len(c.in)
    BY <1>1, <1>3, <1>4
  <2> QED
    BY <2>1, <2>2 DEF Reads
<1>7. ASSUME Len(m.payload) > MAX_PAYLOAD_SIZE PROVE Failed(first)
  BY <1>0, <1>a, <1>6, <1>7, MessageFormat DEF Reads, Sent
<1>8. ASSUME Len(m.payload) <= MAX_PAYLOAD_SIZE
      PROVE  /\ first.ok = TRUE /\ Last(first.vals) = m
             /\ Len(n.payload) > MAX_PAYLOAD_SIZE => Failed(receive_message(first))
             /\ Len(n.payload) <= MAX_PAYLOAD_SIZE =>
                  /\ receive_message(first).ok = TRUE
                  /\ Last(receive_message(first).vals) = n
                  /\ receive_message(first).offset = Len(s)
             /\ Failed(receive_message(Reframed(first, Front(s))))
  <2>1. Reader(c, a, first, <<m>>)
    BY <1>0, <1>a, <1>8, MessageFormat DEF Sent
  <2>2. first = Pushed(c, Len(a), <<m>>) /\ IsSeq(<<m>>)
    BY <1>6, <2>1 DEF Reader
  <2>3. Last(first.vals) = m
    BY <1>6, <2>1, LastPushed
  <2>4. IsCursor(first)
    BY <1>1, <1>4, <1>6, <2>2, PushedIsCursor DEF Reads
  <2>5. first.ok = TRUE /\ first.in = s /\ first.offset = Len(a) /\ IsRecord(first)
    <3>1. first.ok = TRUE /\ first.in = c.in /\ first.offset = c.offset + Len(a)
      BY <2>2 DEF Pushed
    <3>2. IsRecord(first)
      BY <2>4, CursorFields
    <3> QED
      BY <1>1, <1>4, <3>1, <3>2
  <2>6. Reads(first, b)
    <3>1. Follows(first, b)
      BY <1>1, <1>2, <1>5, <1>6, <2>2, NextParts
    <3> QED
      BY <1>1, <1>3, <2>5, <3>1 DEF Reads
  <2>7. PICK second : second = receive_message(first)
    OBVIOUS
  <2>8. ASSUME Len(n.payload) > MAX_PAYLOAD_SIZE PROVE Failed(second)
    BY <1>0, <2>6, <2>7, <2>8, MessageFormat DEF Reads, Sent
  <2>9. ASSUME Len(n.payload) <= MAX_PAYLOAD_SIZE
        PROVE  second.ok = TRUE /\ Last(second.vals) = n /\ second.offset = Len(s)
    <3>1. Reader(first, b, second, <<n>>)
      BY <1>0, <2>7, <2>9, MessageFormat DEF Sent
    <3>2. Last(second.vals) = n
      BY <2>6, <3>1, LastPushed
    <3>3. second = Pushed(first, Len(b), <<n>>)
      BY <2>6, <3>1 DEF Reader
    <3>4. second.ok = TRUE /\ second.offset = first.offset + Len(b)
      BY <3>3 DEF Pushed
    <3> QED
      BY <1>3, <2>5, <3>2, <3>4
  <2>10. PICK front, d : front = Front(s) /\ d = Reframed(first, front)
    OBVIOUS
  <2>11. front \in Seq(Int) /\ Len(front) = Len(s) - 1 /\ \A i \in 1 .. Len(s) - 1 : front[i] = s[i]
    <3>1. front = SubSeq(s, 1, Len(s) - 1)
      BY <2>10 DEF Front
    <3>2. Len(s) - 1 \in Nat
      BY <1>1, <1>3
    <3> QED
      BY <1>3, <3>1, <3>2
  <2>12. /\ IsRecord(d) /\ d.in = front /\ d.offset = Len(a) /\ d.ok = TRUE
         /\ d.vals = first.vals
    BY <2>5, <2>10, ReframedFields
  <2>13. IsCursor(d)
    <3>1. IsSeq(first.vals)
      BY <2>4, CursorFields
    <3>2. Len(a) <= Len(s) - 1 /\ Len(s) - 1 \in Nat
      BY <1>1, <1>3
    <3> QED
      BY <1>1, <2>11, <2>12, <3>1, <3>2 DEF IsCursor
  <2>14. Short(d, b)
    <3>1. ASSUME NEW i \in 1 .. Len(b), d.offset + i <= Len(d.in) PROVE d.in[d.offset + i] = b[i]
      <4>1. PICK k : k = Len(a) + i
        OBVIOUS
      <4>2. k \in 1 .. Len(s) - 1
        <5>1. d.offset = Len(a) /\ Len(d.in) = Len(s) - 1 /\ Len(s) \in Nat /\ Len(a) \in Nat
              /\ Len(b) \in Nat
          BY <1>1, <1>3, <2>11, <2>12
        <5>2. Len(a) + i <= Len(s) - 1
          BY <3>1, <5>1
        <5> QED
          BY <4>1, <5>1, <5>2
      <4>3. s[k] = b[i]
        BY <1>3, <4>1
      <4> QED
        BY <2>11, <2>12, <4>1, <4>2, <4>3
    <3>2. d.offset + Len(b) > Len(d.in)
      BY <1>1, <1>3, <2>11, <2>12
    <3> QED
      BY <1>1, <2>13, <3>1, <3>2 DEF Short, Follows
  <2>15. Failed(receive_message(d))
    <3>1. CASE Len(n.payload) > MAX_PAYLOAD_SIZE
      BY <1>0, <2>14, <3>1, MessageFormat DEF Short, Sent
    <3>2. CASE Len(n.payload) <= MAX_PAYLOAD_SIZE
      <4>1. Reader(d, b, receive_message(d), <<n>>)
        BY <1>0, <3>2, MessageFormat DEF Sent
      <4> QED
        BY <2>14, <4>1 DEF Reader
    <3>3. Len(n.payload) \in Nat /\ MAX_PAYLOAD_SIZE \in Nat
      BY FormatAssumption, CodecAssumption DEF VectorOf
    <3> QED
      BY <3>1, <3>2, <3>3
  <2> QED
    BY <2>3, <2>5, <2>7, <2>8, <2>9, <2>10, <2>15
<1>9. first = FirstOf(m, n)
  BY <1>0, <1>2, <1>a DEF FirstOf
<1> QED
  BY <1>0, <1>2, <1>7, <1>8, <1>9

(***************************************************************************)
(* Two messages sent back to back are received as they were sent, and the  *)
(* second receive_message starts where the first has stopped; an oversized *)
(* payload and a stream that ends too early are refused.  The commands may *)
(* fill their field, and the payloads may hold any bytes.                  *)
(***************************************************************************)
THEOREM FramesAreKept == Spec => []FramesKept
<1>1. PickedOK => FramesKept
  <2> SUFFICES ASSUME PickedOK, picked.kind = "messages" PROVE FramesKept
    BY DEF FramesKept
  <2>1. PICK m, n : m = picked.of[1] /\ n = picked.of[2]
    OBVIOUS
  <2>2. m \in Messages /\ n \in Messages
    BY <2>1 DEF PickedOK
  <2>3. PICK stream, first : stream = Sent(m) \o Sent(n) /\ first = FirstOf(m, n)
    OBVIOUS
  <2>4. PICK second, cut : /\ second = receive_message(first)
                           /\ cut = receive_message(Reframed(first, Front(stream)))
    OBVIOUS
  <2>5. /\ Len(m.payload) > MAX_PAYLOAD_SIZE => first.ok = FALSE
        /\ Len(m.payload) <= MAX_PAYLOAD_SIZE =>
             /\ first.ok = TRUE /\ Last(first.vals) = m
             /\ Len(n.payload) > MAX_PAYLOAD_SIZE => second.ok = FALSE
             /\ Len(n.payload) <= MAX_PAYLOAD_SIZE =>
                  second.ok = TRUE /\ Last(second.vals) = n /\ second.offset = Len(stream)
             /\ cut.ok = FALSE
    BY <2>2, <2>3, <2>4, StreamsKept DEF Failed
  <2>6. /\ Len(m.payload) \in Nat /\ Len(n.payload) \in Nat /\ MAX_PAYLOAD_SIZE \in Nat
    BY <2>2, FormatAssumption, CodecAssumption DEF VectorOf
  <2>7. PICK p, q : p = Len(m.payload) /\ q = Len(n.payload)
    OBVIOUS
  <2>8. (p > MAX_PAYLOAD_SIZE <=> ~(p <= MAX_PAYLOAD_SIZE))
        /\ (q > MAX_PAYLOAD_SIZE <=> ~(q <= MAX_PAYLOAD_SIZE))
    BY <2>6, <2>7
  <2>9. first.ok = (p <= MAX_PAYLOAD_SIZE)
    <3>1. (~(p <= MAX_PAYLOAD_SIZE) => first.ok = FALSE)
          /\ (p <= MAX_PAYLOAD_SIZE => first.ok = TRUE)
      BY <2>5, <2>7, <2>8
    <3>2. first.ok \in BOOLEAN
      BY <3>1
    <3>3. p \in Int /\ MAX_PAYLOAD_SIZE \in Int
      BY <2>6, <2>7
    <3> QED
      BY <3>1, <3>2, <3>3
  <2>10. ASSUME p <= MAX_PAYLOAD_SIZE
        PROVE  /\ Last(first.vals) = m /\ second.ok = (q <= MAX_PAYLOAD_SIZE)
               /\ second.ok => Last(second.vals) = n /\ second.offset = Len(stream)
               /\ ~cut.ok
    <3>1. /\ ~(q <= MAX_PAYLOAD_SIZE) => second.ok = FALSE
          /\ q <= MAX_PAYLOAD_SIZE => second.ok = TRUE /\ Last(second.vals) = n
                                       /\ second.offset = Len(stream)
      BY <2>5, <2>7, <2>8, <2>10
    <3>2. Last(first.vals) = m /\ cut.ok = FALSE
      BY <2>5, <2>7, <2>10
    <3>3. second.ok \in BOOLEAN /\ q \in Int /\ MAX_PAYLOAD_SIZE \in Int
      <4>1. second.ok \in BOOLEAN
        BY <3>1
      <4>2. q \in Int /\ MAX_PAYLOAD_SIZE \in Int
        BY <2>6, <2>7
      <4> QED
        BY <4>1, <4>2
    <3>4. second.ok = (q <= MAX_PAYLOAD_SIZE)
      BY <3>1, <3>3
    <3>5. second.ok => Last(second.vals) = n /\ second.offset = Len(stream)
      BY <3>1
    <3> QED
      BY <3>2, <3>4, <3>5
  <2> QED
    BY <2>1, <2>3, <2>4, <2>7, <2>9, <2>10 DEF FramesKept, FirstOf, Sent, Reframed
<1> QED
  BY <1>1, AlwaysPicked, PTL

-----------------------------------------------------------------------------
(***************************************************************************)
(* The script machine.  s stands in p after its first i bytes.             *)
(***************************************************************************)
At(p, i, s) ==
  /\ IsSeq(p) /\ IsSeq(s) /\ i \in Nat /\ Len(p) \in Nat /\ Len(s) \in Nat
  /\ i + Len(s) <= Len(p)
  /\ \A j \in 1 .. Len(s) : p[i + j] = s[j]

LEMMA AtParts ==
  ASSUME NEW p, NEW i, NEW a, NEW b, IsSeq(a), IsSeq(b), At(p, i, a \o b)
  PROVE  At(p, i, a) /\ At(p, i + Len(a), b)
<1>1. PICK s : s = a \o b
  OBVIOUS
<1>2. /\ Len(a) \in Nat /\ Len(b) \in Nat /\ Len(s) = Len(a) + Len(b)
      /\ \A j \in 1 .. Len(a) : s[j] = a[j]
      /\ \A j \in 1 .. Len(b) : s[Len(a) + j] = b[j]
  BY <1>1, Concatenated
<1>3. /\ IsSeq(p) /\ i \in Nat /\ Len(p) \in Nat /\ i + Len(s) <= Len(p)
      /\ \A j \in 1 .. Len(s) : p[i + j] = s[j]
  BY <1>1 DEF At
<1>4. At(p, i, a)
  <2>1. \A j \in 1 .. Len(a) : j \in 1 .. Len(s)
    BY <1>2
  <2>2. i + Len(a) <= Len(p)
    BY <1>2, <1>3
  <2> QED
    BY <1>2, <1>3, <2>1, <2>2 DEF At
<1>5. At(p, i + Len(a), b)
  <2>1. ASSUME NEW j \in 1 .. Len(b) PROVE p[(i + Len(a)) + j] = b[j]
    <3>1. PICK k : k = Len(a) + j
      OBVIOUS
    <3>2. k \in 1 .. Len(s) /\ (i + Len(a)) + j = i + k
      BY <1>2, <1>3, <3>1
    <3>3. p[i + k] = s[k] /\ s[k] = b[j]
      BY <1>2, <1>3, <3>1, <3>2
    <3> QED
      BY <3>2, <3>3
  <2>2. i + Len(a) \in Nat /\ (i + Len(a)) + Len(b) <= Len(p)
    BY <1>2, <1>3
  <2> QED
    BY <1>2, <1>3, <2>1, <2>2 DEF At
<1> QED
  BY <1>4, <1>5

LEMMA AtAll ==
  ASSUME NEW p, IsSeq(p) PROVE At(p, 0, p)
<1>1. Len(p) \in Nat
  BY DEF IsSeq
<1>2. \A j \in 1 .. Len(p) : 0 + j = j
  BY <1>1
<1> QED
  BY <1>1, <1>2 DEF At

LEMMA AtSlice ==
  ASSUME NEW p, NEW i, NEW s, At(p, i, s)
  PROVE  SubSeq(p, i + 1, i + Len(s)) = s
<1>1. PICK S : p \in Seq(S) /\ s \in Seq(S)
  BY SharedElements DEF At
<1>2. /\ i \in Nat /\ Len(p) \in Nat /\ Len(s) \in Nat /\ i + Len(s) <= Len(p)
      /\ \A j \in 1 .. Len(s) : p[i + j] = s[j]
  BY DEF At
<1>3. PICK m, n, q : m = i + 1 /\ n = i + Len(s) /\ q = SubSeq(p, m, n)
  OBVIOUS
<1>4. \A j \in m .. n : p[j] \in S
  <2>1. \A j \in m .. n : j \in 1 .. Len(p)
    BY <1>2, <1>3
  <2> QED
    BY <1>1, <2>1, ElementOfSeq
<1>5. m \in Int /\ n \in Int /\ n - m + 1 = Len(s) /\ (~(m <= n) => Len(s) = 0)
  BY <1>2, <1>3
<1>6. /\ q \in Seq(S) /\ Len(q) = (IF m <= n THEN n - m + 1 ELSE 0)
      /\ \A j \in 1 .. n - m + 1 : q[j] = p[m + j - 1]
  BY <1>3, <1>4, <1>5, SubSeqProperties
<1>7. Len(q) = Len(s)
  BY <1>5, <1>6
<1>8. \A j \in 1 .. Len(s) : m + j - 1 = i + j
  BY <1>2, <1>3
<1>9. \A j \in 1 .. Len(q) : q[j] = s[j]
  BY <1>2, <1>5, <1>6, <1>7, <1>8
<1>10. q = s
  BY <1>1, <1>6, <1>7, <1>9, SeqEqual
<1> QED
  BY <1>3, <1>10

LEMMA AtOne ==
  ASSUME NEW p, NEW i, NEW x, At(p, i, <<x>>)
  PROVE  p[i + 1] = x /\ i + 1 <= Len(p) /\ i \in Nat /\ Len(p) \in Nat
<1>1. PICK s : s = <<x>>
  OBVIOUS
<1>2. Len(s) = 1 /\ s[1] = x
  BY <1>1, Single
<1>3. 1 \in 1 .. Len(s)
  BY <1>2
<1> QED
  BY <1>1, <1>2, <1>3 DEF At

-----------------------------------------------------------------------------
(***************************************************************************)
(* One turn of each kind.                                                  *)
(***************************************************************************)
State(i, stack) == [i |-> i, stack |-> stack, failed |-> FALSE]

LEMMA StateFields ==
  ASSUME NEW i, NEW s
  PROVE  State(i, s).i = i /\ State(i, s).stack = s /\ State(i, s).failed = FALSE
  BY DEF State

\* A machine with another position or another stack.
AtByte(m, j) == [m EXCEPT !.i = j]
WithStack(m, t) == [m EXCEPT !.stack = t]
WithBoth(m, j, t) == [m EXCEPT !.stack = t, !.i = j]

LEMMA StateUpdated ==
  ASSUME NEW i, NEW s, NEW j, NEW t
  PROVE  /\ AtByte(State(i, s), j) = State(j, s)
         /\ WithStack(State(i, s), t) = State(i, t)
         /\ WithBoth(State(i, s), j, t) = State(j, t)
<1>1. PICK m : m = State(i, s)
  OBVIOUS
<1>2. /\ m \in [i : {i, j}, stack : {s, t}, failed : BOOLEAN]
      /\ m.failed = FALSE /\ m.i = i /\ m.stack = s
  BY <1>1 DEF State
<1>3. PICK d, e, f : /\ d = [m EXCEPT !.i = j] /\ e = [m EXCEPT !.stack = t]
                     /\ f = [m EXCEPT !.stack = t, !.i = j]
  OBVIOUS
<1>4. d = State(j, s)
  <2>1. /\ d \in [i : {i, j}, stack : {s, t}, failed : BOOLEAN]
        /\ d.failed = FALSE /\ d.i = j /\ d.stack = s
    BY <1>2, <1>3
  <2> QED
    BY <2>1 DEF State
<1>5. e = State(i, t)
  <2>1. /\ e \in [i : {i, j}, stack : {s, t}, failed : BOOLEAN]
        /\ e.failed = FALSE /\ e.i = i /\ e.stack = t
    BY <1>2, <1>3
  <2> QED
    BY <2>1 DEF State
<1>6. f = State(j, t)
  <2>1. /\ f \in [i : {i, j}, stack : {s, t}, failed : BOOLEAN]
        /\ f.failed = FALSE /\ f.i = j /\ f.stack = t
    BY <1>2, <1>3
  <2> QED
    BY <2>1 DEF State
<1> QED
  BY <1>1, <1>3, <1>4, <1>5, <1>6 DEF AtByte, WithStack, WithBoth

LEMMA Restacked ==
  ASSUME NEW i, NEW s, NEW t PROVE WithStack(State(i, s), t) = State(i, t)
<1>1. \A j : WithStack(State(i, s), t) = State(i, t)
  <2> TAKE j
  <2>1. AtByte(State(i, s), j) = State(j, s) /\ WithStack(State(i, s), t) = State(i, t)
    BY StateUpdated
  <2> QED
    BY <2>1
<1> QED
  BY <1>1

LEMMA StateFails ==
  ASSUME NEW i, NEW s PROVE Fails(State(i, s)).failed = TRUE
  BY DEF State, Fails

LEMMA TopOf ==
  ASSUME NEW s, IsSeq(s), NEW x
  PROVE  /\ IsSeq(s \o <<x>>) /\ s \o <<x>> # <<>> /\ Last(s \o <<x>>) = x
         /\ Len(s \o <<x>>) = Len(s) + 1 /\ Len(s) \in Nat
         /\ SubSeq(s \o <<x>>, 1, Len(s \o <<x>>) - 1) = s
         /\ SubSeq(s \o <<x>>, 1, Len(s \o <<x>>) - 0) = s \o <<x>>
<1>1. PICK u : u = s \o <<x>>
  OBVIOUS
<1>2. IsSeq(u) /\ Len(u) = Len(s) + 1 /\ u[Len(s) + 1] = x
  BY <1>1, Extended
<1>3. Len(s) \in Nat
  BY DEF IsSeq
<1>4. u # <<>> /\ Last(u) = x
  <2>1. Len(u) # 0
    BY <1>2, <1>3
  <2> QED
    BY <1>2, <2>1, EmptyIsSeq DEF Last
<1>5. SubSeq(u, 1, Len(u) - 1) = s
  <2>1. IsSeq(<<x>>) /\ Len(<<x>>) = 1
    BY Single
  <2>2. SubSeq(s \o <<x>>, 1, Len(s \o <<x>>) - Len(<<x>>)) = s
    BY <2>1, LastPart
  <2> QED
    BY <1>1, <2>1, <2>2
<1>6. SubSeq(u, 1, Len(u) - 0) = u
  <2>1. PICK S : u \in Seq(S)
    BY <1>2 DEF IsSeq
  <2>2. Len(u) - 0 = Len(u)
    BY <1>2, <1>3
  <2> QED
    BY <2>1, <2>2, SubSeqFull
<1> QED
  BY <1>1, <1>2, <1>3, <1>4, <1>5, <1>6

Turn(m, p, sighash) ==
  IF m.failed \/ m.i > Len(p) THEN m ELSE Executed(m, p, sighash)

LEMMA TurnOf ==
  ASSUME NEW p, NEW h, NEW i, NEW s, At(p, i, <<p[i + 1]>>)
  PROVE  Turn(State(i + 1, s), p, h) =
           CASE p[i + 1] \in 1 .. 75      -> Push(State(i + 2, s), p, p[i + 1])
             [] p[i + 1] = OP_DUP         -> Dup(State(i + 2, s))
             [] p[i + 1] = OP_HASH160     -> Hash160(State(i + 2, s))
             [] p[i + 1] = OP_EQUALVERIFY -> EqualVerify(State(i + 2, s))
             [] p[i + 1] = OP_CHECKSIG    -> CheckSig(State(i + 2, s), h)
             [] OTHER                     -> Fails(State(i + 1, s))
<1>1. i \in Nat /\ Len(p) \in Nat /\ i + 1 <= Len(p)
  BY AtOne
<1>2. PICK m : m = State(i + 1, s)
  OBVIOUS
<1>3. m.i = i + 1 /\ m.failed = FALSE /\ [m EXCEPT !.i = @ + 1] = State((i + 1) + 1, s)
  <2>1. m.i = i + 1 /\ m.failed = FALSE
    BY <1>2, StateFields
  <2>2. PICK k : k = (i + 1) + 1
    OBVIOUS
  <2>3. AtByte(m, k) = State(k, s)
    BY <1>2, StateUpdated
  <2> QED
    BY <2>1, <2>2, <2>3 DEF AtByte
<1>4. (i + 1) + 1 = i + 2 /\ ~(i + 1 > Len(p))
  BY <1>1
<1>5. Turn(m, p, h) = Executed(m, p, h)
  BY <1>3, <1>4 DEF Turn
<1> QED
  BY <1>2, <1>3, <1>4, <1>5 DEF Executed

LEMMA PushTurn ==
  ASSUME NEW p, NEW h, NEW i, NEW s, IsSeq(s), NEW v, IsSeq(v), Len(v) \in 1 .. 75,
         At(p, i, <<Len(v)>>), At(p, i + 1, v)
  PROVE  Turn(State(i + 1, s), p, h) = State(i + 2 + Len(v), s \o <<v>>)
<1>1. PICK n : n = Len(v)
  OBVIOUS
<1>2. /\ i \in Nat /\ Len(p) \in Nat /\ p[i + 1] = n /\ n \in Nat /\ n \in 1 .. 75
      /\ (i + 1) + n <= Len(p)
  <2>1. i \in Nat /\ Len(p) \in Nat /\ p[i + 1] = n
    BY <1>1, AtOne
  <2>2. (i + 1) + n <= Len(p)
    BY <1>1 DEF At
  <2>3. n \in 1 .. 75
    BY <1>1
  <2>4. n \in Nat
    BY <2>3
  <2> QED
    BY <2>1, <2>2, <2>3, <2>4
<1>3. SubSeq(p, (i + 1) + 1, (i + 1) + n) = v
  BY <1>1, AtSlice
<1>4. At(p, i, <<p[i + 1]>>)
  BY <1>1, <1>2
<1>5. n # OP_DUP /\ n # OP_HASH160 /\ n # OP_EQUALVERIFY /\ n # OP_CHECKSIG
  BY <1>2 DEF OP_DUP, OP_HASH160, OP_EQUALVERIFY, OP_CHECKSIG
<1>6. Turn(State(i + 1, s), p, h) = Push(State(i + 2, s), p, n)
  BY <1>2, <1>4, <1>5, TurnOf
<1>7. PICK m : m = State(i + 2, s)
  OBVIOUS
<1>8. m.i = i + 2 /\ m.stack = s /\ m.failed = FALSE
  BY <1>7, StateFields
<1>9. (i + 2) + n - 1 = (i + 1) + n /\ (i + 1) + 1 = i + 2 /\ ~((i + 2) + n - 1 > Len(p))
  BY <1>2
<1>10. PICK u, k : u = s \o <<v>> /\ k = (i + 2) + n
  OBVIOUS
<1>11. Append(s, v) = u
  BY <1>10, Appended
<1>12. Push(m, p, n) = [m EXCEPT !.stack = u, !.i = k]
  BY <1>3, <1>8, <1>9, <1>10, <1>11 DEF Push
<1>13. WithBoth(m, k, u) = State(k, u)
  BY <1>7, StateUpdated
<1> QED
  BY <1>1, <1>6, <1>7, <1>10, <1>12, <1>13 DEF WithBoth

\* An empty push is no opcode.
LEMMA NothingTurn ==
  ASSUME NEW p, NEW h, NEW i, NEW s, NEW op, At(p, i, <<op>>), op = 0
  PROVE  Turn(State(i + 1, s), p, h) = Fails(State(i + 1, s))
<1>1. p[i + 1] = 0
  BY AtOne
<1>2. At(p, i, <<p[i + 1]>>)
  BY <1>1
<1>3. /\ 0 \notin 1 .. 75 /\ 0 # OP_DUP /\ 0 # OP_HASH160 /\ 0 # OP_EQUALVERIFY
      /\ 0 # OP_CHECKSIG
  BY DEF OP_DUP, OP_HASH160, OP_EQUALVERIFY, OP_CHECKSIG
<1> QED
  BY <1>1, <1>2, <1>3, TurnOf

LEMMA DupTurn ==
  ASSUME NEW p, NEW h, NEW i, NEW s, IsSeq(s), NEW x, At(p, i, <<OP_DUP>>)
  PROVE  Turn(State(i + 1, s \o <<x>>), p, h) = State(i + 2, s \o <<x>> \o <<x>>)
<1>1. p[i + 1] = OP_DUP
  BY AtOne
<1>2. At(p, i, <<p[i + 1]>>)
  BY <1>1
<1>3. /\ OP_DUP \notin 1 .. 75 /\ OP_DUP # OP_HASH160 /\ OP_DUP # OP_EQUALVERIFY
      /\ OP_DUP # OP_CHECKSIG
  BY DEF OP_DUP, OP_HASH160, OP_EQUALVERIFY, OP_CHECKSIG
<1>4. PICK u, m : u = s \o <<x>> /\ m = State(i + 2, u)
  OBVIOUS
<1>5. Turn(State(i + 1, u), p, h) = Dup(m)
  BY <1>1, <1>2, <1>3, <1>4, TurnOf
<1>6. /\ IsSeq(u) /\ u # <<>> /\ Last(u) = x /\ Len(u) \in Nat
      /\ SubSeq(u, 1, Len(u) - 0) = u
  <2>1. IsSeq(u) /\ u # <<>> /\ Last(u) = x /\ SubSeq(u, 1, Len(u) - 0) = u
    BY <1>4, TopOf
  <2> QED
    BY <2>1 DEF IsSeq
<1>7. m.stack = u /\ ~(Len(u) < 0)
  <2>1. m.stack = u
    BY <1>4, StateFields
  <2>2. ~(Len(u) < 0)
    BY <1>6
  <2> QED
    BY <2>1, <2>2
<1>8. PICK v : v = u \o <<x>>
  OBVIOUS
<1>9. Dup(m) = [m EXCEPT !.stack = v]
  BY <1>6, <1>7, <1>8 DEF Dup, Replaces
<1>10. WithStack(m, v) = State(i + 2, v)
  BY <1>4, Restacked
<1> QED
  BY <1>4, <1>5, <1>8, <1>9, <1>10 DEF WithStack

LEMMA HashTurn ==
  ASSUME NEW p, NEW h, NEW i, NEW s, IsSeq(s), NEW x, At(p, i, <<OP_HASH160>>)
  PROVE  Turn(State(i + 1, s \o <<x>>), p, h) = State(i + 2, s \o <<hash160(x)>>)
<1>1. p[i + 1] = OP_HASH160
  BY AtOne
<1>2. At(p, i, <<p[i + 1]>>)
  BY <1>1
<1>3. /\ OP_HASH160 \notin 1 .. 75 /\ OP_DUP # OP_HASH160 /\ OP_HASH160 # OP_EQUALVERIFY
      /\ OP_HASH160 # OP_CHECKSIG
  BY DEF OP_DUP, OP_HASH160, OP_EQUALVERIFY, OP_CHECKSIG
<1>4. PICK u, m : u = s \o <<x>> /\ m = State(i + 2, u)
  OBVIOUS
<1>5. Turn(State(i + 1, u), p, h) = Hash160(m)
  BY <1>1, <1>2, <1>3, <1>4, TurnOf
<1>6. /\ u # <<>> /\ Last(u) = x /\ Len(u) = Len(s) + 1 /\ Len(s) \in Nat
      /\ SubSeq(u, 1, Len(u) - 1) = s
  BY <1>4, TopOf
<1>7. m.stack = u /\ ~(Len(u) < 1)
  <2>1. m.stack = u
    BY <1>4, StateFields
  <2>2. ~(Len(u) < 1)
    BY <1>6
  <2> QED
    BY <2>1, <2>2
<1>8. PICK v : v = s \o <<hash160(x)>>
  OBVIOUS
<1>9. Hash160(m) = [m EXCEPT !.stack = v]
  BY <1>6, <1>7, <1>8 DEF Hash160, Replaces
<1>10. WithStack(m, v) = State(i + 2, v)
  BY <1>4, Restacked
<1> QED
  BY <1>4, <1>5, <1>8, <1>9, <1>10 DEF WithStack

LEMMA TwoOf ==
  ASSUME NEW s, IsSeq(s), NEW x, NEW y
  PROVE  /\ Len(s \o <<x>> \o <<y>>) = Len(s) + 2 /\ Len(s) \in Nat
         /\ (s \o <<x>> \o <<y>>)[Len(s \o <<x>> \o <<y>>)] = y
         /\ (s \o <<x>> \o <<y>>)[Len(s \o <<x>> \o <<y>>) - 1] = x
         /\ SubSeq(s \o <<x>> \o <<y>>, 1, Len(s \o <<x>> \o <<y>>) - 2) = s
<1>0. PICK u : u = s \o <<x>> \o <<y>>
  OBVIOUS
<1>1. PICK t : t = s \o <<x>>
  OBVIOUS
<1>2. IsSeq(t) /\ Len(t) = Len(s) + 1 /\ Len(s) \in Nat /\ t[Len(s) + 1] = x
  BY <1>1, TopOf, Extended
<1>3. IsSeq(u) /\ Len(u) = Len(t) + 1 /\ u[Len(t) + 1] = y
      /\ \A j \in 1 .. Len(t) : u[j] = t[j]
  <2>1. IsSeq(t)
    BY <1>2
  <2>2. /\ IsSeq(t \o <<y>>) /\ Len(t \o <<y>>) = Len(t) + 1
        /\ (t \o <<y>>)[Len(t) + 1] = y
        /\ \A j \in 1 .. Len(t) : (t \o <<y>>)[j] = t[j]
    BY <2>1, Extended
  <2> QED
    BY <1>0, <1>1, <2>2
<1>4. Len(u) = Len(s) + 2 /\ u[Len(u)] = y /\ u[Len(u) - 1] = x
  <2>1. Len(u) = Len(s) + 2 /\ Len(u) - 1 = Len(s) + 1 /\ Len(s) + 1 \in 1 .. Len(t)
    BY <1>2, <1>3
  <2> QED
    BY <1>2, <1>3, <2>1
<1>5. SubSeq(u, 1, Len(u) - 2) = s
  <2>1. PICK w : w = <<x>> \o <<y>>
    OBVIOUS
  <2>2. IsSeq(w) /\ Len(w) = 2
    <3>1. PICK a, b : a = <<x>> /\ b = <<y>>
      OBVIOUS
    <3>2. IsSeq(a) /\ Len(a) = 1 /\ IsSeq(b) /\ Len(b) = 1
      BY <3>1, Single
    <3>3. IsSeq(a) /\ IsSeq(b)
      BY <3>2
    <3>4. IsSeq(a \o b) /\ Len(a \o b) = Len(a) + Len(b)
      BY <3>3, Concatenated
    <3>5. w = a \o b
      BY <2>1, <3>1
    <3> QED
      BY <3>2, <3>4, <3>5
  <2>3. u = s \o w
    <3>1. PICK a, b : a = <<x>> /\ b = <<y>>
      OBVIOUS
    <3>2. IsSeq(a) /\ IsSeq(b)
      BY <3>1, Single
    <3>3. (s \o a) \o b = s \o (a \o b)
      BY <3>2, Associative
    <3> QED
      BY <1>0, <2>1, <3>1, <3>3
  <2>4. SubSeq(s \o w, 1, Len(s \o w) - Len(w)) = s
    BY <2>2, LastPart
  <2> QED
    BY <2>2, <2>3, <2>4
<1> QED
  BY <1>0, <1>2, <1>4, <1>5

LEMMA EqualTurn ==
  ASSUME NEW p, NEW h, NEW i, NEW s, IsSeq(s), NEW x, NEW y, At(p, i, <<OP_EQUALVERIFY>>)
  PROVE  Turn(State(i + 1, s \o <<x>> \o <<y>>), p, h) =
           IF x = y THEN State(i + 2, s) ELSE Fails(State(i + 2, s \o <<x>> \o <<y>>))
<1>1. p[i + 1] = OP_EQUALVERIFY
  BY AtOne
<1>2. At(p, i, <<p[i + 1]>>)
  BY <1>1
<1>3. /\ OP_EQUALVERIFY \notin 1 .. 75 /\ OP_DUP # OP_EQUALVERIFY
      /\ OP_HASH160 # OP_EQUALVERIFY /\ OP_EQUALVERIFY # OP_CHECKSIG
  BY DEF OP_DUP, OP_HASH160, OP_EQUALVERIFY, OP_CHECKSIG
<1>4. PICK u, m : u = s \o <<x>> \o <<y>> /\ m = State(i + 2, u)
  OBVIOUS
<1>5. Turn(State(i + 1, u), p, h) = EqualVerify(m)
  BY <1>1, <1>2, <1>3, <1>4, TurnOf
<1>6. /\ Len(u) = Len(s) + 2 /\ Len(s) \in Nat /\ u[Len(u)] = y /\ u[Len(u) - 1] = x
      /\ SubSeq(u, 1, Len(u) - 2) = s
  <2>1. /\ Len(s \o <<x>> \o <<y>>) = Len(s) + 2 /\ Len(s) \in Nat
        /\ (s \o <<x>> \o <<y>>)[Len(s \o <<x>> \o <<y>>)] = y
        /\ (s \o <<x>> \o <<y>>)[Len(s \o <<x>> \o <<y>>) - 1] = x
        /\ SubSeq(s \o <<x>> \o <<y>>, 1, Len(s \o <<x>> \o <<y>>) - 2) = s
    BY TwoOf
  <2>2. u = s \o <<x>> \o <<y>>
    BY <1>4
  <2> QED
    BY <2>1, <2>2
<1>7. m.stack = u /\ Len(u) >= 2 /\ ~(Len(u) < 2) /\ s \o <<>> = s
  <2>1. m.stack = u
    BY <1>4, StateFields
  <2>2. Len(u) >= 2 /\ ~(Len(u) < 2)
    BY <1>6
  <2>3. s \o <<>> = s
    BY WithEmpty
  <2> QED
    BY <2>1, <2>2, <2>3
<1>8. EqualVerify(m) = IF x = y THEN [m EXCEPT !.stack = s] ELSE Fails(m)
  BY <1>6, <1>7 DEF EqualVerify, Replaces
<1>9. WithStack(m, s) = State(i + 2, s)
  BY <1>4, Restacked
<1> QED
  BY <1>4, <1>5, <1>8, <1>9 DEF WithStack

\* What OP_CHECKSIG leaves.
Verdict(sig, pubkey, h) == IF verify_raw_signature(sig, pubkey, h) THEN <<1>> ELSE <<>>

LEMMA CheckTurn ==
  ASSUME NEW p, NEW h, NEW i, NEW s, IsSeq(s), NEW x, NEW y, At(p, i, <<OP_CHECKSIG>>)
  PROVE  Turn(State(i + 1, s \o <<x>> \o <<y>>), p, h) =
           State(i + 2, s \o <<Verdict(x, y, h)>>)
<1>1. p[i + 1] = OP_CHECKSIG
  BY AtOne
<1>2. At(p, i, <<p[i + 1]>>)
  BY <1>1
<1>3. /\ OP_CHECKSIG \notin 1 .. 75 /\ OP_DUP # OP_CHECKSIG
      /\ OP_HASH160 # OP_CHECKSIG /\ OP_EQUALVERIFY # OP_CHECKSIG
  BY DEF OP_DUP, OP_HASH160, OP_EQUALVERIFY, OP_CHECKSIG
<1>4. PICK u, m : u = s \o <<x>> \o <<y>> /\ m = State(i + 2, u)
  OBVIOUS
<1>5. Turn(State(i + 1, u), p, h) = CheckSig(m, h)
  BY <1>1, <1>2, <1>3, <1>4, TurnOf
<1>6. /\ Len(u) = Len(s) + 2 /\ Len(s) \in Nat /\ u[Len(u)] = y /\ u[Len(u) - 1] = x
      /\ SubSeq(u, 1, Len(u) - 2) = s
  <2>1. /\ Len(s \o <<x>> \o <<y>>) = Len(s) + 2 /\ Len(s) \in Nat
        /\ (s \o <<x>> \o <<y>>)[Len(s \o <<x>> \o <<y>>)] = y
        /\ (s \o <<x>> \o <<y>>)[Len(s \o <<x>> \o <<y>>) - 1] = x
        /\ SubSeq(s \o <<x>> \o <<y>>, 1, Len(s \o <<x>> \o <<y>>) - 2) = s
    BY TwoOf
  <2>2. u = s \o <<x>> \o <<y>>
    BY <1>4
  <2> QED
    BY <2>1, <2>2
<1>7. m.stack = u /\ ~(Len(u) < 2)
  <2>1. m.stack = u
    BY <1>4, StateFields
  <2>2. ~(Len(u) < 2)
    BY <1>6
  <2> QED
    BY <2>1, <2>2
<1>8. PICK r : r = Verdict(x, y, h)
  OBVIOUS
<1>9. PICK v : v = s \o <<r>>
  OBVIOUS
<1>10. CheckSig(m, h) = [m EXCEPT !.stack = v]
  BY <1>6, <1>7, <1>8, <1>9 DEF CheckSig, Replaces, Verdict
<1>11. WithStack(m, v) = State(i + 2, v)
  BY <1>4, Restacked
<1> QED
  BY <1>4, <1>5, <1>8, <1>9, <1>10, <1>11 DEF WithStack

-----------------------------------------------------------------------------
(***************************************************************************)
(* The loop: its turns one after the other, until one changes nothing.     *)
(***************************************************************************)
IsRun(f, m, p, h, n) == f = [k \in 0 .. n |-> IF k = 0 THEN m ELSE Turn(f[k - 1], p, h)]

LEMMA RunExists ==
  ASSUME NEW m, NEW p, NEW h
  PROVE  \A n \in Nat : \E f : IsRun(f, m, p, h, n)
<1> DEFINE T == {n \in Nat : \E f : IsRun(f, m, p, h, n)}
<1>1. 0 \in T
  <2> DEFINE f == [k \in 0 .. 0 |-> m]
  <2>1. IsRun(f, m, p, h, 0)
    BY DEF IsRun
  <2> HIDE DEF f
  <2> QED
    BY <2>1
<1>2. ASSUME NEW n \in Nat, n \in T PROVE n + 1 \in T
  <2>1. PICK f : IsRun(f, m, p, h, n)
    BY <1>2
  <2> DEFINE g == [k \in 0 .. n + 1 |-> IF k = 0 THEN m ELSE Turn(f[k - 1], p, h)]
  <2>2. \A k \in 0 .. n : g[k] = f[k]
    <3> TAKE k \in 0 .. n
    <3>1. k \in 0 .. n + 1
      OBVIOUS
    <3>2. g[k] = IF k = 0 THEN m ELSE Turn(f[k - 1], p, h)
      BY <3>1
    <3>3. f[k] = IF k = 0 THEN m ELSE Turn(f[k - 1], p, h)
      <4> HIDE DEF g
      <4> QED
        BY <2>1 DEF IsRun
    <3> HIDE DEF g
    <3> QED
      BY <3>2, <3>3
  <2>3. \A k \in 0 .. n + 1 : k # 0 => k - 1 \in 0 .. n
    OBVIOUS
  <2>4. IsRun(g, m, p, h, n + 1)
    BY <2>2, <2>3 DEF IsRun
  <2> HIDE DEF g
  <2> QED
    BY <2>4
<1> HIDE DEF T
<1>3. Nat \subseteq T
  BY <1>1, <1>2, InductionSet
<1> QED
  BY <1>3 DEF T

Turns(f, p, h) == \A k \in 1 .. Len(p) : f[k] = Turn(f[k - 1], p, h)

LEMMA Halted ==
  ASSUME NEW f, NEW p, NEW h, NEW n \in Nat, \A k \in 1 .. n : f[k] = Turn(f[k - 1], p, h),
         NEW j \in 0 .. n, Turn(f[j], p, h) = f[j]
  PROVE  f[n] = f[j]
<1> DEFINE T == {k \in Nat : j + k <= n => f[j + k] = f[j]}
<1>1. 0 \in T
  <2>1. j + 0 = j
    OBVIOUS
  <2> QED
    BY <2>1
<1>2. ASSUME NEW k \in Nat, k \in T PROVE k + 1 \in T
  <2>1. CASE j + (k + 1) <= n
    <3>1. PICK i : i = j + (k + 1)
      OBVIOUS
    <3>2. i \in 1 .. n /\ i - 1 = j + k /\ j + k <= n
      BY <2>1, <3>1
    <3>3. f[i] = Turn(f[i - 1], p, h) /\ f[i - 1] = f[j]
      BY <1>2, <3>2
    <3> QED
      BY <3>1, <3>3
  <2> QED
    BY <2>1
<1> HIDE DEF T
<1>3. PICK k \in Nat : j + k = n
  <2>1. n - j \in Nat /\ j + (n - j) = n
    OBVIOUS
  <2> QED
    BY <2>1
<1>4. k \in T
  BY <1>1, <1>2, InductionSet
<1> QED
  BY <1>3, <1>4 DEF T

\* What the result of the program depends on, once a turn changes nothing.
LEMMA EndsAs ==
  ASSUME NEW f, NEW p, IsSeq(p), NEW h, Turns(f, p, h),
         NEW j \in 0 .. Len(p), f[j].failed = TRUE \/ f[j].i > Len(p)
  PROVE  f[Len(p)] = f[j]
<1>1. Turn(f[j], p, h) = f[j]
  BY DEF Turn
<1>2. Len(p) \in Nat
  BY DEF IsSeq
<1>3. \A k \in 1 .. Len(p) : f[k] = Turn(f[k - 1], p, h)
  BY DEF Turns
<1> QED
  BY <1>1, <1>2, <1>3, Halted

\* The machine at any turn that has stopped it.
EndsIn(f, p, r) == \A j \in 0 .. Len(p) : f[j].failed = TRUE \/ f[j].i > Len(p) => r = f[j]

LEMMA RunTurns ==
  ASSUME NEW m, NEW p, IsSeq(p), NEW h
  PROVE  \E f : f[0] = m /\ Turns(f, p, h) /\ EndsIn(f, p, Run(m, p, h))
<1>1. Len(p) \in Nat
  BY DEF IsSeq
<1> DEFINE IsF(f) == f = [k \in 0 .. Len(p) |-> IF k = 0 THEN m ELSE Turn(f[k - 1], p, h)]
           f == CHOOSE f : IsF(f)
           Stopped(n) == f[n].failed \/ f[n].i > Len(p)
           last == CHOOSE n \in 0 .. Len(p) : Stopped(n)
<1>2. Run(m, p, h) = f[last]
  BY DEF Run, Turn
<1>3. \E g : IsF(g)
  <2>1. PICK g : IsRun(g, m, p, h, Len(p))
    BY <1>1, RunExists
  <2>2. IsF(g)
    BY <2>1 DEF IsRun
  <2> QED
    BY <2>2
<1>4. IsF(f)
  BY <1>3
<1>5. f = [k \in 0 .. Len(p) |-> IF k = 0 THEN m ELSE Turn(f[k - 1], p, h)]
  BY <1>4
<1> HIDE DEF f, IsF
<1>6. 0 \in 0 .. Len(p) /\ \A k \in 1 .. Len(p) : k \in 0 .. Len(p) /\ k # 0
  BY <1>1
<1>7. f[0] = m /\ \A k \in 1 .. Len(p) : f[k] = Turn(f[k - 1], p, h)
  BY <1>5, <1>6
<1>8. Turns(f, p, h)
  BY <1>7 DEF Turns
<1>9. ASSUME NEW j \in 0 .. Len(p), f[j].failed = TRUE \/ f[j].i > Len(p)
      PROVE  f[last] = f[j]
  <2>1. Stopped(j)
    BY <1>9
  <2>2. last \in 0 .. Len(p) /\ Stopped(last)
    BY <2>1
  <2> HIDE DEF last
  <2>3. Turn(f[last], p, h) = f[last]
    BY <2>2 DEF Turn
  <2>4. f[Len(p)] = f[last]
    BY <1>1, <1>7, <2>2, <2>3, Halted
  <2>5. f[Len(p)] = f[j]
    BY <1>8, <1>9, EndsAs
  <2> QED
    BY <2>4, <2>5
<1>10. EndsIn(f, p, Run(m, p, h))
  BY <1>2, <1>9 DEF EndsIn
<1> QED
  BY <1>7, <1>8, <1>10

LEMMA AtTuples ==
  ASSUME NEW p, NEW i, NEW x, NEW y
  PROVE  /\ At(p, i, <<x, y>>) => At(p, i, <<x>>) /\ At(p, i + 1, <<y>>)
         /\ \A z : At(p, i, <<x, y, z>>) =>
                     At(p, i, <<x>>) /\ At(p, i + 1, <<y>>) /\ At(p, i + 2, <<z>>)
<1>1. ASSUME NEW s, IsSeq(s), At(p, i, s), NEW j \in Nat, j < Len(s), NEW v, s[j + 1] = v
      PROVE  At(p, i + j, <<v>>)
  <2>1. /\ IsSeq(p) /\ i \in Nat /\ Len(p) \in Nat /\ Len(s) \in Nat /\ i + Len(s) <= Len(p)
        /\ \A k \in 1 .. Len(s) : p[i + k] = s[k]
    BY <1>1 DEF At
  <2>2. PICK t : t = <<v>>
    OBVIOUS
  <2>3. IsSeq(t) /\ Len(t) = 1 /\ t[1] = v
    BY <2>2, Single
  <2>4. j + 1 \in 1 .. Len(s) /\ i + j \in Nat /\ (i + j) + 1 = i + (j + 1) /\ (i + j) + 1 <= Len(p)
    BY <1>1, <2>1
  <2>5. p[(i + j) + 1] = t[1]
    BY <1>1, <2>1, <2>3, <2>4
  <2>6. \A k \in 1 .. Len(t) : k = 1
    BY <2>3
  <2>7. At(p, i + j, t)
    BY <2>1, <2>3, <2>4, <2>5, <2>6 DEF At
  <2> QED
    BY <2>2, <2>7
<1>2. ASSUME At(p, i, <<x, y>>) PROVE At(p, i, <<x>>) /\ At(p, i + 1, <<y>>)
  <2>1. PICK s : s = <<x, y>>
    OBVIOUS
  <2>2. s \in Seq({x, y}) /\ Len(s) = 2 /\ s[1] = x /\ s[2] = y
    BY <2>1
  <2>3. IsSeq(s) /\ At(p, i, s) /\ 0 < Len(s) /\ 1 < Len(s) /\ s[0 + 1] = x /\ s[1 + 1] = y
    <3>1. IsSeq(s)
      BY <2>2 DEF IsSeq
    <3>2. At(p, i, s)
      BY <1>2, <2>1
    <3>3. 0 < Len(s) /\ 1 < Len(s) /\ s[0 + 1] = x /\ s[1 + 1] = y
      BY <2>2
    <3> QED
      BY <3>1, <3>2, <3>3
  <2>4. At(p, i + 0, <<x>>) /\ At(p, i + 1, <<y>>)
    BY <1>1, <2>3
  <2>5. i \in Nat
    BY <2>3 DEF At
  <2>6. i + 0 = i
    BY <2>5
  <2> QED
    BY <2>4, <2>6
<1>3. ASSUME NEW z, At(p, i, <<x, y, z>>)
      PROVE  At(p, i, <<x>>) /\ At(p, i + 1, <<y>>) /\ At(p, i + 2, <<z>>)
  <2>1. PICK s : s = <<x, y, z>>
    OBVIOUS
  <2>2. s \in Seq({x, y, z}) /\ Len(s) = 3 /\ s[1] = x /\ s[2] = y /\ s[3] = z
    BY <2>1
  <2>3. /\ IsSeq(s) /\ At(p, i, s) /\ 0 < Len(s) /\ 1 < Len(s) /\ 2 < Len(s)
        /\ s[0 + 1] = x /\ s[1 + 1] = y /\ s[2 + 1] = z
    <3>1. IsSeq(s)
      BY <2>2 DEF IsSeq
    <3>2. At(p, i, s)
      BY <1>3, <2>1
    <3>3. /\ 0 < Len(s) /\ 1 < Len(s) /\ 2 < Len(s)
          /\ s[0 + 1] = x /\ s[1 + 1] = y /\ s[2 + 1] = z
      BY <2>2
    <3> QED
      BY <3>1, <3>2, <3>3
  <2>4. At(p, i + 0, <<x>>) /\ At(p, i + 1, <<y>>) /\ At(p, i + 2, <<z>>)
    BY <1>1, <2>3
  <2>5. i \in Nat
    BY <2>3 DEF At
  <2>6. i + 0 = i
    BY <2>5
  <2> QED
    BY <2>4, <2>6
<1> QED
  BY <1>2, <1>3
(***************************************************************************)
(* Where the parts of a spend are in its program.                          *)
(***************************************************************************)
Program(sig, pubkey, address) ==
  build_script_sig(sig, pubkey) \o build_p2pkh_script_pubkey(address)

PartsOf(p, n, k, sig, pubkey, address) ==
  /\ p = Program(sig, pubkey, address) /\ n = Len(sig) /\ k = Len(pubkey)
  /\ IsSeq(p) /\ Len(p) = n + k + 27 /\ n \in Nat /\ k \in Nat
  /\ At(p, 0, <<n>>) /\ At(p, 1, sig)
  /\ At(p, n + 1, <<k>>) /\ At(p, n + 2, pubkey)
  /\ At(p, n + k + 2, <<OP_DUP>>) /\ At(p, n + k + 3, <<OP_HASH160>>)
  /\ At(p, n + k + 4, <<20>>) /\ At(p, n + k + 5, address)
  /\ At(p, n + k + 25, <<OP_EQUALVERIFY>>) /\ At(p, n + k + 26, <<OP_CHECKSIG>>)

LEMMA ProgramParts ==
  ASSUME NEW sig, IsSeq(sig), NEW pubkey, IsSeq(pubkey), NEW address, IsSeq(address),
         Len(address) = 20
  PROVE  \E p, n, k : PartsOf(p, n, k, sig, pubkey, address)
<1>1. PICK p : p = Program(sig, pubkey, address)
  OBVIOUS
<1>0. PICK n, k : n = Len(sig) /\ k = Len(pubkey)
  OBVIOUS
<1>2. PICK x1, x3 : x1 = <<n>> /\ x3 = <<k>>
  OBVIOUS
<1>3. PICK y1, y3 : y1 = <<OP_DUP, OP_HASH160, 20>> /\ y3 = <<OP_EQUALVERIFY, OP_CHECKSIG>>
  OBVIOUS
<1>4. /\ IsSeq(x1) /\ Len(x1) = 1 /\ IsSeq(x3) /\ Len(x3) = 1 /\ n \in Nat /\ k \in Nat
  <2>1. n \in Nat /\ k \in Nat
    BY <1>0 DEF IsSeq
  <2> QED
    BY <1>2, <2>1, Single
<1>5. IsSeq(y1) /\ Len(y1) = 3 /\ IsSeq(y3) /\ Len(y3) = 2
  <2>1. y1 \in Seq({OP_DUP, OP_HASH160, 20}) /\ Len(y1) = 3
    BY <1>3
  <2>2. y3 \in Seq({OP_EQUALVERIFY, OP_CHECKSIG}) /\ Len(y3) = 2
    BY <1>3
  <2> QED
    BY <2>1, <2>2 DEF IsSeq
<1>6. ASSUME NEW s, NEW t, IsSeq(s), IsSeq(t)
      PROVE  IsSeq(s \o t) /\ Len(s \o t) = Len(s) + Len(t)
  BY <1>6, Concatenated
<1>7. PICK a2, a3, a4 : a2 = x1 \o sig /\ a3 = a2 \o x3 /\ a4 = a3 \o pubkey
  OBVIOUS
<1>8. IsSeq(a2) /\ Len(a2) = n + 1
  <2>1. IsSeq(a2) /\ Len(a2) = Len(x1) + Len(sig)
    BY <1>4, <1>6, <1>7
  <2> QED
    BY <1>0, <1>4, <2>1
<1>9. IsSeq(a3) /\ Len(a3) = n + 2
  <2>1. IsSeq(a3) /\ Len(a3) = Len(a2) + Len(x3)
    BY <1>4, <1>6, <1>7, <1>8
  <2> QED
    BY <1>4, <1>8, <2>1
<1>10. IsSeq(a4) /\ Len(a4) = n + k + 2
  <2>1. IsSeq(a4) /\ Len(a4) = Len(a3) + k
    BY <1>0, <1>6, <1>7, <1>9
  <2> QED
    BY <1>4, <1>9, <2>1
<1>11. PICK b2, b3 : b2 = y1 \o address /\ b3 = b2 \o y3
  OBVIOUS
<1>12. IsSeq(b2) /\ Len(b2) = 23
  <2>1. IsSeq(b2) /\ Len(b2) = Len(y1) + Len(address)
    BY <1>5, <1>6, <1>11
  <2> QED
    BY <1>5, <2>1
<1>13. IsSeq(b3) /\ Len(b3) = 25
  <2>1. IsSeq(b3) /\ Len(b3) = Len(b2) + Len(y3)
    BY <1>5, <1>6, <1>11, <1>12
  <2> QED
    BY <1>5, <1>12, <2>1
<1>14. p = a4 \o b3
  <2>1. build_script_sig(sig, pubkey) = a4
    BY <1>0, <1>2, <1>7 DEF build_script_sig
  <2>2. build_p2pkh_script_pubkey(address) = b3
    BY <1>3, <1>11 DEF build_p2pkh_script_pubkey
  <2> QED
    BY <1>1, <2>1, <2>2 DEF Program
<1>15. IsSeq(p) /\ Len(p) = n + k + 27
  <2>1. IsSeq(p) /\ Len(p) = Len(a4) + Len(b3)
    BY <1>6, <1>10, <1>13, <1>14
  <2> QED
    BY <1>4, <1>10, <1>13, <2>1
<1>16. At(p, 0, a4) /\ At(p, 0 + Len(a4), b3)
  <2>1. At(p, 0, a4 \o b3)
    BY <1>14, <1>15, AtAll
  <2> QED
    BY <1>10, <1>13, <2>1, AtParts
<1>17. At(p, 0, a3) /\ At(p, 0 + Len(a3), pubkey)
  <2>1. At(p, 0, a3 \o pubkey)
    BY <1>7, <1>16
  <2> QED
    BY <1>9, <2>1, AtParts
<1>18. At(p, 0, a2) /\ At(p, 0 + Len(a2), x3)
  <2>1. At(p, 0, a2 \o x3)
    BY <1>7, <1>17
  <2> QED
    BY <1>4, <1>8, <2>1, AtParts
<1>19. At(p, 0, x1) /\ At(p, 0 + Len(x1), sig)
  <2>1. At(p, 0, x1 \o sig)
    BY <1>7, <1>18
  <2> QED
    BY <1>4, <2>1, AtParts
<1>20. PICK i : i = n + k + 2
  OBVIOUS
<1>21. i \in Nat /\ 0 + Len(a4) = i /\ 0 + Len(a3) = n + 2 /\ 0 + Len(a2) = n + 1 /\ 0 + Len(x1) = 1
  BY <1>4, <1>8, <1>9, <1>10, <1>20
<1>22. At(p, i, b2) /\ At(p, i + Len(b2), y3)
  <2>1. At(p, i, b2 \o y3)
    BY <1>11, <1>16, <1>21
  <2> QED
    BY <1>5, <1>12, <2>1, AtParts
<1>23. At(p, i, y1) /\ At(p, i + Len(y1), address)
  <2>1. At(p, i, y1 \o address)
    BY <1>11, <1>22
  <2> QED
    BY <1>5, <2>1, AtParts
<1>24. /\ i + Len(y1) = n + k + 5 /\ i + Len(b2) = n + k + 25 /\ i + 1 = n + k + 3
       /\ i + 2 = n + k + 4 /\ (n + k + 25) + 1 = n + k + 26
  BY <1>4, <1>5, <1>12, <1>20
<1>25. At(p, i, <<OP_DUP>>) /\ At(p, i + 1, <<OP_HASH160>>) /\ At(p, i + 2, <<20>>)
  BY <1>3, <1>23, AtTuples
<1>26. At(p, n + k + 25, <<OP_EQUALVERIFY>>) /\ At(p, (n + k + 25) + 1, <<OP_CHECKSIG>>)
  <2>1. PICK j : j = n + k + 25
    OBVIOUS
  <2>2. At(p, j, <<OP_EQUALVERIFY, OP_CHECKSIG>>)
    BY <1>3, <1>22, <1>24, <2>1
  <2>3. At(p, j, <<OP_EQUALVERIFY>>) /\ At(p, j + 1, <<OP_CHECKSIG>>)
    BY <2>2, AtTuples
  <2> QED
    BY <2>1, <2>3
<1>27. At(p, 0, <<n>>) /\ At(p, 1, sig) /\ At(p, n + 1, <<k>>) /\ At(p, n + 2, pubkey)
  BY <1>2, <1>17, <1>18, <1>19, <1>21
<1>28. At(p, n + k + 2, <<OP_DUP>>) /\ At(p, n + k + 3, <<OP_HASH160>>) /\ At(p, n + k + 4, <<20>>)
       /\ At(p, n + k + 5, address)
  BY <1>20, <1>23, <1>24, <1>25
<1>29. At(p, n + k + 26, <<OP_CHECKSIG>>)
  BY <1>24, <1>26
<1>30. PartsOf(p, n, k, sig, pubkey, address)
  BY <1>0, <1>1, <1>4, <1>15, <1>26, <1>27, <1>28, <1>29 DEF PartsOf
<1> QED
  BY <1>30
(***************************************************************************)
(* What a program of this form evaluates to.                               *)
(***************************************************************************)
Truthy(m) == ~m.failed /\ m.stack # <<>> /\ Last(m.stack) # <<>> /\ Last(Last(m.stack)) # 0

LEMMA FailedIsFalse ==
  ASSUME NEW i, NEW s PROVE Fails(State(i, s)).failed = TRUE /\ ~Truthy(Fails(State(i, s)))
  BY StateFails DEF Truthy

\* The machine's own words for the turns above: e is the byte it stands at.
OnTop(s, x) == s \o <<x>>
Reading(p, e, x) == e \in Nat /\ At(p, e - 1, <<x>>)

LEMMA ReadingAt ==
  ASSUME NEW p, NEW e, NEW x, Reading(p, e, x)
  PROVE  \E i : At(p, i, <<x>>) /\ i \in Nat /\ i + 1 = e /\ i + 2 = e + 1
<1>1. PICK i : i = e - 1
  OBVIOUS
<1>2. At(p, i, <<x>>) /\ e \in Nat
  BY <1>1 DEF Reading
<1>3. i \in Nat
  BY <1>2, AtOne
<1>4. i + 1 = e /\ i + 2 = e + 1
  BY <1>1, <1>2
<1> QED
  BY <1>2, <1>3, <1>4

LEMMA Pushes ==
  ASSUME NEW p, NEW h, NEW e, NEW s, IsSeq(s), NEW v, IsSeq(v), Len(v) \in 1 .. 75,
         Reading(p, e, Len(v)), At(p, e, v)
  PROVE  Turn(State(e, s), p, h) = State(e + 1 + Len(v), OnTop(s, v))
<1>1. PICK i : At(p, i, <<Len(v)>>) /\ i \in Nat /\ i + 1 = e /\ i + 2 = e + 1
  BY ReadingAt
<1>2. At(p, i, <<Len(v)>>) /\ At(p, i + 1, v)
  BY <1>1
<1>3. Turn(State(i + 1, s), p, h) = State(i + 2 + Len(v), s \o <<v>>)
  BY <1>2, PushTurn
<1> QED
  BY <1>1, <1>3 DEF OnTop

LEMMA StopsAtNothing ==
  ASSUME NEW p, NEW h, NEW e, NEW s, Reading(p, e, 0)
  PROVE  Turn(State(e, s), p, h) = Fails(State(e, s))
<1>1. PICK i : At(p, i, <<0>>) /\ i \in Nat /\ i + 1 = e /\ i + 2 = e + 1
  BY ReadingAt
<1>2. Turn(State(i + 1, s), p, h) = Fails(State(i + 1, s))
  BY <1>1, NothingTurn
<1> QED
  BY <1>1, <1>2

LEMMA Duplicates ==
  ASSUME NEW p, NEW h, NEW e, NEW s, IsSeq(s), NEW x, Reading(p, e, OP_DUP)
  PROVE  Turn(State(e, OnTop(s, x)), p, h) = State(e + 1, OnTop(OnTop(s, x), x))
<1>1. PICK i : At(p, i, <<OP_DUP>>) /\ i \in Nat /\ i + 1 = e /\ i + 2 = e + 1
  BY ReadingAt
<1>2. Turn(State(i + 1, s \o <<x>>), p, h) = State(i + 2, s \o <<x>> \o <<x>>)
  BY <1>1, DupTurn
<1> QED
  BY <1>1, <1>2 DEF OnTop

LEMMA Hashes ==
  ASSUME NEW p, NEW h, NEW e, NEW s, IsSeq(s), NEW x, Reading(p, e, OP_HASH160)
  PROVE  Turn(State(e, OnTop(s, x)), p, h) = State(e + 1, OnTop(s, hash160(x)))
<1>1. PICK i : At(p, i, <<OP_HASH160>>) /\ i \in Nat /\ i + 1 = e /\ i + 2 = e + 1
  BY ReadingAt
<1>2. Turn(State(i + 1, s \o <<x>>), p, h) = State(i + 2, s \o <<hash160(x)>>)
  BY <1>1, HashTurn
<1> QED
  BY <1>1, <1>2 DEF OnTop

LEMMA Compares ==
  ASSUME NEW p, NEW h, NEW e, NEW s, IsSeq(s), NEW x, NEW y, Reading(p, e, OP_EQUALVERIFY)
  PROVE  Turn(State(e, OnTop(OnTop(s, x), y)), p, h) =
           IF x = y THEN State(e + 1, s) ELSE Fails(State(e + 1, OnTop(OnTop(s, x), y)))
<1>1. PICK i : At(p, i, <<OP_EQUALVERIFY>>) /\ i \in Nat /\ i + 1 = e /\ i + 2 = e + 1
  BY ReadingAt
<1>2. Turn(State(i + 1, s \o <<x>> \o <<y>>), p, h) =
           IF x = y THEN State(i + 2, s) ELSE Fails(State(i + 2, s \o <<x>> \o <<y>>))
  BY <1>1, EqualTurn
<1> QED
  BY <1>1, <1>2 DEF OnTop

LEMMA Verifies ==
  ASSUME NEW p, NEW h, NEW e, NEW s, IsSeq(s), NEW x, NEW y, Reading(p, e, OP_CHECKSIG)
  PROVE  Turn(State(e, OnTop(OnTop(s, x), y)), p, h) = State(e + 1, OnTop(s, Verdict(x, y, h)))
<1>1. PICK i : At(p, i, <<OP_CHECKSIG>>) /\ i \in Nat /\ i + 1 = e /\ i + 2 = e + 1
  BY ReadingAt
<1>2. Turn(State(i + 1, s \o <<x>> \o <<y>>), p, h) =
           State(i + 2, s \o <<Verdict(x, y, h)>>)
  BY <1>1, CheckTurn
<1> QED
  BY <1>1, <1>2 DEF OnTop

LEMMA TopIs ==
  ASSUME NEW s, IsSeq(s), NEW x
  PROVE  IsSeq(OnTop(s, x)) /\ OnTop(s, x) # <<>> /\ Last(OnTop(s, x)) = x
  BY TopOf DEF OnTop

LEMMA ResultIsTop ==
  ASSUME NEW i, NEW sig, NEW pubkey, NEW h
  PROVE  Truthy(State(i, OnTop(<<>>, Verdict(sig, pubkey, h)))) <=>
           verify_raw_signature(sig, pubkey, h)
<1>1. PICK r : r = Verdict(sig, pubkey, h)
  OBVIOUS
<1>2. PICK e : e = <<>> /\ IsSeq(e)
  BY EmptyIsSeq
<1>3. PICK s : s = OnTop(e, r)
  OBVIOUS
<1>4. s # <<>> /\ Last(s) = r
  BY <1>2, <1>3, TopIs
<1>5. State(i, s).stack = s /\ State(i, s).failed = FALSE
  BY StateFields
<1>6. CASE verify_raw_signature(sig, pubkey, h)
  <2>1. r = <<1>>
    BY <1>1, <1>6 DEF Verdict
  <2>2. Len(r) = 1 /\ r[1] = 1
    BY <2>1
  <2>3. r # <<>> /\ Last(r) # 0
    BY <2>2 DEF Last
  <2> QED
    BY <1>1, <1>2, <1>3, <1>4, <1>5, <1>6, <2>3 DEF Truthy
<1>7. CASE ~verify_raw_signature(sig, pubkey, h)
  <2>1. r = <<>>
    BY <1>1, <1>7 DEF Verdict
  <2> QED
    BY <1>1, <1>2, <1>3, <1>4, <1>5, <1>7, <2>1 DEF Truthy
<1> QED
  BY <1>6, <1>7

\* The byte each part begins at.
LaidOut(p, e1, e2, e3, e4, e5, e6, e7, sig, pubkey, address) ==
  /\ p = Program(sig, pubkey, address) /\ IsSeq(p) /\ Len(p) \in Nat /\ Len(p) > 7
  /\ e1 = 1 /\ e2 = e1 + 1 + Len(sig) /\ e3 = e2 + 1 + Len(pubkey) /\ e4 = e3 + 1
  /\ e5 = e4 + 1 /\ e6 = e5 + 1 + Len(address) /\ e7 = e6 + 1 /\ e7 + 1 > Len(p)
  /\ Reading(p, e1, Len(sig)) /\ At(p, e1, sig)
  /\ Reading(p, e2, Len(pubkey)) /\ At(p, e2, pubkey)
  /\ Reading(p, e3, OP_DUP) /\ Reading(p, e4, OP_HASH160)
  /\ Reading(p, e5, Len(address)) /\ At(p, e5, address)
  /\ Reading(p, e6, OP_EQUALVERIFY) /\ Reading(p, e7, OP_CHECKSIG)

LEMMA ProgramReads ==
  ASSUME NEW sig, IsSeq(sig), NEW pubkey, IsSeq(pubkey), NEW address, IsSeq(address),
         Len(address) = 20
  PROVE  \E p, e1, e2, e3, e4, e5, e6, e7 :
           LaidOut(p, e1, e2, e3, e4, e5, e6, e7, sig, pubkey, address)
<1>0. PICK p, n, k : PartsOf(p, n, k, sig, pubkey, address)
  BY ProgramParts
<1>1. /\ p = Program(sig, pubkey, address) /\ n = Len(sig) /\ k = Len(pubkey)
      /\ IsSeq(p) /\ Len(p) = n + k + 27 /\ n \in Nat /\ k \in Nat
      /\ At(p, 0, <<n>>) /\ At(p, 1, sig)
      /\ At(p, n + 1, <<k>>) /\ At(p, n + 2, pubkey)
      /\ At(p, n + k + 2, <<OP_DUP>>) /\ At(p, n + k + 3, <<OP_HASH160>>)
      /\ At(p, n + k + 4, <<20>>) /\ At(p, n + k + 5, address)
      /\ At(p, n + k + 25, <<OP_EQUALVERIFY>>) /\ At(p, n + k + 26, <<OP_CHECKSIG>>)
  BY <1>0 DEF PartsOf
<1>2. PICK e1, e2, e3, e4, e5, e6, e7 :
           /\ e1 = 1 /\ e2 = e1 + 1 + n /\ e3 = e2 + 1 + k /\ e4 = e3 + 1
           /\ e5 = e4 + 1 /\ e6 = e5 + 1 + 20 /\ e7 = e6 + 1
  OBVIOUS
<1>3. /\ e1 \in Nat /\ e2 \in Nat /\ e3 \in Nat /\ e4 \in Nat /\ e5 \in Nat /\ e6 \in Nat
      /\ e7 \in Nat /\ e7 + 1 > Len(p) /\ Len(p) \in Nat /\ Len(p) > 7
  BY <1>1, <1>2
<1>4. /\ e1 - 1 = 0 /\ e2 - 1 = n + 1 /\ e3 - 1 = n + k + 2 /\ e4 - 1 = n + k + 3
      /\ e5 - 1 = n + k + 4 /\ e6 - 1 = n + k + 25 /\ e7 - 1 = n + k + 26
      /\ e2 = n + 2 /\ e5 = n + k + 5
  BY <1>1, <1>2
<1>5. /\ At(p, e1 - 1, <<n>>) /\ At(p, e1, sig)
      /\ At(p, e2 - 1, <<k>>) /\ At(p, e2, pubkey)
      /\ At(p, e3 - 1, <<OP_DUP>>) /\ At(p, e4 - 1, <<OP_HASH160>>)
      /\ At(p, e5 - 1, <<20>>) /\ At(p, e5, address)
      /\ At(p, e6 - 1, <<OP_EQUALVERIFY>>) /\ At(p, e7 - 1, <<OP_CHECKSIG>>)
  <2>1. At(p, e1 - 1, <<n>>) /\ At(p, e1, sig) /\ At(p, e2 - 1, <<k>>) /\ At(p, e2, pubkey)
    BY <1>1, <1>2, <1>4
  <2>2. At(p, e3 - 1, <<OP_DUP>>) /\ At(p, e4 - 1, <<OP_HASH160>>) /\ At(p, e5 - 1, <<20>>)
    BY <1>1, <1>4
  <2>3. At(p, e5, address) /\ At(p, e6 - 1, <<OP_EQUALVERIFY>>) /\ At(p, e7 - 1, <<OP_CHECKSIG>>)
    BY <1>1, <1>4
  <2> QED
    BY <2>1, <2>2, <2>3
<1>6. /\ Reading(p, e1, Len(sig)) /\ Reading(p, e2, Len(pubkey)) /\ Reading(p, e3, OP_DUP)
      /\ Reading(p, e4, OP_HASH160) /\ Reading(p, e5, Len(address))
      /\ Reading(p, e6, OP_EQUALVERIFY) /\ Reading(p, e7, OP_CHECKSIG)
  BY <1>1, <1>3, <1>5 DEF Reading
<1>7. LaidOut(p, e1, e2, e3, e4, e5, e6, e7, sig, pubkey, address)
  BY <1>1, <1>2, <1>3, <1>5, <1>6 DEF LaidOut
<1> QED
  BY <1>7

LEMMA Evaluated ==
  ASSUME NEW sig, IsSeq(sig), Len(sig) \in 0 .. 75, NEW pubkey, IsSeq(pubkey),
         Len(pubkey) \in 0 .. 75, NEW address, IsSeq(address), Len(address) = 20, NEW h
  PROVE  evaluate(build_script_sig(sig, pubkey), build_p2pkh_script_pubkey(address), h) <=>
           /\ Len(sig) # 0 /\ Len(pubkey) # 0
           /\ hash160(pubkey) = address /\ verify_raw_signature(sig, pubkey, h)
<1>0. PICK p, e1, e2, e3, e4, e5, e6, e7 :
           LaidOut(p, e1, e2, e3, e4, e5, e6, e7, sig, pubkey, address)
  BY ProgramReads
<1>1. /\ p = Program(sig, pubkey, address) /\ IsSeq(p) /\ Len(p) \in Nat /\ Len(p) > 7
      /\ e1 = 1 /\ e2 = e1 + 1 + Len(sig) /\ e3 = e2 + 1 + Len(pubkey) /\ e4 = e3 + 1
      /\ e5 = e4 + 1 /\ e6 = e5 + 1 + Len(address) /\ e7 = e6 + 1 /\ e7 + 1 > Len(p)
      /\ Reading(p, e1, Len(sig)) /\ At(p, e1, sig)
      /\ Reading(p, e2, Len(pubkey)) /\ At(p, e2, pubkey)
      /\ Reading(p, e3, OP_DUP) /\ Reading(p, e4, OP_HASH160)
      /\ Reading(p, e5, Len(address)) /\ At(p, e5, address)
      /\ Reading(p, e6, OP_EQUALVERIFY) /\ Reading(p, e7, OP_CHECKSIG)
  BY <1>0 DEF LaidOut
<1>2. PICK s0 : s0 = <<>> /\ IsSeq(s0)
  BY EmptyIsSeq
<1>3. PICK m : m = State(e1, s0)
  OBVIOUS
<1>r. PICK r : r = Run(m, p, h)
  OBVIOUS
<1>4. PICK f : f[0] = m /\ Turns(f, p, h) /\ EndsIn(f, p, Run(m, p, h))
  <2>1. IsSeq(p)
    BY <1>1
  <2> QED
    BY <2>1, RunTurns
<1>5. evaluate(build_script_sig(sig, pubkey), build_p2pkh_script_pubkey(address), h)
        <=> Truthy(r)
  <2>1. m = [i |-> 1, stack |-> <<>>, failed |-> FALSE]
    BY <1>1, <1>2, <1>3 DEF State
  <2>2. p = build_script_sig(sig, pubkey) \o build_p2pkh_script_pubkey(address)
    BY <1>1 DEF Program
  <2>3. Run([i |-> 1, stack |-> <<>>, failed |-> FALSE],
            build_script_sig(sig, pubkey) \o build_p2pkh_script_pubkey(address), h) = r
    BY <1>r, <2>1, <2>2
  <2> QED
    BY <2>3 DEF evaluate, Truthy
<1>6. ASSUME NEW j \in 0 .. 7, f[j].failed = TRUE \/ f[j].i > Len(p) PROVE r = f[j]
  <2>1. j \in 0 .. Len(p)
    BY <1>1
  <2> QED
    BY <1>r, <1>4, <1>6, <2>1 DEF EndsIn
<1>7. /\ f[1] = Turn(f[0], p, h) /\ f[2] = Turn(f[1], p, h) /\ f[3] = Turn(f[2], p, h)
      /\ f[4] = Turn(f[3], p, h) /\ f[5] = Turn(f[4], p, h) /\ f[6] = Turn(f[5], p, h)
      /\ f[7] = Turn(f[6], p, h)
  <2>1. /\ 1 \in 1 .. Len(p) /\ 2 \in 1 .. Len(p) /\ 3 \in 1 .. Len(p) /\ 4 \in 1 .. Len(p)
        /\ 5 \in 1 .. Len(p) /\ 6 \in 1 .. Len(p) /\ 7 \in 1 .. Len(p)
    BY <1>1
  <2>2. 1 - 1 = 0 /\ 2 - 1 = 1 /\ 3 - 1 = 2 /\ 4 - 1 = 3 /\ 5 - 1 = 4 /\ 6 - 1 = 5 /\ 7 - 1 = 6
    OBVIOUS
  <2> QED
    BY <1>4, <2>1, <2>2 DEF Turns
<1>8. ASSUME NEW j \in 0 .. 7, NEW e, NEW s, f[j] = Fails(State(e, s)) PROVE ~Truthy(r)
  <2>1. f[j].failed = TRUE /\ ~Truthy(f[j])
    BY <1>8, FailedIsFalse
  <2> QED
    BY <1>6, <2>1
<1>9. CASE Len(sig) = 0
  <2>1. Reading(p, e1, 0)
    BY <1>1, <1>9
  <2>2. f[1] = Fails(State(e1, s0))
    BY <1>3, <1>4, <1>7, <2>1, StopsAtNothing
  <2>3. ~Truthy(r)
    BY <1>8, <2>2
  <2> QED
    BY <1>5, <1>9, <2>3
<1>10. CASE Len(sig) # 0
  <2>1. PICK s1 : s1 = OnTop(s0, sig)
    OBVIOUS
  <2>2. IsSeq(s1)
    BY <1>2, <2>1, TopIs
  <2>3. f[1] = State(e2, s1)
    <3>1. Len(sig) \in 1 .. 75
      BY <1>10
    <3>2. Turn(State(e1, s0), p, h) = State(e1 + 1 + Len(sig), OnTop(s0, sig))
      BY <1>1, <1>2, <3>1, Pushes
    <3> QED
      BY <1>1, <1>3, <1>4, <1>7, <2>1, <3>2
  <2>4. CASE Len(pubkey) = 0
    <3>1. Reading(p, e2, 0)
      BY <1>1, <2>4
    <3>2. f[2] = Fails(State(e2, s1))
      BY <1>7, <2>3, <3>1, StopsAtNothing
    <3>3. ~Truthy(r)
      BY <1>8, <3>2
    <3> QED
      BY <1>5, <2>4, <3>3
  <2>5. CASE Len(pubkey) # 0
    <3>1. PICK s2 : s2 = OnTop(s1, pubkey)
      OBVIOUS
    <3>2. IsSeq(s2)
      BY <2>2, <3>1, TopIs
    <3>3. f[2] = State(e3, s2)
      <4>1. Len(pubkey) \in 1 .. 75
        BY <2>5
      <4>2. Turn(State(e2, s1), p, h) = State(e2 + 1 + Len(pubkey), OnTop(s1, pubkey))
        BY <1>1, <2>2, <4>1, Pushes
      <4> QED
        BY <1>1, <1>7, <2>3, <3>1, <4>2
    <3>4. f[3] = State(e4, OnTop(s2, pubkey))
      <4>1. Turn(State(e3, OnTop(s1, pubkey)), p, h)
              = State(e3 + 1, OnTop(OnTop(s1, pubkey), pubkey))
        BY <1>1, <2>2, Duplicates
      <4> QED
        BY <1>1, <1>7, <3>1, <3>3, <4>1
    <3>5. PICK d : d = hash160(pubkey)
      OBVIOUS
    <3>6. f[4] = State(e5, OnTop(s2, d))
      <4>1. Turn(State(e4, OnTop(s2, pubkey)), p, h) = State(e4 + 1, OnTop(s2, hash160(pubkey)))
        BY <1>1, <3>2, Hashes
      <4> QED
        BY <1>1, <1>7, <3>4, <3>5, <4>1
    <3>7. f[5] = State(e6, OnTop(OnTop(s2, d), address))
      <4>1. PICK s4 : s4 = OnTop(s2, d)
        OBVIOUS
      <4>2. IsSeq(s4)
        BY <3>2, <4>1, TopIs
      <4>3. PICK v : v = address
        OBVIOUS
      <4>4. IsSeq(v) /\ Len(v) \in 1 .. 75 /\ Reading(p, e5, Len(v)) /\ At(p, e5, v)
        <5>1. IsSeq(v) /\ Reading(p, e5, Len(v)) /\ At(p, e5, v)
          BY <1>1, <4>3, Zenon
        <5>2. Len(v) \in 1 .. 75
          BY <4>3
        <5> QED
          BY <5>1, <5>2
      <4>5. Turn(State(e5, s4), p, h) = State(e5 + 1 + Len(v), OnTop(s4, v))
        BY <4>2, <4>4, Pushes
      <4> QED
        BY <1>1, <1>7, <3>6, <4>1, <4>3, <4>5
    <3>8. f[6] = IF d = address THEN State(e7, s2)
                 ELSE Fails(State(e7, OnTop(OnTop(s2, d), address)))
      <4>1. Turn(State(e6, OnTop(OnTop(s2, d), address)), p, h) =
              IF d = address THEN State(e6 + 1, s2)
              ELSE Fails(State(e6 + 1, OnTop(OnTop(s2, d), address)))
        BY <1>1, <3>2, Compares
      <4> QED
        BY <1>1, <1>7, <3>7, <4>1
    <3>9. CASE d # address
      <4>1. f[6] = Fails(State(e7, OnTop(OnTop(s2, d), address)))
        BY <3>8, <3>9
      <4>2. ~Truthy(r)
        BY <1>8, <4>1
      <4> QED
        BY <1>5, <3>5, <3>9, <4>2
    <3>10. CASE d = address
      <4>1. PICK e, t : e = e7 + 1 /\ t = OnTop(s0, Verdict(sig, pubkey, h))
        OBVIOUS
      <4>2. f[7] = State(e, t)
        <5>1. Turn(State(e7, OnTop(OnTop(s0, sig), pubkey)), p, h)
                = State(e7 + 1, OnTop(s0, Verdict(sig, pubkey, h)))
          BY <1>1, <1>2, Verifies
        <5> QED
          BY <1>7, <2>1, <3>1, <3>8, <3>10, <4>1, <5>1
      <4>3. f[7].i > Len(p)
        <5>1. State(e, t).i = e
          BY StateFields
        <5> QED
          BY <1>1, <4>1, <4>2, <5>1
      <4>4. r = f[7]
        <5>1. 7 \in 0 .. 7
          OBVIOUS
        <5> QED
          BY <1>6, <4>3, <5>1
      <4>5. Truthy(f[7]) <=> verify_raw_signature(sig, pubkey, h)
        BY <1>2, <4>1, <4>2, ResultIsTop
      <4> QED
        BY <1>5, <1>10, <2>5, <3>5, <3>10, <4>4, <4>5
    <3> QED
      BY <3>9, <3>10
  <2> QED
    BY <2>4, <2>5
<1> QED
  BY <1>9, <1>10

-----------------------------------------------------------------------------
(***************************************************************************)
(* Keys, signatures and addresses tell apart what they are made of.        *)
(***************************************************************************)
LEMMA RepeatIs ==
  ASSUME NEW x, NEW n \in Nat
  PROVE  /\ IsSeq(Repeat(x, n)) /\ Len(Repeat(x, n)) = n
         /\ \A i \in 1 .. n : Repeat(x, n)[i] = x
<1>1. PICK r : r = Repeat(x, n)
  OBVIOUS
<1>2. r = [i \in 1 .. n |-> x]
  BY <1>1 DEF Repeat
<1>3. r \in Seq({x}) /\ Len(r) = n
  BY <1>2, IsASeq
<1>4. \A i \in 1 .. n : r[i] = x
  BY <1>2
<1> QED
  BY <1>1, <1>3, <1>4 DEF IsSeq

LEMMA SameRepeated ==
  ASSUME NEW x, NEW y, NEW n \in Nat, n # 0, Repeat(x, n) = Repeat(y, n)
  PROVE  x = y
<1>1. 1 \in 1 .. n
  OBVIOUS
<1>2. Repeat(x, n)[1] = x /\ Repeat(y, n)[1] = y
  BY <1>1, RepeatIs
<1> QED
  BY <1>2

LEMMA CutSeq ==
  ASSUME NEW s, IsSeq(s), NEW n \in 0 .. Len(s)
  PROVE  /\ IsSeq(SubSeq(s, 1, n)) /\ Len(SubSeq(s, 1, n)) = n
         /\ n = Len(s) => SubSeq(s, 1, n) = s
<1>1. PICK S : s \in Seq(S)
  BY DEF IsSeq
<1>2. Len(s) \in Nat /\ n \in Nat
  BY <1>1
<1>3. PICK q : q = SubSeq(s, 1, n)
  OBVIOUS
<1>4. \A j \in 1 .. n : s[j] \in S
  <2>1. \A j \in 1 .. n : j \in 1 .. Len(s)
    BY <1>2
  <2> QED
    BY <1>1, <2>1, ElementOfSeq
<1>5. q \in Seq(S) /\ Len(q) = (IF 1 <= n THEN n - 1 + 1 ELSE 0)
  BY <1>2, <1>3, <1>4, SubSeqProperties
<1>6. Len(q) = n
  BY <1>2, <1>5
<1>7. n = Len(s) => q = s
  BY <1>1, <1>3, SubSeqFull
<1> QED
  BY <1>3, <1>5, <1>6, <1>7 DEF IsSeq

LEMMA PubkeyIs ==
  ASSUME NEW key
  PROVE  /\ IsSeq(compressed_pubkey(key)) /\ Len(compressed_pubkey(key)) = PUBKEY_SIZE
         /\ compressed_pubkey(key)[2] = key
<1>1. PICK a, b : a = <<2>> /\ b = Repeat(key, 32)
  OBVIOUS
<1>2. IsSeq(a) /\ Len(a) = 1
  BY <1>1, Single
<1>3. IsSeq(b) /\ Len(b) = 32 /\ b[1] = key
  <2>1. PICK n : n = 32
    OBVIOUS
  <2>2. n \in Nat
    BY <2>1
  <2>3. IsSeq(Repeat(key, n)) /\ Len(Repeat(key, n)) = n /\ \A i \in 1 .. n : Repeat(key, n)[i] = key
    BY <2>2, RepeatIs
  <2>4. 1 \in 1 .. n
    BY <2>1
  <2> QED
    BY <1>1, <2>1, <2>3, <2>4
<1>4. PICK c : c = a \o b
  OBVIOUS
<1>5. /\ IsSeq(c) /\ Len(c) = Len(a) + Len(b)
      /\ \A i \in 1 .. Len(b) : c[Len(a) + i] = b[i]
  <2>1. IsSeq(a) /\ IsSeq(b)
    BY <1>2, <1>3
  <2> QED
    BY <1>4, <2>1, Concatenated
<1>6. Len(c) = 33 /\ c[2] = key
  <2>1. 1 \in 1 .. Len(b) /\ Len(a) + 1 = 2 /\ Len(a) + Len(b) = 33
    BY <1>2, <1>3
  <2> QED
    BY <1>3, <1>5, <2>1
<1>7. compressed_pubkey(key) = c
  <2>1. PUBKEY_SIZE - 1 = 32
    BY DEF PUBKEY_SIZE
  <2> QED
    BY <1>1, <1>4, <2>1 DEF compressed_pubkey
<1> QED
  BY <1>5, <1>6, <1>7 DEF PUBKEY_SIZE

LEMMA AddressIs ==
  ASSUME NEW a
  PROVE  /\ IsSeq(hash160(a)) /\ Len(hash160(a)) = 20
         /\ \A b : hash160(a) = hash160(b) => a = b
<1>1. ADDRESS_SIZE = 20 /\ ADDRESS_SIZE \in Nat /\ ADDRESS_SIZE # 0
  BY DEF ADDRESS_SIZE
<1>2. IsSeq(hash160(a)) /\ Len(hash160(a)) = 20
  <2>1. PICK x : x = <<"hash160", a>>
    OBVIOUS
  <2>2. IsSeq(Repeat(x, ADDRESS_SIZE)) /\ Len(Repeat(x, ADDRESS_SIZE)) = ADDRESS_SIZE
    <3>1. ADDRESS_SIZE \in Nat
      BY <1>1
    <3> QED
      BY <3>1, RepeatIs
  <2> QED
    BY <1>1, <2>1, <2>2 DEF hash160
<1>3. ASSUME NEW b, hash160(a) = hash160(b) PROVE a = b
  <2>1. PICK x, y : x = <<"hash160", a>> /\ y = <<"hash160", b>>
    OBVIOUS
  <2>2. Repeat(x, ADDRESS_SIZE) = Repeat(y, ADDRESS_SIZE)
    BY <1>3, <2>1 DEF hash160
  <2>3. x = y
    BY <1>1, <2>2, SameRepeated
  <2> QED
    BY <2>1, <2>3
<1> QED
  BY <1>2, <1>3

LEMMA SignatureIs ==
  ASSUME NEW key, NEW h
  PROVE  /\ IsSeq(sign_raw(key, h)) /\ Len(sign_raw(key, h)) = SIGNATURE_SIZE
         /\ \A k, g : sign_raw(key, h) = sign_raw(k, g) => key = k /\ h = g
<1>1. SIGNATURE_SIZE \in Nat /\ SIGNATURE_SIZE # 0
  BY DEF SIGNATURE_SIZE
<1>2. IsSeq(sign_raw(key, h)) /\ Len(sign_raw(key, h)) = SIGNATURE_SIZE
  <2>1. PICK x : x = <<"signature", key, h>>
    OBVIOUS
  <2>2. IsSeq(Repeat(x, SIGNATURE_SIZE)) /\ Len(Repeat(x, SIGNATURE_SIZE)) = SIGNATURE_SIZE
    BY <1>1, RepeatIs
  <2> QED
    BY <2>1, <2>2 DEF sign_raw
<1>3. ASSUME NEW k, NEW g, sign_raw(key, h) = sign_raw(k, g) PROVE key = k /\ h = g
  <2>1. PICK x, y : x = <<"signature", key, h>> /\ y = <<"signature", k, g>>
    OBVIOUS
  <2>2. Repeat(x, SIGNATURE_SIZE) = Repeat(y, SIGNATURE_SIZE)
    BY <1>3, <2>1 DEF sign_raw
  <2>3. x = y
    BY <1>1, <2>2, SameRepeated
  <2> QED
    BY <2>1, <2>3
<1> QED
  BY <1>2, <1>3

\* The bytes signed are those of one transaction only.
LEMMA HashTellsApart ==
  ASSUME NEW a \in Transaction, NEW b \in Transaction,
         Transaction_GetHash(a) = Transaction_GetHash(b)
  PROVE  a = b
<1>1. PICK bytes : bytes = Transaction_Serialize(a)
  OBVIOUS
<1>2. Transaction_Serialize(b) = bytes
  <2>1. PICK other : other = Transaction_Serialize(b)
    OBVIOUS
  <2>2. <<"sha256d", bytes>> = <<"sha256d", other>>
    BY <1>1, <2>1 DEF Transaction_GetHash
  <2>3. bytes = other
    BY <2>2
  <2> QED
    BY <2>1, <2>3
<1>3. PICK c : c = Cursor(bytes)
  OBVIOUS
<1>4. PICK r : r = Transaction_Deserialize(c)
  OBVIOUS
<1>5. Reader(c, bytes, r, <<a>>) /\ Reader(c, bytes, r, <<b>>)
  <2>1. Reader(c, Transaction_Serialize(a), Transaction_Deserialize(c), <<a>>)
    BY TransactionFormat
  <2>2. Reader(c, Transaction_Serialize(b), Transaction_Deserialize(c), <<b>>)
    BY TransactionFormat
  <2> QED
    BY <1>1, <1>2, <1>4, <2>1, <2>2
<1>6. r.vals = <<a>> /\ r.vals = <<b>>
  BY <1>3, <1>5, WholeFile
<1>7. <<a>>[1] = a /\ <<b>>[1] = b
  BY Single
<1> QED
  BY <1>6, <1>7

-----------------------------------------------------------------------------
(***************************************************************************)
(* The scriptSigs of a transaction, set and taken out again.               *)
(***************************************************************************)
Scripted(t, x) == [t EXCEPT !.scriptSig = x]
WithInputs(tx, v) == [tx EXCEPT !.vin = v]

LEMMA ScriptedTwice ==
  ASSUME NEW t \in CTxIn, NEW x
  PROVE  /\ Scripted(t, x).scriptSig = x
         /\ t.scriptSig = <<>> => Scripted(Scripted(t, x), <<>>) = t
<1>1. PICK d : d = Scripted(t, x)
  OBVIOUS
<1>2. PICK A, C : t \in [prevout : A, scriptSig : VectorOf(Byte), nSequence : C]
  BY DEF CTxIn
<1>3. /\ d \in [prevout : A, scriptSig : {x}, nSequence : C]
      /\ d.prevout = t.prevout /\ d.scriptSig = x /\ d.nSequence = t.nSequence
  BY <1>1, <1>2 DEF Scripted
<1>4. PICK e, y : y = <<>> /\ e = Scripted(d, y)
  OBVIOUS
<1>5. /\ e \in [prevout : A, scriptSig : {y}, nSequence : C]
      /\ e.prevout = t.prevout /\ e.scriptSig = y /\ e.nSequence = t.nSequence
  BY <1>3, <1>4 DEF Scripted
<1>6. ASSUME t.scriptSig = <<>> PROVE e = t
  <2>1. t.scriptSig = y
    BY <1>4, <1>6
  <2>2. t = [prevout |-> t.prevout, scriptSig |-> y, nSequence |-> t.nSequence]
    BY <1>2, <2>1
  <2>3. e = [prevout |-> t.prevout, scriptSig |-> y, nSequence |-> t.nSequence]
    BY <1>5
  <2> QED
    BY <2>2, <2>3
<1> QED
  BY <1>1, <1>3, <1>4, <1>6

LEMMA WithInputsIs ==
  ASSUME NEW A, NEW B, NEW C, NEW D, NEW tx \in [nVersion : A, vin : B, vout : C, nLockTime : D],
         NEW v
  PROVE  WithInputs(tx, v) = [nVersion |-> tx.nVersion, vin |-> v, vout |-> tx.vout,
                              nLockTime |-> tx.nLockTime]
<1>1. PICK d : d = WithInputs(tx, v)
  OBVIOUS
<1>2. /\ d \in [nVersion : A, vin : {v}, vout : C, nLockTime : D]
      /\ d.nVersion = tx.nVersion /\ d.vin = v /\ d.vout = tx.vout /\ d.nLockTime = tx.nLockTime
  BY <1>1 DEF WithInputs
<1>3. d = [nVersion |-> tx.nVersion, vin |-> v, vout |-> tx.vout, nLockTime |-> tx.nLockTime]
  BY <1>2
<1> QED
  BY <1>1, <1>3

LEMMA Rescripted ==
  ASSUME NEW tx \in Transaction, NEW x
  PROVE  /\ \A i \in DOMAIN tx.vin : WithScriptSig(tx, x).vin[i].scriptSig = x
         /\ (\A i \in DOMAIN tx.vin : tx.vin[i].scriptSig = <<>>) =>
              WithScriptSig(WithScriptSig(tx, x), <<>>) = tx
<1>1. PICK A, C, D : tx \in [nVersion : A, vin : VectorOf(CTxIn), vout : C, nLockTime : D]
  BY DEF Transaction
<1>2. PICK w, dom : w = tx.vin /\ dom = DOMAIN w
  OBVIOUS
<1>3. w \in Seq(CTxIn) /\ w = [i \in dom |-> w[i]] /\ \A i \in dom : w[i] \in CTxIn
  <2>1. w \in VectorOf(CTxIn)
    BY <1>1, <1>2
  <2>2. w \in Seq(CTxIn)
    BY <2>1 DEF VectorOf
  <2>3. dom = 1 .. Len(w)
    BY <1>2, <2>2
  <2>4. \A i \in dom : w[i] \in CTxIn
    BY <2>2, <2>3, ElementOfSeq
  <2>5. w = [i \in dom |-> w[i]]
    BY <1>2, <2>2
  <2> QED
    BY <2>2, <2>4, <2>5
<1>4. PICK v : v = [i \in dom |-> Scripted(w[i], x)]
  OBVIOUS
<1>5. PICK u : u = WithInputs(tx, v)
  OBVIOUS
<1>6. WithScriptSig(tx, x) = u
  BY <1>2, <1>4, <1>5 DEF WithScriptSig, WithInputs, Scripted
<1>7. u = [nVersion |-> tx.nVersion, vin |-> v, vout |-> tx.vout, nLockTime |-> tx.nLockTime]
  BY <1>1, <1>5, WithInputsIs
<1>8. u.vin = v /\ DOMAIN v = dom
  BY <1>4, <1>7
<1>9. \A i \in dom : v[i] = Scripted(w[i], x)
  BY <1>4
<1>10. \A i \in DOMAIN tx.vin : WithScriptSig(tx, x).vin[i].scriptSig = x
  <2>1. \A i \in dom : Scripted(w[i], x).scriptSig = x
    BY <1>3, ScriptedTwice
  <2> QED
    BY <1>2, <1>6, <1>8, <1>9, <2>1
<1>11. ASSUME \A i \in DOMAIN tx.vin : tx.vin[i].scriptSig = <<>>
       PROVE  WithScriptSig(WithScriptSig(tx, x), <<>>) = tx
  <2>1. PICK y : y = <<>>
    OBVIOUS
  <2>2. PICK z : z = [i \in dom |-> Scripted(v[i], y)]
    OBVIOUS
  <2>3. WithScriptSig(u, y) = WithInputs(u, z)
    BY <1>8, <2>2 DEF WithScriptSig, WithInputs, Scripted
  <2>4. \A i \in dom : Scripted(v[i], y) = w[i]
    <3> TAKE i \in dom
    <3>1. w[i] \in CTxIn /\ w[i].scriptSig = <<>> /\ v[i] = Scripted(w[i], x)
      BY <1>2, <1>3, <1>9, <1>11
    <3>2. Scripted(Scripted(w[i], x), <<>>) = w[i]
      BY <3>1, ScriptedTwice
    <3> QED
      BY <2>1, <3>1, <3>2
  <2>5. z = w
    BY <1>3, <2>2, <2>4
  <2>6. PICK B : u \in [nVersion : A, vin : B, vout : C, nLockTime : D]
    <3>1. u \in [nVersion : A, vin : {v}, vout : C, nLockTime : D]
      BY <1>1, <1>7
    <3> QED
      BY <3>1
  <2>7. WithInputs(u, w) = [nVersion |-> u.nVersion, vin |-> w, vout |-> u.vout,
                            nLockTime |-> u.nLockTime]
    BY <2>6, WithInputsIs
  <2>8. u.nVersion = tx.nVersion /\ u.vout = tx.vout /\ u.nLockTime = tx.nLockTime
    BY <1>7
  <2>9. tx = [nVersion |-> tx.nVersion, vin |-> w, vout |-> tx.vout, nLockTime |-> tx.nLockTime]
    BY <1>1, <1>2
  <2> QED
    BY <1>6, <2>1, <2>3, <2>5, <2>7, <2>8, <2>9
<1> QED
  BY <1>10, <1>11

-----------------------------------------------------------------------------
(***************************************************************************)
(* Who can spend.                                                          *)
(***************************************************************************)
LEMMA AddressRead ==
  ASSUME NEW address, IsSeq(address), Len(address) = 20
  PROVE  extract_p2pkh_address(build_p2pkh_script_pubkey(address)) = address
<1>1. PICK a, c : a = <<OP_DUP, OP_HASH160, 20>> /\ c = <<OP_EQUALVERIFY, OP_CHECKSIG>>
  OBVIOUS
<1>2. IsSeq(a) /\ Len(a) = 3 /\ IsSeq(c) /\ Len(c) = 2
  <2>1. a \in Seq({OP_DUP, OP_HASH160, 20}) /\ Len(a) = 3
    BY <1>1
  <2>2. c \in Seq({OP_EQUALVERIFY, OP_CHECKSIG}) /\ Len(c) = 2
    BY <1>1
  <2> QED
    BY <2>1, <2>2 DEF IsSeq
<1>3. PICK b, p : b = a \o address /\ p = b \o c
  OBVIOUS
<1>4. IsSeq(b) /\ Len(b) = 23
  <2>1. IsSeq(b) /\ Len(b) = Len(a) + Len(address)
    BY <1>2, <1>3, Concatenated
  <2> QED
    BY <1>2, <2>1
<1>5. IsSeq(p) /\ Len(p) = 25
  <2>1. IsSeq(p) /\ Len(p) = Len(b) + Len(c)
    BY <1>2, <1>3, <1>4, Concatenated
  <2> QED
    BY <1>2, <1>4, <2>1
<1>6. PICK z : z = 0
  OBVIOUS
<1>7. At(p, z, b) /\ At(p, z + Len(b), c)
  <2>1. At(p, z, b \o c)
    BY <1>3, <1>5, <1>6, AtAll
  <2> QED
    BY <1>2, <1>4, <2>1, AtParts
<1>8. At(p, z, a) /\ At(p, z + Len(a), address)
  <2>1. At(p, z, a \o address)
    BY <1>3, <1>7
  <2> QED
    BY <1>2, <2>1, AtParts
<1>9. PICK i, j : i = z + Len(a) /\ j = z + Len(b)
  OBVIOUS
<1>10. /\ SubSeq(p, z + 1, z + Len(a)) = a /\ SubSeq(p, i + 1, i + Len(address)) = address
       /\ SubSeq(p, j + 1, j + Len(c)) = c
  <2>1. At(p, z, a) /\ At(p, i, address) /\ At(p, j, c)
    BY <1>7, <1>8, <1>9
  <2> QED
    BY <2>1, AtSlice
<1>11. /\ z + 1 = 1 /\ z + Len(a) = 3 /\ i + 1 = 4 /\ i + Len(address) = 23
       /\ j + 1 = 24 /\ j + Len(c) = 25
  BY <1>2, <1>4, <1>6, <1>9
<1>12. SubSeq(p, 1, 3) = a /\ SubSeq(p, 4, 23) = address /\ SubSeq(p, 24, 25) = c
  BY <1>10, <1>11
<1>13. build_p2pkh_script_pubkey(address) = p
  BY <1>1, <1>3 DEF build_p2pkh_script_pubkey
<1>14. 3 + ADDRESS_SIZE + 2 = 25 /\ 4 + ADDRESS_SIZE = 24 /\ 3 + ADDRESS_SIZE = 23 /\ ADDRESS_SIZE = 20
  BY DEF ADDRESS_SIZE
<1> QED
  BY <1>1, <1>5, <1>12, <1>13, <1>14 DEF extract_p2pkh_address

\* The script of an input, against the hash its signature must be made over.
LEMMA ScriptOf ==
  ASSUME NEW tx \in Transaction, \A i \in DOMAIN tx.vin : tx.vin[i].scriptSig = <<>>,
         NEW script, NEW x, NEW i \in DOMAIN tx.vin
  PROVE  verify_transaction_signature(WithScriptSig(tx, x), i, script)
           = evaluate(x, script, Transaction_GetHash(tx))
<1>1. PICK u : u = WithScriptSig(tx, x)
  OBVIOUS
<1>2. u.vin[i].scriptSig = x /\ WithScriptSig(u, <<>>) = tx
  BY <1>1, Rescripted
<1> QED
  BY <1>1, <1>2 DEF verify_transaction_signature

CutSignature(signer, signed, n) ==
  SubSeq(sign_raw(signer, Transaction_GetHash(signed)), 1, n)
CutKey(shown, k) == SubSeq(compressed_pubkey(shown), 1, k)
ScriptTo(owner) == build_p2pkh_script_pubkey(hash160(compressed_pubkey(owner)))

LEMMA OwnerUnlocks ==
  ASSUME NEW tx \in Transaction, NEW signed \in Transaction, NEW signer, NEW shown, NEW owner,
         NEW n \in 0 .. SIGNATURE_SIZE, NEW k \in 0 .. PUBKEY_SIZE
  PROVE  evaluate(build_script_sig(CutSignature(signer, signed, n), CutKey(shown, k)),
                  ScriptTo(owner), Transaction_GetHash(tx))
           <=> /\ signer = owner /\ shown = owner /\ signed = tx
               /\ n = SIGNATURE_SIZE /\ k = PUBKEY_SIZE
<1>0. PICK sig, pubkey : sig = CutSignature(signer, signed, n) /\ pubkey = CutKey(shown, k)
  OBVIOUS
<1>1. PICK h, g : h = Transaction_GetHash(tx) /\ g = Transaction_GetHash(signed)
  OBVIOUS
<1>2. PICK whole, key, own : /\ whole = sign_raw(signer, g) /\ key = compressed_pubkey(shown)
                             /\ own = compressed_pubkey(owner)
  OBVIOUS
<1>3. IsSeq(whole) /\ Len(whole) = SIGNATURE_SIZE
  BY <1>2, SignatureIs
<1>4. /\ IsSeq(key) /\ Len(key) = PUBKEY_SIZE /\ key[2] = shown
      /\ Len(own) = PUBKEY_SIZE /\ own[2] = owner
  BY <1>2, PubkeyIs
<1>5. IsSeq(sig) /\ Len(sig) = n /\ (n = SIGNATURE_SIZE => sig = whole)
  <2>1. n \in 0 .. Len(whole)
    BY <1>3
  <2>2. sig = SubSeq(whole, 1, n)
    BY <1>0, <1>1, <1>2 DEF CutSignature
  <2>3. /\ IsSeq(SubSeq(whole, 1, n)) /\ Len(SubSeq(whole, 1, n)) = n
        /\ n = Len(whole) => SubSeq(whole, 1, n) = whole
    BY <1>3, <2>1, CutSeq
  <2> QED
    BY <1>3, <2>2, <2>3
<1>6. IsSeq(pubkey) /\ Len(pubkey) = k /\ (k = PUBKEY_SIZE => pubkey = key)
  <2>1. k \in 0 .. Len(key)
    BY <1>4
  <2>2. pubkey = SubSeq(key, 1, k)
    BY <1>0, <1>2 DEF CutKey
  <2>3. /\ IsSeq(SubSeq(key, 1, k)) /\ Len(SubSeq(key, 1, k)) = k
        /\ k = Len(key) => SubSeq(key, 1, k) = key
    BY <1>4, <2>1, CutSeq
  <2> QED
    BY <1>4, <2>2, <2>3
<1>7. Len(sig) \in 0 .. 75 /\ Len(pubkey) \in 0 .. 75
  BY <1>5, <1>6 DEF SIGNATURE_SIZE, PUBKEY_SIZE
<1>8. PICK address : address = hash160(own)
  OBVIOUS
<1>9. IsSeq(address) /\ Len(address) = 20
  BY <1>8, AddressIs
<1>10. evaluate(build_script_sig(sig, pubkey), build_p2pkh_script_pubkey(address), h) <=>
           /\ Len(sig) # 0 /\ Len(pubkey) # 0
           /\ hash160(pubkey) = address /\ verify_raw_signature(sig, pubkey, h)
  <2>1. IsSeq(sig) /\ IsSeq(pubkey)
    BY <1>5, <1>6
  <2> QED
    BY <1>7, <1>9, <2>1, Evaluated, Zenon
<1>11. ASSUME hash160(pubkey) = address, verify_raw_signature(sig, pubkey, h)
       PROVE  signer = owner /\ shown = owner /\ signed = tx /\ n = SIGNATURE_SIZE /\ k = PUBKEY_SIZE
  <2>1. n = SIGNATURE_SIZE /\ k = PUBKEY_SIZE /\ sig = sign_raw(pubkey[2], h)
    BY <1>5, <1>6, <1>11 DEF verify_raw_signature, verify_sign
  <2>2. sig = sign_raw(signer, g) /\ pubkey = key
    BY <1>2, <1>5, <1>6, <2>1
  <2>3. pubkey = own
    BY <1>8, <1>11, AddressIs
  <2>4. shown = owner
    BY <1>4, <2>2, <2>3
  <2>5. sign_raw(signer, g) = sign_raw(shown, h)
    BY <1>4, <2>1, <2>2
  <2>6. signer = shown /\ g = h
    BY <2>5, SignatureIs
  <2>7. signed = tx
    BY <1>1, <2>6, HashTellsApart
  <2> QED
    BY <2>1, <2>4, <2>6, <2>7
<1>12. ASSUME signer = owner, shown = owner, signed = tx, n = SIGNATURE_SIZE, k = PUBKEY_SIZE
       PROVE  /\ Len(sig) # 0 /\ Len(pubkey) # 0
              /\ hash160(pubkey) = address /\ verify_raw_signature(sig, pubkey, h)
  <2>1. sig = whole /\ pubkey = key /\ Len(sig) = SIGNATURE_SIZE /\ Len(pubkey) = PUBKEY_SIZE
    BY <1>5, <1>6, <1>12
  <2>2. Len(sig) # 0 /\ Len(pubkey) # 0
    BY <2>1 DEF SIGNATURE_SIZE, PUBKEY_SIZE
  <2>3. hash160(pubkey) = address
    BY <1>2, <1>8, <1>12, <2>1
  <2>4. g = h /\ pubkey[2] = signer
    BY <1>1, <1>4, <1>12, <2>1
  <2>5. sig = sign_raw(pubkey[2], h)
    BY <1>2, <2>1, <2>4
  <2> QED
    BY <2>1, <2>2, <2>3, <2>5 DEF verify_raw_signature, verify_sign
<1> QED
  BY <1>0, <1>1, <1>2, <1>8, <1>10, <1>11, <1>12 DEF ScriptTo

(***************************************************************************)
(* Whatever keys, transactions and cuts: an input made of two pushes       *)
(* unlocks a P2PKH output exactly when key and signature are whole, the    *)
(* key is the one the address was made of, and it signed this transaction. *)
(* What Wallet::Sign signs is therefore accepted at every input.           *)
(***************************************************************************)
THEOREM OnlyOwnersSpend == Spec => []OnlyOwnerSpends
<1>1. PickedOK => OnlyOwnerSpends
  <2> SUFFICES ASSUME PickedOK, picked.kind = "spend" PROVE OnlyOwnerSpends
    BY DEF OnlyOwnerSpends
  <2>1. PICK s : s = picked.of /\ s \in Spends
    BY DEF PickedOK
  <2>2. /\ s.tx \in Transaction /\ s.signed \in Transaction
        /\ \A i \in DOMAIN s.tx.vin : s.tx.vin[i].scriptSig = <<>>
        /\ s.sigSize \in 0 .. SIGNATURE_SIZE /\ s.pubkeySize \in 0 .. PUBKEY_SIZE
    BY <2>1, SpendAssumption
  <2>3. PICK address, script, sig, pubkey :
          /\ address = hash160(compressed_pubkey(s.owner))
          /\ script = build_p2pkh_script_pubkey(address)
          /\ sig = SubSeq(sign_raw(s.signer, Transaction_GetHash(s.signed)), 1, s.sigSize)
          /\ pubkey = SubSeq(compressed_pubkey(s.shown), 1, s.pubkeySize)
    OBVIOUS
  <2>4. extract_p2pkh_address(script) = address
    <3>1. IsSeq(address) /\ Len(address) = 20
      BY <2>3, AddressIs
    <3> QED
      BY <2>3, <3>1, AddressRead
  <2>5. PICK owned : owned = (/\ s.signer = s.owner /\ s.shown = s.owner
                              /\ s.signed = s.tx
                              /\ s.sigSize = SIGNATURE_SIZE /\ s.pubkeySize = PUBKEY_SIZE)
    OBVIOUS
  <2>6. PICK h : h = Transaction_GetHash(s.tx)
    OBVIOUS
  <2>7. evaluate(build_script_sig(sig, pubkey), script, h) <=> owned
    <3>1. PICK n, k, tx, signed, owner, signer, shown :
            /\ n = s.sigSize /\ k = s.pubkeySize /\ tx = s.tx /\ signed = s.signed
            /\ owner = s.owner /\ signer = s.signer /\ shown = s.shown
      OBVIOUS
    <3>2. /\ tx \in Transaction /\ signed \in Transaction
          /\ n \in 0 .. SIGNATURE_SIZE /\ k \in 0 .. PUBKEY_SIZE
      BY <2>2, <3>1
    <3>3. evaluate(build_script_sig(CutSignature(signer, signed, n), CutKey(shown, k)),
                   ScriptTo(owner), Transaction_GetHash(tx))
            <=> /\ signer = owner /\ shown = owner /\ signed = tx
                /\ n = SIGNATURE_SIZE /\ k = PUBKEY_SIZE
      BY <3>2, OwnerUnlocks
    <3>4. /\ CutSignature(signer, signed, n) = sig /\ CutKey(shown, k) = pubkey
          /\ ScriptTo(owner) = script
      BY <2>3, <3>1 DEF CutSignature, CutKey, ScriptTo
    <3> QED
      BY <2>5, <2>6, <3>1, <3>3, <3>4
  <2>8. evaluate(build_script_sig(sig, pubkey), script, h) = owned
    BY <2>5, <2>7 DEF evaluate
  <2>9. PICK whole, key : /\ whole = sign_raw(s.owner, h)
                          /\ key = compressed_pubkey(s.owner)
    OBVIOUS
  <2>10. evaluate(build_script_sig(whole, key), script, h)
    <3>1. SIGNATURE_SIZE \in 0 .. SIGNATURE_SIZE /\ PUBKEY_SIZE \in 0 .. PUBKEY_SIZE
      BY DEF SIGNATURE_SIZE, PUBKEY_SIZE
    <3>2. IsSeq(whole) /\ Len(whole) = SIGNATURE_SIZE /\ IsSeq(key) /\ Len(key) = PUBKEY_SIZE
      BY <2>9, SignatureIs, PubkeyIs
    <3>3. whole = SubSeq(whole, 1, SIGNATURE_SIZE) /\ key = SubSeq(key, 1, PUBKEY_SIZE)
      BY <3>1, <3>2, CutSeq
    <3>4. PICK n, k, tx, owner : n = SIGNATURE_SIZE /\ k = PUBKEY_SIZE /\ tx = s.tx /\ owner = s.owner
      OBVIOUS
    <3>5. tx \in Transaction /\ n \in 0 .. SIGNATURE_SIZE /\ k \in 0 .. PUBKEY_SIZE
      BY <2>2, <3>1, <3>4
    <3>6. evaluate(build_script_sig(CutSignature(owner, tx, n), CutKey(owner, k)),
                   ScriptTo(owner), Transaction_GetHash(tx))
            <=> /\ owner = owner /\ owner = owner /\ tx = tx
                /\ n = SIGNATURE_SIZE /\ k = PUBKEY_SIZE
      BY <3>5, OwnerUnlocks
    <3>7. /\ CutSignature(owner, tx, n) = whole /\ CutKey(owner, k) = key
          /\ ScriptTo(owner) = script
      BY <2>3, <2>6, <2>9, <3>3, <3>4 DEF CutSignature, CutKey, ScriptTo
    <3> QED
      BY <2>6, <3>4, <3>6, <3>7
  <2>11. ASSUME NEW i \in DOMAIN s.tx.vin
         PROVE  /\ verify_transaction_signature(
                     WithScriptSig(s.tx, build_script_sig(sig, pubkey)), i, script) = owned
                /\ verify_transaction_signature(Sign(s.tx, s.owner), i, script)
    <3>1. PICK x, y : x = build_script_sig(sig, pubkey) /\ y = build_script_sig(whole, key)
      OBVIOUS
    <3>2. verify_transaction_signature(WithScriptSig(s.tx, x), i, script) = evaluate(x, script, h)
      BY <2>2, <2>6, ScriptOf
    <3>3. verify_transaction_signature(WithScriptSig(s.tx, y), i, script) = evaluate(y, script, h)
      BY <2>2, <2>6, ScriptOf
    <3>4. Sign(s.tx, s.owner) = WithScriptSig(s.tx, y)
      BY <2>6, <2>9, <3>1 DEF Sign
    <3> QED
      BY <2>8, <2>10, <3>1, <3>2, <3>3, <3>4
  <2> QED
    BY <2>1, <2>3, <2>4, <2>5, <2>11 DEF OnlyOwnerSpends
<1> QED
  BY <1>1, AlwaysPicked, PTL

-----------------------------------------------------------------------------
(***************************************************************************)
(* Base58.  Quot(N, b, k) is N without its k last digits in base b, and s  *)
(* is the number N, most significant digit first.                          *)
(***************************************************************************)
Quot(N, b, k) == N \div Power(b, k)

IsNumber(s, N, b) ==
  /\ s \in Seq(0 .. b - 1) /\ Len(s) \in Nat /\ N \in Nat /\ Quot(N, b, Len(s)) = 0
  /\ \A i \in 1 .. Len(s) : s[i] = Quot(N, b, Len(s) - i) % b

LEMMA Quotient ==
  ASSUME NEW a \in Nat, NEW b \in Nat \ {0}, NEW q \in Nat, NEW r \in 0 .. b - 1, a = b * q + r
  PROVE  a \div b = q /\ a % b = r
<1>1. a % b = r
  BY RemainderUnique
<1>2. PICK p : p = a \div b
  OBVIOUS
<1>3. p \in Int /\ a = b * p + r
  BY <1>1, <1>2, Divided
<1>4. b * p = b * q
  <2>1. b * p \in Int /\ b * q \in Int
    BY <1>3
  <2> QED
    BY <1>3, <2>1
<1>5. p = q
  <2>1. b * (p - q) = b * p - b * q
    BY <1>3
  <2>2. b * (p - q) = 0
    BY <1>3, <1>4, <2>1
  <2> QED
    BY <1>3, <2>2
<1> QED
  BY <1>1, <1>2, <1>5

LEMMA QuotientIsNat ==
  ASSUME NEW a \in Nat, NEW b \in Nat \ {0}
  PROVE  a \div b \in Nat /\ a % b \in 0 .. b - 1 /\ a = b * (a \div b) + (a % b)
  OBVIOUS

LEMMA DividedTwice ==
  ASSUME NEW a \in Nat, NEW b \in Nat \ {0}, NEW p \in Nat \ {0}
  PROVE  a \div (b * p) = (a \div p) \div b
<1>1. PICK q, r : q = a \div p /\ r = a % p
  OBVIOUS
<1>2. q \in Nat /\ r \in 0 .. p - 1 /\ a = p * q + r
  BY <1>1, QuotientIsNat
<1>3. PICK t, s : t = q \div b /\ s = q % b
  OBVIOUS
<1>4. t \in Nat /\ s \in 0 .. b - 1 /\ q = b * t + s
  BY <1>2, <1>3, QuotientIsNat
<1>5. PICK c, u : c = b * p /\ u = p * s + r
  OBVIOUS
<1>6. c \in Nat \ {0}
  BY <1>5
<1>7. u \in 0 .. c - 1
  <2>1. s <= b - 1 /\ s \in Nat /\ r \in Nat /\ r <= p - 1
    BY <1>2, <1>4
  <2>2. p * s <= p * (b - 1)
    BY <2>1
  <2>3. p * (b - 1) = c - p
    BY <1>5
  <2>4. p * s \in Nat
    BY <2>1
  <2> QED
    BY <1>5, <1>6, <2>1, <2>2, <2>3, <2>4
<1>8. a = c * t + u
  <2>1. p * (b * t + s) = p * (b * t) + p * s
    BY <1>4
  <2>2. p * (b * t) = c * t
    BY <1>4, <1>5
  <2>3. p * s \in Int /\ c * t \in Int /\ r \in Int
    BY <1>2, <1>4, <1>6
  <2> QED
    BY <1>2, <1>4, <1>5, <2>1, <2>2, <2>3
<1>9. a \div c = t
  BY <1>4, <1>6, <1>7, <1>8, Quotient
<1> QED
  BY <1>1, <1>3, <1>5, <1>9

LEMMA QuotIs ==
  ASSUME NEW N \in Nat, NEW b \in Nat \ {0}
  PROVE  /\ Quot(N, b, 0) = N
         /\ \A k \in Nat : Quot(N, b, k) \in Nat
         /\ \A k \in Nat : Quot(N, b, k + 1) = Quot(N, b, k) \div b
<1>1. \A k \in Nat : Power(b, k) \in Nat \ {0}
  BY PowerPositive
<1>2. Quot(N, b, 0) = N
  <2>1. N \div 1 = N
    OBVIOUS
  <2> QED
    BY <2>1, PowerZero DEF Quot
<1>3. ASSUME NEW k \in Nat
      PROVE  Quot(N, b, k) \in Nat /\ Quot(N, b, k + 1) = Quot(N, b, k) \div b
  <2>1. PICK p : p = Power(b, k) /\ p \in Nat \ {0}
    BY <1>1
  <2>2. Power(b, k + 1) = b * p
    BY <2>1, PowerStep
  <2>3. N \div p \in Nat /\ N \div (b * p) = (N \div p) \div b
    BY <2>1, QuotientIsNat, DividedTwice
  <2> QED
    BY <2>1, <2>2, <2>3 DEF Quot
<1> QED
  BY <1>2, <1>3

LEMMA QuotZero ==
  ASSUME NEW N \in Nat, NEW b \in Nat \ {0}, NEW k \in Nat, N < Power(b, k)
  PROVE  Quot(N, b, k) = 0
<1>1. PICK p : p = Power(b, k) /\ p \in Nat \ {0}
  BY PowerPositive
<1>2. N \in 0 .. p - 1
  BY <1>1
<1>3. N = p * 0 + N
  BY <1>1
<1>4. N \div p = 0
  <2>1. 0 \in Nat
    OBVIOUS
  <2> QED
    BY <1>1, <1>2, <1>3, <2>1, Quotient
<1> QED
  BY <1>1, <1>4 DEF Quot

\* A digit written after the others.
WithDigit(N, b, x) == b * N + x

LEMMA QuotExtended ==
  ASSUME NEW N \in Nat, NEW b \in Nat \ {0}, NEW x \in 0 .. b - 1
  PROVE  /\ WithDigit(N, b, x) \in Nat /\ WithDigit(N, b, x) % b = x
         /\ \A k \in Nat : Quot(WithDigit(N, b, x), b, k + 1) = Quot(N, b, k)
<1>1. PICK m : m = b * N + x /\ m = WithDigit(N, b, x)
  BY DEF WithDigit
<1>2. m \in Nat
  <2>1. b * N \in Nat
    OBVIOUS
  <2> QED
    BY <1>1, <2>1
<1>3. m \div b = N /\ m % b = x
  BY <1>1, <1>2, Quotient
<1>4. ASSUME NEW k \in Nat PROVE Quot(m, b, k + 1) = Quot(N, b, k)
  <2>1. PICK p : p = Power(b, k) /\ p \in Nat \ {0}
    BY PowerPositive
  <2>2. Power(b, k + 1) = p * b
    BY <2>1, PowerStep
  <2>3. m \div (p * b) = (m \div b) \div p
    BY <1>2, <2>1, DividedTwice
  <2> QED
    BY <1>3, <2>1, <2>2, <2>3 DEF Quot
<1> QED
  BY <1>1, <1>2, <1>3, <1>4

-----------------------------------------------------------------------------
(***************************************************************************)
(* A carry through the digits, least significant first.  Whatever the      *)
(* length of the buffer, the digits it has are those of the number.        *)
(***************************************************************************)
HasDigits(d, M, b) ==
  IsSeq(d) /\ \A i \in 1 .. Len(d) : d[i] = Quot(M, b, i - 1) % b

IsCarry(f, d, x, from, to, n) ==
  f = [k \in 0 .. n |-> IF k = 0 THEN x ELSE (f[k - 1] + from * d[k]) \div to]

LEMMA CarryExists ==
  ASSUME NEW d, NEW x, NEW from, NEW to
  PROVE  \A n \in Nat : \E f : IsCarry(f, d, x, from, to, n)
<1> DEFINE T == {n \in Nat : \E f : IsCarry(f, d, x, from, to, n)}
<1>1. 0 \in T
  <2> DEFINE f == [k \in 0 .. 0 |-> x]
  <2>1. IsCarry(f, d, x, from, to, 0)
    BY DEF IsCarry
  <2> HIDE DEF f
  <2> QED
    BY <2>1
<1>2. ASSUME NEW n \in Nat, n \in T PROVE n + 1 \in T
  <2>1. PICK f : IsCarry(f, d, x, from, to, n)
    BY <1>2
  <2> DEFINE g == [k \in 0 .. n + 1 |-> IF k = 0 THEN x ELSE (f[k - 1] + from * d[k]) \div to]
  <2>2. \A k \in 0 .. n : g[k] = f[k]
    <3> TAKE k \in 0 .. n
    <3>1. k \in 0 .. n + 1
      OBVIOUS
    <3>2. g[k] = IF k = 0 THEN x ELSE (f[k - 1] + from * d[k]) \div to
      BY <3>1
    <3>3. f[k] = IF k = 0 THEN x ELSE (f[k - 1] + from * d[k]) \div to
      <4> HIDE DEF g
      <4> QED
        BY <2>1 DEF IsCarry
    <3> HIDE DEF g
    <3> QED
      BY <3>2, <3>3
  <2>3. \A k \in 0 .. n + 1 : k # 0 => k - 1 \in 0 .. n
    OBVIOUS
  <2>4. IsCarry(g, d, x, from, to, n + 1)
    BY <2>2, <2>3 DEF IsCarry
  <2> HIDE DEF g
  <2> QED
    BY <2>4
<1> HIDE DEF T
<1>3. Nat \subseteq T
  BY <1>1, <1>2, InductionSet
<1> QED
  BY <1>3 DEF T

LEMMA CarryOf ==
  ASSUME NEW d, IsSeq(d), NEW x, NEW from, NEW to
  PROVE  \E f : /\ f[0] = x
                /\ \A k \in 1 .. Len(d) : f[k] = (f[k - 1] + from * d[k]) \div to
                /\ AddDigit(d, x, from, to)
                     = [k \in 1 .. Len(d) |-> (f[k - 1] + from * d[k]) % to]
<1>1. Len(d) \in Nat
  BY DEF IsSeq
<1> DEFINE IsF(f) == f = [k \in 0 .. Len(d) |->
                            IF k = 0 THEN x ELSE (f[k - 1] + from * d[k]) \div to]
           f == CHOOSE f : IsF(f)
<1>2. AddDigit(d, x, from, to) = [k \in 1 .. Len(d) |-> (f[k - 1] + from * d[k]) % to]
  BY DEF AddDigit
<1>3. \E g : IsF(g)
  <2>1. PICK g : IsCarry(g, d, x, from, to, Len(d))
    BY <1>1, CarryExists
  <2>2. IsF(g)
    BY <2>1 DEF IsCarry
  <2> QED
    BY <2>2
<1>4. IsF(f)
  BY <1>3
<1>5. f = [k \in 0 .. Len(d) |-> IF k = 0 THEN x ELSE (f[k - 1] + from * d[k]) \div to]
  BY <1>4
<1> HIDE DEF f, IsF
<1>6. 0 \in 0 .. Len(d) /\ \A k \in 1 .. Len(d) : k \in 0 .. Len(d) /\ k # 0
  BY <1>1
<1>7. f[0] = x /\ \A k \in 1 .. Len(d) : f[k] = (f[k - 1] + from * d[k]) \div to
  BY <1>5, <1>6
<1> QED
  BY <1>2, <1>7

\* One turn of the inner loop: c is the carry before it, q what is left of the number.
LEMMA CarryStep ==
  ASSUME NEW c \in Nat, NEW q \in Nat, NEW from \in Nat \ {0}, NEW to \in Nat \ {0}
  PROVE  /\ (c + from * q) % to = (c + from * (q % to)) % to
         /\ (c + from * q) \div to = ((c + from * (q % to)) \div to) + from * (q \div to)
         /\ (c + from * (q % to)) \div to \in Nat
<1>1. PICK p, r : p = q \div to /\ r = q % to
  OBVIOUS
<1>2. p \in Nat /\ r \in 0 .. to - 1 /\ q = to * p + r
  BY <1>1, QuotientIsNat
<1>3. PICK a : a = c + from * r
  OBVIOUS
<1>4. a \in Nat
  <2>1. r \in Nat
    BY <1>2
  <2>2. from * r \in Nat
    BY <2>1
  <2> QED
    BY <1>3, <2>2
<1>5. PICK e, s : e = a \div to /\ s = a % to
  OBVIOUS
<1>6. e \in Nat /\ s \in 0 .. to - 1 /\ a = to * e + s
  BY <1>4, <1>5, QuotientIsNat
<1>7. PICK w : w = c + from * q
  OBVIOUS
<1>8. w \in Nat
  <2>1. from * q \in Nat
    OBVIOUS
  <2> QED
    BY <1>7, <2>1
<1>9. PICK v : v = e + from * p
  OBVIOUS
<1>10. v \in Nat
  <2>1. from * p \in Nat
    BY <1>2
  <2> QED
    BY <1>6, <1>9, <2>1
<1>11. w = to * v + s
  <2>1. from * (to * p + r) = from * (to * p) + from * r
    BY <1>2
  <2>2. from * (to * p) = to * (from * p)
    BY <1>2
  <2>3. to * v = to * e + to * (from * p)
    BY <1>2, <1>6, <1>9
  <2>4. /\ from * r \in Int /\ to * (from * p) \in Int /\ to * e \in Int /\ s \in Int
        /\ to * v \in Int /\ c \in Int
    BY <1>2, <1>6, <1>10
  <2>5. w = c + (to * (from * p) + from * r)
    BY <1>2, <1>7, <2>1, <2>2
  <2>6. c + from * r = to * e + s
    BY <1>3, <1>6
  <2> QED
    BY <2>3, <2>4, <2>5, <2>6
<1>12. w \div to = v /\ w % to = s
  BY <1>6, <1>8, <1>10, <1>11, Quotient
<1> QED
  BY <1>1, <1>3, <1>5, <1>6, <1>7, <1>9, <1>12

LEMMA AddsDigit ==
  ASSUME NEW from \in Nat \ {0}, NEW to \in Nat \ {0}, NEW M \in Nat, NEW x \in Nat,
         NEW d, HasDigits(d, M, to)
  PROVE  /\ HasDigits(AddDigit(d, x, from, to), WithDigit(M, from, x), to)
         /\ Len(AddDigit(d, x, from, to)) = Len(d)
<1>1. PICK f : /\ f[0] = x
               /\ \A k \in 1 .. Len(d) : f[k] = (f[k - 1] + from * d[k]) \div to
               /\ AddDigit(d, x, from, to) = [k \in 1 .. Len(d) |-> (f[k - 1] + from * d[k]) % to]
  BY CarryOf DEF HasDigits
<1>2. PICK n : n = Len(d) /\ n \in Nat
  BY DEF HasDigits, IsSeq
<1>3. PICK w : w = from * M + x /\ w = WithDigit(M, from, x)
  BY DEF WithDigit
<1>4. w \in Nat /\ w = x + from * M
  <2>1. from * M \in Nat
    OBVIOUS
  <2> QED
    BY <1>3, <2>1
<1> DEFINE T == {k \in Nat : k <= n => /\ f[k] \in Nat
                                       /\ Quot(w, to, k) = f[k] + from * Quot(M, to, k)}
<1>5. 0 \in T
  <2>1. Quot(w, to, 0) = w /\ Quot(M, to, 0) = M
    BY <1>4, QuotIs
  <2> QED
    BY <1>1, <1>4, <2>1
<1>6. ASSUME NEW k \in Nat, k <= n => /\ f[k] \in Nat
                                      /\ Quot(w, to, k) = f[k] + from * Quot(M, to, k),
             k + 1 <= n
      PROVE  /\ f[k + 1] \in Nat /\ Quot(w, to, k + 1) = f[k + 1] + from * Quot(M, to, k + 1)
             /\ (f[k] + from * d[k + 1]) % to = Quot(w, to, k) % to
  <2>1. k <= n /\ k + 1 \in 1 .. n /\ (k + 1) - 1 = k
    BY <1>2, <1>6
  <2>2. PICK c, q : c = f[k] /\ q = Quot(M, to, k)
    OBVIOUS
  <2>3. c \in Nat /\ q \in Nat /\ Quot(w, to, k) = c + from * q
    BY <1>6, <2>1, <2>2, QuotIs
  <2>4. d[k + 1] = q % to
    BY <1>2, <2>1, <2>2 DEF HasDigits
  <2>5. f[k + 1] = (c + from * (q % to)) \div to
    BY <1>1, <1>2, <2>1, <2>2, <2>4
  <2>6. Quot(w, to, k + 1) = (c + from * q) \div to /\ Quot(M, to, k + 1) = q \div to
    BY <1>4, <2>2, <2>3, QuotIs
  <2>7. /\ (c + from * q) % to = (c + from * (q % to)) % to
        /\ (c + from * q) \div to = ((c + from * (q % to)) \div to) + from * (q \div to)
        /\ (c + from * (q % to)) \div to \in Nat
    BY <2>3, CarryStep
  <2> QED
    BY <2>2, <2>3, <2>4, <2>5, <2>6, <2>7
<1>7. \A k \in Nat : k \in T => k + 1 \in T
  BY <1>2, <1>6
<1>8. \A k \in Nat : k <= n => /\ f[k] \in Nat
                               /\ Quot(w, to, k) = f[k] + from * Quot(M, to, k)
  <2> HIDE DEF T
  <2>1. Nat \subseteq T
    BY <1>5, <1>7, InductionSet
  <2> QED
    BY <2>1 DEF T
<1> HIDE DEF T
<1>9. PICK o : o = AddDigit(d, x, from, to)
  OBVIOUS
<1>10. o = [k \in 1 .. n |-> (f[k - 1] + from * d[k]) % to]
  BY <1>1, <1>2, <1>9
<1>11. IsSeq(o) /\ Len(o) = n
  <2>1. PICK S : \A k \in 1 .. n : (f[k - 1] + from * d[k]) % to \in S
    <3>1. \A k \in 1 .. n : (f[k - 1] + from * d[k]) % to
                               \in {(f[j - 1] + from * d[j]) % to : j \in 1 .. n}
      OBVIOUS
    <3> QED
      BY <3>1
  <2>2. o \in Seq(S) /\ Len(o) = n
    BY <1>2, <1>10, <2>1, IsASeq
  <2> QED
    BY <2>2 DEF IsSeq
<1>12. ASSUME NEW i \in 1 .. n PROVE o[i] = Quot(w, to, i - 1) % to
  <2>1. PICK k : k = i - 1
    OBVIOUS
  <2>2. k \in Nat /\ k + 1 = i /\ k + 1 <= n /\ k <= n
    BY <1>2, <2>1
  <2>3. (f[k] + from * d[k + 1]) % to = Quot(w, to, k) % to
    BY <1>6, <1>8, <2>2
  <2> QED
    BY <1>10, <2>1, <2>2, <2>3
<1> QED
  BY <1>2, <1>3, <1>9, <1>11, <1>12 DEF HasDigits

-----------------------------------------------------------------------------
(***************************************************************************)
(* Numbers and their digits, most significant first.                       *)
(***************************************************************************)
\* Without a leading zero.
Plain(s) == Len(s) # 0 => s[1] # 0

LEMMA LeadingIs ==
  ASSUME NEW s, IsSeq(s)
  PROVE  /\ Leading(s) \in 0 .. Len(s) /\ \A i \in 1 .. Leading(s) : s[i] = 0
         /\ Leading(s) < Len(s) => s[Leading(s) + 1] # 0
<1>1. PICK n : n = Len(s) /\ n \in Nat
  BY DEF IsSeq
<1> DEFINE Zeros(k) == (\A i \in 1 .. k : s[i] = 0) /\ (k < Len(s) => s[k + 1] # 0)
<1> DEFINE T == {k \in Nat : k <= n => (\E j \in 0 .. n : Zeros(j)) \/ \A i \in 1 .. k : s[i] = 0}
<1>2. 0 \in T
  OBVIOUS
<1>3. ASSUME NEW k \in Nat, k \in T PROVE k + 1 \in T
  <2>1. CASE k + 1 <= n
    <3>1. CASE \E j \in 0 .. n : Zeros(j)
      BY <3>1
    <3>2. CASE \A i \in 1 .. k : s[i] = 0
      <4>1. CASE s[k + 1] = 0
        <5>1. \A i \in 1 .. k + 1 : i \in 1 .. k \/ i = k + 1
          OBVIOUS
        <5>2. \A i \in 1 .. k + 1 : s[i] = 0
          BY <3>2, <4>1, <5>1
        <5> QED
          BY <5>2
      <4>2. CASE s[k + 1] # 0
        <5>1. k \in 0 .. n
          BY <1>1, <2>1
        <5>2. Zeros(k)
          BY <3>2, <4>2
        <5> QED
          BY <5>1, <5>2
      <4> QED
        BY <4>1, <4>2
    <3>3. k <= n
      BY <1>1, <2>1
    <3> QED
      BY <1>3, <3>1, <3>2, <3>3
  <2> QED
    BY <1>1, <2>1
<1>4. n \in T
  <2> HIDE DEF T
  <2>1. Nat \subseteq T
    BY <1>2, <1>3, InductionSet
  <2> QED
    BY <1>1, <2>1
<1>5. \E j \in 0 .. n : Zeros(j)
  <2>1. CASE \A i \in 1 .. n : s[i] = 0
    <3>1. Zeros(n) /\ n \in 0 .. n
      BY <1>1, <2>1
    <3> QED
      BY <3>1
  <2> QED
    BY <1>1, <1>4, <2>1
<1>6. Leading(s) = CHOOSE k \in 0 .. Len(s) : Zeros(k)
  BY DEF Leading
<1>7. Leading(s) \in 0 .. Len(s) /\ Zeros(Leading(s))
  <2> HIDE DEF Zeros
  <2> QED
    BY <1>1, <1>5, <1>6
<1> QED
  BY <1>7

LEMMA StrippedIs ==
  ASSUME NEW s, IsSeq(s), NEW k \in 0 .. Len(s)
  PROVE  /\ IsSeq(Stripped(s, k)) /\ Len(Stripped(s, k)) = Len(s) - k
         /\ \A j \in 1 .. Len(s) - k : Stripped(s, k)[j] = s[k + j]
         /\ \A S : s \in Seq(S) => Stripped(s, k) \in Seq(S)
<1>1. PICK n : n = Len(s) /\ n \in Nat
  BY DEF IsSeq
<1>2. k \in Nat /\ k <= n
  BY <1>1
<1>3. PICK q, m : m = k + 1 /\ q = SubSeq(s, m, n)
  OBVIOUS
<1>4. m \in Int /\ n \in Int /\ n - m + 1 = n - k /\ (IF m <= n THEN n - m + 1 ELSE 0) = n - k
  BY <1>1, <1>2, <1>3
<1>5. ASSUME NEW S, s \in Seq(S)
      PROVE  q \in Seq(S) /\ Len(q) = n - k /\ \A j \in 1 .. n - k : q[j] = s[m + j - 1]
  <2>1. \A j \in m .. n : s[j] \in S
    <3>1. \A j \in m .. n : j \in 1 .. Len(s)
      BY <1>1, <1>2, <1>3
    <3> QED
      BY <1>5, <3>1, ElementOfSeq
  <2>2. /\ q \in Seq(S) /\ Len(q) = (IF m <= n THEN n - m + 1 ELSE 0)
        /\ \A j \in 1 .. n - m + 1 : q[j] = s[m + j - 1]
    BY <1>3, <1>4, <2>1, SubSeqProperties
  <2> QED
    BY <1>4, <2>2
<1>6. PICK S : s \in Seq(S)
  BY DEF IsSeq
<1>7. IsSeq(q) /\ Len(q) = n - k /\ \A j \in 1 .. n - k : q[j] = s[m + j - 1]
  BY <1>5, <1>6 DEF IsSeq
<1>8. \A j \in 1 .. n - k : m + j - 1 = k + j
  BY <1>1, <1>2, <1>3
<1>9. Stripped(s, k) = q
  BY <1>1, <1>3 DEF Stripped
<1> QED
  BY <1>1, <1>5, <1>7, <1>8, <1>9

\* A number has no more digits than it needs once its leading zeros are gone.
LEMMA NumberStripped ==
  ASSUME NEW s, NEW N, NEW b \in Nat \ {0}, IsNumber(s, N, b)
  PROVE  /\ IsNumber(Stripped(s, Leading(s)), N, b) /\ Plain(Stripped(s, Leading(s)))
<1>1. PICK n : n = Len(s) /\ n \in Nat
  BY DEF IsNumber
<1>2. /\ s \in Seq(0 .. b - 1) /\ N \in Nat /\ Quot(N, b, n) = 0
      /\ \A i \in 1 .. n : s[i] = Quot(N, b, n - i) % b
  BY <1>1 DEF IsNumber
<1>3. IsSeq(s)
  BY <1>2 DEF IsSeq
<1>4. PICK k : k = Leading(s)
  OBVIOUS
<1>5. k \in 0 .. n /\ (\A i \in 1 .. k : s[i] = 0) /\ (k < n => s[k + 1] # 0)
  BY <1>1, <1>3, <1>4, LeadingIs
<1> DEFINE T == {j \in Nat : j <= k => Quot(N, b, n - j) = 0}
<1>6. 0 \in T
  <2>1. n - 0 = n
    BY <1>1
  <2> QED
    BY <1>2, <2>1
<1>7. ASSUME NEW j \in Nat, j \in T PROVE j + 1 \in T
  <2>1. CASE j + 1 <= k
    <3>1. PICK m : m = n - (j + 1)
      OBVIOUS
    <3>2. /\ m \in Nat /\ m + 1 = n - j /\ j <= k /\ j + 1 \in 1 .. k /\ j + 1 \in 1 .. n
      BY <1>1, <1>5, <2>1, <3>1
    <3>3. PICK q : q = Quot(N, b, m) /\ q \in Nat
      BY <1>2, <3>2, QuotIs
    <3>4. Quot(N, b, m + 1) = q \div b
      BY <1>2, <3>2, <3>3, QuotIs
    <3>5. q \div b = 0
      BY <1>7, <3>2, <3>4
    <3>6. q % b = 0
      BY <1>2, <1>5, <3>1, <3>2, <3>3
    <3>7. q = b * 0 + 0
      BY <3>3, <3>5, <3>6, QuotientIsNat
    <3>8. q = 0
      BY <3>7
    <3> QED
      BY <3>1, <3>3, <3>8
  <2> QED
    BY <2>1
<1>8. Quot(N, b, n - k) = 0
  <2> HIDE DEF T
  <2>1. k \in Nat
    BY <1>1, <1>5
  <2>2. k \in T
    BY <1>6, <1>7, <2>1, InductionSet
  <2> QED
    BY <1>1, <1>5, <2>1, <2>2 DEF T
<1> HIDE DEF T
<1>9. PICK t, l : t = Stripped(s, k) /\ l = n - k
  OBVIOUS
<1>10. l \in Nat /\ k \in Nat
  BY <1>1, <1>5, <1>9
<1>11. /\ t \in Seq(0 .. b - 1) /\ Len(t) = l /\ \A j \in 1 .. l : t[j] = s[k + j]
  <2>1. k \in 0 .. Len(s)
    BY <1>1, <1>5
  <2>2. /\ Len(Stripped(s, k)) = Len(s) - k
        /\ \A j \in 1 .. Len(s) - k : Stripped(s, k)[j] = s[k + j]
        /\ \A S : s \in Seq(S) => Stripped(s, k) \in Seq(S)
    BY <1>3, <2>1, StrippedIs
  <2> QED
    BY <1>1, <1>2, <1>9, <2>2
<1>12. ASSUME NEW j \in 1 .. l PROVE t[j] = Quot(N, b, l - j) % b
  <2>1. k + j \in 1 .. n /\ n - (k + j) = l - j
    BY <1>1, <1>9, <1>10
  <2> QED
    BY <1>2, <1>11, <2>1
<1>13. IsNumber(t, N, b)
  BY <1>2, <1>8, <1>9, <1>10, <1>11, <1>12 DEF IsNumber
<1>14. Plain(t)
  <2>1. l # 0 => k < n /\ 1 \in 1 .. l
    BY <1>1, <1>9, <1>10
  <2> QED
    BY <1>5, <1>11, <2>1 DEF Plain
<1> QED
  BY <1>4, <1>9, <1>13, <1>14

LEMMA QuotStaysZero ==
  ASSUME NEW N \in Nat, NEW b \in Nat \ {0}, NEW j \in Nat, Quot(N, b, j) = 0
  PROVE  \A k \in Nat : Quot(N, b, j + k) = 0
<1> DEFINE T == {k \in Nat : Quot(N, b, j + k) = 0}
<1>1. 0 \in T
  <2>1. j + 0 = j
    OBVIOUS
  <2> QED
    BY <2>1
<1>2. ASSUME NEW k \in Nat, k \in T PROVE k + 1 \in T
  <2>1. PICK m : m = j + k /\ m \in Nat
    OBVIOUS
  <2>2. Quot(N, b, m + 1) = Quot(N, b, m) \div b /\ Quot(N, b, m) = 0
    BY <1>2, <2>1, QuotIs
  <2>3. 0 \div b = 0
    OBVIOUS
  <2>4. j + (k + 1) = m + 1
    BY <2>1
  <2> QED
    BY <2>2, <2>3, <2>4
<1> HIDE DEF T
<1>3. Nat \subseteq T
  BY <1>1, <1>2, InductionSet
<1> QED
  BY <1>3 DEF T

\* A number has one plain string of digits, and a string is one number.
LEMMA SameDigits ==
  ASSUME NEW N, NEW b \in Nat \ {0}, NEW s, IsNumber(s, N, b), Plain(s),
         NEW t, IsNumber(t, N, b), Plain(t)
  PROVE  s = t
<1>1. ASSUME NEW u, IsNumber(u, N, b), NEW v, IsNumber(v, N, b), Plain(v), Len(u) < Len(v)
      PROVE  FALSE
  <2>1. PICK l, n : l = Len(u) /\ n = Len(v)
    OBVIOUS
  <2>2. /\ l \in Nat /\ n \in Nat /\ l < n /\ N \in Nat /\ Quot(N, b, l) = 0
        /\ v[1] # 0 /\ 1 \in 1 .. n
    <3>1. l \in Nat /\ n \in Nat /\ N \in Nat /\ Quot(N, b, l) = 0
      BY <1>1, <2>1 DEF IsNumber
    <3>2. l < n
      BY <1>1, <2>1
    <3>3. n # 0 /\ 1 \in 1 .. n
      BY <3>1, <3>2
    <3> QED
      BY <1>1, <2>1, <3>1, <3>2, <3>3 DEF Plain
  <2>3. PICK k : k = n - 1 - l
    OBVIOUS
  <2>4. k \in Nat /\ l + k = n - 1
    BY <2>2, <2>3
  <2>5. Quot(N, b, l + k) = 0
    BY <2>2, <2>4, QuotStaysZero
  <2>6. v[1] = Quot(N, b, n - 1) % b
    BY <1>1, <2>1, <2>2 DEF IsNumber
  <2>7. 0 % b = 0
    OBVIOUS
  <2> QED
    BY <2>2, <2>4, <2>5, <2>6, <2>7
<1>2. Len(s) = Len(t)
  <2>1. ~(Len(s) < Len(t)) /\ ~(Len(t) < Len(s))
    BY <1>1
  <2>2. Len(s) \in Nat /\ Len(t) \in Nat
    BY DEF IsNumber
  <2> QED
    BY <2>1, <2>2
<1>3. \A i \in 1 .. Len(s) : s[i] = t[i]
  BY <1>2 DEF IsNumber
<1>4. s \in Seq(0 .. b - 1) /\ t \in Seq(0 .. b - 1)
  BY DEF IsNumber
<1> QED
  BY <1>2, <1>3, <1>4, SeqEqual

LEMMA SameNumber ==
  ASSUME NEW s, NEW b \in Nat \ {0}, NEW N, IsNumber(s, N, b), NEW M, IsNumber(s, M, b)
  PROVE  N = M
<1>1. PICK n : n = Len(s) /\ n \in Nat
  BY DEF IsNumber
<1>2. /\ N \in Nat /\ M \in Nat /\ Quot(N, b, n) = 0 /\ Quot(M, b, n) = 0
      /\ \A i \in 1 .. n : Quot(N, b, n - i) % b = Quot(M, b, n - i) % b
  BY <1>1 DEF IsNumber
<1> DEFINE T == {j \in Nat : j <= n => Quot(N, b, n - j) = Quot(M, b, n - j)}
<1>3. 0 \in T
  <2>1. n - 0 = n
    BY <1>1
  <2> QED
    BY <1>2, <2>1
<1>4. ASSUME NEW j \in Nat, j \in T PROVE j + 1 \in T
  <2>1. CASE j + 1 <= n
    <3>1. PICK m : m = n - (j + 1)
      OBVIOUS
    <3>2. m \in Nat /\ m + 1 = n - j /\ j <= n /\ j + 1 \in 1 .. n
      BY <1>1, <2>1, <3>1
    <3>3. PICK q, r : q = Quot(N, b, m) /\ r = Quot(M, b, m)
      OBVIOUS
    <3>4. /\ q \in Nat /\ r \in Nat /\ Quot(N, b, m + 1) = q \div b /\ Quot(M, b, m + 1) = r \div b
      BY <1>2, <3>2, <3>3, QuotIs
    <3>5. q \div b = r \div b
      BY <1>4, <3>2, <3>4
    <3>6. q % b = r % b
      BY <1>2, <3>1, <3>2, <3>3
    <3>7. q = b * (q \div b) + (q % b) /\ r = b * (r \div b) + (r % b)
      BY <3>4, QuotientIsNat
    <3>8. q = r
      BY <3>5, <3>6, <3>7
    <3> QED
      BY <3>1, <3>3, <3>8
  <2> QED
    BY <2>1
<1>5. Quot(N, b, n - n) = Quot(M, b, n - n)
  <2> HIDE DEF T
  <2>1. n \in T
    BY <1>1, <1>3, <1>4, InductionSet
  <2> QED
    BY <1>1, <2>1 DEF T
<1> HIDE DEF T
<1>6. n - n = 0
  BY <1>1
<1> QED
  BY <1>2, <1>5, <1>6, QuotIs

-----------------------------------------------------------------------------
(***************************************************************************)
(* A conversion: the outer loop, then the leading zeros.                   *)
(***************************************************************************)
IsBuffer(f, s, size, from, to, n) ==
  f = [k \in 0 .. n |-> IF k = 0 THEN Repeat(0, size) ELSE AddDigit(f[k - 1], s[k], from, to)]

LEMMA BufferExists ==
  ASSUME NEW s, NEW size, NEW from, NEW to
  PROVE  \A n \in Nat : \E f : IsBuffer(f, s, size, from, to, n)
<1> DEFINE T == {n \in Nat : \E f : IsBuffer(f, s, size, from, to, n)}
<1>1. 0 \in T
  <2> DEFINE f == [k \in 0 .. 0 |-> Repeat(0, size)]
  <2>1. IsBuffer(f, s, size, from, to, 0)
    BY DEF IsBuffer
  <2> HIDE DEF f
  <2> QED
    BY <2>1
<1>2. ASSUME NEW n \in Nat, n \in T PROVE n + 1 \in T
  <2>1. PICK f : IsBuffer(f, s, size, from, to, n)
    BY <1>2
  <2> DEFINE g == [k \in 0 .. n + 1 |->
                     IF k = 0 THEN Repeat(0, size) ELSE AddDigit(f[k - 1], s[k], from, to)]
  <2>2. \A k \in 0 .. n : g[k] = f[k]
    <3> TAKE k \in 0 .. n
    <3>1. k \in 0 .. n + 1
      OBVIOUS
    <3>2. g[k] = IF k = 0 THEN Repeat(0, size) ELSE AddDigit(f[k - 1], s[k], from, to)
      BY <3>1
    <3>3. f[k] = IF k = 0 THEN Repeat(0, size) ELSE AddDigit(f[k - 1], s[k], from, to)
      <4> HIDE DEF g
      <4> QED
        BY <2>1 DEF IsBuffer
    <3> HIDE DEF g
    <3> QED
      BY <3>2, <3>3
  <2>3. \A k \in 0 .. n + 1 : k # 0 => k - 1 \in 0 .. n
    OBVIOUS
  <2>4. IsBuffer(g, s, size, from, to, n + 1)
    BY <2>2, <2>3 DEF IsBuffer
  <2> HIDE DEF g
  <2> QED
    BY <2>4
<1> HIDE DEF T
<1>3. Nat \subseteq T
  BY <1>1, <1>2, InductionSet
<1> QED
  BY <1>3 DEF T

Buffers(f, input, s, size, from, to) ==
  /\ f[0] = Repeat(0, size)
  /\ \A k \in 1 .. Len(s) : f[k] = AddDigit(f[k - 1], s[k], from, to)
  /\ Converted(input, size, from, to) =
       Repeat(0, Leading(input)) \o Stripped(Reverse(f[Len(s)]), Leading(Reverse(f[Len(s)])))

LEMMA BufferOf ==
  ASSUME NEW input, NEW size, NEW from, NEW to, Len(Stripped(input, Leading(input))) \in Nat
  PROVE  \E f : Buffers(f, input, Stripped(input, Leading(input)), size, from, to)
<1>0. PICK s : s = Stripped(input, Leading(input)) /\ Len(s) \in Nat
  OBVIOUS
<1> DEFINE IsF(f) == f = [k \in 0 .. Len(s) |->
                           IF k = 0 THEN Repeat(0, size) ELSE AddDigit(f[k - 1], s[k], from, to)]
           f == CHOOSE f : IsF(f)
<1>2. Converted(input, size, from, to) =
        Repeat(0, Leading(input)) \o Stripped(Reverse(f[Len(s)]), Leading(Reverse(f[Len(s)])))
  BY <1>0 DEF Converted
<1>3. \E g : IsF(g)
  <2>1. PICK g : IsBuffer(g, s, size, from, to, Len(s))
    BY <1>0, BufferExists
  <2>2. IsF(g)
    BY <2>1 DEF IsBuffer
  <2> QED
    BY <2>2
<1>4. IsF(f)
  BY <1>3
<1>5. f = [k \in 0 .. Len(s) |->
             IF k = 0 THEN Repeat(0, size) ELSE AddDigit(f[k - 1], s[k], from, to)]
  BY <1>4
<1> HIDE DEF f, IsF
<1>6. 0 \in 0 .. Len(s) /\ \A k \in 1 .. Len(s) : k \in 0 .. Len(s) /\ k # 0
  BY <1>0
<1>7. f[0] = Repeat(0, size) /\ \A k \in 1 .. Len(s) : f[k] = AddDigit(f[k - 1], s[k], from, to)
  BY <1>5, <1>6
<1>8. Buffers(f, input, s, size, from, to)
  BY <1>2, <1>7 DEF Buffers
<1> QED
  BY <1>0, <1>8

\* After k digits: the number they are, below its power, and its digits in the other base.
ReadUpTo(f, s, size, from, to, k, N) ==
  /\ N \in Nat /\ N < Power(from, k) /\ Quot(N, from, k) = 0
  /\ \A i \in 1 .. k : s[i] = Quot(N, from, k - i) % from
  /\ HasDigits(f[k], N, to) /\ Len(f[k]) = size

LEMMA DigitsRead ==
  ASSUME NEW from \in Nat \ {0}, NEW to \in Nat \ {0}, NEW size \in Nat, NEW f, NEW n \in Nat,
         NEW s, \A i \in 1 .. n : s[i] \in 0 .. from - 1, f[0] = Repeat(0, size),
         \A k \in 1 .. n : f[k] = AddDigit(f[k - 1], s[k], from, to)
  PROVE  \E N : ReadUpTo(f, s, size, from, to, n, N)
<1> DEFINE T == {k \in Nat : k <= n => \E N : ReadUpTo(f, s, size, from, to, k, N)}
<1>1. 0 \in T
  <2>1. PICK z : z = 0 /\ z \in Nat
    OBVIOUS
  <2>2. Power(from, z) = 1
    BY <2>1, PowerZero
  <2>3. \A k \in Nat : Quot(z, to, k) = 0 /\ Quot(z, from, k) = 0
    <3> TAKE k \in Nat
    <3>1. z < Power(to, k) /\ z < Power(from, k)
      <4>1. Power(to, k) \in Nat \ {0} /\ Power(from, k) \in Nat \ {0}
        BY PowerPositive
      <4> QED
        BY <2>1, <4>1
    <3> QED
      BY <2>1, <3>1, QuotZero
  <2>4. PICK d : d = Repeat(0, size)
    OBVIOUS
  <2>5. IsSeq(d) /\ Len(d) = size /\ \A i \in 1 .. size : d[i] = 0
    BY <2>4, RepeatIs
  <2>6. HasDigits(d, z, to)
    <3>1. \A i \in 1 .. size : i - 1 \in Nat
      OBVIOUS
    <3>2. 0 % to = 0
      OBVIOUS
    <3> QED
      BY <2>3, <2>5, <3>1, <3>2 DEF HasDigits
  <2>7. \A i \in 1 .. z : s[i] = Quot(z, from, z - i) % from
    BY <2>1
  <2>8. z < Power(from, z)
    BY <2>1, <2>2
  <2>9. f[z] = d
    BY <2>1, <2>4
  <2>10. ReadUpTo(f, s, size, from, to, z, z)
    BY <2>1, <2>3, <2>5, <2>6, <2>7, <2>8, <2>9 DEF ReadUpTo
  <2> QED
    BY <2>1, <2>10
<1>2. ASSUME NEW k \in Nat, k \in T PROVE k + 1 \in T
  <2>1. CASE k + 1 <= n
    <3>1. k <= n /\ k + 1 \in 1 .. n /\ (k + 1) - 1 = k
      BY <2>1
    <3>2. PICK N : ReadUpTo(f, s, size, from, to, k, N)
      BY <1>2, <3>1
    <3>3. /\ N \in Nat /\ N < Power(from, k) /\ Quot(N, from, k) = 0
          /\ \A i \in 1 .. k : s[i] = Quot(N, from, k - i) % from
          /\ HasDigits(f[k], N, to) /\ Len(f[k]) = size
      BY <3>2 DEF ReadUpTo
    <3>4. PICK x : x = s[k + 1] /\ x \in 0 .. from - 1
      BY <3>1
    <3>5. x \in Nat
      BY <3>4
    <3>6. PICK M : M = from * N + x /\ M = WithDigit(N, from, x)
      BY DEF WithDigit
    <3>7. /\ M \in Nat /\ M % from = x
          /\ \A j \in Nat : Quot(M, from, j + 1) = Quot(N, from, j)
      <4>1. N \in Nat /\ x \in 0 .. from - 1
        BY <3>3, <3>4
      <4>2. /\ WithDigit(N, from, x) \in Nat /\ WithDigit(N, from, x) % from = x
            /\ \A j \in Nat : Quot(WithDigit(N, from, x), from, j + 1) = Quot(N, from, j)
        BY <4>1, QuotExtended
      <4> QED
        BY <3>6, <4>2
    <3>8. M < Power(from, k + 1)
      <4>1. PICK p : p = Power(from, k) /\ p \in Nat \ {0}
        BY PowerPositive
      <4>2. Power(from, k + 1) = from * p
        BY <4>1, PowerStep
      <4>3. N <= p - 1
        BY <3>3, <4>1
      <4>4. from * N <= from * (p - 1)
        BY <3>3, <4>1, <4>3
      <4>5. from * (p - 1) = from * p - from
        BY <4>1
      <4>6. from * N \in Nat /\ from * p \in Nat /\ x <= from - 1
        BY <3>3, <3>4, <4>1
      <4> QED
        BY <3>5, <3>6, <4>2, <4>4, <4>5, <4>6
    <3>9. Quot(M, from, k + 1) = 0
      BY <3>3, <3>7
    <3>10. ASSUME NEW i \in 1 .. k + 1 PROVE s[i] = Quot(M, from, (k + 1) - i) % from
      <4>1. CASE i = k + 1
        <5>1. (k + 1) - i = 0
          BY <4>1
        <5>2. Quot(M, from, 0) = M
          BY <3>7, QuotIs
        <5> QED
          BY <3>4, <3>7, <4>1, <5>1, <5>2
      <4>2. CASE i # k + 1
        <5>1. PICK j : j = k - i
          OBVIOUS
        <5>2. i \in 1 .. k /\ j \in Nat /\ (k + 1) - i = j + 1
          BY <4>2, <5>1
        <5> QED
          BY <3>3, <3>7, <5>1, <5>2
      <4> QED
        BY <4>1, <4>2
    <3>11. HasDigits(f[k + 1], M, to) /\ Len(f[k + 1]) = size
      <4>1. PICK d : d = f[k]
        OBVIOUS
      <4>2. N \in Nat /\ HasDigits(d, N, to)
        BY <3>3, <4>1
      <4>4. /\ HasDigits(AddDigit(d, x, from, to), WithDigit(N, from, x), to)
            /\ Len(AddDigit(d, x, from, to)) = Len(d)
        BY <3>5, <4>2, AddsDigit
      <4>3. f[k + 1] = AddDigit(d, x, from, to)
        BY <3>1, <3>4, <4>1
      <4> QED
        BY <3>3, <3>6, <4>1, <4>3, <4>4
    <3>12. ReadUpTo(f, s, size, from, to, k + 1, M)
      BY <3>7, <3>8, <3>9, <3>10, <3>11 DEF ReadUpTo
    <3> QED
      BY <3>12
  <2> QED
    BY <2>1
<1> HIDE DEF T
<1>3. n \in T
  BY <1>1, <1>2, InductionSet
<1>4. n <= n
  OBVIOUS
<1> QED
  BY <1>3, <1>4 DEF T

LEMMA ReversedNumber ==
  ASSUME NEW d, NEW N \in Nat, NEW b \in Nat \ {0}, HasDigits(d, N, b), Quot(N, b, Len(d)) = 0
  PROVE  IsNumber(Reverse(d), N, b)
<1>1. PICK n : n = Len(d) /\ n \in Nat
  BY DEF HasDigits, IsSeq
<1>2. PICK r : r = Reverse(d)
  OBVIOUS
<1>3. r = [i \in 1 .. n |-> d[(n - i) + 1]]
  BY <1>1, <1>2 DEF Reverse
<1>4. ASSUME NEW i \in 1 .. n
      PROVE  d[(n - i) + 1] = Quot(N, b, n - i) % b /\ d[(n - i) + 1] \in 0 .. b - 1
  <2>1. PICK j : j = (n - i) + 1
    OBVIOUS
  <2>2. j \in 1 .. n /\ j - 1 = n - i /\ n - i \in Nat
    BY <1>1, <2>1
  <2>3. d[j] = Quot(N, b, j - 1) % b
    BY <1>1, <2>2 DEF HasDigits
  <2>4. Quot(N, b, n - i) \in Nat
    BY <2>2, QuotIs
  <2>5. Quot(N, b, n - i) % b \in 0 .. b - 1
    BY <2>4, QuotientIsNat
  <2> QED
    BY <2>1, <2>2, <2>3, <2>5
<1>5. r \in Seq(0 .. b - 1) /\ Len(r) = n
  BY <1>1, <1>3, <1>4, IsASeq
<1>6. \A i \in 1 .. n : r[i] = Quot(N, b, n - i) % b
  BY <1>3, <1>4
<1> QED
  BY <1>1, <1>2, <1>5, <1>6 DEF IsNumber

LEMMA PlainStripped ==
  ASSUME NEW s, IsSeq(s)
  PROVE  /\ Plain(Stripped(s, Leading(s))) /\ Leading(s) \in Nat
         /\ s = Repeat(0, Leading(s)) \o Stripped(s, Leading(s))
<1>1. PICK n, k : n = Len(s) /\ n \in Nat /\ k = Leading(s)
  BY DEF IsSeq
<1>2. k \in 0 .. n /\ (\A i \in 1 .. k : s[i] = 0) /\ (k < n => s[k + 1] # 0)
  BY <1>1, LeadingIs
<1>3. k \in Nat /\ k <= n
  BY <1>1, <1>2
<1>4. PICK t : t = Stripped(s, k)
  OBVIOUS
<1>5. IsSeq(t) /\ Len(t) = n - k /\ \A j \in 1 .. n - k : t[j] = s[k + j]
  <2>1. k \in 0 .. Len(s)
    BY <1>1, <1>2
  <2>2. /\ IsSeq(Stripped(s, k)) /\ Len(Stripped(s, k)) = Len(s) - k
        /\ \A j \in 1 .. Len(s) - k : Stripped(s, k)[j] = s[k + j]
    BY <2>1, StrippedIs
  <2> QED
    BY <1>1, <1>4, <2>2
<1>6. Plain(t)
  <2>1. n - k # 0 => k < n /\ 1 \in 1 .. n - k
    BY <1>1, <1>3
  <2> QED
    BY <1>2, <1>5, <2>1 DEF Plain
<1>7. PICK z, u : z = Repeat(0, k) /\ u = z \o t
  OBVIOUS
<1>8. IsSeq(z) /\ Len(z) = k /\ \A i \in 1 .. k : z[i] = 0
  BY <1>3, <1>7, RepeatIs
<1>9. /\ IsSeq(u) /\ Len(u) = Len(z) + Len(t)
      /\ \A i \in 1 .. Len(z) : u[i] = z[i]
      /\ \A i \in 1 .. Len(t) : u[Len(z) + i] = t[i]
  <2>1. IsSeq(z) /\ IsSeq(t)
    BY <1>5, <1>8
  <2> QED
    BY <1>7, <2>1, Concatenated
<1>10. Len(u) = n
  BY <1>1, <1>3, <1>5, <1>8, <1>9
<1>11. ASSUME NEW i \in 1 .. n PROVE u[i] = s[i]
  <2>1. CASE i <= k
    <3>1. i \in 1 .. k
      BY <1>3, <2>1
    <3> QED
      BY <1>2, <1>8, <1>9, <3>1
  <2>2. CASE ~(i <= k)
    <3>1. PICK j : j = i - k
      OBVIOUS
    <3>2. j \in 1 .. n - k /\ k + j = i
      BY <1>1, <1>3, <2>2, <3>1
    <3>3. u[Len(z) + j] = t[j]
      BY <1>5, <1>9, <3>2
    <3> QED
      BY <1>5, <1>8, <3>2, <3>3
  <2> QED
    BY <2>1, <2>2
<1>12. u = s
  <2>1. IsSeq(u) /\ Len(u) = Len(s) /\ \A i \in 1 .. Len(u) : u[i] = s[i]
    BY <1>1, <1>9, <1>10, <1>11
  <2> QED
    BY <2>1, SameSeq
<1> QED
  BY <1>1, <1>3, <1>4, <1>6, <1>7, <1>12

LEMMA ZerosBefore ==
  ASSUME NEW t, IsSeq(t), Plain(t), NEW k \in Nat
  PROVE  /\ IsSeq(Repeat(0, k) \o t) /\ Leading(Repeat(0, k) \o t) = k
         /\ Stripped(Repeat(0, k) \o t, k) = t
         /\ Len(Repeat(0, k) \o t) - k = Len(t)
<1>1. PICK z, u : z = Repeat(0, k) /\ u = z \o t
  OBVIOUS
<1>2. IsSeq(z) /\ Len(z) = k /\ \A i \in 1 .. k : z[i] = 0
  BY <1>1, RepeatIs
<1>3. PICK l : l = Len(t) /\ l \in Nat
  BY DEF IsSeq
<1>4. /\ IsSeq(u) /\ Len(u) = k + l
      /\ \A i \in 1 .. k : u[i] = 0
      /\ \A i \in 1 .. l : u[k + i] = t[i]
  <2>1. IsSeq(z) /\ IsSeq(t)
    BY <1>2
  <2>2. /\ IsSeq(u) /\ Len(u) = Len(z) + Len(t)
        /\ \A i \in 1 .. Len(z) : u[i] = z[i]
        /\ \A i \in 1 .. Len(t) : u[Len(z) + i] = t[i]
    BY <1>1, <2>1, Concatenated
  <2> QED
    BY <1>2, <1>3, <2>2
<1>5. PICK j : j = Leading(u)
  OBVIOUS
<1>6. j \in 0 .. Len(u) /\ (\A i \in 1 .. j : u[i] = 0) /\ (j < Len(u) => u[j + 1] # 0)
  BY <1>4, <1>5, LeadingIs
<1>7. j = k
  <2>1. CASE j < k
    <3>1. j + 1 \in 1 .. k /\ j < Len(u)
      BY <1>3, <1>4, <1>6, <2>1
    <3> QED
      BY <1>4, <1>6, <3>1
  <2>2. CASE k < j
    <3>1. l # 0 /\ 1 \in 1 .. l /\ k + 1 \in 1 .. j
      BY <1>3, <1>4, <1>6, <2>2
    <3>2. u[k + 1] = 0 /\ u[k + 1] = t[1] /\ t[1] # 0
      BY <1>3, <1>4, <1>6, <3>1 DEF Plain
    <3> QED
      BY <3>2
  <2>3. j \in Nat
    BY <1>3, <1>4, <1>6
  <2> QED
    BY <2>1, <2>2, <2>3
<1>8. PICK v : v = Stripped(u, k)
  OBVIOUS
<1>9. v = t
  <2>1. k \in 0 .. Len(u) /\ Len(u) - k = l
    BY <1>3, <1>4
  <2>2. /\ IsSeq(Stripped(u, k)) /\ Len(Stripped(u, k)) = Len(u) - k
        /\ \A i \in 1 .. Len(u) - k : Stripped(u, k)[i] = u[k + i]
    BY <1>4, <2>1, StrippedIs
  <2>3. IsSeq(v) /\ Len(v) = Len(t) /\ \A i \in 1 .. Len(v) : v[i] = t[i]
    BY <1>3, <1>4, <1>8, <2>1, <2>2
  <2> QED
    BY <2>3, SameSeq
<1>10. Len(u) - k = Len(t)
  BY <1>3, <1>4
<1> QED
  BY <1>1, <1>4, <1>5, <1>7, <1>8, <1>9, <1>10

\* What a conversion makes of the number that follows the zeros.
IsConverted(input, out, from, to, t, N) ==
  /\ out = Repeat(0, Leading(input)) \o t
  /\ IsNumber(t, N, to) /\ Plain(t) /\ IsNumber(Stripped(input, Leading(input)), N, from)

LEMMA ConvertedIs ==
  ASSUME NEW from \in Nat \ {0}, NEW to \in Nat \ {0}, NEW input \in Seq(0 .. from - 1),
         NEW size \in Nat, Power(from, Len(input) - Leading(input)) <= Power(to, size)
  PROVE  \E t, N : IsConverted(input, Converted(input, size, from, to), from, to, t, N)
<1>1. IsSeq(input)
  BY DEF IsSeq
<1>2. PICK k, s, n : k = Leading(input) /\ s = Stripped(input, k) /\ n = Len(input) - k
  OBVIOUS
<1>3. k \in 0 .. Len(input)
  BY <1>1, <1>2, LeadingIs
<1>4. s \in Seq(0 .. from - 1) /\ Len(s) = n
  BY <1>1, <1>2, <1>3, StrippedIs
<1>5. n \in Nat /\ \A i \in 1 .. n : s[i] \in 0 .. from - 1
  <2>1. Len(s) \in Nat
    BY <1>4
  <2> QED
    BY <1>4, <2>1, ElementOfSeq
<1>0. PICK f : Buffers(f, input, Stripped(input, Leading(input)), size, from, to)
  <2>1. Len(Stripped(input, Leading(input))) \in Nat
    BY <1>2, <1>4, <1>5
  <2> QED
    BY <2>1, BufferOf
<1>6. /\ f[0] = Repeat(0, size)
      /\ \A j \in 1 .. Len(s) : f[j] = AddDigit(f[j - 1], s[j], from, to)
      /\ Converted(input, size, from, to) =
           Repeat(0, Leading(input))
             \o Stripped(Reverse(f[Len(s)]), Leading(Reverse(f[Len(s)])))
  BY <1>0, <1>2 DEF Buffers
<1>7. PICK N : ReadUpTo(f, s, size, from, to, n, N)
  BY <1>4, <1>5, <1>6, DigitsRead
<1>8. /\ N \in Nat /\ N < Power(from, n) /\ Quot(N, from, n) = 0
      /\ \A i \in 1 .. n : s[i] = Quot(N, from, n - i) % from
      /\ HasDigits(f[n], N, to) /\ Len(f[n]) = size
  BY <1>7 DEF ReadUpTo
<1>9. IsNumber(s, N, from)
  BY <1>4, <1>5, <1>8 DEF IsNumber
<1>10. PICK d : d = f[n]
  OBVIOUS
<1>11. Quot(N, to, Len(d)) = 0
  <2>1. Power(from, n) \in Nat /\ Power(to, size) \in Nat
    BY <1>5, PowerPositive
  <2>2. N < Power(to, size)
    BY <1>2, <1>8, <2>1
  <2> QED
    BY <1>8, <1>10, <2>2, QuotZero
<1>12. PICK number : number = Reverse(d)
  OBVIOUS
<1>13. IsNumber(number, N, to)
  BY <1>8, <1>10, <1>11, <1>12, ReversedNumber
<1>14. PICK t : t = Stripped(number, Leading(number))
  OBVIOUS
<1>15. IsNumber(t, N, to) /\ Plain(t)
  BY <1>13, <1>14, NumberStripped
<1>16. Converted(input, size, from, to) = Repeat(0, k) \o t
  BY <1>2, <1>4, <1>6, <1>10, <1>12, <1>14
<1>17. IsConverted(input, Converted(input, size, from, to), from, to, t, N)
  BY <1>2, <1>9, <1>15, <1>16 DEF IsConverted
<1> QED
  BY <1>17

LEMMA ConvertedDigits ==
  ASSUME NEW from \in Nat \ {0}, NEW to \in Nat \ {0}, NEW input \in Seq(0 .. from - 1),
         NEW out, NEW t, NEW N, IsConverted(input, out, from, to, t, N)
  PROVE  /\ out \in Seq(0 .. to - 1) /\ Leading(out) = Leading(input)
         /\ Stripped(out, Leading(out)) = t /\ Len(out) - Leading(out) = Len(t)
         /\ Len(t) \in Nat
<1>1. PICK k : k = Leading(input)
  OBVIOUS
<1>2. IsSeq(input)
  BY DEF IsSeq
<1>3. k \in Nat
  BY <1>1, <1>2, PlainStripped
<1>4. out = Repeat(0, k) \o t /\ Plain(t) /\ t \in Seq(0 .. to - 1) /\ Len(t) \in Nat
  BY <1>1 DEF IsConverted, IsNumber
<1>5. IsSeq(t)
  BY <1>4 DEF IsSeq
<1>6. /\ Leading(Repeat(0, k) \o t) = k /\ Stripped(Repeat(0, k) \o t, k) = t
      /\ Len(Repeat(0, k) \o t) - k = Len(t)
  BY <1>3, <1>4, <1>5, ZerosBefore
<1>7. Repeat(0, k) \in Seq(0 .. to - 1)
  <2>1. 0 \in 0 .. to - 1
    OBVIOUS
  <2>2. \A i \in 1 .. k : 0 \in 0 .. to - 1
    BY <2>1
  <2>3. [i \in 1 .. k |-> 0] \in Seq(0 .. to - 1)
    BY <1>3, <2>2, IsASeq
  <2> QED
    BY <2>3 DEF Repeat
<1>8. out \in Seq(0 .. to - 1)
  <2>1. PICK z, S : z = Repeat(0, k) /\ S = 0 .. to - 1
    OBVIOUS
  <2>2. z \in Seq(S) /\ t \in Seq(S)
    BY <1>4, <1>7, <2>1
  <2>3. z \o t \in Seq(S)
    BY <2>2
  <2> QED
    BY <1>4, <2>1, <2>3
<1> QED
  BY <1>1, <1>4, <1>6, <1>8

LEMMA ThereAndBack ==
  ASSUME NEW from \in Nat \ {0}, NEW to \in Nat \ {0}, NEW input \in Seq(0 .. from - 1),
         NEW out, NEW t, NEW N, IsConverted(input, out, from, to, t, N),
         NEW back, NEW s, NEW M, IsConverted(out, back, to, from, s, M)
  PROVE  back = input
<1>1. PICK k, rest : k = Leading(input) /\ rest = Stripped(input, k)
  OBVIOUS
<1>2. IsSeq(input)
  BY DEF IsSeq
<1>3. Plain(rest) /\ input = Repeat(0, k) \o rest
  BY <1>1, <1>2, PlainStripped
<1>4. /\ Leading(out) = Leading(input) /\ Stripped(out, Leading(out)) = t
  BY ConvertedDigits
<1>5. IsNumber(t, N, to) /\ IsNumber(rest, N, from)
  BY <1>1 DEF IsConverted
<1>6. /\ back = Repeat(0, k) \o s /\ IsNumber(s, M, from) /\ Plain(s) /\ IsNumber(t, M, to)
  BY <1>1, <1>4 DEF IsConverted
<1>7. M = N
  BY <1>5, <1>6, SameNumber
<1>8. s = rest
  BY <1>3, <1>5, <1>6, <1>7, SameDigits
<1> QED
  BY <1>3, <1>6, <1>8

-----------------------------------------------------------------------------
(***************************************************************************)
(* The sizes of the buffers, from the powers of 58 and of 256.             *)
(***************************************************************************)
LEMMA PowerSum ==
  ASSUME NEW b \in Nat \ {0}, NEW j \in Nat
  PROVE  \A k \in Nat : Power(b, j + k) = Power(b, j) * Power(b, k)
<1> DEFINE T == {k \in Nat : Power(b, j + k) = Power(b, j) * Power(b, k)}
<1>1. 0 \in T
  <2>1. Power(b, 0) = 1 /\ j + 0 = j /\ Power(b, j) \in Nat
    BY PowerZero, PowerPositive
  <2> QED
    BY <2>1
<1>2. ASSUME NEW k \in Nat, k \in T PROVE k + 1 \in T
  <2>1. PICK m : m = j + k /\ m \in Nat
    OBVIOUS
  <2>2. Power(b, m + 1) = b * Power(b, m) /\ Power(b, k + 1) = b * Power(b, k)
    BY <2>1, PowerStep
  <2>3. PICK p, q : p = Power(b, j) /\ q = Power(b, k)
    OBVIOUS
  <2>4. p \in Nat /\ q \in Nat
    BY <2>3, PowerPositive
  <2>5. b * (p * q) = p * (b * q)
    BY <2>4
  <2>6. j + (k + 1) = m + 1
    BY <2>1
  <2> QED
    BY <1>2, <2>1, <2>2, <2>3, <2>5, <2>6
<1> HIDE DEF T
<1>3. Nat \subseteq T
  BY <1>1, <1>2, InductionSet
<1> QED
  BY <1>3 DEF T

\* x digits in base a fit in y digits in base b.
Fit(a, x, b, y) == Power(a, x) <= Power(b, y)

LEMMA FitTogether ==
  ASSUME NEW a \in Nat \ {0}, NEW b \in Nat \ {0}, NEW x \in Nat, NEW y \in Nat,
         NEW u \in Nat, NEW v \in Nat, Fit(a, x, b, y), Fit(a, u, b, v)
  PROVE  Fit(a, x + u, b, y + v)
<1>1. PICK p, q, r, s : p = Power(a, x) /\ q = Power(b, y) /\ r = Power(a, u) /\ s = Power(b, v)
  OBVIOUS
<1>2. p \in Nat /\ q \in Nat /\ r \in Nat /\ s \in Nat
  BY <1>1, PowerPositive
<1>3. p <= q /\ r <= s
  BY <1>1 DEF Fit
<1>4. p * r <= q * s
  <2>1. p * r <= q * r
    BY <1>2, <1>3
  <2>2. q * r <= q * s
    BY <1>2, <1>3
  <2>3. p * r \in Nat /\ q * r \in Nat /\ q * s \in Nat
    BY <1>2
  <2> QED
    BY <2>1, <2>2, <2>3
<1>5. Power(a, x + u) = p * r /\ Power(b, y + v) = q * s
  BY <1>1, PowerSum
<1> QED
  BY <1>4, <1>5 DEF Fit

LEMMA FitMore ==
  ASSUME NEW a \in Nat \ {0}, NEW b \in Nat \ {0}, NEW x \in Nat, NEW y \in Nat, Fit(a, x, b, y),
         NEW z \in Nat, y <= z
  PROVE  Fit(a, x, b, z)
<1>1. PICK k : k = z - y
  OBVIOUS
<1>2. k \in Nat /\ y + k = z
  BY <1>1
<1>3. PICK p, q, r : p = Power(b, y) /\ q = Power(b, k) /\ r = Power(a, x)
  OBVIOUS
<1>4. p \in Nat /\ q \in Nat \ {0} /\ r \in Nat
  BY <1>2, <1>3, PowerPositive
<1>5. Power(b, z) = p * q
  BY <1>2, <1>3, PowerSum
<1>6. p <= p * q
  BY <1>4
<1>7. r <= p
  BY <1>3 DEF Fit
<1>8. p * q \in Nat
  BY <1>4
<1> QED
  BY <1>3, <1>4, <1>5, <1>6, <1>7, <1>8 DEF Fit

LEMMA FitTimes ==
  ASSUME NEW a \in Nat \ {0}, NEW b \in Nat \ {0}, NEW x \in Nat, NEW y \in Nat, Fit(a, x, b, y)
  PROVE  \A q \in Nat : Fit(a, x * q, b, y * q)
<1> DEFINE T == {q \in Nat : Fit(a, x * q, b, y * q)}
<1>1. 0 \in T
  <2>1. x * 0 = 0 /\ y * 0 = 0
    OBVIOUS
  <2>2. Power(a, 0) = 1 /\ Power(b, 0) = 1
    BY PowerZero
  <2> QED
    BY <2>1, <2>2 DEF Fit
<1>2. ASSUME NEW q \in Nat, q \in T PROVE q + 1 \in T
  <2>1. PICK c, d : c = x * q /\ d = y * q
    OBVIOUS
  <2>2. c \in Nat /\ d \in Nat /\ x * (q + 1) = c + x /\ y * (q + 1) = d + y
    BY <2>1
  <2>3. Fit(a, c, b, d)
    BY <1>2, <2>1
  <2>4. Fit(a, c + x, b, d + y)
    BY <2>2, <2>3, FitTogether
  <2> QED
    BY <2>2, <2>4
<1> HIDE DEF T
<1>3. Nat \subseteq T
  BY <1>1, <1>2, InductionSet
<1> QED
  BY <1>3 DEF T

LEMMA PowersOf58 ==
  /\ Power(58, 1) = 58
  /\ Power(58, 2) = 3364
  /\ Power(58, 3) = 195112
  /\ Power(58, 4) = 11316496
  /\ Power(58, 7) = 2207984167552
<1>1. 58 \in Nat \ {0}
  OBVIOUS
<1>2. Power(58, 1) = 58
  <2>1. Power(58, 0 + 1) = 58 * Power(58, 0) /\ Power(58, 0) = 1
    BY PowerStep, PowerZero
  <2> QED
    BY <2>1
<1>3. Power(58, 2) = 3364
  <2>1. Power(58, 1 + 1) = Power(58, 1) * Power(58, 1)
    BY <1>1, PowerSum
  <2>2. 1 + 1 = 2 /\ 58 * 58 = 3364
    OBVIOUS
  <2> QED
    BY <1>2, <2>1, <2>2
<1>4. Power(58, 3) = 195112
  <2>1. Power(58, 2 + 1) = Power(58, 2) * Power(58, 1)
    BY <1>1, PowerSum
  <2>2. 2 + 1 = 3 /\ 3364 * 58 = 195112
    OBVIOUS
  <2> QED
    BY <1>2, <1>3, <2>1, <2>2
<1>5. Power(58, 4) = 11316496
  <2>1. Power(58, 2 + 2) = Power(58, 2) * Power(58, 2)
    BY <1>1, PowerSum
  <2>2. 2 + 2 = 4 /\ 3364 * 3364 = 11316496
    OBVIOUS
  <2> QED
    BY <1>3, <2>1, <2>2
<1>6. Power(58, 7) = 2207984167552
  <2>1. Power(58, 4 + 3) = Power(58, 4) * Power(58, 3)
    BY <1>1, PowerSum
  <2>2. 4 + 3 = 7 /\ 11316496 * 195112 = 2207984167552
    OBVIOUS
  <2> QED
    BY <1>4, <1>5, <2>1, <2>2
<1> QED
  BY <1>2, <1>3, <1>4, <1>5, <1>6

LEMMA PowersOf256 ==
  /\ Power(256, 1) = 256
  /\ Power(256, 2) = 65536
  /\ Power(256, 3) = 16777216
  /\ Power(256, 5) = 1099511627776
<1>1. 256 \in Nat \ {0}
  OBVIOUS
<1>2. Power(256, 1) = 256
  <2>1. Power(256, 0 + 1) = 256 * Power(256, 0) /\ Power(256, 0) = 1
    BY PowerStep, PowerZero
  <2> QED
    BY <2>1
<1>3. Power(256, 2) = 65536
  <2>1. Power(256, 1 + 1) = Power(256, 1) * Power(256, 1)
    BY <1>1, PowerSum
  <2>2. 1 + 1 = 2 /\ 256 * 256 = 65536
    OBVIOUS
  <2> QED
    BY <1>2, <2>1, <2>2
<1>4. Power(256, 3) = 16777216
  <2>1. Power(256, 2 + 1) = Power(256, 2) * Power(256, 1)
    BY <1>1, PowerSum
  <2>2. 2 + 1 = 3 /\ 65536 * 256 = 16777216
    OBVIOUS
  <2> QED
    BY <1>2, <1>3, <2>1, <2>2
<1>5. Power(256, 5) = 1099511627776
  <2>1. Power(256, 3 + 2) = Power(256, 3) * Power(256, 2)
    BY <1>1, PowerSum
  <2>2. 3 + 2 = 5 /\ 16777216 * 65536 = 1099511627776
    OBVIOUS
  <2> QED
    BY <1>3, <1>4, <2>1, <2>2
<1> QED
  BY <1>2, <1>3, <1>4, <1>5

\* n digits in base 58 are below c millionths of m bytes.
Below(n, m, c) == 1000000 * Power(58, n) <= c * Power(256, m)

\* e millionths are no less than c millionths of d millionths.
Rounded(c, d, e) == c * d <= 1000000 * e

LEMMA BelowTogether ==
  ASSUME NEW n \in Nat, NEW m \in Nat, NEW c \in Nat, NEW k \in Nat, NEW l \in Nat, NEW d \in Nat,
         NEW e \in Nat, Below(n, m, c), Below(k, l, d), Rounded(c, d, e)
  PROVE  Below(n + k, m + l, e)
<1>1. PICK p, q, r, s : /\ p = Power(58, n) /\ q = Power(256, m)
                        /\ r = Power(58, k) /\ s = Power(256, l)
  OBVIOUS
<1>2. p \in Nat /\ q \in Nat /\ r \in Nat /\ s \in Nat
  <2>1. 58 \in Nat \ {0} /\ 256 \in Nat \ {0}
    OBVIOUS
  <2> QED
    BY <1>1, <2>1, PowerPositive
<1>3. Power(58, n + k) = p * r /\ Power(256, m + l) = q * s
  <2>1. 58 \in Nat \ {0} /\ 256 \in Nat \ {0}
    OBVIOUS
  <2> QED
    BY <1>1, <2>1, PowerSum
<1>4. PICK M : M = 1000000 /\ M \in Nat \ {0}
  OBVIOUS
<1>5. M * p <= c * q /\ M * r <= d * s /\ c * d <= M * e
  BY <1>1, <1>4 DEF Below, Rounded
<1>6. (M * p) * (M * r) <= (c * q) * (d * s)
  <2>1. PICK u, v, w, x : u = M * p /\ v = c * q /\ w = M * r /\ x = d * s
    OBVIOUS
  <2>2. u \in Nat /\ v \in Nat /\ w \in Nat /\ x \in Nat /\ u <= v /\ w <= x
    BY <1>2, <1>4, <1>5, <2>1
  <2>3. u * w <= v * w /\ v * w <= v * x /\ u * w \in Nat /\ v * w \in Nat /\ v * x \in Nat
    BY <2>2
  <2>4. u * w <= v * x
    BY <2>3
  <2> QED
    BY <2>1, <2>4
<1>7. (c * d) * (q * s) <= (M * e) * (q * s)
  <2>1. PICK u, v, w : u = c * d /\ v = M * e /\ w = q * s
    OBVIOUS
  <2>2. u \in Nat /\ v \in Nat /\ w \in Nat /\ u <= v
    BY <1>2, <1>4, <1>5, <2>1
  <2>3. u * w <= v * w
    BY <2>2
  <2> QED
    BY <2>1, <2>3
<1>8. /\ (M * p) * (M * r) = M * (M * (p * r)) /\ (c * q) * (d * s) = (c * d) * (q * s)
      /\ (M * e) * (q * s) = M * (e * (q * s))
  BY <1>2, <1>4
<1>9. PICK x, y : x = M * (p * r) /\ y = e * (q * s)
  OBVIOUS
<1>10. x \in Nat /\ y \in Nat
  BY <1>2, <1>4, <1>9
<1>11. M * x <= M * y
  <2>1. PICK u, v, w : u = M * x /\ v = (c * d) * (q * s) /\ w = M * y
    OBVIOUS
  <2>2. u \in Nat /\ v \in Nat /\ w \in Nat
    BY <1>2, <1>4, <1>10, <2>1
  <2>3. u <= v /\ v <= w
    BY <1>6, <1>7, <1>8, <1>9, <2>1
  <2> QED
    BY <2>1, <2>2, <2>3
<1>12. x <= y
  <2>1. M * x <= M * y => x <= y
    BY <1>4, <1>10
  <2> QED
    BY <1>11, <2>1
<1>13. M * Power(58, n + k) <= e * Power(256, m + l)
  BY <1>3, <1>9, <1>12
<1> QED
  BY <1>4, <1>13 DEF Below

LEMMA BelowFits ==
  ASSUME NEW n \in Nat, NEW m \in Nat, NEW c \in Nat, Below(n, m, c), c <= 1000000
  PROVE  Fit(58, n, 256, m)
<1>1. PICK p, q : p = Power(58, n) /\ q = Power(256, m)
  OBVIOUS
<1>2. p \in Nat /\ q \in Nat
  <2>1. 58 \in Nat \ {0} /\ 256 \in Nat \ {0}
    OBVIOUS
  <2> QED
    BY <1>1, <2>1, PowerPositive
<1>3. 1000000 * p <= c * q
  BY <1>1 DEF Below
<1>4. c * q <= 1000000 * q
  BY <1>2
<1>5. p <= q
  <2>1. PICK v : v = c * q
    OBVIOUS
  <2>2. v \in Nat
    BY <1>2, <2>1
  <2> QED
    BY <1>2, <1>3, <1>4, <2>1, <2>2
<1> QED
  BY <1>1, <1>5 DEF Fit

LEMMA BytesFit ==
  /\ Fit(256, 1, 58, 2) /\ Fit(256, 2, 58, 3) /\ Fit(256, 5, 58, 7) /\ Fit(256, 8, 58, 11)
<1>1. Fit(256, 1, 58, 2) /\ Fit(256, 2, 58, 3) /\ Fit(256, 5, 58, 7)
  BY PowersOf58, PowersOf256 DEF Fit
<1>2. Fit(256, 8, 58, 11)
  <2>1. 5 \in Nat /\ 3 \in Nat /\ 7 \in Nat /\ 4 \in Nat /\ 58 \in Nat \ {0} /\ 256 \in Nat \ {0}
    OBVIOUS
  <2>2. /\ Power(256, 5 + 3) = Power(256, 5) * Power(256, 3)
        /\ Power(58, 7 + 4) = Power(58, 7) * Power(58, 4)
    BY <2>1, PowerSum
  <2>3. PICK p, q, r, s : /\ p = Power(256, 5) /\ q = Power(256, 3)
                          /\ r = Power(58, 7) /\ s = Power(58, 4)
    OBVIOUS
  <2>4. /\ p \in Nat /\ q \in Nat /\ r \in Nat /\ s \in Nat
        /\ 2 * p <= r /\ q <= 2 * s
    BY <2>3, PowersOf58, PowersOf256
  <2>5. p * q <= r * s
    <3>1. p * q <= p * (2 * s)
      BY <2>4
    <3>2. (2 * p) * s <= r * s
      BY <2>4
    <3>3. (2 * p) * s = p * (2 * s)
      BY <2>4
    <3>4. p * q \in Nat /\ p * (2 * s) \in Nat /\ r * s \in Nat
      BY <2>4
    <3> QED
      BY <3>1, <3>2, <3>3, <3>4
  <2>6. 5 + 3 = 8 /\ 7 + 4 = 11
    OBVIOUS
  <2> QED
    BY <2>2, <2>3, <2>5, <2>6 DEF Fit
<1> QED
  BY <1>1, <1>2

LEMMA DigitsFit ==
  /\ Fit(58, 1, 256, 1) /\ Fit(58, 4, 256, 3) /\ Fit(58, 15, 256, 11) /\ Fit(58, 71, 256, 52)
<1>1. Fit(58, 1, 256, 1) /\ Fit(58, 4, 256, 3)
  BY PowersOf58, PowersOf256 DEF Fit
<1>2. Below(4, 3, 674516) /\ Below(3, 1, 762156250) /\ Below(3, 2, 2977173)
  BY PowersOf58, PowersOf256 DEF Below
<1>3. Below(8, 6, 454972)
  <2>1. PICK n, m, c, k, l, d, e : /\ n = 4 /\ m = 3 /\ c = 674516 /\ k = 4 /\ l = 3 /\ d = 674516 /\ e = 454972
    OBVIOUS
  <2>2. /\ n \in Nat /\ m \in Nat /\ c \in Nat /\ k \in Nat /\ l \in Nat /\ d \in Nat /\ e \in Nat
        /\ Rounded(c, d, e)
    BY <2>1 DEF Rounded
  <2>3. Below(n, m, c) /\ Below(k, l, d)
    BY <1>2, <2>1
  <2>4. Below(n + k, m + l, e)
    BY <2>2, <2>3, BelowTogether
  <2>5. n + k = 8 /\ m + l = 6
    BY <2>1
  <2> QED
    BY <2>1, <2>4, <2>5
<1>4. Below(12, 9, 306886)
  <2>1. PICK n, m, c, k, l, d, e : /\ n = 8 /\ m = 6 /\ c = 454972 /\ k = 4 /\ l = 3 /\ d = 674516 /\ e = 306886
    OBVIOUS
  <2>2. /\ n \in Nat /\ m \in Nat /\ c \in Nat /\ k \in Nat /\ l \in Nat /\ d \in Nat /\ e \in Nat
        /\ Rounded(c, d, e)
    BY <2>1 DEF Rounded
  <2>3. Below(n, m, c) /\ Below(k, l, d)
    BY <1>2, <1>3, <2>1
  <2>4. Below(n + k, m + l, e)
    BY <2>2, <2>3, BelowTogether
  <2>5. n + k = 12 /\ m + l = 9
    BY <2>1
  <2> QED
    BY <2>1, <2>4, <2>5
<1>5. Below(15, 11, 913653)
  <2>1. PICK n, m, c, k, l, d, e : /\ n = 12 /\ m = 9 /\ c = 306886 /\ k = 3 /\ l = 2 /\ d = 2977173 /\ e = 913653
    OBVIOUS
  <2>2. /\ n \in Nat /\ m \in Nat /\ c \in Nat /\ k \in Nat /\ l \in Nat /\ d \in Nat /\ e \in Nat
        /\ Rounded(c, d, e)
    BY <2>1 DEF Rounded
  <2>3. Below(n, m, c) /\ Below(k, l, d)
    BY <1>2, <1>4, <2>1
  <2>4. Below(n + k, m + l, e)
    BY <2>2, <2>3, BelowTogether
  <2>5. n + k = 15 /\ m + l = 11
    BY <2>1
  <2> QED
    BY <2>1, <2>4, <2>5
<1>6. Below(16, 12, 207000)
  <2>1. PICK n, m, c, k, l, d, e : /\ n = 8 /\ m = 6 /\ c = 454972 /\ k = 8 /\ l = 6 /\ d = 454972 /\ e = 207000
    OBVIOUS
  <2>2. /\ n \in Nat /\ m \in Nat /\ c \in Nat /\ k \in Nat /\ l \in Nat /\ d \in Nat /\ e \in Nat
        /\ Rounded(c, d, e)
    BY <2>1 DEF Rounded
  <2>3. Below(n, m, c) /\ Below(k, l, d)
    BY <1>3, <2>1
  <2>4. Below(n + k, m + l, e)
    BY <2>2, <2>3, BelowTogether
  <2>5. n + k = 16 /\ m + l = 12
    BY <2>1
  <2> QED
    BY <2>1, <2>4, <2>5
<1>7. Below(32, 24, 42849)
  <2>1. PICK n, m, c, k, l, d, e : /\ n = 16 /\ m = 12 /\ c = 207000 /\ k = 16 /\ l = 12 /\ d = 207000 /\ e = 42849
    OBVIOUS
  <2>2. /\ n \in Nat /\ m \in Nat /\ c \in Nat /\ k \in Nat /\ l \in Nat /\ d \in Nat /\ e \in Nat
        /\ Rounded(c, d, e)
    BY <2>1 DEF Rounded
  <2>3. Below(n, m, c) /\ Below(k, l, d)
    BY <1>6, <2>1
  <2>4. Below(n + k, m + l, e)
    BY <2>2, <2>3, BelowTogether
  <2>5. n + k = 32 /\ m + l = 24
    BY <2>1
  <2> QED
    BY <2>1, <2>4, <2>5
<1>8. Below(64, 48, 1837)
  <2>1. PICK n, m, c, k, l, d, e : /\ n = 32 /\ m = 24 /\ c = 42849 /\ k = 32 /\ l = 24 /\ d = 42849 /\ e = 1837
    OBVIOUS
  <2>2. /\ n \in Nat /\ m \in Nat /\ c \in Nat /\ k \in Nat /\ l \in Nat /\ d \in Nat /\ e \in Nat
        /\ Rounded(c, d, e)
    BY <2>1 DEF Rounded
  <2>3. Below(n, m, c) /\ Below(k, l, d)
    BY <1>7, <2>1
  <2>4. Below(n + k, m + l, e)
    BY <2>2, <2>3, BelowTogether
  <2>5. n + k = 64 /\ m + l = 48
    BY <2>1
  <2> QED
    BY <2>1, <2>4, <2>5
<1>9. Below(68, 51, 1240)
  <2>1. PICK n, m, c, k, l, d, e : /\ n = 64 /\ m = 48 /\ c = 1837 /\ k = 4 /\ l = 3 /\ d = 674516 /\ e = 1240
    OBVIOUS
  <2>2. /\ n \in Nat /\ m \in Nat /\ c \in Nat /\ k \in Nat /\ l \in Nat /\ d \in Nat /\ e \in Nat
        /\ Rounded(c, d, e)
    BY <2>1 DEF Rounded
  <2>3. Below(n, m, c) /\ Below(k, l, d)
    BY <1>2, <1>8, <2>1
  <2>4. Below(n + k, m + l, e)
    BY <2>2, <2>3, BelowTogether
  <2>5. n + k = 68 /\ m + l = 51
    BY <2>1
  <2> QED
    BY <2>1, <2>4, <2>5
<1>10. Below(71, 52, 945074)
  <2>1. PICK n, m, c, k, l, d, e : /\ n = 68 /\ m = 51 /\ c = 1240 /\ k = 3 /\ l = 1 /\ d = 762156250 /\ e = 945074
    OBVIOUS
  <2>2. /\ n \in Nat /\ m \in Nat /\ c \in Nat /\ k \in Nat /\ l \in Nat /\ d \in Nat /\ e \in Nat
        /\ Rounded(c, d, e)
    BY <2>1 DEF Rounded
  <2>3. Below(n, m, c) /\ Below(k, l, d)
    BY <1>2, <1>9, <2>1
  <2>4. Below(n + k, m + l, e)
    BY <2>2, <2>3, BelowTogether
  <2>5. n + k = 71 /\ m + l = 52
    BY <2>1
  <2> QED
    BY <2>1, <2>4, <2>5
<1>11. Fit(58, 15, 256, 11) /\ Fit(58, 71, 256, 52)
  <2>1. 913653 <= 1000000 /\ 945074 <= 1000000
    OBVIOUS
  <2> QED
    BY <1>5, <1>10, <2>1, BelowFits
<1> QED
  BY <1>1, <1>11

\* At most seven bytes, and what their digits add to the size of the buffer.
LEMMA FewBytesFit ==
  ASSUME NEW r \in 0 .. 7
  PROVE  \E c \in Nat : Fit(256, r, 58, c) /\ 100 * c <= 138 * r + 100
<1>1. 256 \in Nat \ {0} /\ 58 \in Nat \ {0}
  OBVIOUS
<1>2. Fit(256, 0, 58, 0)
  BY <1>1, PowerZero DEF Fit
<1>3. Fit(256, 1, 58, 2) /\ Fit(256, 2, 58, 3) /\ Fit(256, 5, 58, 7)
  BY BytesFit
<1>4. Fit(256, 3, 58, 5)
  <2>1. PICK x, y, u, v : x = 1 /\ y = 2 /\ u = 2 /\ v = 3
    OBVIOUS
  <2>2. x \in Nat /\ y \in Nat /\ u \in Nat /\ v \in Nat
    BY <2>1
  <2>3. Fit(256, x, 58, y) /\ Fit(256, u, 58, v)
    BY <1>3, <2>1
  <2>4. Fit(256, x + u, 58, y + v)
    BY <1>1, <2>2, <2>3, FitTogether
  <2>5. x + u = 3 /\ y + v = 5
    BY <2>1
  <2> QED
    BY <2>4, <2>5
<1>5. Fit(256, 4, 58, 6)
  <2>1. PICK x, y, u, v : x = 2 /\ y = 3 /\ u = 2 /\ v = 3
    OBVIOUS
  <2>2. x \in Nat /\ y \in Nat /\ u \in Nat /\ v \in Nat
    BY <2>1
  <2>3. Fit(256, x, 58, y) /\ Fit(256, u, 58, v)
    BY <1>3, <2>1
  <2>4. Fit(256, x + u, 58, y + v)
    BY <1>1, <2>2, <2>3, FitTogether
  <2>5. x + u = 4 /\ y + v = 6
    BY <2>1
  <2> QED
    BY <2>4, <2>5
<1>6. Fit(256, 6, 58, 9)
  <2>1. PICK x, y, u, v : x = 5 /\ y = 7 /\ u = 1 /\ v = 2
    OBVIOUS
  <2>2. x \in Nat /\ y \in Nat /\ u \in Nat /\ v \in Nat
    BY <2>1
  <2>3. Fit(256, x, 58, y) /\ Fit(256, u, 58, v)
    BY <1>3, <2>1
  <2>4. Fit(256, x + u, 58, y + v)
    BY <1>1, <2>2, <2>3, FitTogether
  <2>5. x + u = 6 /\ y + v = 9
    BY <2>1
  <2> QED
    BY <2>4, <2>5
<1>7. Fit(256, 7, 58, 10)
  <2>1. PICK x, y, u, v : x = 5 /\ y = 7 /\ u = 2 /\ v = 3
    OBVIOUS
  <2>2. x \in Nat /\ y \in Nat /\ u \in Nat /\ v \in Nat
    BY <2>1
  <2>3. Fit(256, x, 58, y) /\ Fit(256, u, 58, v)
    BY <1>3, <2>1
  <2>4. Fit(256, x + u, 58, y + v)
    BY <1>1, <2>2, <2>3, FitTogether
  <2>5. x + u = 7 /\ y + v = 10
    BY <2>1
  <2> QED
    BY <2>4, <2>5
<1>8. CASE r = 0
  <2>1. PICK c : c = 0
    OBVIOUS
  <2>2. c \in Nat /\ 100 * c <= 138 * r + 100
    BY <1>8, <2>1
  <2>3. Fit(256, r, 58, c)
    BY <1>2, <1>8, <2>1
  <2> QED
    BY <2>2, <2>3
<1>9. CASE r = 1
  <2>1. PICK c : c = 2
    OBVIOUS
  <2>2. c \in Nat /\ 100 * c <= 138 * r + 100
    BY <1>9, <2>1
  <2>3. Fit(256, r, 58, c)
    BY <1>3, <1>9, <2>1
  <2> QED
    BY <2>2, <2>3
<1>10. CASE r = 2
  <2>1. PICK c : c = 3
    OBVIOUS
  <2>2. c \in Nat /\ 100 * c <= 138 * r + 100
    BY <1>10, <2>1
  <2>3. Fit(256, r, 58, c)
    BY <1>3, <1>10, <2>1
  <2> QED
    BY <2>2, <2>3
<1>11. CASE r = 3
  <2>1. PICK c : c = 5
    OBVIOUS
  <2>2. c \in Nat /\ 100 * c <= 138 * r + 100
    BY <1>11, <2>1
  <2>3. Fit(256, r, 58, c)
    BY <1>4, <1>11, <2>1
  <2> QED
    BY <2>2, <2>3
<1>12. CASE r = 4
  <2>1. PICK c : c = 6
    OBVIOUS
  <2>2. c \in Nat /\ 100 * c <= 138 * r + 100
    BY <1>12, <2>1
  <2>3. Fit(256, r, 58, c)
    BY <1>5, <1>12, <2>1
  <2> QED
    BY <2>2, <2>3
<1>13. CASE r = 5
  <2>1. PICK c : c = 7
    OBVIOUS
  <2>2. c \in Nat /\ 100 * c <= 138 * r + 100
    BY <1>13, <2>1
  <2>3. Fit(256, r, 58, c)
    BY <1>3, <1>13, <2>1
  <2> QED
    BY <2>2, <2>3
<1>14. CASE r = 6
  <2>1. PICK c : c = 9
    OBVIOUS
  <2>2. c \in Nat /\ 100 * c <= 138 * r + 100
    BY <1>14, <2>1
  <2>3. Fit(256, r, 58, c)
    BY <1>6, <1>14, <2>1
  <2> QED
    BY <2>2, <2>3
<1>15. CASE r = 7
  <2>1. PICK c : c = 10
    OBVIOUS
  <2>2. c \in Nat /\ 100 * c <= 138 * r + 100
    BY <1>15, <2>1
  <2>3. Fit(256, r, 58, c)
    BY <1>7, <1>15, <2>1
  <2> QED
    BY <2>2, <2>3
<1> QED
  BY <1>8, <1>9, <1>10, <1>11, <1>12, <1>13, <1>14, <1>15

\* At most fourteen digits; 20 is what four times fifteen of them need more.
LEMMA FewDigitsFit ==
  ASSUME NEW r \in 0 .. 14
  PROVE  \E c \in Nat : Fit(58, r, 256, c) /\ 1000 * c + 20 <= 733 * r + 1000
<1>1. 58 \in Nat \ {0} /\ 256 \in Nat \ {0}
  OBVIOUS
<1>2. Fit(58, 0, 256, 0)
  BY <1>1, PowerZero DEF Fit
<1>3. Fit(58, 1, 256, 1) /\ Fit(58, 4, 256, 3)
  BY DigitsFit
<1>4. Fit(58, 2, 256, 2)
  <2>1. PICK x, y, u, v : x = 1 /\ y = 1 /\ u = 1 /\ v = 1
    OBVIOUS
  <2>2. x \in Nat /\ y \in Nat /\ u \in Nat /\ v \in Nat
    BY <2>1
  <2>3. Fit(58, x, 256, y) /\ Fit(58, u, 256, v)
    BY <1>3, <2>1
  <2>4. Fit(58, x + u, 256, y + v)
    BY <1>1, <2>2, <2>3, FitTogether
  <2>5. x + u = 2 /\ y + v = 2
    BY <2>1
  <2> QED
    BY <2>4, <2>5
<1>5. Fit(58, 3, 256, 3)
  <2>1. PICK x, y, u, v : x = 2 /\ y = 2 /\ u = 1 /\ v = 1
    OBVIOUS
  <2>2. x \in Nat /\ y \in Nat /\ u \in Nat /\ v \in Nat
    BY <2>1
  <2>3. Fit(58, x, 256, y) /\ Fit(58, u, 256, v)
    BY <1>3, <1>4, <2>1
  <2>4. Fit(58, x + u, 256, y + v)
    BY <1>1, <2>2, <2>3, FitTogether
  <2>5. x + u = 3 /\ y + v = 3
    BY <2>1
  <2> QED
    BY <2>4, <2>5
<1>6. Fit(58, 5, 256, 4)
  <2>1. PICK x, y, u, v : x = 4 /\ y = 3 /\ u = 1 /\ v = 1
    OBVIOUS
  <2>2. x \in Nat /\ y \in Nat /\ u \in Nat /\ v \in Nat
    BY <2>1
  <2>3. Fit(58, x, 256, y) /\ Fit(58, u, 256, v)
    BY <1>3, <2>1
  <2>4. Fit(58, x + u, 256, y + v)
    BY <1>1, <2>2, <2>3, FitTogether
  <2>5. x + u = 5 /\ y + v = 4
    BY <2>1
  <2> QED
    BY <2>4, <2>5
<1>7. Fit(58, 6, 256, 5)
  <2>1. PICK x, y, u, v : x = 4 /\ y = 3 /\ u = 2 /\ v = 2
    OBVIOUS
  <2>2. x \in Nat /\ y \in Nat /\ u \in Nat /\ v \in Nat
    BY <2>1
  <2>3. Fit(58, x, 256, y) /\ Fit(58, u, 256, v)
    BY <1>3, <1>4, <2>1
  <2>4. Fit(58, x + u, 256, y + v)
    BY <1>1, <2>2, <2>3, FitTogether
  <2>5. x + u = 6 /\ y + v = 5
    BY <2>1
  <2> QED
    BY <2>4, <2>5
<1>8. Fit(58, 7, 256, 6)
  <2>1. PICK x, y, u, v : x = 4 /\ y = 3 /\ u = 3 /\ v = 3
    OBVIOUS
  <2>2. x \in Nat /\ y \in Nat /\ u \in Nat /\ v \in Nat
    BY <2>1
  <2>3. Fit(58, x, 256, y) /\ Fit(58, u, 256, v)
    BY <1>3, <1>5, <2>1
  <2>4. Fit(58, x + u, 256, y + v)
    BY <1>1, <2>2, <2>3, FitTogether
  <2>5. x + u = 7 /\ y + v = 6
    BY <2>1
  <2> QED
    BY <2>4, <2>5
<1>9. Fit(58, 8, 256, 6)
  <2>1. PICK x, y, u, v : x = 4 /\ y = 3 /\ u = 4 /\ v = 3
    OBVIOUS
  <2>2. x \in Nat /\ y \in Nat /\ u \in Nat /\ v \in Nat
    BY <2>1
  <2>3. Fit(58, x, 256, y) /\ Fit(58, u, 256, v)
    BY <1>3, <2>1
  <2>4. Fit(58, x + u, 256, y + v)
    BY <1>1, <2>2, <2>3, FitTogether
  <2>5. x + u = 8 /\ y + v = 6
    BY <2>1
  <2> QED
    BY <2>4, <2>5
<1>10. Fit(58, 9, 256, 7)
  <2>1. PICK x, y, u, v : x = 8 /\ y = 6 /\ u = 1 /\ v = 1
    OBVIOUS
  <2>2. x \in Nat /\ y \in Nat /\ u \in Nat /\ v \in Nat
    BY <2>1
  <2>3. Fit(58, x, 256, y) /\ Fit(58, u, 256, v)
    BY <1>3, <1>9, <2>1
  <2>4. Fit(58, x + u, 256, y + v)
    BY <1>1, <2>2, <2>3, FitTogether
  <2>5. x + u = 9 /\ y + v = 7
    BY <2>1
  <2> QED
    BY <2>4, <2>5
<1>11. Fit(58, 10, 256, 8)
  <2>1. PICK x, y, u, v : x = 8 /\ y = 6 /\ u = 2 /\ v = 2
    OBVIOUS
  <2>2. x \in Nat /\ y \in Nat /\ u \in Nat /\ v \in Nat
    BY <2>1
  <2>3. Fit(58, x, 256, y) /\ Fit(58, u, 256, v)
    BY <1>4, <1>9, <2>1
  <2>4. Fit(58, x + u, 256, y + v)
    BY <1>1, <2>2, <2>3, FitTogether
  <2>5. x + u = 10 /\ y + v = 8
    BY <2>1
  <2> QED
    BY <2>4, <2>5
<1>12. Fit(58, 11, 256, 9)
  <2>1. PICK x, y, u, v : x = 8 /\ y = 6 /\ u = 3 /\ v = 3
    OBVIOUS
  <2>2. x \in Nat /\ y \in Nat /\ u \in Nat /\ v \in Nat
    BY <2>1
  <2>3. Fit(58, x, 256, y) /\ Fit(58, u, 256, v)
    BY <1>5, <1>9, <2>1
  <2>4. Fit(58, x + u, 256, y + v)
    BY <1>1, <2>2, <2>3, FitTogether
  <2>5. x + u = 11 /\ y + v = 9
    BY <2>1
  <2> QED
    BY <2>4, <2>5
<1>13. Fit(58, 12, 256, 9)
  <2>1. PICK x, y, u, v : x = 8 /\ y = 6 /\ u = 4 /\ v = 3
    OBVIOUS
  <2>2. x \in Nat /\ y \in Nat /\ u \in Nat /\ v \in Nat
    BY <2>1
  <2>3. Fit(58, x, 256, y) /\ Fit(58, u, 256, v)
    BY <1>3, <1>9, <2>1
  <2>4. Fit(58, x + u, 256, y + v)
    BY <1>1, <2>2, <2>3, FitTogether
  <2>5. x + u = 12 /\ y + v = 9
    BY <2>1
  <2> QED
    BY <2>4, <2>5
<1>14. Fit(58, 13, 256, 10)
  <2>1. PICK x, y, u, v : x = 12 /\ y = 9 /\ u = 1 /\ v = 1
    OBVIOUS
  <2>2. x \in Nat /\ y \in Nat /\ u \in Nat /\ v \in Nat
    BY <2>1
  <2>3. Fit(58, x, 256, y) /\ Fit(58, u, 256, v)
    BY <1>3, <1>13, <2>1
  <2>4. Fit(58, x + u, 256, y + v)
    BY <1>1, <2>2, <2>3, FitTogether
  <2>5. x + u = 13 /\ y + v = 10
    BY <2>1
  <2> QED
    BY <2>4, <2>5
<1>15. Fit(58, 14, 256, 11)
  <2>1. PICK x, y, u, v : x = 12 /\ y = 9 /\ u = 2 /\ v = 2
    OBVIOUS
  <2>2. x \in Nat /\ y \in Nat /\ u \in Nat /\ v \in Nat
    BY <2>1
  <2>3. Fit(58, x, 256, y) /\ Fit(58, u, 256, v)
    BY <1>4, <1>13, <2>1
  <2>4. Fit(58, x + u, 256, y + v)
    BY <1>1, <2>2, <2>3, FitTogether
  <2>5. x + u = 14 /\ y + v = 11
    BY <2>1
  <2> QED
    BY <2>4, <2>5
<1>16. CASE r = 0
  <2>1. PICK c : c = 0
    OBVIOUS
  <2>2. c \in Nat /\ 1000 * c + 20 <= 733 * r + 1000
    BY <1>16, <2>1
  <2>3. Fit(58, r, 256, c)
    BY <1>2, <1>16, <2>1
  <2> QED
    BY <2>2, <2>3
<1>17. CASE r = 1
  <2>1. PICK c : c = 1
    OBVIOUS
  <2>2. c \in Nat /\ 1000 * c + 20 <= 733 * r + 1000
    BY <1>17, <2>1
  <2>3. Fit(58, r, 256, c)
    BY <1>3, <1>17, <2>1
  <2> QED
    BY <2>2, <2>3
<1>18. CASE r = 2
  <2>1. PICK c : c = 2
    OBVIOUS
  <2>2. c \in Nat /\ 1000 * c + 20 <= 733 * r + 1000
    BY <1>18, <2>1
  <2>3. Fit(58, r, 256, c)
    BY <1>4, <1>18, <2>1
  <2> QED
    BY <2>2, <2>3
<1>19. CASE r = 3
  <2>1. PICK c : c = 3
    OBVIOUS
  <2>2. c \in Nat /\ 1000 * c + 20 <= 733 * r + 1000
    BY <1>19, <2>1
  <2>3. Fit(58, r, 256, c)
    BY <1>5, <1>19, <2>1
  <2> QED
    BY <2>2, <2>3
<1>20. CASE r = 4
  <2>1. PICK c : c = 3
    OBVIOUS
  <2>2. c \in Nat /\ 1000 * c + 20 <= 733 * r + 1000
    BY <1>20, <2>1
  <2>3. Fit(58, r, 256, c)
    BY <1>3, <1>20, <2>1
  <2> QED
    BY <2>2, <2>3
<1>21. CASE r = 5
  <2>1. PICK c : c = 4
    OBVIOUS
  <2>2. c \in Nat /\ 1000 * c + 20 <= 733 * r + 1000
    BY <1>21, <2>1
  <2>3. Fit(58, r, 256, c)
    BY <1>6, <1>21, <2>1
  <2> QED
    BY <2>2, <2>3
<1>22. CASE r = 6
  <2>1. PICK c : c = 5
    OBVIOUS
  <2>2. c \in Nat /\ 1000 * c + 20 <= 733 * r + 1000
    BY <1>22, <2>1
  <2>3. Fit(58, r, 256, c)
    BY <1>7, <1>22, <2>1
  <2> QED
    BY <2>2, <2>3
<1>23. CASE r = 7
  <2>1. PICK c : c = 6
    OBVIOUS
  <2>2. c \in Nat /\ 1000 * c + 20 <= 733 * r + 1000
    BY <1>23, <2>1
  <2>3. Fit(58, r, 256, c)
    BY <1>8, <1>23, <2>1
  <2> QED
    BY <2>2, <2>3
<1>24. CASE r = 8
  <2>1. PICK c : c = 6
    OBVIOUS
  <2>2. c \in Nat /\ 1000 * c + 20 <= 733 * r + 1000
    BY <1>24, <2>1
  <2>3. Fit(58, r, 256, c)
    BY <1>9, <1>24, <2>1
  <2> QED
    BY <2>2, <2>3
<1>25. CASE r = 9
  <2>1. PICK c : c = 7
    OBVIOUS
  <2>2. c \in Nat /\ 1000 * c + 20 <= 733 * r + 1000
    BY <1>25, <2>1
  <2>3. Fit(58, r, 256, c)
    BY <1>10, <1>25, <2>1
  <2> QED
    BY <2>2, <2>3
<1>26. CASE r = 10
  <2>1. PICK c : c = 8
    OBVIOUS
  <2>2. c \in Nat /\ 1000 * c + 20 <= 733 * r + 1000
    BY <1>26, <2>1
  <2>3. Fit(58, r, 256, c)
    BY <1>11, <1>26, <2>1
  <2> QED
    BY <2>2, <2>3
<1>27. CASE r = 11
  <2>1. PICK c : c = 9
    OBVIOUS
  <2>2. c \in Nat /\ 1000 * c + 20 <= 733 * r + 1000
    BY <1>27, <2>1
  <2>3. Fit(58, r, 256, c)
    BY <1>12, <1>27, <2>1
  <2> QED
    BY <2>2, <2>3
<1>28. CASE r = 12
  <2>1. PICK c : c = 9
    OBVIOUS
  <2>2. c \in Nat /\ 1000 * c + 20 <= 733 * r + 1000
    BY <1>28, <2>1
  <2>3. Fit(58, r, 256, c)
    BY <1>13, <1>28, <2>1
  <2> QED
    BY <2>2, <2>3
<1>29. CASE r = 13
  <2>1. PICK c : c = 10
    OBVIOUS
  <2>2. c \in Nat /\ 1000 * c + 20 <= 733 * r + 1000
    BY <1>29, <2>1
  <2>3. Fit(58, r, 256, c)
    BY <1>14, <1>29, <2>1
  <2> QED
    BY <2>2, <2>3
<1>30. CASE r = 14
  <2>1. PICK c : c = 11
    OBVIOUS
  <2>2. c \in Nat /\ 1000 * c + 20 <= 733 * r + 1000
    BY <1>30, <2>1
  <2>3. Fit(58, r, 256, c)
    BY <1>15, <1>30, <2>1
  <2> QED
    BY <2>2, <2>3
<1> QED
  BY <1>16, <1>17, <1>18, <1>19, <1>20, <1>21, <1>22, <1>23, <1>24, <1>25, <1>26, <1>27, <1>28, <1>29, <1>30

\* The sizes base58_encode and base58_decode give their buffers.
EncodeSize(n) == (n * 138) \div 100 + 1
DecodeSize(n) == (n * 733) \div 1000 + 1

LEMMA SizesAreNat ==
  ASSUME NEW n \in Nat
  PROVE  /\ EncodeSize(n) \in Nat /\ 100 * EncodeSize(n) > 138 * n
         /\ DecodeSize(n) \in Nat /\ 1000 * DecodeSize(n) > 733 * n
BY DEF EncodeSize, DecodeSize

LEMMA EncodeFits ==
  ASSUME NEW n \in Nat
  PROVE  Fit(256, n, 58, EncodeSize(n))
<1>1. PICK q, r : q = n \div 8 /\ r = n % 8
  OBVIOUS
<1>2. q \in Nat /\ r \in 0 .. 7 /\ n = 8 * q + r
  BY <1>1
<1>3. PICK c \in Nat : Fit(256, r, 58, c) /\ 100 * c <= 138 * r + 100
  BY <1>2, FewBytesFit
<1>4. PICK a, b : a = 8 * q /\ b = 11 * q
  OBVIOUS
<1>5. a \in Nat /\ b \in Nat /\ r \in Nat
  BY <1>2, <1>4
<1>6. 256 \in Nat \ {0} /\ 58 \in Nat \ {0} /\ 8 \in Nat /\ 11 \in Nat
  OBVIOUS
<1>7. Fit(256, a, 58, b)
  <2>1. Fit(256, 8, 58, 11)
    BY BytesFit
  <2>2. Fit(256, 8 * q, 58, 11 * q)
    BY <1>2, <1>6, <2>1, FitTimes
  <2> QED
    BY <1>4, <2>2
<1>8. Fit(256, a + r, 58, b + c)
  BY <1>3, <1>5, <1>6, <1>7, FitTogether
<1>9. PICK z, y : z = EncodeSize(n) /\ y = b + c
  OBVIOUS
<1>10. z \in Nat /\ 100 * z > 138 * n
  BY <1>9, SizesAreNat
<1>11. y \in Nat /\ y <= z /\ a + r = n
  BY <1>2, <1>3, <1>4, <1>5, <1>9, <1>10
<1>12. Fit(256, n, 58, y)
  BY <1>8, <1>9, <1>11
<1> QED
  BY <1>6, <1>9, <1>10, <1>11, <1>12, FitMore

LEMMA DecodeFits ==
  ASSUME NEW n \in Nat
  PROVE  Fit(58, n, 256, DecodeSize(n))
<1>1. PICK q, m : q = n \div 71 /\ m = n % 71
  OBVIOUS
<1>2. q \in Nat /\ m \in 0 .. 70 /\ n = 71 * q + m
  BY <1>1
<1>3. PICK j, r : j = m \div 15 /\ r = m % 15
  OBVIOUS
<1>4. j \in 0 .. 4 /\ j \in Nat /\ r \in 0 .. 14 /\ m = 15 * j + r
  BY <1>2, <1>3
<1>5. PICK c \in Nat : Fit(58, r, 256, c) /\ 1000 * c + 20 <= 733 * r + 1000
  BY <1>4, FewDigitsFit
<1>6. PICK a, b, d, e : a = 71 * q /\ b = 52 * q /\ d = 15 * j /\ e = 11 * j
  OBVIOUS
<1>7. a \in Nat /\ b \in Nat /\ d \in Nat /\ e \in Nat /\ r \in Nat
  BY <1>2, <1>4, <1>6
<1>8. 256 \in Nat \ {0} /\ 58 \in Nat \ {0} /\ 71 \in Nat /\ 52 \in Nat /\ 15 \in Nat /\ 11 \in Nat
  OBVIOUS
<1>9. Fit(58, a, 256, b) /\ Fit(58, d, 256, e)
  <2>1. Fit(58, 71, 256, 52) /\ Fit(58, 15, 256, 11)
    BY DigitsFit
  <2>2. Fit(58, 71 * q, 256, 52 * q)
    BY <1>2, <1>8, <2>1, FitTimes
  <2>3. Fit(58, 15 * j, 256, 11 * j)
    BY <1>4, <1>8, <2>1, FitTimes
  <2> QED
    BY <1>6, <2>2, <2>3
<1>10. Fit(58, d + r, 256, e + c)
  BY <1>5, <1>7, <1>8, <1>9, FitTogether
<1>11. PICK f, g : f = d + r /\ g = e + c
  OBVIOUS
<1>12. f \in Nat /\ g \in Nat
  BY <1>5, <1>7, <1>11
<1>13. Fit(58, f, 256, g)
  BY <1>10, <1>11
<1>14. Fit(58, a + f, 256, b + g)
  BY <1>7, <1>8, <1>9, <1>12, <1>13, FitTogether
<1>15. PICK z, y : z = DecodeSize(n) /\ y = b + g
  OBVIOUS
<1>16. z \in Nat /\ 1000 * z > 733 * n
  BY <1>15, SizesAreNat
<1>17. y \in Nat /\ y <= z /\ a + f = n
  BY <1>2, <1>4, <1>5, <1>6, <1>7, <1>11, <1>12, <1>15, <1>16
<1>18. Fit(58, n, 256, y)
  BY <1>14, <1>15, <1>17
<1> QED
  BY <1>8, <1>15, <1>16, <1>17, <1>18, FitMore

LEMMA RestIsNat ==
  ASSUME NEW s, IsSeq(s)
  PROVE  Len(s) - Leading(s) \in Nat
<1>1. Leading(s) \in 0 .. Len(s) /\ Len(s) \in Nat
  BY LeadingIs DEF IsSeq
<1> QED
  BY <1>1

LEMMA EncodedIs ==
  ASSUME NEW x \in Seq(0 .. 255)
  PROVE  \E t, N : IsConverted(x, base58_encode(x), 256, 58, t, N)
<1>1. IsSeq(x)
  BY DEF IsSeq
<1>2. PICK n : n = Len(x) - Leading(x)
  OBVIOUS
<1>3. n \in Nat
  BY <1>1, <1>2, RestIsNat
<1>4. PICK a, b, size : a = 256 /\ b = 58 /\ size = EncodeSize(n)
  OBVIOUS
<1>5. a \in Nat \ {0} /\ b \in Nat \ {0} /\ 0 .. a - 1 = 0 .. 255
  BY <1>4
<1>6. size \in Nat /\ Power(a, n) <= Power(b, size)
  <2>1. size \in Nat /\ Fit(256, n, 58, size)
    BY <1>3, <1>4, SizesAreNat, EncodeFits
  <2> QED
    BY <1>4, <2>1 DEF Fit
<1>7. x \in Seq(0 .. a - 1)
  BY <1>5
<1>8. \E t, N : IsConverted(x, Converted(x, size, a, b), a, b, t, N)
  <2>1. Power(a, Len(x) - Leading(x)) <= Power(b, size)
    BY <1>2, <1>6
  <2> QED
    BY <1>5, <1>6, <1>7, <2>1, ConvertedIs
<1>9. base58_encode(x) = Converted(x, size, a, b)
  BY <1>2, <1>4 DEF base58_encode, EncodeSize
<1> QED
  BY <1>4, <1>8, <1>9

LEMMA DecodedIs ==
  ASSUME NEW x \in Seq(0 .. 57)
  PROVE  \E t, N : IsConverted(x, base58_decode(x), 58, 256, t, N)
<1>1. IsSeq(x)
  BY DEF IsSeq
<1>2. PICK n : n = Len(x) - Leading(x)
  OBVIOUS
<1>3. n \in Nat
  BY <1>1, <1>2, RestIsNat
<1>4. PICK a, b, size : a = 58 /\ b = 256 /\ size = DecodeSize(n)
  OBVIOUS
<1>5. a \in Nat \ {0} /\ b \in Nat \ {0} /\ 0 .. a - 1 = 0 .. 57
  BY <1>4
<1>6. size \in Nat /\ Power(a, n) <= Power(b, size)
  <2>1. size \in Nat /\ Fit(58, n, 256, size)
    BY <1>3, <1>4, SizesAreNat, DecodeFits
  <2> QED
    BY <1>4, <2>1 DEF Fit
<1>7. x \in Seq(0 .. a - 1)
  BY <1>5
<1>8. \E t, N : IsConverted(x, Converted(x, size, a, b), a, b, t, N)
  <2>1. Power(a, Len(x) - Leading(x)) <= Power(b, size)
    BY <1>2, <1>6
  <2> QED
    BY <1>5, <1>6, <1>7, <2>1, ConvertedIs
<1>9. base58_decode(x) = Converted(x, size, a, b)
  <2>1. \A i \in 1 .. Len(x) : x[i] < 58
    <3> TAKE i \in 1 .. Len(x)
    <3>1. PICK v : v = x[i]
      OBVIOUS
    <3>2. v \in 0 .. 57
      BY <3>1, ElementOfSeq
    <3>3. v < 58
      BY <3>2
    <3> QED
      BY <3>1, <3>3
  <2> QED
    BY <1>2, <1>4, <2>1 DEF base58_decode, DecodeSize
<1> QED
  BY <1>4, <1>8, <1>9

LEMMA EncodedDigits ==
  ASSUME NEW x \in Seq(0 .. 255)
  PROVE  base58_encode(x) \in Seq(0 .. 57)
<1>1. PICK t, N : IsConverted(x, base58_encode(x), 256, 58, t, N)
  BY EncodedIs
<1>2. PICK a, b : a = 256 /\ b = 58
  OBVIOUS
<1>3. a \in Nat \ {0} /\ b \in Nat \ {0} /\ 0 .. a - 1 = 0 .. 255 /\ 0 .. b - 1 = 0 .. 57
  BY <1>2
<1>4. x \in Seq(0 .. a - 1) /\ IsConverted(x, base58_encode(x), a, b, t, N)
  BY <1>1, <1>2, <1>3
<1>5. base58_encode(x) \in Seq(0 .. b - 1)
  BY <1>3, <1>4, ConvertedDigits
<1> QED
  BY <1>3, <1>5

LEMMA DecodedBytes ==
  ASSUME NEW x \in Seq(0 .. 57)
  PROVE  base58_decode(x) \in Seq(0 .. 255)
<1>1. PICK t, N : IsConverted(x, base58_decode(x), 58, 256, t, N)
  BY DecodedIs
<1>2. PICK a, b : a = 58 /\ b = 256
  OBVIOUS
<1>3. a \in Nat \ {0} /\ b \in Nat \ {0} /\ 0 .. a - 1 = 0 .. 57 /\ 0 .. b - 1 = 0 .. 255
  BY <1>2
<1>4. x \in Seq(0 .. a - 1) /\ IsConverted(x, base58_decode(x), a, b, t, N)
  BY <1>1, <1>2, <1>3
<1>5. base58_decode(x) \in Seq(0 .. b - 1)
  BY <1>3, <1>4, ConvertedDigits
<1> QED
  BY <1>3, <1>5

LEMMA BytesComeBack ==
  ASSUME NEW x \in Seq(0 .. 255)
  PROVE  base58_decode(base58_encode(x)) = x
<1>1. PICK out : out = base58_encode(x)
  OBVIOUS
<1>2. out \in Seq(0 .. 57)
  BY <1>1, EncodedDigits
<1>3. PICK t, N : IsConverted(x, base58_encode(x), 256, 58, t, N)
  BY EncodedIs
<1>4. PICK s, M : IsConverted(out, base58_decode(out), 58, 256, s, M)
  BY <1>2, DecodedIs
<1>5. PICK a, b : a = 256 /\ b = 58
  OBVIOUS
<1>6. a \in Nat \ {0} /\ b \in Nat \ {0} /\ 0 .. a - 1 = 0 .. 255
  BY <1>5
<1>7. /\ x \in Seq(0 .. a - 1) /\ IsConverted(x, out, a, b, t, N)
      /\ IsConverted(out, base58_decode(out), b, a, s, M)
  BY <1>1, <1>3, <1>4, <1>5, <1>6
<1>8. base58_decode(out) = x
  BY <1>6, <1>7, ThereAndBack
<1> QED
  BY <1>1, <1>8

LEMMA DigitsComeBack ==
  ASSUME NEW x \in Seq(0 .. 57)
  PROVE  base58_encode(base58_decode(x)) = x
<1>1. PICK out : out = base58_decode(x)
  OBVIOUS
<1>2. out \in Seq(0 .. 255)
  BY <1>1, DecodedBytes
<1>3. PICK t, N : IsConverted(x, base58_decode(x), 58, 256, t, N)
  BY DecodedIs
<1>4. PICK s, M : IsConverted(out, base58_encode(out), 256, 58, s, M)
  BY <1>2, EncodedIs
<1>5. PICK a, b : a = 58 /\ b = 256
  OBVIOUS
<1>6. a \in Nat \ {0} /\ b \in Nat \ {0} /\ 0 .. a - 1 = 0 .. 57
  BY <1>5
<1>7. /\ x \in Seq(0 .. a - 1) /\ IsConverted(x, out, a, b, t, N)
      /\ IsConverted(out, base58_encode(out), b, a, s, M)
  BY <1>1, <1>3, <1>4, <1>5, <1>6
<1>8. base58_encode(out) = x
  BY <1>6, <1>7, ThereAndBack
<1> QED
  BY <1>1, <1>8

LEMMA NarrowSeq ==
  ASSUME NEW S, NEW T, NEW s \in Seq(S), \A i \in 1 .. Len(s) : s[i] \in T
  PROVE  s \in Seq(T)
OBVIOUS

LEMMA StringsComeBack ==
  ASSUME NEW str \in Seq(Nat), base58_decode(str) # Thrown
  PROVE  base58_encode(base58_decode(str)) = str
<1>1. \A i \in 1 .. Len(str) : str[i] < 58
  BY DEF base58_decode
<1>2. \A i \in 1 .. Len(str) : str[i] \in 0 .. 57
  <2> TAKE i \in 1 .. Len(str)
  <2>1. PICK v : v = str[i]
    OBVIOUS
  <2>2. v \in Nat
    BY <2>1, ElementOfSeq
  <2>3. v < 58
    BY <1>1, <2>1
  <2>4. v \in 0 .. 57
    BY <2>2, <2>3
  <2> QED
    BY <2>1, <2>4
<1>6. str \in Seq(0 .. 57)
  BY <1>2, NarrowSeq
<1> QED
  BY <1>6, DigitsComeBack

-----------------------------------------------------------------------------
(***************************************************************************)
(* Addresses: four bytes after the payload, its checksum.                  *)
(***************************************************************************)
NextHash(hash, byte) == (31 * hash + byte + 7) % 65521

IsHash(f, bytes, n) ==
  f = [k \in 0 .. n |-> IF k = 0 THEN 1 ELSE NextHash(f[k - 1], bytes[k])]

FourBytes(hash) == <<hash \div 256, hash % 256, (hash + 85) % 256, hash % 251>>

LEMMA HashExists ==
  ASSUME NEW bytes
  PROVE  \A n \in Nat : \E f : IsHash(f, bytes, n)
<1> DEFINE T == {n \in Nat : \E f : IsHash(f, bytes, n)}
<1>1. 0 \in T
  <2> DEFINE f == [k \in 0 .. 0 |-> 1]
  <2>1. IsHash(f, bytes, 0)
    BY DEF IsHash
  <2> HIDE DEF f
  <2> QED
    BY <2>1
<1>2. ASSUME NEW n \in Nat, n \in T PROVE n + 1 \in T
  <2>1. PICK f : IsHash(f, bytes, n)
    BY <1>2
  <2> DEFINE g == [k \in 0 .. n + 1 |-> IF k = 0 THEN 1 ELSE NextHash(f[k - 1], bytes[k])]
  <2>2. \A k \in 0 .. n : g[k] = f[k]
    <3> TAKE k \in 0 .. n
    <3>1. k \in 0 .. n + 1
      OBVIOUS
    <3>2. g[k] = IF k = 0 THEN 1 ELSE NextHash(f[k - 1], bytes[k])
      BY <3>1
    <3>3. f[k] = IF k = 0 THEN 1 ELSE NextHash(f[k - 1], bytes[k])
      <4> HIDE DEF g
      <4> QED
        BY <2>1 DEF IsHash
    <3> HIDE DEF g
    <3> QED
      BY <3>2, <3>3
  <2>3. \A k \in 0 .. n + 1 : k # 0 => k - 1 \in 0 .. n
    OBVIOUS
  <2>4. IsHash(g, bytes, n + 1)
    BY <2>2, <2>3 DEF IsHash
  <2> HIDE DEF g
  <2> QED
    BY <2>4
<1> HIDE DEF T
<1>3. Nat \subseteq T
  BY <1>1, <1>2, InductionSet
<1> QED
  BY <1>3 DEF T

LEMMA ChecksumIs ==
  ASSUME NEW bytes \in Seq(0 .. 255)
  PROVE  \E hash \in Nat : hash < 65521 /\ checksum(bytes) = FourBytes(hash)
<1>0. PICK l : l = Len(bytes) /\ l \in Nat
  OBVIOUS
<1> DEFINE IsF(f) == f = [k \in 0 .. Len(bytes) |->
                           IF k = 0 THEN 1 ELSE NextHash(f[k - 1], bytes[k])]
           f == CHOOSE f : IsF(f)
<1>2. checksum(bytes) = FourBytes(f[Len(bytes)])
  BY DEF checksum, FourBytes, NextHash
<1>3. \E g : IsF(g)
  <2>1. PICK g : IsHash(g, bytes, Len(bytes))
    BY <1>0, HashExists
  <2>2. IsF(g)
    BY <2>1 DEF IsHash
  <2> QED
    BY <2>2
<1>4. IsF(f)
  <2>1. \E g : IsF(g)
    BY <1>3
  <2> HIDE DEF IsF
  <2> QED
    BY <2>1
<1>5. f = [k \in 0 .. l |-> IF k = 0 THEN 1 ELSE NextHash(f[k - 1], bytes[k])]
  BY <1>0, <1>4
<1> HIDE DEF f, IsF
<1>6. \A k \in 1 .. l : bytes[k] \in 0 .. 255
  BY <1>0, ElementOfSeq
<1> DEFINE T == {k \in Nat : k <= l => f[k] \in Nat /\ f[k] < 65521}
<1>7. 0 \in T
  <2>1. 0 \in 0 .. l
    BY <1>0
  <2>2. f[0] = 1
    BY <1>5, <2>1
  <2> QED
    BY <2>2
<1>8. ASSUME NEW k \in Nat, k \in T PROVE k + 1 \in T
  <2>1. CASE k + 1 <= l
    <3>1. k <= l /\ k + 1 \in 0 .. l /\ k + 1 \in 1 .. l /\ k + 1 # 0 /\ (k + 1) - 1 = k
      BY <1>0, <2>1
    <3>2. PICK v, b : v = f[k] /\ b = bytes[k + 1]
      OBVIOUS
    <3>3. v \in Nat /\ b \in 0 .. 255
      BY <1>6, <1>8, <3>1, <3>2
    <3>4. f[k + 1] = NextHash(v, b)
      BY <1>5, <3>1, <3>2
    <3>5. NextHash(v, b) \in Nat /\ NextHash(v, b) < 65521
      BY <3>3 DEF NextHash
    <3> QED
      BY <3>4, <3>5
  <2> QED
    BY <2>1
<1> HIDE DEF T
<1>9. Nat \subseteq T
  BY <1>7, <1>8, InductionSet
<1>10. f[l] \in Nat /\ f[l] < 65521
  <2>1. l \in T /\ l <= l
    BY <1>0, <1>9
  <2> QED
    BY <2>1 DEF T
<1> QED
  BY <1>0, <1>2, <1>10

LEMMA ChecksumBytes ==
  ASSUME NEW bytes \in Seq(0 .. 255)
  PROVE  checksum(bytes) \in Seq(0 .. 255) /\ Len(checksum(bytes)) = 4
<1>1. PICK hash \in Nat : hash < 65521 /\ checksum(bytes) = FourBytes(hash)
  BY ChecksumIs
<1>2. PICK a, b, c, d : /\ a = hash \div 256 /\ b = hash % 256
                        /\ c = (hash + 85) % 256 /\ d = hash % 251
  OBVIOUS
<1>3. a \in 0 .. 255 /\ b \in 0 .. 255 /\ c \in 0 .. 255 /\ d \in 0 .. 255
  <2>1. a \in 0 .. 255
    BY <1>1, <1>2
  <2>2. b \in 0 .. 255
    BY <1>2
  <2>3. c \in 0 .. 255
    BY <1>2
  <2>4. d \in 0 .. 255
    BY <1>2
  <2> QED
    BY <2>1, <2>2, <2>3, <2>4
<1>4. PICK S : S = 0 .. 255
  OBVIOUS
<1>5. a \in S /\ b \in S /\ c \in S /\ d \in S
  BY <1>3, <1>4
<1>6. <<a, b, c, d>> \in Seq(S) /\ Len(<<a, b, c, d>>) = 4
  BY <1>5
<1>7. checksum(bytes) = <<a, b, c, d>>
  BY <1>1, <1>2 DEF FourBytes
<1> QED
  BY <1>4, <1>6, <1>7

LEMMA TailAfter ==
  ASSUME NEW x, NEW s, IsSeq(s)
  PROVE  Tail(<<x>> \o s) = s
<1>1. PICK S : <<x>> \in Seq(S) /\ s \in Seq(S)
  <2>1. IsSeq(<<x>>)
    <3>1. <<x>> \in Seq({x})
      OBVIOUS
    <3> QED
      BY <3>1 DEF IsSeq
  <2> QED
    BY <2>1, SharedElements
<1>2. x \in S
  <2>1. PICK o : o = <<x>>
    OBVIOUS
  <2>2. o \in Seq(S) /\ Len(o) = 1 /\ o[1] = x
    BY <1>1, <2>1
  <2> QED
    BY <2>2, ElementOfSeq
<1> QED
  BY <1>1, <1>2

LEMMA AddressesComeBack ==
  ASSUME NEW a \in Seq(0 .. 255), Len(a) = ADDRESS_SIZE
  PROVE  decode_address(encode_address(a)) = a
<1>1. PICK n : n = ADDRESS_SIZE /\ n = 20
  BY DEF ADDRESS_SIZE
<1>2. Len(a) = n /\ n \in Nat
  BY <1>1
<1>3. PICK v, S : v = ADDRESS_VERSION_BYTE /\ S = 0 .. 255
  OBVIOUS
<1>4. v \in S /\ a \in Seq(S)
  <2>1. v = 30
    BY <1>3 DEF ADDRESS_VERSION_BYTE
  <2> QED
    BY <1>3, <2>1
<1>5. PICK o, p, c, w : o = <<v>> /\ p = o \o a /\ c = checksum(p) /\ w = p \o c
  OBVIOUS
<1>6. o \in Seq(S) /\ Len(o) = 1 /\ o[1] = v
  BY <1>4, <1>5
<1>7. p \in Seq(S) /\ Len(p) = 1 + n
  BY <1>2, <1>4, <1>5, <1>6
<1>8. c \in Seq(S) /\ Len(c) = 4
  BY <1>3, <1>5, <1>7, ChecksumBytes
<1>9. w \in Seq(S)
  <2>1. p \o c \in Seq(S)
    BY <1>7, <1>8
  <2> QED
    BY <1>5, <2>1
<1>10. IsSeq(o) /\ IsSeq(a) /\ IsSeq(p) /\ IsSeq(c) /\ IsSeq(w)
  BY <1>4, <1>6, <1>7, <1>8, <1>9 DEF IsSeq
<1>11. /\ Len(w) = Len(p) + Len(c)
       /\ \A i \in 1 .. Len(p) : w[i] = p[i]
       /\ \A i \in 1 .. Len(c) : w[Len(p) + i] = c[i]
  BY <1>5, <1>10, Concatenated
<1>12. Len(w) = 1 + n + 4
  BY <1>2, <1>7, <1>8, <1>11
<1>13. p[1] = v
  <2>1. \A i \in 1 .. Len(o) : (o \o a)[i] = o[i]
    BY <1>10, Concatenated
  <2> QED
    BY <1>5, <1>6, <2>1
<1>14. w[1] = v
  <2>1. 1 \in 1 .. Len(p)
    BY <1>2, <1>7
  <2> QED
    BY <1>11, <1>13, <2>1
<1>15. At(w, 0, w)
  <2>1. Len(w) \in Nat
    BY <1>9
  <2>2. \A j \in 1 .. Len(w) : w[0 + j] = w[j]
    OBVIOUS
  <2>3. 0 + Len(w) <= Len(w)
    BY <2>1
  <2> QED
    BY <1>10, <2>1, <2>2, <2>3 DEF At
<1>16. At(w, 0, p) /\ At(w, 0 + Len(p), c)
  BY <1>5, <1>10, <1>15, AtParts
<1>17. SubSeq(w, 1, 1 + n) = p
  <2>1. SubSeq(w, 0 + 1, 0 + Len(p)) = p
    BY <1>16, AtSlice
  <2>2. 0 + 1 = 1 /\ 0 + Len(p) = 1 + n
    BY <1>2, <1>7
  <2> QED
    BY <2>1, <2>2
<1>18. SubSeq(w, 2 + n, Len(w)) = c
  <2>1. SubSeq(w, (0 + Len(p)) + 1, (0 + Len(p)) + Len(c)) = c
    BY <1>16, AtSlice
  <2>2. (0 + Len(p)) + 1 = 2 + n /\ (0 + Len(p)) + Len(c) = Len(w)
    BY <1>2, <1>7, <1>8, <1>12
  <2> QED
    BY <2>1, <2>2
<1>19. Tail(p) = a
  BY <1>5, <1>10, TailAfter
<1>20. encode_address(a) = base58_encode(w)
  BY <1>3, <1>5 DEF encode_address
<1>21. base58_decode(base58_encode(w)) = w
  BY <1>3, <1>9, BytesComeBack
<1>22. PICK text : text = encode_address(a) /\ base58_decode(text) = w
  BY <1>20, <1>21
<1>23. decode_address(text) = Tail(p)
  <2>1. decode_address(text) =
          IF /\ Len(w) = 1 + n + 4
             /\ w[1] = v
             /\ checksum(SubSeq(w, 1, 1 + n)) = SubSeq(w, 2 + n, Len(w))
          THEN Tail(SubSeq(w, 1, 1 + n)) ELSE Thrown
    BY <1>1, <1>3, <1>22, Zenon DEF decode_address
  <2> QED
    BY <1>5, <1>12, <1>14, <1>17, <1>18, <2>1
<1> QED
  BY <1>19, <1>22, <1>23

-----------------------------------------------------------------------------
(***************************************************************************)
(* For byte strings, Base58 strings and addresses of every length allowed  *)
(* them: base58_decode gives back what base58_encode was given, a string   *)
(* that decodes is the encoding of what it decodes to, and decode_address  *)
(* gives back the address that encode_address printed.                     *)
(***************************************************************************)
THEOREM Base58LosesNothing == Spec => []Base58RoundTrip
<1>1. PickedOK => Base58RoundTrip
  <2> SUFFICES ASSUME PickedOK PROVE Base58RoundTrip
    OBVIOUS
  <2>1. CASE picked.kind = "bytes"
    <3>1. picked.of \in Seq(0 .. 255)
      BY <2>1, Base58Assumption DEF PickedOK
    <3>2. base58_decode(base58_encode(picked.of)) = picked.of
      BY <3>1, BytesComeBack
    <3> QED
      BY <2>1, <3>2 DEF Base58RoundTrip
  <2>2. CASE picked.kind = "string"
    <3>1. picked.of \in Seq(Nat)
      BY <2>2, Base58Assumption DEF PickedOK
    <3>2. base58_decode(picked.of) # Thrown => base58_encode(base58_decode(picked.of)) = picked.of
      BY <3>1, StringsComeBack
    <3> QED
      BY <2>2, <3>2 DEF Base58RoundTrip
  <2>3. CASE picked.kind = "address"
    <3>1. picked.of \in Seq(0 .. 255) /\ Len(picked.of) = ADDRESS_SIZE
      BY <2>3, Base58Assumption DEF PickedOK
    <3>2. decode_address(encode_address(picked.of)) = picked.of
      BY <3>1, AddressesComeBack
    <3> QED
      BY <2>3, <3>2 DEF Base58RoundTrip
  <2> QED
    BY <2>1, <2>2, <2>3 DEF Base58RoundTrip
<1> QED
  BY <1>1, AlwaysPicked, PTL

=============================================================================
