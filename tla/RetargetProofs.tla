--------------------------- MODULE RetargetProofs ---------------------------
(***************************************************************************)
(* The bounds of a retarget, for every width of a byte and of a target,    *)
(* every interval and every expected timespan: get_next_work_required      *)
(* truncates when it moves digits between exponent and mantissa, and no    *)
(* truncation ever makes the target larger than the timespan allows.       *)
(***************************************************************************)
EXTENDS Retarget, PowProofs

(***************************************************************************)
(* Rounding down a quotient of the target, exponent and all, keeps it      *)
(* within k times the old one.  p is the weight of the digits that move.   *)
(***************************************************************************)
LEMMA DigitsDropped ==
  ASSUME NEW m \in Nat, NEW t \in Nat, NEW e \in Nat \ {0}, NEW k \in Nat,
         NEW p \in Nat \ {0}, t <= k * e
  PROVE  (m * t) \div (e * p) <= (k * m) \div p
<1> DEFINE q == (m * t) \div (e * p)
<1>1. m * t \in Nat /\ e * p \in Nat \ {0} /\ k * m \in Nat
  BY ProductPositive
<1>2. q \in Nat /\ (e * p) * q <= m * t
  BY <1>1, DivisionBounds
<1>3. m * t <= e * (k * m)
  <2>1. m * t <= m * (k * e)
    OBVIOUS
  <2> QED
    BY <2>1
<1> HIDE DEF q
<1>4. p * q \in Nat /\ e * (p * q) <= e * (k * m)
  BY <1>1, <1>2, <1>3
<1>5. k * m >= p * q
  BY <1>1, <1>4, Cancel
<1>6. (k * m) \div p >= q
  BY <1>1, <1>2, <1>5, QuotientAtLeast
<1>7. (k * m) \div p \in Nat
  BY <1>1, DivisionBounds
<1> QED
  BY <1>2, <1>6, <1>7 DEF q

LEMMA DigitsGained ==
  ASSUME NEW m \in Nat, NEW t \in Nat, NEW e \in Nat \ {0}, NEW k \in Nat,
         NEW p \in Nat \ {0}, t <= k * e, NEW x \in Nat, x <= ((m * t) * p) \div e
  PROVE  CeilDiv(x, p) <= k * m
<1> DEFINE q == ((m * t) * p) \div e
<1>1. m * t \in Nat /\ (m * t) * p \in Nat /\ k * m \in Nat /\ (k * m) * p \in Nat
  OBVIOUS
<1>2. q \in Nat /\ e * q <= (m * t) * p /\ x <= q
  BY <1>1, DivisionBounds
<1>3. (m * t) * p <= e * ((k * m) * p)
  <2>1. m * t <= m * (k * e)
    OBVIOUS
  <2>2. m * (k * e) \in Nat
    OBVIOUS
  <2>3. (m * t) * p <= (m * (k * e)) * p
    BY <1>1, <2>1, <2>2
  <2> QED
    BY <2>3
<1> HIDE DEF q
<1>4. (k * m) * p >= q
  <2>1. e * ((k * m) * p) >= e * q
    BY <1>1, <1>2, <1>3
  <2> QED
    BY <1>1, <1>2, <2>1, Cancel
<1>5. \A n \in Nat : x <= n * p => ~((x + p - 1) \div p >= n + 1)
  <2> SUFFICES ASSUME NEW n \in Nat, x <= n * p, (x + p - 1) \div p >= n + 1
               PROVE  FALSE
    OBVIOUS
  <2>1. x + p - 1 >= p * (n + 1)
    BY QuotientAtLeast
  <2> QED
    BY <2>1
<1>6. ~((x + p - 1) \div p >= k * m + 1)
  BY <1>1, <1>2, <1>4, <1>5
<1>7. x + p - 1 \in Nat
  OBVIOUS
<1>8. (x + p - 1) \div p \in Nat
  BY <1>7, DivisionBounds
<1> QED
  BY <1>1, <1>6, <1>8 DEF CeilDiv

(***************************************************************************)
(* A retarget over a clamped timespan of at most k times the expected one  *)
(* makes the target at most k times as large.                              *)
(***************************************************************************)
LEMMA RetargetRatio ==
  ASSUME NEW y \in nBitsRange, y.mantissa # 0, NEW actual \in Int, NEW k \in Nat,
         ClampedTimespan(actual) <= k * TARGET_TIMESPAN_SECONDS
  PROVE  AtMostTimes(RetargetedBits(y, ClampedTimespan(actual)), k, y)
<1>1. PICK m \in Nat, t \in Nat, e \in Nat \ {0} :
        m = y.mantissa /\ t = ClampedTimespan(actual) /\ e = TARGET_TIMESPAN_SECONDS
  BY Limits, ClampBounds, PowAssumption DEF nBitsRange
<1>2. y.exponent \in Nat
  BY DEF nBitsRange
<1>3. PICK d \in -3 .. 3 : ShapedBy(y, t, d)
  BY <1>1, RetargetShape
<1>4. PICK x : x = RetargetedBits(y, t)
  OBVIOUS
<1>5. x.exponent = y.exponent - d /\ x.mantissa = Shifted(m * t, e, d) % SignBit
  BY <1>1, <1>3, <1>4 DEF ShapedBy
<1>6. Shifted(m * t, e, d) \in Nat
  BY <1>1, ShiftedNat
<1>7. x.mantissa \in Nat /\ x.mantissa <= Shifted(m * t, e, d)
  <2>1. \A s \in Nat : \A b \in Nat \ {0} : s % b \in Nat /\ s % b <= s
    OBVIOUS
  <2> QED
    BY <1>5, <1>6, <2>1, Limits
<1>8. x.exponent - y.exponent = -d
  BY <1>2, <1>5
<1>9. t <= k * e
  BY <1>1
<1>10. CASE d > 0
  <2>1. PICK p \in Nat \ {0} : p = Power(Radix, d)
    BY <1>10, RadixPower
  <2>2. x.mantissa <= ((m * t) * p) \div e
    BY <1>7, <1>10, <2>1 DEF Shifted
  <2>3. CeilDiv(x.mantissa, p) <= k * m
    BY <1>7, <1>9, <2>2, DigitsGained
  <2>4. ~(x.exponent - y.exponent >= 0) /\ -(x.exponent - y.exponent) = d
    BY <1>8, <1>10
  <2>5. AtMostTimes(x, k, y)
    BY <1>1, <2>1, <2>3, <2>4 DEF AtMostTimes
  <2> QED
    BY <1>1, <1>4, <2>5
<1>11. CASE d <= 0
  <2>1. PICK p \in Nat \ {0} : p = Power(Radix, -d)
    BY <1>11, RadixPower
  <2>2. Shifted(m * t, e, d) = (m * t) \div (e * p)
    <3>1. CASE d = 0
      <4>1. p = 1 /\ Power(Radix, d) = 1
        BY <2>1, <3>1, PowerZero
      <4>2. Shifted(m * t, e, d) = ((m * t) * 1) \div e
        BY <3>1, <4>1 DEF Shifted
      <4> QED
        BY <4>1, <4>2
    <3>2. CASE d < 0
      BY <2>1, <3>2 DEF Shifted
    <3> QED
      BY <1>11, <3>1, <3>2
  <2>3. (m * t) \div (e * p) <= (k * m) \div p
    BY <1>9, DigitsDropped
  <2>4. (m * t) \div (e * p) \in Nat /\ (k * m) \div p \in Nat
    BY <1>6, <2>2, DivisionBounds
  <2>5. x.mantissa <= (k * m) \div p
    BY <1>7, <2>2, <2>3, <2>4
  <2>6. x.exponent - y.exponent >= 0 /\ x.exponent - y.exponent = -d
    BY <1>8, <1>11
  <2>7. AtMostTimes(x, k, y)
    BY <1>1, <2>1, <2>5, <2>6 DEF AtMostTimes
  <2> QED
    BY <1>1, <1>4, <2>7
<1> QED
  BY <1>10, <1>11

-----------------------------------------------------------------------------
(***************************************************************************)
(* What holds between two retargets.                                       *)
(***************************************************************************)
RetargetInv ==
  /\ bits \in nBitsRange
  /\ EasesAtMostFourfold
  /\ FastPeriodNeverEases

(***************************************************************************)
(* The retarget of a period of span seconds.  When a period is a single    *)
(* block, its first block is its last and the code measures 0 seconds.     *)
(***************************************************************************)
LEMMA PeriodRetarget ==
  ASSUME NEW span \in Nat, bits \in nBitsRange
  PROVE  \E actual \in Int :
           /\ actual <= span
           /\ get_next_work_required(PeriodHeaders(span))
                = RetargetedBits(bits, ClampedTimespan(actual))
<1> DEFINE n == RETARGET_INTERVAL
           headers == PeriodHeaders(span)
           actual == headers[n].nTime - headers[1].nTime
<1>1. n \in Nat \ {0} /\ n % n = 0
  BY PowAssumption
<1>2. headers \in Seq({headers[h] : h \in 1 .. n}) /\ Len(headers) = n
  BY <1>1 DEF PeriodHeaders
<1>3. headers[n].nBits = bits /\ headers[n].nTime = span
      /\ headers[1].nTime = IF 1 = n THEN span ELSE 0
  BY <1>1 DEF PeriodHeaders
<1>4. actual \in Int /\ actual <= span
  BY <1>3
<1>5. n - n + 1 = 1
  BY <1>1
<1>6. get_next_work_required(headers) = RetargetedBits(bits, ClampedTimespan(actual))
  BY <1>1, <1>2, <1>3, <1>5 DEF get_next_work_required
<1> QED
  BY <1>4, <1>6

LEMMA ClampOfFast ==
  ASSUME NEW actual \in Int, actual <= TARGET_TIMESPAN_SECONDS
  PROVE  ClampedTimespan(actual) <= 1 * TARGET_TIMESPAN_SECONDS
  BY PowAssumption DEF ClampedTimespan

LEMMA RetargetStep ==
  ASSUME RetargetInv, [Next]_retargetVars
  PROVE  RetargetInv'
<1>1. CASE UNCHANGED retargetVars
  BY <1>1 DEF RetargetInv, EasesAtMostFourfold, FastPeriodNeverEases, retargetVars
<1>2. ASSUME NEW span \in Timespans, MinePeriod(span) PROVE RetargetInv'
  <2>1. span \in Nat /\ bits \in nBitsRange /\ bits.mantissa # 0
    BY <1>2, RetargetAssumption DEF RetargetInv, MinePeriod, Mineable
  <2>2. PICK actual \in Int :
          /\ actual <= span
          /\ get_next_work_required(PeriodHeaders(span))
               = RetargetedBits(bits, ClampedTimespan(actual))
    BY <2>1, PeriodRetarget
  <2>3. bits' = RetargetedBits(bits, ClampedTimespan(actual)) /\ last' = bits /\ timespan' = span
    BY <1>2, <2>2 DEF MinePeriod
  <2>4. bits' \in nBitsRange
    BY <2>1, <2>3, RetargetType
  <2>5. EasesAtMostFourfold'
    <3>1. ClampedTimespan(actual) <= 4 * TARGET_TIMESPAN_SECONDS
      BY ClampBounds, PowAssumption
    <3>2. AtMostTimes(RetargetedBits(bits, ClampedTimespan(actual)), 4, bits)
      BY <2>1, <3>1, RetargetRatio
    <3> QED
      BY <2>3, <3>2 DEF EasesAtMostFourfold, AtMostTimes
  <2>6. FastPeriodNeverEases'
    <3> SUFFICES ASSUME timespan' <= TARGET_TIMESPAN_SECONDS
                 PROVE  AtMostTimes(bits, 1, last)'
      BY DEF FastPeriodNeverEases
    <3>1. ClampedTimespan(actual) <= 1 * TARGET_TIMESPAN_SECONDS
      BY <2>1, <2>2, <2>3, ClampOfFast, PowAssumption
    <3>2. AtMostTimes(RetargetedBits(bits, ClampedTimespan(actual)), 1, bits)
      BY <2>1, <3>1, RetargetRatio
    <3> QED
      BY <2>3, <3>2 DEF AtMostTimes
  <2> QED
    BY <2>4, <2>5, <2>6 DEF RetargetInv
<1> QED
  BY <1>1, <1>2 DEF Next

LEMMA RetargetInit == Init => RetargetInv
<1> SUFFICES ASSUME Init PROVE RetargetInv
  OBVIOUS
<1>1. bits \in nBitsRange /\ last = bits
  BY PowAssumption DEF Init
<1>2. PICK m \in Nat : m = bits.mantissa
  BY <1>1, Limits DEF nBitsRange
<1>3. bits.exponent \in Nat
  BY <1>1 DEF nBitsRange
<1>4. bits.exponent - bits.exponent = 0
  BY <1>3
<1>5. \A k \in Nat : k >= 1 => AtMostTimes(bits, k, bits)
  <2> SUFFICES ASSUME NEW k \in Nat, k >= 1 PROVE m <= (k * m) \div 1
    BY <1>2, <1>4, PowerZero DEF AtMostTimes
  <2>1. k * m >= m
    OBVIOUS
  <2> QED
    BY <2>1
<1> QED
  BY <1>1, <1>5 DEF RetargetInv, EasesAtMostFourfold, FastPeriodNeverEases

(***************************************************************************)
(* However slow a period was, get_next_work_required makes the target at   *)
(* most four times as large, whatever the widths and the interval.         *)
(***************************************************************************)
THEOREM RetargetEasesAtMostFourfold == Spec => []EasesAtMostFourfold
<1>1. RetargetInv => EasesAtMostFourfold
  BY DEF RetargetInv
<1> QED
  BY <1>1, RetargetInit, RetargetStep, PTL DEF Spec

(***************************************************************************)
(* A period that took at most the expected time never makes the target     *)
(* larger: get_next_work_required never answers fast blocks with easier    *)
(* ones.                                                                   *)
(***************************************************************************)
THEOREM RetargetNeverEasesAfterFast == Spec => []FastPeriodNeverEases
<1>1. RetargetInv => FastPeriodNeverEases
  BY DEF RetargetInv
<1> QED
  BY <1>1, RetargetInit, RetargetStep, PTL DEF Spec
=============================================================================
