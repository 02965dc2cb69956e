------------------------------ MODULE Retarget ------------------------------
(***************************************************************************)
(* The difficulty of one chain over many retarget periods, at the widths   *)
(* of the program.  A period is RETARGET_INTERVAL blocks at one nBits; at  *)
(* its end get_next_work_required sets the nBits of the next one from the  *)
(* time the period took.                                                   *)
(***************************************************************************)
EXTENDS Pow

CONSTANTS
  Timespans,    \* how long a period may take, in seconds
  MAX_PERIODS   \* bound: retargets

ASSUME RetargetAssumption ==
  /\ Timespans \subseteq Nat
  /\ MAX_PERIODS \in Nat

VARIABLES
  bits,      \* nBits of the period that is being mined
  last,      \* nBits of the period before
  timespan,  \* how long that period took
  periods    \* retargets so far

retargetVars == <<bits, last, timespan, periods>>

Init ==
  /\ bits = INITIAL_BITS
  /\ last = INITIAL_BITS
  /\ timespan = TARGET_TIMESPAN_SECONDS
  /\ periods = 0

(***************************************************************************)
(* The headers of a period that starts at time 0 and takes span seconds.   *)
(***************************************************************************)
PeriodHeaders(span) ==
  [h \in 1 .. RETARGET_INTERVAL |->
     [nTime |-> IF h = RETARGET_INTERVAL THEN span ELSE 0, nBits |-> bits]]

(***************************************************************************)
(* A period is mined, which takes an nBits that some hash can meet.        *)
(***************************************************************************)
MinePeriod(span) ==
  /\ periods < MAX_PERIODS
  /\ Mineable(bits)
  /\ bits' = get_next_work_required(PeriodHeaders(span))
  /\ last' = bits
  /\ timespan' = span
  /\ periods' = periods + 1

Next == \E span \in Timespans : MinePeriod(span)

Spec == Init /\ [][Next]_retargetVars

-----------------------------------------------------------------------------
(***************************************************************************)
(* The target of x is at most k times that of y.  The mantissas are        *)
(* compared at the larger of the two exponents, so that no 256-bit number  *)
(* is computed.                                                            *)
(***************************************************************************)
CeilDiv(i, j) == (i + j - 1) \div j

AtMostTimes(x, k, y) ==
  LET d == x.exponent - y.exponent
  IN  IF d >= 0
      THEN x.mantissa <= (k * y.mantissa) \div Power(Radix, d)
      ELSE CeilDiv(x.mantissa, Power(Radix, -d)) <= k * y.mantissa

(***************************************************************************)
(* A retarget of get_next_work_required never makes blocks more than four  *)
(* times as easy, however slow the period was.                             *)
(***************************************************************************)
EasesAtMostFourfold == AtMostTimes(bits, 4, last)

(***************************************************************************)
(* A period that was faster than expected, or exactly on time, never makes *)
(* the next one easier: get_next_work_required steers the right way.       *)
(***************************************************************************)
FastPeriodNeverEases ==
  timespan <= TARGET_TIMESPAN_SECONDS => AtMostTimes(bits, 1, last)

(***************************************************************************)
(* The comment on get_next_work_required: a burst of fast or slow blocks   *)
(* cannot swing the difficulty by more than 4x in one retarget.  One unit  *)
(* of the last place is allowed for rounding.                              *)
(***************************************************************************)
HardensAtMostFourfold ==
  AtMostTimes(last, 4, [bits EXCEPT !.mantissa = @ + 1])
=============================================================================
