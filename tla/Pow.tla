-------------------------------- MODULE Pow --------------------------------
(***************************************************************************)
(* Proof of work (consensus/pow.h): the compact difficulty nBits, the      *)
(* retarget rule and the work a block stands for.                          *)
(*                                                                         *)
(* nBits is the record [exponent, mantissa] of the four bytes the code     *)
(* packs into a uint32_t.  The width of a byte and the number of bytes of  *)
(* a target are parameters: (8, 32) is the program, smaller values keep    *)
(* every branch of the same arithmetic within TLC's integers.  The code    *)
(* computes the retarget and the work with doubles; here both are exact    *)
(* quotients, rounded down where the code truncates.                       *)
(***************************************************************************)
EXTENDS Sequences, Functions, Powers

CONSTANTS
  BYTE_BITS,                \* bits of a byte: 8 in the program
  TARGET_BYTES,             \* bytes of a target: 32 in the program
  INITIAL_BITS,             \* nBits of a genesis block
  RETARGET_INTERVAL,        \* blocks between two retargets
  TARGET_TIMESPAN_SECONDS,  \* expected duration of that many blocks
  WORK_SCALE                \* fixed-point scale of calculate_block_work

Radix         == Power(2, BYTE_BITS)
MantissaLimit == Power(Radix, 3)      \* 2^24: where the normalising loop stops
SignBit       == MantissaLimit \div 2 \* 0x00800000, cleared in every mantissa

nBitsRange == [exponent : Nat, mantissa : 0 .. SignBit - 1]

ASSUME PowAssumption ==
  /\ BYTE_BITS \in Nat
  /\ BYTE_BITS >= 2
  /\ TARGET_BYTES \in Nat
  /\ TARGET_BYTES >= 3
  /\ INITIAL_BITS \in nBitsRange
  /\ RETARGET_INTERVAL \in Nat \ {0}
  /\ TARGET_TIMESPAN_SECONDS \in Nat
  /\ TARGET_TIMESPAN_SECONDS >= 4
  /\ TARGET_TIMESPAN_SECONDS % 4 = 0
  /\ WORK_SCALE \in Nat \ {0}

-----------------------------------------------------------------------------
(***************************************************************************)
(* bits_to_target: the target as a number.  An exponent beyond the width   *)
(* of a target leaves the array zeroed, an exponent of at most three       *)
(* shifts the mantissa right.  No nBits of the model has the sign bit.     *)
(***************************************************************************)
bits_to_target(bits) ==
  IF bits.exponent > TARGET_BYTES THEN 0
  ELSE IF bits.exponent <= 3
       THEN bits.mantissa \div Power(Radix, 3 - bits.exponent)
       ELSE bits.mantissa * Power(Radix, bits.exponent - 3)

(***************************************************************************)
(* Whether any hash satisfies the target, that is bits_to_target(bits) # 0 *)
(* without computing a 256-bit number.  mine_block leaves its loop exactly *)
(* when this holds, and check_proof_of_work accepts what mine_block found. *)
(***************************************************************************)
Mineable(bits) ==
  /\ bits.exponent <= TARGET_BYTES
  /\ bits.mantissa # 0
  /\ bits.exponent <= 3 =>
       bits.mantissa \div Power(Radix, 3 - bits.exponent) # 0

\* A genesis block can be mined.
ASSUME InitialBitsAssumption == Mineable(INITIAL_BITS)

\* Mistake: the timespan is not clamped.
UnclampedTimespan(actual) == IF actual < 0 THEN 0 ELSE actual

(***************************************************************************)
(* The timespan of the last RETARGET_INTERVAL headers, clamped to a factor *)
(* of four around the expected one.                                        *)
(***************************************************************************)
ClampedTimespan(actual) ==
  LET min_timespan == TARGET_TIMESPAN_SECONDS \div 4
      max_timespan == TARGET_TIMESPAN_SECONDS * 4
  IN  IF actual < min_timespan THEN min_timespan
      ELSE IF actual > max_timespan THEN max_timespan
      ELSE actual

(***************************************************************************)
(* floor(num / den * Radix^digits), for a negative number of digits too.   *)
(***************************************************************************)
Shifted(num, den, digits) ==
  IF digits >= 0 THEN (num * Power(Radix, digits)) \div den
                 ELSE num \div (den * Power(Radix, -digits))

\* Mistake: the target is scaled by the inverse ratio.
InverselyRetargetedBits(bits, timespan) ==
  LET num  == bits.mantissa * TARGET_TIMESPAN_SECONDS
      m(d) == Shifted(num, timespan, d)
      last == bits.exponent - 3
      d    == CHOOSE x \in -3 .. 3 :
                /\ x <= last
                /\ m(x) < MantissaLimit
                /\ x = last \/ m(x) >= Power(Radix, 2)
  IN  IF num = 0
      THEN [exponent |-> 3, mantissa |-> 0]
      ELSE [exponent |-> bits.exponent - d, mantissa |-> m(d) % SignBit]

(***************************************************************************)
(* Scaling the target by timespan / TARGET_TIMESPAN_SECONDS.  The code     *)
(* spreads the value over exponent 3 and divides by 256 until it is below  *)
(* 2^24, so the new mantissa fills its three bytes (or the exponent is 3); *)
(* then it clears the mantissa's sign bit.  d is the exponent's decrease.  *)
(***************************************************************************)
RetargetedBits(bits, timespan) ==
  LET num  == bits.mantissa * timespan
      m(d) == Shifted(num, TARGET_TIMESPAN_SECONDS, d)
      last == bits.exponent - 3
      d    == CHOOSE x \in -3 .. 3 :
                /\ x <= last
                /\ m(x) < MantissaLimit
                /\ x = last \/ m(x) >= Power(Radix, 2)
  IN  IF num = 0
      THEN [exponent |-> 3, mantissa |-> 0]
      ELSE [exponent |-> bits.exponent - d, mantissa |-> m(d) % SignBit]

(***************************************************************************)
(* get_next_work_required: the nBits of the block after a non-empty        *)
(* sequence of headers.                                                    *)
(***************************************************************************)
get_next_work_required(headers) ==
  LET size  == Len(headers)
      first == headers[size - RETARGET_INTERVAL + 1]
      tip   == headers[size]
  IN  IF size % RETARGET_INTERVAL # 0
      THEN tip.nBits
      ELSE RetargetedBits(tip.nBits, ClampedTimespan(tip.nTime - first.nTime))

(***************************************************************************)
(* calculate_block_work: 2^256 / target from exponent and mantissa, in     *)
(* units of 1 / WORK_SCALE.                                                *)
(***************************************************************************)
calculate_block_work(bits) ==
  IF bits.mantissa = 0
  THEN 0
  ELSE Shifted(WORK_SCALE, bits.mantissa, TARGET_BYTES + 3 - bits.exponent)

calculate_chain_work(headers) ==
  SumFunction([h \in 1 .. Len(headers) |-> calculate_block_work(headers[h].nBits)])
=============================================================================
