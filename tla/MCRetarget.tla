----------------------------- MODULE MCRetarget -----------------------------
(***************************************************************************)
(* The program's own parameters: 8-bit bytes, 32-byte targets, 0x207fffff. *)
(***************************************************************************)
EXTENDS Retarget

ProgramInitialBits == [exponent |-> 32, mantissa |-> 8388607]
=============================================================================
