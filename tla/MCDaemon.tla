------------------------------ MODULE MCDaemon ------------------------------
(***************************************************************************)
(* Small instances of the daemons for TLC.  Bytes have two bits and a      *)
(* target four bytes; every branch of the retarget arithmetic remains.     *)
(***************************************************************************)
EXTENDS DaemonProperties

CONSTANTS alice, bob   \* nodes

SmallInitialBits == [exponent |-> 4, mantissa |-> 31]

\* 0x207fffff
ProgramInitialBits == [exponent |-> 32, mantissa |-> 8388607]

NoPeers == [n \in {alice} |-> <<>>]

OnlyBobPollsAlice == [n \in {alice, bob} |-> IF n = bob THEN <<alice>> ELSE <<>>]
=============================================================================
