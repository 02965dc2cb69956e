----------------------------- MODULE MCSession -----------------------------
(***************************************************************************)
(* Small instances of the connections between daemons for TLC.             *)
(***************************************************************************)
EXTENDS Session

CONSTANTS alice, bob, payer

PollEachOther == [n \in {alice, bob} |-> IF n = alice THEN <<bob>> ELSE <<alice>>]

BobPollsAlice == [n \in {alice, bob} |-> IF n = bob THEN <<alice>> ELSE <<>>]

PayThroughAlice == [s \in {payer} |-> alice]

NoPayment == [s \in {} |-> alice]
=============================================================================
