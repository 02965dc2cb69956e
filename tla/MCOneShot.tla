----------------------------- MODULE MCOneShot -----------------------------
(***************************************************************************)
(* A small instance of the one-shot commands for TLC: both nodes have the  *)
(* seed chain and a block alice has mined on it.                           *)
(***************************************************************************)
EXTENDS OneShot

CONSTANTS alice, bob   \* nodes

SmallInitialBits == [exponent |-> 4, mantissa |-> 31]

Seed == build_genesis_chain(PLACEHOLDER, 0)

AliceMined == Append(Seed, build_next_block(Seed, alice, 0, <<>>, 0))

\* alice pays bob, and spends the change of that payment again.
First == CreateTransaction(<<[txid |-> tx_hash(AliceMined[2].vtx[1]), n |-> 0]>>,
                           alice, bob, 2, DEFAULT_FEE)

Second == CreateTransaction(<<[txid |-> tx_hash(First), n |-> 1]>>,
                            alice, bob, 2, DEFAULT_FEE)

(***************************************************************************)
(* Both nodes have the chain, or bob has no file yet.  alice's mempool     *)
(* holds the two payments: the first had been mined and the second was     *)
(* sent, the block with the first was lost to a reorganisation and the     *)
(* first was sent again, with the second before or after it in the file.   *)
(***************************************************************************)
AliceHas(pool) == [n \in {alice, bob} |-> IF n = alice THEN pool ELSE <<>>]

SmallFiles ==
  {[chains |-> [n \in {alice, bob} |-> AliceMined],
    pools  |-> AliceHas(<<First, Second>>)],
   [chains |-> [n \in {alice, bob} |-> IF n = alice THEN AliceMined ELSE <<>>],
    pools  |-> AliceHas(<<Second, First>>)]}
=============================================================================
