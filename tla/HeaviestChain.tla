---------------------------- MODULE HeaviestChain ----------------------------
(***************************************************************************)
(* What a network of nodes promises about the chain each node keeps: the   *)
(* chain is valid from its own genesis on, it is only ever exchanged for a *)
(* valid chain of the same genesis with strictly more cumulative work      *)
(* (extending it by a block included), and it is never lost.  This is the  *)
(* fork rule of the comment on try_reorg, read as a specification of the   *)
(* whole node: whatever threads, crashes and messages do, no other change  *)
(* is visible.                                                             *)
(***************************************************************************)
EXTENDS Integers, Sequences

CONSTANTS
  Nodes,
  Valid(_),    \* whether a chain is valid from its genesis block on
  Genesis(_),  \* the identity of a chain's genesis block
  Work(_)      \* the cumulative work of a chain

VARIABLE best  \* the chain each node keeps, <<>> before it has one

Init ==
  /\ best \in [Nodes -> {best[n] : n \in Nodes}]
  /\ \A n \in Nodes : best[n] # <<>> => Valid(best[n])

(***************************************************************************)
(* A node without a chain makes a genesis block of its own.                *)
(***************************************************************************)
Create(n) ==
  /\ best[n] = <<>>
  /\ Len(best'[n]) = 1
  /\ Valid(best'[n])

Adopt(n) ==
  /\ best[n] # <<>> /\ best'[n] # <<>>
  /\ Genesis(best'[n]) = Genesis(best[n])
  /\ Valid(best'[n])
  /\ Work(best'[n]) > Work(best[n])

Next ==
  \E n \in Nodes :
    /\ best' = [best EXCEPT ![n] = best'[n]]
    /\ Create(n) \/ Adopt(n)

Spec == Init /\ [][Next]_best
=============================================================================
