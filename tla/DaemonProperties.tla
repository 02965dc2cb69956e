-------------------------- MODULE DaemonProperties --------------------------
(***************************************************************************)
(* What the daemons of Daemon.tla are meant to guarantee.                  *)
(***************************************************************************)
EXTENDS Daemon

(***************************************************************************)
(* Type correctness of the state the daemon's threads share.               *)
(***************************************************************************)
PollPcs == {"idle", "wait_inv", "wait_block", "got_block", "wait_chain",
            "got_chain", "saving"}

Jobs == {<<>>, <<"chain">>, <<"pool">>, <<"chain", "pool">>}

PollOK(n, p) ==
  /\ p = [pc |-> p.pc, turn |-> p.turn, conn |-> p.conn, got |-> p.got]
  /\ p.pc \in PollPcs
  /\ p.pc # "idle" => KnownPeers[n] # <<>>
  /\ p.turn \in 1 .. Len(KnownPeers[n]) \cup {1}
  /\ p.conn \in BOOLEAN
  /\ IsSeq(p.got)

TypeOK ==
  /\ status \in [Nodes -> {"down", "boot", "run", "spin"}]
  /\ job \in [Nodes -> Jobs]
  /\ open \in [Nodes -> BOOLEAN]
  /\ chain = [n \in Nodes |-> chain[n]]
  /\ diskChain = [n \in Nodes |-> diskChain[n]]
  /\ diskPool = [n \in Nodes |-> diskPool[n]]
  /\ newPool = [n \in Nodes |-> newPool[n]]
  /\ wire = [n \in Nodes |-> wire[n]]
  /\ poll = [n \in Nodes |-> poll[n]]
  /\ \A n \in Nodes : /\ IsSeq(chain[n])
                      /\ IsSeq(diskChain[n])
                      /\ IsSeq(diskPool[n])
                      /\ IsSeq(newPool[n])
                      /\ PollOK(n, poll[n])
  /\ sends \in 0 .. MAX_SENDS
  /\ faults \in 0 .. MAX_FAULTS

(***************************************************************************)
(* Whoever gets the mutex of a running node finds in memory exactly the    *)
(* chain that is on disk.  HandleConnection answers under the mutex, so no *)
(* peer is ever told of a block that a crash of the node could take back.  *)
(***************************************************************************)
ServedIsDurable ==
  \A n \in Nodes : MutexFree(n) => chain[n] # <<>> /\ diskChain[n] = chain[n]

(***************************************************************************)
(* Every chain a node works with passes validate_full_chain, although a    *)
(* node checks most blocks only with try_extend_chain (one UtxoSet for the *)
(* whole block) and its own blocks not at all.                             *)
(***************************************************************************)
ChainsValid ==
  \A n \in Nodes :
    /\ chain[n] # <<>> => validate_full_chain(chain[n])
    /\ poll[n].pc = "got_chain" => validate_full_chain(poll[n].got)

(***************************************************************************)
(* No money is created or destroyed: what is unspent on a chain is the sum *)
(* of the rewards of its blocks, fees included exactly once.               *)
(***************************************************************************)
Unspent(c) == LET utxo_set == build_utxo_set(c)
              IN  SumFunction([o \in utxo_set |-> CTxOut(o).nValue])

Minted(c) == SumFunction([h \in 1 .. Len(c) |-> calculate_block_reward(h - 1)])

SupplyConserved == \A n \in Nodes : Unspent(chain[n]) = Minted(chain[n])

(***************************************************************************)
(* The two ways the code computes a chain's UtxoSet agree: all outputs     *)
(* minus all inputs (build_utxo_set), and the transaction-by-transaction   *)
(* replay of validate_full_chain.                                          *)
(***************************************************************************)
UtxoViewsAgree ==
  \A n \in Nodes :
    LET c == chain[n]
    IN  c # <<>> =>
          build_utxo_set(c) = ReplayedUtxo(c, Len(c), Len(Last(c).vtx) + 1)

-----------------------------------------------------------------------------
(***************************************************************************)
(* The chain a node keeps is the one on its disk; while the file is being  *)
(* rewritten it is the one being written.                                  *)
(***************************************************************************)
Keeps(n) ==
  IF open[n] /\ Head(job[n]) = "chain" THEN chain[n] ELSE diskChain[n]

GenesisHash(c) == GetHash(c[1])

Promise == INSTANCE HeaviestChain WITH
             best    <- [n \in Nodes |-> Keeps(n)],
             Valid   <- validate_full_chain,
             Genesis <- GenesisHash,
             Work    <- calculate_chain_work

(***************************************************************************)
(* The daemons implement HeaviestChain: across mining, polling, crashes    *)
(* and restarts the kept chain changes only by the fork rule.              *)
(***************************************************************************)
KeepsHeaviestChain == Promise!Spec

(***************************************************************************)
(* A payment a node has accepted into its mempool leaves it only when the  *)
(* chain the node keeps can no longer execute it: it has been mined, or    *)
(* what it spends is gone.  A crash between the miner's saves of the chain *)
(* and of the emptied mempool loses no payment that is still good.         *)
(***************************************************************************)
KeepsPool(n) ==
  Range(IF open[n] /\ Head(job[n]) = "pool" THEN newPool[n] ELSE diskPool[n])

PaymentsNotLost ==
  [][\A n \in Nodes : \A tx \in KeepsPool(n) :
       \/ tx \in KeepsPool(n)'
       \/ ~ (Inputs(tx) \subseteq build_utxo_set(Keeps(n)'))]_vars

-----------------------------------------------------------------------------
(***************************************************************************)
(* A follower catches up: as long as the miners are the only source of     *)
(* blocks and the follower keeps polling them, it ends with their chain,   *)
(* whatever dies or is lost on the way; unless a miner is caught in        *)
(* mine_block with its mutex, and answers nobody any more.                 *)
(***************************************************************************)
FollowersCatchUp ==
  \/ <>(\E m \in Miners : status[m] = "spin")
  \/ <>[](\A n \in Nodes \ Miners, m \in Miners : chain[n] = chain[m])

-----------------------------------------------------------------------------
(***************************************************************************)
(* Claims of the repository that the code does not keep in every case.     *)
(***************************************************************************)

(***************************************************************************)
(* load_or_create_chain mines a fresh genesis "if missing": a node that    *)
(* was given a chain file never works on another genesis.  It is kept if   *)
(* no process dies between the truncation and the write of a file, even    *)
(* if peers offer heavier chains of another genesis.                       *)
(***************************************************************************)
GenesisKept ==
  \A n \in Seeded :
    chain[n] # <<>> => GetHash(chain[n][1]) = GetHash(SeedChain[1])

(***************************************************************************)
(* MiningLoop is to mine a block every DAEMON_CYCLE_SECONDS: no miner is   *)
(* caught in mine_block with the mutex.                                    *)
(***************************************************************************)
MiningGoesOn == \A n \in Nodes : status[n] # "spin"

-----------------------------------------------------------------------------
(***************************************************************************)
(* Inductive strengthenings, for the proofs.                               *)
(*                                                                         *)
(* MutexInv ties the mutex to the files: what is still to be saved, and    *)
(* that the file is the chain in memory once the chain has been saved.     *)
(***************************************************************************)
MutexInvOf(n) ==
  /\ open[n] => job[n] # <<>>
  /\ status[n] \in {"down", "spin"} => job[n] = <<>>
  /\ status[n] = "boot" => job[n] = <<"chain">>
  /\ status[n] # "down" => chain[n] # <<>>
  /\ status[n] # "down" /\ (job[n] = <<>> \/ Head(job[n]) = "pool")
       => diskChain[n] = chain[n]

MutexInv == \A n \in Nodes : MutexInvOf(n)

(***************************************************************************)
(* GenesisInv extends GenesisKept to the file, except while the holder of  *)
(* the mutex is rewriting it.                                              *)
(***************************************************************************)
OnSeed(c) == c # <<>> /\ GetHash(c[1]) = GetHash(SeedChain[1])

GenesisInvOf(n) ==
  /\ OnSeed(diskChain[n]) \/ (open[n] /\ Head(job[n]) = "chain")
  /\ chain[n] = <<>> \/ OnSeed(chain[n])

GenesisInv == \A n \in Seeded : GenesisInvOf(n)

(***************************************************************************)
(* ChainInv extends ChainsValid to whatever may become part of a chain:    *)
(* the file, a received block or chain, and the transactions on their way  *)
(* into a block.  A received block is the tip of some honest chain.        *)
(***************************************************************************)
HonestTxs(txs) == \A tx \in txs : HonestTx(tx)

ChainInvOf(n) ==
  /\ chain[n] = <<>> \/ HonestChain(chain[n])
  /\ diskChain[n] = <<>> \/ HonestChain(diskChain[n])
  /\ HonestTxs(Range(diskPool[n])) /\ HonestTxs(Range(newPool[n]))
  /\ HonestTxs(wire[n])
  /\ poll[n].pc = "got_chain" => HonestChain(poll[n].got)
  /\ poll[n].pc = "got_block" =>
       \E c : HonestChain(c) /\ poll[n].got[1] = Last(c)

ChainInv == \A n \in Nodes : ChainInvOf(n)

(***************************************************************************)
(* HeavierInv: a chain that waits to be saved may replace the one on file. *)
(***************************************************************************)
MayReplace(old, new) ==
  \/ new = old
  \/ old = <<>> /\ Len(new) = 1
  \/ /\ old # <<>>
     /\ GenesisHash(new) = GenesisHash(old)
     /\ calculate_chain_work(new) > calculate_chain_work(old)

HeavierInvOf(n) ==
  job[n] # <<>> /\ Head(job[n]) = "chain" /\ ~open[n]
    => MayReplace(diskChain[n], chain[n])

HeavierInv == \A n \in Nodes : HeavierInvOf(n)

(***************************************************************************)
(* Where m alone mines, every chain is a genesis block or the beginning of *)
(* the chain m keeps, and so is whatever has been received: m is never     *)
(* given a block that is new to it, and the chain it keeps only grows.     *)
(***************************************************************************)
TakenFrom(c, kept) == Len(c) = 1 \/ IsPrefixOf(c, kept)

ReceivedFrom(p, kept) ==
  /\ p.pc = "got_chain" => TakenFrom(p.got, kept)
  /\ p.pc = "got_block" =>
       \/ p.got[1].hashPrevBlock = ZeroHash
       \/ \E h \in 1 .. Len(kept) : p.got[1] = kept[h]

OneMinerInv(m) ==
  /\ chain[m] = <<>> \/ IsPrefixOf(Keeps(m), chain[m])
  /\ \A n \in Nodes \ {m} :
       TakenFrom(chain[n], Keeps(m)) /\ TakenFrom(diskChain[n], Keeps(m))
  /\ \A n \in Nodes : ReceivedFrom(poll[n], Keeps(m))

(***************************************************************************)
(* Then every payment in m's mempool spends outputs of the chain m keeps.  *)
(***************************************************************************)
FundedInv(m) ==
  \A tx \in Range(diskPool[m]) \cup Range(newPool[m]) :
    WasValid(tx) /\ Funded(tx, Keeps(m))

(***************************************************************************)
(* PendingInv: what is to replace the mempool on file keeps every payment  *)
(* of it that the chain in memory can still execute.                       *)
(***************************************************************************)
PendingInvOf(n) ==
  job[n] = <<"chain", "pool">> \/ (job[n] = <<"pool">> /\ ~open[n]) =>
    \A tx \in Range(diskPool[n]) :
      tx \in Range(newPool[n]) \/ ~ (Inputs(tx) \subseteq build_utxo_set(chain[n]))

PendingInv == \A n \in Nodes : PendingInvOf(n)
=============================================================================
