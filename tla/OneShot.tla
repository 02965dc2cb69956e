------------------------------ MODULE OneShot ------------------------------
(***************************************************************************)
(* The one-shot commands of network/node.h: --listen mines one block and   *)
(* serves it to one peer, --connect fetches a peer's block or chain,       *)
(* --send pays and --receive-tx puts one payment into the mempool.  Each   *)
(* is a process that reads the node's chain and mempool files, works on    *)
(* what it has read and writes the files back.  Nothing locks the files.   *)
(*                                                                         *)
(* A step is what a process does between two accesses to the files or two  *)
(* waits for a peer.  A file is written in one step: the window in which   *)
(* it is truncated is in Daemon.tla.  A process may end at any point: it   *)
(* is killed, finds nobody to connect to, or its peer goes away.           *)
(***************************************************************************)
EXTENDS Ledger

CONSTANTS
  Nodes,            \* nodes; a node is also the address of its wallet
  InitialFiles,     \* the chain and mempool files there may be at first
  Times,            \* what the clock may show when a block is built
  Recipients,       \* whom --send may be asked to pay
  Amounts,          \* and how much
  MAX_MEMPOOL_SIZE, \* entries of a full mempool
  MAX_HEIGHT,       \* bound: blocks of a chain
  MAX_PROCESSES,    \* bound: processes at a time
  MAX_LAUNCHES      \* bound: processes in all

(***************************************************************************)
(* Files the commands may have left behind: chains as the program makes    *)
(* them, and mempools of payments that were valid on some chain once.      *)
(***************************************************************************)
GoodChain(c) == c = <<>> \/ HonestChain(c)

ASSUME OneShotAssumption ==
  /\ Times \subseteq Nat
  /\ Amounts \subseteq Nat
  /\ {MAX_MEMPOOL_SIZE, MAX_HEIGHT, MAX_PROCESSES, MAX_LAUNCHES} \subseteq Nat
  /\ \A files \in InitialFiles :
       /\ files.chains = [n \in Nodes |-> files.chains[n]]
       /\ files.pools = [n \in Nodes |-> files.pools[n]]
       /\ \A n \in Nodes : GoodChain(files.chains[n]) /\ GoodPool(files.pools[n])

Processes == 1 .. MAX_PROCESSES

VARIABLES
  chainFile, \* chain_path of each node, <<>> when it does not exist
  poolFile,  \* chain_path.mempool
  proc,      \* the processes
  launches   \* processes started so far

vars == <<chainFile, poolFile, proc, launches>>

-----------------------------------------------------------------------------
(***************************************************************************)
(* A process: its command and node, where it is (pc), its chain, tx the    *)
(* payment it has to send, pool the mempool it will save, job the files it *)
(* has still to save.  sawChain and sawPool remember what it has read from *)
(* the files, or has written when nobody came in between (<<>> when        *)
(* somebody did); only the properties look at them.                        *)
(***************************************************************************)
Idle == [cmd |-> "none", node |-> PLACEHOLDER, pc |-> "idle", chain |-> <<>>,
         tx |-> <<>>, pool |-> <<>>, job |-> <<>>,
         sawChain |-> <<>>, sawPool |-> <<>>]

Runs(p, cmd, pc) == proc[p].cmd = cmd /\ proc[p].pc = pc

Init ==
  /\ \E files \in InitialFiles : /\ chainFile = files.chains
                                  /\ poolFile = files.pools
  /\ proc = [p \in Processes |-> Idle]
  /\ launches = 0

-----------------------------------------------------------------------------
(***************************************************************************)
(* Starting a command, up to its first wait.  All but --listen give up     *)
(* when there is no chain file; --listen mines a genesis block.            *)
(***************************************************************************)
Launch(p, n, cmd, pc, chain, tx) ==
  /\ launches < MAX_LAUNCHES
  /\ proc[p] = Idle
  /\ \A q \in 1 .. p - 1 : proc[q] # Idle
  /\ launches' = launches + 1
  /\ proc' = [proc EXCEPT ![p] =
       [cmd |-> cmd, node |-> n, pc |-> pc, chain |-> chain, tx |-> tx,
        pool |-> <<>>, job |-> <<>>, sawChain |-> chainFile[n], sawPool |-> <<>>]]
  /\ UNCHANGED <<chainFile, poolFile>>

load_or_create_chain(n, time) ==
  IF chainFile[n] = <<>> THEN build_genesis_chain(n, time) ELSE chainFile[n]

Listen(p, n, time) ==
  Launch(p, n, "listen", "mine", load_or_create_chain(n, time), <<>>)

Connect(p, n) ==
  chainFile[n] # <<>> /\ Launch(p, n, "connect", "connect", chainFile[n], <<>>)

ReceiveTx(p, n) ==
  chainFile[n] # <<>> /\ Launch(p, n, "receive", "accept", chainFile[n], <<>>)

SendTx(p, n, recipient, amount) ==
  /\ chainFile[n] # <<>>
  /\ \E selected \in Sufficient(
           filter_utxos_by_address(build_utxo_set(chainFile[n]), n),
           amount, DEFAULT_FEE) :
       Launch(p, n, "send", "connect", chainFile[n],
              <<CreateTransaction(selected, n, recipient, amount, DEFAULT_FEE)>>)

-----------------------------------------------------------------------------
(***************************************************************************)
(* run_listener: select from the mempool and mine, save both files, then   *)
(* wait for a peer.                                                        *)
(***************************************************************************)
PoolFirst == <<"pool", "chain">>  \* mistake: the mempool is cleared first

FilesSavedByListener == <<"chain", "pool">>

Mined(r, mempool, chain) ==
  [r EXCEPT !.chain = chain, !.sawPool = mempool,
            !.job = FilesSavedByListener, !.pc = "save"]

Mine(p, time) ==
  LET n == proc[p].node
      mempool == poolFile[n]
      chain == proc[p].chain
  IN  /\ Runs(p, "listen", "mine")
      /\ Len(chain) < MAX_HEIGHT
      /\ Mineable(NextBits(chain))
      /\ \E picked \in UNION {[1 .. k -> 1 .. Len(mempool)] : k \in 0 .. Len(mempool)} :
           /\ IsSelection(chain, mempool, picked)
           /\ proc' = [proc EXCEPT ![p] = Mined(@, mempool,
                Append(chain, build_next_block(chain, n,
                  SelectedFees(chain, mempool, picked), Kept(mempool, picked), time)))]
      /\ UNCHANGED <<chainFile, poolFile, launches>>

(***************************************************************************)
(* Writing the next file.  A listener with its files saved waits for a     *)
(* peer, the others have finished.                                         *)
(***************************************************************************)
SavedOne(r, left, file, written) ==
  [r EXCEPT !.job = left, !.sawChain = IF @ = file THEN written ELSE <<>>]

SavedAll(r) ==
  IF r.cmd = "listen" THEN [r EXCEPT !.job = <<>>, !.pc = "accept"] ELSE Idle

Save(p) ==
  LET n == proc[p].node
      left == Tail(proc[p].job)
  IN  /\ proc[p].pc = "save"
      /\ IF Head(proc[p].job) = "chain"
         THEN /\ chainFile' = [chainFile EXCEPT ![n] = proc[p].chain]
              /\ UNCHANGED poolFile
         ELSE /\ poolFile' = [poolFile EXCEPT ![n] = proc[p].pool]
              /\ UNCHANGED chainFile
      /\ proc' = [proc EXCEPT ![p] =
           IF left = <<>> THEN SavedAll(@)
                          ELSE SavedOne(@, left, chainFile[n], chainFile'[n])]
      /\ UNCHANGED launches

-----------------------------------------------------------------------------
(***************************************************************************)
(* run_connector with the chain of the listener it has reached: the chain  *)
(* it ends with.  Unlike PollPeer of the daemon it does not ask for the    *)
(* whole chain when the block links to its tip and is refused.             *)
(***************************************************************************)
LinksTo(blk, chain) == blk.hashPrevBlock = GetHash(Last(chain))

\* Mistake: a chain of equal work is taken too.
ResolvedOnTie(chain, peer_chain) ==
  IF try_extend_chain(chain, Last(peer_chain))
  THEN Append(chain, Last(peer_chain))
  ELSE IF /\ GetHash(peer_chain[1]) = GetHash(chain[1])
          /\ validate_full_chain(peer_chain)
          /\ calculate_chain_work(peer_chain) >= calculate_chain_work(chain)
       THEN peer_chain ELSE chain

\* Mistake: a block that does not extend the tip is dropped.
ExtendedOnly(chain, peer_chain) ==
  IF try_extend_chain(chain, Last(peer_chain))
  THEN Append(chain, Last(peer_chain)) ELSE chain

Resolved(chain, peer_chain) ==
  LET blk == Last(peer_chain)
  IN  IF try_extend_chain(chain, blk) THEN Append(chain, blk)
      ELSE IF /\ IsMerkleRootValid(blk) /\ check_proof_of_work(blk)
              /\ ~LinksTo(blk, chain)
              /\ try_reorg(chain, peer_chain)
           THEN peer_chain ELSE chain

(***************************************************************************)
(* The connector p has the block, and if it asks for it the chain, of the  *)
(* listener q; both ends close the connection.                             *)
(***************************************************************************)
Fetched(r, chain) == [r EXCEPT !.chain = chain, !.job = <<"chain">>, !.pc = "save"]

Fetch(p, q) ==
  LET chain == Resolved(proc[p].chain, proc[q].chain)
  IN  /\ Runs(p, "connect", "connect")
      /\ Runs(q, "listen", "accept")
      /\ proc' = [proc EXCEPT
           ![q] = Idle,
           ![p] = IF chain = @.chain THEN Idle ELSE Fetched(@, chain)]
      /\ UNCHANGED <<chainFile, poolFile, launches>>

(***************************************************************************)
(* --receive-tx q gets the payment of --send p: it checks it against the   *)
(* chain it read before it began to wait, and appends it to the mempool of *)
(* now.                                                                    *)
(***************************************************************************)
Received(r, mempool, tx) ==
  [r EXCEPT !.pool = Append(mempool, tx), !.sawPool = mempool,
            !.job = <<"pool">>, !.pc = "save"]

Deliver(p, q) ==
  LET mempool == poolFile[proc[q].node]
      tx == proc[p].tx[1]
      valid == /\ ~IsCoinbase(tx)
               /\ validate_and_get_fee(tx, build_utxo_set(proc[q].chain)) >= 0
  IN  /\ Runs(p, "send", "connect")
      /\ Runs(q, "receive", "accept")
      /\ proc' = [proc EXCEPT
           ![p] = Idle,
           ![q] = IF valid /\ Len(mempool) < MAX_MEMPOOL_SIZE
                  THEN Received(@, mempool, tx) ELSE Idle]
      /\ UNCHANGED <<chainFile, poolFile, launches>>

(***************************************************************************)
(* A --send reaches a listener, which refuses TX: the payment is gone.  A  *)
(* --connect reaches a --receive-tx: the one waits for INV, the other for  *)
(* TX, until somebody ends them.                                           *)
(***************************************************************************)
Refuse(p, q) ==
  /\ Runs(p, "send", "connect")
  /\ Runs(q, "listen", "accept")
  /\ proc' = [proc EXCEPT ![p] = Idle, ![q] = Idle]
  /\ UNCHANGED <<chainFile, poolFile, launches>>

Stuck(r) == [r EXCEPT !.pc = "stuck"]

WaitForEachOther(p, q) ==
  /\ Runs(p, "connect", "connect")
  /\ Runs(q, "receive", "accept")
  /\ proc' = [proc EXCEPT ![p] = Stuck(@), ![q] = Stuck(@)]
  /\ UNCHANGED <<chainFile, poolFile, launches>>

End(p) ==
  /\ proc[p] # Idle
  /\ proc' = [proc EXCEPT ![p] = Idle]
  /\ UNCHANGED <<chainFile, poolFile, launches>>

-----------------------------------------------------------------------------
Next ==
  \E p \in Processes :
    \/ \E n \in Nodes :
         \/ \E time \in Times : Listen(p, n, time)
         \/ Connect(p, n)
         \/ ReceiveTx(p, n)
         \/ \E recipient \in Recipients, amount \in Amounts :
              SendTx(p, n, recipient, amount)
    \/ \E time \in Times : Mine(p, time)
    \/ Save(p)
    \/ \E q \in Processes : \/ Fetch(p, q) \/ Deliver(p, q)
                            \/ Refuse(p, q) \/ WaitForEachOther(p, q)
    \/ End(p)

Spec == Init /\ [][Next]_vars

-----------------------------------------------------------------------------
(***************************************************************************)
(* Whatever overlaps on the files, a chain file always holds a chain that  *)
(* passes validate_full_chain: a payment checked against a chain that is   *)
(* no longer the node's, or mined on a fork, is never put into a block it  *)
(* is not valid in.                                                        *)
(***************************************************************************)
FilesValid ==
  \A n \in Nodes : chainFile[n] # <<>> => validate_full_chain(chainFile[n])

(***************************************************************************)
(* p is about to save a file of n, and another process has written one of  *)
(* the files since p read or wrote them.                                   *)
(***************************************************************************)
Overtaken(p, n) ==
  /\ proc[p].pc = "save"
  /\ proc[p].node = n
  /\ \/ proc[p].sawChain # chainFile[n]
     \/ "pool" \in Range(proc[p].job) /\ proc[p].sawPool # poolFile[n]

(***************************************************************************)
(* The chain file changes only to a chain of the same genesis with more    *)
(* work, the fork rule of run_connector, or when a process that has been   *)
(* overtaken writes back what it made of an older file.                    *)
(***************************************************************************)
HeavierUnlessOvertaken ==
  [][\A n \in Nodes :
       \/ chainFile'[n] = chainFile[n]
       \/ chainFile[n] = <<>>
       \/ /\ GetHash(chainFile'[n][1]) = GetHash(chainFile[n][1])
          /\ calculate_chain_work(chainFile'[n]) > calculate_chain_work(chainFile[n])
       \/ \E p \in Processes : Overtaken(p, n) /\ proc'[p] # proc[p]]_vars

(***************************************************************************)
(* "Everything pending just got confirmed or dropped": a payment leaves    *)
(* the mempool file only when the chain file can no longer execute it, or  *)
(* when a process that has been overtaken writes back an older mempool.    *)
(* The exception the comment does not name: the listener reads the mempool *)
(* once, from front to back, so a payment that spends what the new block   *)
(* itself pays, by its reward or by an entry further back, is dropped      *)
(* although it could now be executed (OutOfTurn).                          *)
(***************************************************************************)
PendingConfirmedOrDropped ==
  [][\A n \in Nodes : \A tx \in Range(poolFile[n]) :
       \/ tx \in Range(poolFile'[n])
       \/ Settled(chainFile'[n], poolFile[n], tx)
       \/ \E p \in Processes : Overtaken(p, n) /\ proc'[p] # proc[p]]_vars

(***************************************************************************)
(* A --connect that has heard a listener leaves with the listener's chain  *)
(* when that is valid, of its genesis and heavier: "if it does not extend  *)
(* our tip [...] fetch the peer's whole chain and reorg onto it".  The     *)
(* exception the comment does not name: a block that links to its tip but  *)
(* holds a payment spending another one of the same block is rejected.     *)
(***************************************************************************)
SpendsWithinBlock(blk) ==
  \E i, j \in 1 .. Len(blk.vtx) : Outputs(blk.vtx[i]) \cap Inputs(blk.vtx[j]) # {}

Meet(p, q) ==
  /\ Runs(p, "connect", "connect") /\ proc'[p] # proc[p]
  /\ Runs(q, "listen", "accept") /\ proc'[q] # proc[q]

ConnectorTakesHeavier ==
  [][\A p, q \in Processes :
       Meet(p, q) /\ try_reorg(proc[p].chain, proc[q].chain) =>
         \/ proc'[p].chain = proc[q].chain
         \/ /\ LinksTo(Last(proc[q].chain), proc[p].chain)
            /\ SpendsWithinBlock(Last(proc[q].chain))]_vars

-----------------------------------------------------------------------------
(***************************************************************************)
(* Why these hold: the files and every process hold chains the program has *)
(* made, and a process that is about to save has made its chain, or its    *)
(* mempool, from what it saw in the way the properties allow.              *)
(***************************************************************************)
MayBecome(c, d) ==
  \/ c = <<>> \/ d = c
  \/ /\ GetHash(d[1]) = GetHash(c[1])
     /\ calculate_chain_work(d) > calculate_chain_work(c)

IsProcess(r) ==
  r = [cmd |-> r.cmd, node |-> r.node, pc |-> r.pc, chain |-> r.chain, tx |-> r.tx,
       pool |-> r.pool, job |-> r.job, sawChain |-> r.sawChain, sawPool |-> r.sawPool]

SavesBoth(r) ==
  /\ r.cmd = "listen" /\ r.job = FilesSavedByListener
  /\ r.pool = <<>> /\ \A tx \in Range(r.sawPool) : Settled(r.chain, r.sawPool, tx)
  /\ MayBecome(r.sawChain, r.chain)

ClearsPool(r) ==
  /\ r.cmd = "listen" /\ r.job = <<"pool">>
  /\ r.pool = <<>> /\ \A tx \in Range(r.sawPool) : Settled(r.chain, r.sawPool, tx)
  /\ r.sawChain \in {<<>>, r.chain}
  /\ chainFile[r.node] # <<>>

SavesFetched(r) ==
  /\ r.cmd = "connect" /\ r.job = <<"chain">>
  /\ MayBecome(r.sawChain, r.chain)

SavesPayment(r) ==
  /\ r.cmd = "receive" /\ r.job = <<"pool">>
  /\ GoodPool(r.pool)
  /\ Range(r.sawPool) \subseteq Range(r.pool)

ProcessInv(r) ==
  /\ IsProcess(r)
  /\ r.pc \in {"idle", "mine", "connect", "accept", "save", "stuck"}
  /\ r.pc # "idle" => r.node \in Nodes /\ HonestChain(r.chain)
  /\ r.pc = "mine" => r.cmd = "listen" /\ r.pool = <<>>
  /\ r.pc \in {"mine", "connect"} => r.sawChain \in {<<>>, r.chain}
  /\ r.cmd = "send" /\ r.pc = "connect" => HonestTx(r.tx[1])
  /\ r.pc = "save" =>
       SavesBoth(r) \/ ClearsPool(r) \/ SavesFetched(r) \/ SavesPayment(r)

OneShotInv ==
  /\ chainFile = [n \in Nodes |-> chainFile[n]]
  /\ poolFile = [n \in Nodes |-> poolFile[n]]
  /\ proc = [p \in Processes |-> proc[p]]
  /\ \A n \in Nodes : GoodChain(chainFile[n]) /\ GoodPool(poolFile[n])
  /\ \A p \in Processes : ProcessInv(proc[p])
=============================================================================
