------------------------------- MODULE Daemon -------------------------------
(***************************************************************************)
(* The persistent node (network/daemon.h) and its files (storage/).  Every *)
(* node runs an accept loop with a handler thread per connection, a mining *)
(* loop and a poll loop; they share chain_ under mutex_.  A step of a      *)
(* handler or of a loop that holds the mutex is one action, except that    *)
(* each file it saves is truncated in one step and written in another: the *)
(* process may die in between, and --send reads the files from another     *)
(* process without the lock.                                               *)
(*                                                                         *)
(* job[n] lists the files the holder of n's mutex has still to save.  The  *)
(* mutex is free when job[n] is empty and n is running.                    *)
(***************************************************************************)
EXTENDS Ledger

CONSTANTS
  Nodes,            \* daemons; a node is also the address of its wallet
  Miners,           \* the nodes run without --no-mine
  Seeded,           \* nodes given the --seed chain before they start; others may be
  KnownPeers,       \* known_peers_ of each node, in poll order
  Times,            \* what the clock may show when a block is built
  Amounts,          \* what --send may be asked to pay
  MAX_MEMPOOL_SIZE, \* entries of a full mempool
  MAX_CHAIN_BLOCKS, \* blocks of the longest CHAIN below MAX_PAYLOAD_SIZE
  MAX_HEIGHT,       \* bound: blocks of a chain
  MAX_SENDS,        \* bound: uses of --send
  MAX_FAULTS,       \* bound: crashes, lost connections and lost messages
  TORN_CRASH        \* whether a process may die between truncate and write

ASSUME DaemonAssumption ==
  /\ Miners \subseteq Nodes
  /\ Seeded \subseteq Nodes
  /\ KnownPeers \in [Nodes -> Seq(Nodes)]
  /\ Times \subseteq Nat
  /\ 0 \in Times
  /\ Amounts \subseteq Nat
  /\ {MAX_MEMPOOL_SIZE, MAX_CHAIN_BLOCKS, MAX_HEIGHT, MAX_SENDS, MAX_FAULTS}
       \subseteq Nat
  /\ TORN_CRASH \in BOOLEAN

VARIABLES
  status,    \* "down", "boot" (constructor), "run", or "spin": in mine_block
             \* for ever, with the mutex
  chain,     \* chain_: the chain in memory, <<>> when down
  diskChain, \* the file chain_path, <<>> when load_chain would throw
  diskPool,  \* the file chain_path.mempool, <<>> when missing or unreadable
  newPool,   \* what the holder of the mutex will save as the mempool
  job,       \* files still to be saved before the mutex is released
  open,      \* whether the first of them has been truncated
  poll,      \* the poll loop: where PollPeer is and what it has received
  wire,      \* transactions sent to a node, not yet handled
  sends,     \* uses of --send so far
  faults     \* faults so far

vars == <<status, chain, diskChain, diskPool, newPool, job, open, poll, wire,
          sends, faults>>

-----------------------------------------------------------------------------
MutexFree(n) == status[n] = "run" /\ job[n] = <<>>

(***************************************************************************)
(* PollPeer: pc is the point it waits at, turn the known peer whose turn   *)
(* it is, conn whether the connection is open and got the block or the     *)
(* chain it received.                                                      *)
(***************************************************************************)
PollIdle(turn) == [pc |-> "idle", turn |-> turn, conn |-> FALSE, got |-> <<>>]

PollStart == PollIdle(1)

PollAt(n, pc, got) == [pc |-> pc, turn |-> poll[n].turn,
                       conn |-> poll[n].conn, got |-> got]

Disconnected(p) == [pc |-> p.pc, turn |-> p.turn, conn |-> FALSE, got |-> p.got]

PolledPeer(n) == KnownPeers[n][poll[n].turn]

\* Mistake: the poll loop runs past its last peer.
PollReturnsUnwrapped(n) == PollIdle(poll[n].turn + 1)

(***************************************************************************)
(* PollPeer returns and PeerPollLoop goes on to its next peer.             *)
(***************************************************************************)
PollReturns(n) == PollIdle((poll[n].turn % Len(KnownPeers[n])) + 1)

SeedChain == build_genesis_chain(PLACEHOLDER, 0)

Init ==
  /\ status    = [n \in Nodes |-> "down"]
  /\ chain     = [n \in Nodes |-> <<>>]
  /\ diskChain \in {files \in [Nodes -> {SeedChain, <<>>}] :
                     \A n \in Seeded : files[n] = SeedChain}
  /\ diskPool  = [n \in Nodes |-> <<>>]
  /\ newPool   = [n \in Nodes |-> <<>>]
  /\ job       = [n \in Nodes |-> <<>>]
  /\ open      = [n \in Nodes |-> FALSE]
  /\ poll      = [n \in Nodes |-> PollStart]
  /\ wire      = [n \in Nodes |-> {}]
  /\ sends     = 0
  /\ faults    = 0

-----------------------------------------------------------------------------
(***************************************************************************)
(* Starting: the constructor loads the chain, or mines a fresh genesis     *)
(* block when load_chain throws for any reason, and saves it at once.      *)
(***************************************************************************)
load_or_create_chain(n, time) ==
  IF diskChain[n] = <<>> THEN build_genesis_chain(n, time) ELSE diskChain[n]

Start(n, time) ==
  /\ status[n] = "down"
  /\ status' = [status EXCEPT ![n] = "boot"]
  /\ chain'  = [chain EXCEPT ![n] = load_or_create_chain(n, time)]
  /\ job'    = [job EXCEPT ![n] = <<"chain">>]
  /\ UNCHANGED <<diskChain, diskPool, newPool, open, poll, wire, sends, faults>>

(***************************************************************************)
(* write_file: std::ios::trunc first, then the bytes.                      *)
(***************************************************************************)
Truncate(n) ==
  /\ job[n] # <<>>
  /\ ~open[n]
  /\ open' = [open EXCEPT ![n] = TRUE]
  /\ IF Head(job[n]) = "chain"
     THEN diskChain' = [diskChain EXCEPT ![n] = <<>>] /\ UNCHANGED diskPool
     ELSE diskPool' = [diskPool EXCEPT ![n] = <<>>] /\ UNCHANGED diskChain
  /\ UNCHANGED <<status, chain, newPool, job, poll, wire, sends, faults>>

(***************************************************************************)
(* The bytes of one file.  After the last file the mutex is released: the  *)
(* constructor hands over to Run, PollPeer leaves its critical section.    *)
(***************************************************************************)
Released(n) ==
  /\ status' = [status EXCEPT ![n] = "run"]
  /\ poll' = [poll EXCEPT ![n] =
       IF @.pc = "saving" THEN PollReturns(n) ELSE @]

Write(n) ==
  /\ open[n]
  /\ open' = [open EXCEPT ![n] = FALSE]
  /\ job'  = [job EXCEPT ![n] = Tail(@)]
  /\ IF Head(job[n]) = "chain"
     THEN diskChain' = [diskChain EXCEPT ![n] = chain[n]] /\ UNCHANGED diskPool
     ELSE diskPool' = [diskPool EXCEPT ![n] = newPool[n]] /\ UNCHANGED diskChain
  /\ IF Tail(job[n]) = <<>> THEN Released(n) ELSE UNCHANGED <<status, poll>>
  /\ UNCHANGED <<chain, newPool, wire, sends, faults>>

(***************************************************************************)
(* The process dies.  Its memory, its connections and what was on the way  *)
(* to it are lost.                                                         *)
(***************************************************************************)
Crash(n) ==
  /\ status[n] # "down"
  /\ faults < MAX_FAULTS
  /\ TORN_CRASH \/ ~open[n]
  /\ faults'  = faults + 1
  /\ status'  = [status EXCEPT ![n] = "down"]
  /\ chain'   = [chain EXCEPT ![n] = <<>>]
  /\ job'     = [job EXCEPT ![n] = <<>>]
  /\ open'    = [open EXCEPT ![n] = FALSE]
  /\ newPool' = [newPool EXCEPT ![n] = <<>>]
  /\ wire'    = [wire EXCEPT ![n] = {}]
  /\ poll'    = [m \in Nodes |->
       IF m = n THEN PollStart
       ELSE IF poll[m].conn /\ PolledPeer(m) = n
            THEN Disconnected(poll[m])
            ELSE poll[m]]
  /\ UNCHANGED <<diskChain, diskPool, sends>>

-----------------------------------------------------------------------------
(***************************************************************************)
(* MiningLoop: one round, from taking the mutex to the files it has to     *)
(* save.  At an nBits no hash can meet, mine_block never returns.          *)
(***************************************************************************)
PoolFirst  == <<"pool", "chain">>  \* mistake: the mempool is cleared first
ChainUnsaved == <<"pool">>         \* mistake: save_chain is forgotten

FilesSavedByMiner == <<"chain", "pool">>

MiningLoop(n, time) ==
  /\ n \in Miners
  /\ MutexFree(n)
  /\ Len(chain[n]) < MAX_HEIGHT
  /\ Mineable(NextBits(chain[n]))
  /\ \E picked \in UNION {[1 .. k -> 1 .. Len(diskPool[n])] : k \in 0 .. Len(diskPool[n])} :
       /\ IsSelection(chain[n], diskPool[n], picked)
       /\ chain' = [chain EXCEPT ![n] = Append(@,
            build_next_block(@, n, SelectedFees(@, diskPool[n], picked),
                             Kept(diskPool[n], picked), time))]
  /\ newPool' = [newPool EXCEPT ![n] = <<>>]
  /\ job'     = [job EXCEPT ![n] = FilesSavedByMiner]
  /\ UNCHANGED <<status, diskChain, diskPool, open, poll, wire, sends, faults>>

MineForever(n) ==
  /\ n \in Miners
  /\ MutexFree(n)
  /\ ~Mineable(NextBits(chain[n]))
  /\ status' = [status EXCEPT ![n] = "spin"]
  /\ UNCHANGED <<chain, diskChain, diskPool, newPool, job, open, poll, wire,
                 sends, faults>>

-----------------------------------------------------------------------------
(***************************************************************************)
(* --send, a process of its own: it reads n's chain file and wallet and    *)
(* sends one transaction to the daemon m.                                  *)
(***************************************************************************)
run_send_tx(n, m, recipient, amount) ==
  /\ sends < MAX_SENDS
  /\ diskChain[n] # <<>>
  /\ status[m] \in {"run", "spin"}
  /\ \E selected \in Sufficient(
           filter_utxos_by_address(build_utxo_set(diskChain[n]), n),
           amount, DEFAULT_FEE) :
       wire' = [wire EXCEPT ![m] = @ \cup
         {CreateTransaction(selected, n, recipient, amount, DEFAULT_FEE)}]
  /\ sends' = sends + 1
  /\ UNCHANGED <<status, chain, diskChain, diskPool, newPool, job, open, poll,
                 faults>>

(***************************************************************************)
(* The handler of a TX message.                                            *)
(***************************************************************************)
Acceptable(n, tx) ==
  /\ ~IsCoinbase(tx)
  /\ validate_and_get_fee(tx, build_utxo_set(chain[n])) >= 0
  /\ Len(diskPool[n]) < MAX_MEMPOOL_SIZE

AcceptTransaction(n, tx) ==
  /\ MutexFree(n)
  /\ wire' = [wire EXCEPT ![n] = @ \ {tx}]
  /\ IF Acceptable(n, tx)
     THEN /\ newPool' = [newPool EXCEPT ![n] = Append(diskPool[n], tx)]
          /\ job'     = [job EXCEPT ![n] = <<"pool">>]
     ELSE UNCHANGED <<newPool, job>>
  /\ UNCHANGED <<status, chain, diskChain, diskPool, open, poll, sends, faults>>

(***************************************************************************)
(* A TX message is lost: run_send_tx closes its socket with the INV of the *)
(* daemon unread, which may reset the connection before TX is read.        *)
(***************************************************************************)
LoseTransaction(n, tx) ==
  /\ faults < MAX_FAULTS
  /\ faults' = faults + 1
  /\ wire'   = [wire EXCEPT ![n] = @ \ {tx}]
  /\ UNCHANGED <<status, chain, diskChain, diskPool, newPool, job, open, poll,
                 sends>>

-----------------------------------------------------------------------------
(***************************************************************************)
(* The poll loop of n (PollPeer) and the handler of the polled peer        *)
(* (HandleConnection), which takes the peer's mutex for every answer.      *)
(***************************************************************************)
ExceptPoll ==
  UNCHANGED <<status, chain, diskChain, diskPool, newPool, job, open, wire,
              sends, faults>>

PollConnect(n) ==
  /\ status[n] \in {"run", "spin"}
  /\ poll[n].pc = "idle"
  /\ KnownPeers[n] # <<>>
  /\ poll' = [poll EXCEPT ![n] =
       IF status[PolledPeer(n)] \in {"run", "spin"}
       THEN [pc |-> "wait_inv", turn |-> @.turn, conn |-> TRUE, got |-> <<>>]
       ELSE PollReturns(n)]
  /\ ExceptPoll

Answer(n, m, pc) ==
  /\ poll[n].pc = pc
  /\ poll[n].conn
  /\ m = PolledPeer(n)
  /\ MutexFree(m)
  /\ ExceptPoll

(***************************************************************************)
(* The peer announces its tip.  PollPeer echoes the hash in GETDATA, which *)
(* is answered with the tip of that moment, whatever it asks for.          *)
(***************************************************************************)
SendInv(n, m) ==
  /\ Answer(n, m, "wait_inv")
  /\ poll' = [poll EXCEPT ![n] = PollAt(n, "wait_block", <<>>)]

SendBlock(n, m) ==
  /\ Answer(n, m, "wait_block")
  /\ poll' = [poll EXCEPT ![n] = PollAt(n, "got_block", <<Last(chain[m])>>)]

(***************************************************************************)
(* GETBLOCKS is answered with the whole chain; receive_message refuses one *)
(* beyond MAX_PAYLOAD_SIZE and PollPeer returns.                           *)
(***************************************************************************)
SendChain(n, m) ==
  /\ Answer(n, m, "wait_chain")
  /\ poll' = [poll EXCEPT ![n] =
       IF Len(chain[m]) <= MAX_CHAIN_BLOCKS
       THEN PollAt(n, "got_chain", chain[m])
       ELSE PollReturns(n)]

(***************************************************************************)
(* PollPeer under its own mutex: extend the chain by the received block,   *)
(* or, if the block is at least well mined, ask for the whole chain.       *)
(***************************************************************************)
ExtendChain(n) ==
  /\ poll[n].pc = "got_block"
  /\ MutexFree(n)
  /\ try_extend_chain(chain[n], poll[n].got[1])
  /\ chain' = [chain EXCEPT ![n] = Append(@, poll[n].got[1])]
  /\ job'   = [job EXCEPT ![n] = <<"chain">>]
  /\ poll'  = [poll EXCEPT ![n] = PollAt(n, "saving", <<>>)]
  /\ UNCHANGED <<status, diskChain, diskPool, newPool, open, wire, sends, faults>>

\* Mistake: a block that does not extend the tip is just dropped.
DropBlock(n) ==
  /\ poll[n].pc = "got_block"
  /\ MutexFree(n)
  /\ ~try_extend_chain(chain[n], poll[n].got[1])
  /\ poll' = [poll EXCEPT ![n] = PollReturns(n)]
  /\ ExceptPoll

RequestChain(n) ==
  LET blk == poll[n].got[1]
  IN  /\ poll[n].pc = "got_block"
      /\ MutexFree(n)
      /\ ~try_extend_chain(chain[n], blk)
      /\ poll' = [poll EXCEPT ![n] =
           IF IsMerkleRootValid(blk) /\ check_proof_of_work(blk)
           THEN PollAt(n, "wait_chain", <<>>)
           ELSE PollReturns(n)]
      /\ ExceptPoll

Reorg(n) ==
  /\ poll[n].pc = "got_chain"
  /\ MutexFree(n)
  /\ IF try_reorg(chain[n], poll[n].got)
     THEN /\ chain' = [chain EXCEPT ![n] = poll[n].got]
          /\ job'   = [job EXCEPT ![n] = <<"chain">>]
          /\ poll'  = [poll EXCEPT ![n] = PollAt(n, "saving", <<>>)]
     ELSE /\ poll'  = [poll EXCEPT ![n] = PollReturns(n)]
          /\ UNCHANGED <<chain, job>>
  /\ UNCHANGED <<status, diskChain, diskPool, newPool, open, wire, sends, faults>>

(***************************************************************************)
(* The connection breaks, and PollPeer finds out at its next Receive.      *)
(***************************************************************************)
LoseConnection(n) ==
  /\ faults < MAX_FAULTS
  /\ poll[n].conn
  /\ faults' = faults + 1
  /\ poll'   = [poll EXCEPT ![n] = Disconnected(@)]
  /\ UNCHANGED <<status, chain, diskChain, diskPool, newPool, job, open, wire,
                 sends>>

ReceiveFails(n) ==
  /\ poll[n].pc \in {"wait_inv", "wait_block", "wait_chain"}
  /\ ~poll[n].conn
  /\ poll' = [poll EXCEPT ![n] = PollReturns(n)]
  /\ ExceptPoll

-----------------------------------------------------------------------------
PollStep(n) ==
  \/ PollConnect(n)
  \/ \E m \in Nodes : SendInv(n, m) \/ SendBlock(n, m) \/ SendChain(n, m)
  \/ ExtendChain(n)
  \/ RequestChain(n)
  \/ Reorg(n)
  \/ ReceiveFails(n)

SaveStep(n) == Truncate(n) \/ Write(n)

Fault(n) ==
  \/ Crash(n)
  \/ LoseConnection(n)
  \/ \E tx \in wire[n] : LoseTransaction(n, tx)

Pay(n) == \E m, recipient \in Nodes, amount \in Amounts :
            run_send_tx(n, m, recipient, amount)

Next ==
  \E n \in Nodes :
    \/ \E time \in Times : Start(n, time) \/ MiningLoop(n, time)
    \/ MineForever(n)
    \/ SaveStep(n)
    \/ PollStep(n)
    \/ Pay(n)
    \/ \E tx \in wire[n] : AcceptTransaction(n, tx)
    \/ Fault(n)

Spec == Init /\ [][Next]_vars

(***************************************************************************)
(* A started process saves its files, polls its peers and answers them; a  *)
(* node that is down is started again.  Nothing obliges anyone to mine or  *)
(* to pay.                                                                 *)
(***************************************************************************)
Fairness ==
  \A n \in Nodes : /\ WF_vars(\E time \in Times : Start(n, time))
                   /\ WF_vars(SaveStep(n))
                   /\ WF_vars(PollStep(n))

FairSpec == Spec /\ Fairness
=============================================================================
