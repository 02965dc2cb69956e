------------------------------- MODULE Ledger -------------------------------
(***************************************************************************)
(* Transactions, blocks and the rules of a chain (core/, wallet/ and the   *)
(* free functions of network/node.h).                                      *)
(*                                                                         *)
(* A hash is a term over its preimage, so it is injective and can be read  *)
(* back: an entry of a UtxoSet is its outpoint alone, the CTxOut it maps   *)
(* to is the one the outpoint's txid was computed from.  A script is what  *)
(* it was built from: a scriptPubKey names the address it pays, a          *)
(* scriptSig the address whose key signed (signatures are unforgeable, and *)
(* cover the inputs and outputs they come with).  The nonce of a header is the one mine_block   *)
(* finds and is left out.  Version numbers, sequence numbers and lock      *)
(* times are constant in the program.                                      *)
(*                                                                         *)
(* The code replays a chain with one mutable UtxoSet.  Replayed and        *)
(* ReplayedUtxo give that set in closed form: what some transaction has    *)
(* emplaced and no later one has erased.                                   *)
(***************************************************************************)
EXTENDS Pow, FiniteSets

CONSTANTS
  INITIAL_REWARD,    \* coinbase reward of the first blocks
  HALVING_INTERVAL,  \* blocks per halving
  DEFAULT_FEE,       \* fee run_send_tx pays
  DUST_THRESHOLD,    \* change below it is left to the miner
  PLACEHOLDER        \* the all-zero address a seeded genesis pays

ASSUME LedgerAssumption ==
  /\ INITIAL_REWARD \in Nat
  /\ HALVING_INTERVAL \in Nat \ {0}
  /\ DEFAULT_FEE \in Nat
  /\ DUST_THRESHOLD \in Nat

-----------------------------------------------------------------------------
(***************************************************************************)
(* Transactions.                                                           *)
(***************************************************************************)
hash_double_sha256(x) == <<"sha256d", x>>

ZeroHash == <<"zeros">>

NullOutPoint == [txid |-> ZeroHash, n |-> -1]

tx_hash(tx) == hash_double_sha256(tx)

IsCoinbase(tx) == Len(tx.vin) = 0 \/ tx.vin[1].prevout = NullOutPoint

(***************************************************************************)
(* The outpoints tx adds to a UtxoSet, those it erases from one, and the   *)
(* CTxOut behind an outpoint.                                              *)
(***************************************************************************)
Outputs(tx) == {[txid |-> tx_hash(tx), n |-> i - 1] : i \in 1 .. Len(tx.vout)}
Inputs(tx)  == {tx.vin[i].prevout : i \in 1 .. Len(tx.vin)}
CTxOut(outpoint) == outpoint.txid[2].vout[outpoint.n + 1]

TotalValue(outs) == SumFunction([i \in 1 .. Len(outs) |-> outs[i].nValue])

(***************************************************************************)
(* Scripts.  The program of a P2PKH pair leaves true on its stack exactly  *)
(* when the scriptSig holds the key the scriptPubKey asks for and a        *)
(* signature made with it.                                                 *)
(***************************************************************************)
build_p2pkh_script_pubkey(address) == <<"p2pkh", address>>
build_script_sig(address)          == <<"signed", address>>

extract_p2pkh_address(script_pubkey) == script_pubkey[2]

evaluate(script_sig, script_pubkey) ==
  script_sig = build_script_sig(extract_p2pkh_address(script_pubkey))

verify_transaction_signature(tx, i, script_pubkey) ==
  evaluate(tx.vin[i].scriptSig, script_pubkey)

(***************************************************************************)
(* The fee of a transaction that is valid against utxo_set, -1 otherwise.  *)
(***************************************************************************)
validate_and_get_fee(tx, utxo_set) ==
  LET indices == 1 .. Len(tx.vin)
      Unlocks(i) == /\ tx.vin[i].prevout \in utxo_set
                    /\ verify_transaction_signature(
                         tx, i, CTxOut(tx.vin[i].prevout).scriptPubKey)
      input_total ==
        SumFunction([i \in indices |-> CTxOut(tx.vin[i].prevout).nValue])
  IN  IF indices # {} /\ \A i \in indices : Unlocks(i)
      THEN IF TotalValue(tx.vout) <= input_total
           THEN input_total - TotalValue(tx.vout)
           ELSE -1
      ELSE -1

(***************************************************************************)
(* Applying txs in order to utxo_set: each erases its inputs, then         *)
(* emplaces its outputs.                                                   *)
(***************************************************************************)
Replayed(utxo_set, txs) ==
  LET KeptAfter(j, outpoints) ==
        {o \in outpoints : \A l \in j + 1 .. Len(txs) : o \notin Inputs(txs[l])}
  IN  KeptAfter(0, utxo_set)
        \cup UNION {KeptAfter(j, Outputs(txs[j])) : j \in 1 .. Len(txs)}

-----------------------------------------------------------------------------
(***************************************************************************)
(* Blocks.  A CBlock is a CBlockHeader with its transactions.              *)
(***************************************************************************)
GetHash(blk) ==
  hash_double_sha256([hashPrevBlock  |-> blk.hashPrevBlock,
                      hashMerkleRoot |-> blk.hashMerkleRoot,
                      nTime          |-> blk.nTime,
                      nBits          |-> blk.nBits])

(***************************************************************************)
(* One round of BuildMerkleRoot: the hash of the bytes of two nodes        *)
(* together, of the last node of an odd layer with itself.  A single node  *)
(* is the root.                                                            *)
(***************************************************************************)
hash_pair(left, right) == <<"sha256d", left, right>>

NextLayer(layer) ==
  IF Len(layer) <= 1
  THEN layer
  ELSE [i \in 1 .. (Len(layer) + 1) \div 2 |->
          hash_pair(layer[2*i - 1],
                    IF 2*i <= Len(layer) THEN layer[2*i] ELSE layer[2*i - 1])]

BuildMerkleRoot(vtx) ==
  LET rounds[k \in 0 .. Len(vtx)] ==
        IF k = 0 THEN [i \in 1 .. Len(vtx) |-> tx_hash(vtx[i])]
                 ELSE NextLayer(rounds[k - 1])
  IN  IF Len(vtx) = 0 THEN ZeroHash ELSE rounds[Len(vtx)][1]

IsMerkleRootValid(blk) == BuildMerkleRoot(blk.vtx) = blk.hashMerkleRoot

(***************************************************************************)
(* A header is mined before it is stored or sent, so its hash meets its    *)
(* target exactly when some hash does.                                     *)
(***************************************************************************)
check_proof_of_work(blk) == Mineable(blk.nBits)

Last(s) == s[Len(s)]

-----------------------------------------------------------------------------
(***************************************************************************)
(* Chains.                                                                 *)
(***************************************************************************)
calculate_block_reward(height) ==
  LET halvings == height \div HALVING_INTERVAL
  IN  IF halvings >= 63 THEN 0 ELSE INITIAL_REWARD \div Power(2, halvings)

AllTxs(chain) == UNION {Range(chain[h].vtx) : h \in 1 .. Len(chain)}

\* Mistake: the inputs of the tip are not erased.
UtxoWithoutTipSpends(chain) ==
  (UNION {Outputs(tx) : tx \in AllTxs(chain)})
    \ UNION {Inputs(tx) : tx \in AllTxs(SubSeq(chain, 1, Len(chain) - 1))}

(***************************************************************************)
(* Every output ever paid, minus every output ever spent.                  *)
(***************************************************************************)
build_utxo_set(chain) ==
  (UNION {Outputs(tx) : tx \in AllTxs(chain)})
    \ UNION {Inputs(tx) : tx \in AllTxs(chain)}

filter_utxos_by_address(utxo_set, address) ==
  {o \in utxo_set : extract_p2pkh_address(CTxOut(o).scriptPubKey) = address}

\* Mistake: the inputs of a block's own transactions are not erased.
ReplayedWithoutSpends(chain, h, i) ==
  (UNION {Outputs(tx) : tx \in AllTxs(SubSeq(chain, 1, h))})
    \ UNION {Inputs(tx) : tx \in AllTxs(SubSeq(chain, 1, h - 1))}

(***************************************************************************)
(* The utxo_set of validate_full_chain when it reaches transaction i of    *)
(* block h (both counted from 1).                                          *)
(***************************************************************************)
ReplayedUtxo(chain, h, i) ==
  LET Size(g)   == IF g = h THEN i - 1 ELSE Len(chain[g].vtx)
      earlier   == UNION {{<<g, j>> : j \in 1 .. Size(g)} : g \in 1 .. h}
      Tx(p)     == chain[p[1]].vtx[p[2]]
      After(q, p) == q[1] > p[1] \/ (q[1] = p[1] /\ q[2] > p[2])
  IN  UNION {{o \in Outputs(Tx(p)) :
                \A q \in earlier : After(q, p) => o \notin Inputs(Tx(q))}
             : p \in earlier}

(***************************************************************************)
(* validate_full_chain checks block h of chain in this way, against the    *)
(* blocks before it.                                                       *)
(***************************************************************************)
ValidBlock(chain, h) ==
  LET blk  == chain[h]
      Fee(i) == IF IsCoinbase(blk.vtx[i])
                THEN 0
                ELSE validate_and_get_fee(blk.vtx[i], ReplayedUtxo(chain, h, i))
      block_fees == SumFunction([i \in 1 .. Len(blk.vtx) |-> Fee(i)])
  IN  /\ IsMerkleRootValid(blk)
      /\ check_proof_of_work(blk)
      /\ blk.hashPrevBlock = IF h = 1 THEN ZeroHash ELSE GetHash(chain[h - 1])
      /\ blk.nBits = IF h = 1 THEN INITIAL_BITS
                     ELSE get_next_work_required(SubSeq(chain, 1, h - 1))
      /\ blk.vtx # <<>>
      /\ IsCoinbase(blk.vtx[1])
      /\ \A i \in 1 .. Len(blk.vtx) : Fee(i) >= 0
      /\ TotalValue(blk.vtx[1].vout) = calculate_block_reward(h - 1) + block_fees

validate_full_chain(chain) ==
  /\ chain # <<>>
  /\ \A h \in 1 .. Len(chain) : ValidBlock(chain, h)

(***************************************************************************)
(* The test of try_extend_chain: blk may follow chain.  Unlike             *)
(* validate_full_chain it checks every transaction of the block against    *)
(* one UtxoSet, that of the chain before the block.                        *)
(***************************************************************************)
try_extend_chain(chain, blk) ==
  LET utxo_set == build_utxo_set(chain)
      Fee(i) == IF IsCoinbase(blk.vtx[i]) THEN 0
                ELSE validate_and_get_fee(blk.vtx[i], utxo_set)
      total_fees == SumFunction([i \in 1 .. Len(blk.vtx) |-> Fee(i)])
  IN  /\ IsMerkleRootValid(blk)
      /\ check_proof_of_work(blk)
      /\ blk.hashPrevBlock = GetHash(Last(chain))
      /\ blk.nBits = get_next_work_required(chain)
      /\ \A i \in 1 .. Len(blk.vtx) : Fee(i) >= 0
      /\ blk.vtx # <<>>
      /\ IsCoinbase(blk.vtx[1])
      /\ TotalValue(blk.vtx[1].vout)
           = calculate_block_reward(Len(chain)) + total_fees

\* Mistake: the longer chain wins.
ReorgOnLength(chain, peer_chain) ==
  /\ GetHash(peer_chain[1]) = GetHash(chain[1])
  /\ validate_full_chain(peer_chain)
  /\ Len(peer_chain) > Len(chain)

\* Mistake: a chain of another genesis is as good.
ReorgOnWork(chain, peer_chain) ==
  /\ peer_chain # <<>> /\ chain # <<>>
  /\ validate_full_chain(peer_chain)
  /\ calculate_chain_work(peer_chain) > calculate_chain_work(chain)

(***************************************************************************)
(* The test of try_reorg: a valid chain of the same genesis with strictly  *)
(* more work.                                                              *)
(***************************************************************************)
try_reorg(chain, peer_chain) ==
  /\ peer_chain # <<>> /\ chain # <<>>
  /\ GetHash(peer_chain[1]) = GetHash(chain[1])
  /\ validate_full_chain(peer_chain)
  /\ calculate_chain_work(peer_chain) > calculate_chain_work(chain)

-----------------------------------------------------------------------------
(***************************************************************************)
(* Building blocks and transactions.                                       *)
(***************************************************************************)
\* Mistake: the height is not embedded.
CoinbaseWithoutHeight(reward_address, height, total_fees) ==
  [vin  |-> <<[prevout |-> NullOutPoint, scriptSig |-> <<"height", 0>>]>>,
   vout |-> <<[nValue       |-> calculate_block_reward(height) + total_fees,
               scriptPubKey |-> build_p2pkh_script_pubkey(reward_address)]>>]

build_coinbase_tx(reward_address, height, total_fees) ==
  [vin  |-> <<[prevout |-> NullOutPoint, scriptSig |-> <<"height", height>>]>>,
   vout |-> <<[nValue       |-> calculate_block_reward(height) + total_fees,
               scriptPubKey |-> build_p2pkh_script_pubkey(reward_address)]>>]

(***************************************************************************)
(* The nBits build_next_block mines at, and the block it returns.          *)
(***************************************************************************)
NextBits(chain) ==
  IF chain = <<>> THEN INITIAL_BITS ELSE get_next_work_required(chain)

build_next_block(chain, reward_address, total_fees, extra_txs, time) ==
  LET vtx == <<build_coinbase_tx(reward_address, Len(chain), total_fees)>>
               \o extra_txs
  IN  [hashPrevBlock  |-> IF chain = <<>> THEN ZeroHash ELSE GetHash(Last(chain)),
       hashMerkleRoot |-> BuildMerkleRoot(vtx),
       nTime          |-> time,
       nBits          |-> NextBits(chain),
       vtx            |-> vtx]

build_genesis_chain(reward_address, time) ==
  <<build_next_block(<<>>, reward_address, 0, <<>>, time)>>

(***************************************************************************)
(* The miner's pass over its mempool.  picked holds the indices of the     *)
(* entries it keeps, in order: entry j is kept exactly when it is valid    *)
(* against the chain's UtxoSet as the entries kept before it left it.      *)
(***************************************************************************)
Kept(mempool, picked) == [k \in 1 .. Len(picked) |-> mempool[picked[k]]]

\* Mistake: every entry is checked against the UtxoSet of the chain alone.
UtxoBeforeBlock(chain, mempool, picked, k) == build_utxo_set(chain)

UtxoBeforePick(chain, mempool, picked, k) ==
  Replayed(build_utxo_set(chain), Kept(mempool, SubSeq(picked, 1, k - 1)))

\* Mistake: the mempool is trusted, its entries are not checked again.
TrustedMempool(chain, mempool, picked) ==
  picked = [j \in 1 .. Len(mempool) |-> j]

IsSelection(chain, mempool, picked) ==
  /\ \A k \in 1 .. Len(picked) - 1 : picked[k] < picked[k + 1]
  /\ \A j \in 1 .. Len(mempool) :
       LET k == 1 + Cardinality({l \in 1 .. Len(picked) : picked[l] < j})
       IN  (j \in Range(picked)) <=>
             validate_and_get_fee(
               mempool[j], UtxoBeforePick(chain, mempool, picked, k)) >= 0

SelectedFees(chain, mempool, picked) ==
  SumFunction([k \in 1 .. Len(picked) |->
    validate_and_get_fee(mempool[picked[k]],
                         UtxoBeforePick(chain, mempool, picked, k))])

(***************************************************************************)
(* Wallet::CreateTransaction: selected is any prefix of any order of the   *)
(* wallet's outpoints (the code walks an unordered_map) that ends with the *)
(* outpoint that makes the total sufficient.                               *)
(***************************************************************************)
SelectedTotal(selected) ==
  SumFunction([k \in 1 .. Len(selected) |-> CTxOut(selected[k]).nValue])

Sufficient(available, amount, fee) ==
  LET orders == UNION {Injection(1 .. k, available) : k \in 1 .. Cardinality(available)}
  IN  {selected \in orders :
         /\ SelectedTotal(selected) >= amount + fee
         /\ SelectedTotal(SubSeq(selected, 1, Len(selected) - 1)) < amount + fee}

CreateTransaction(selected, address, recipient, amount, fee) ==
  LET change == SelectedTotal(selected) - amount - fee
      PayTo(addr, value) ==
        <<[nValue |-> value, scriptPubKey |-> build_p2pkh_script_pubkey(addr)]>>
  IN  [vin  |-> [k \in 1 .. Len(selected) |->
                   [prevout   |-> selected[k],
                    scriptSig |-> build_script_sig(address)]],
       vout |-> PayTo(recipient, amount)
                  \o (IF change >= DUST_THRESHOLD THEN PayTo(address, change)
                                                  ELSE <<>>)]

-----------------------------------------------------------------------------
(***************************************************************************)
(* What every transaction, block and chain made by the operations above    *)
(* looks like.  The rules of a chain do not ask for all of it: that two    *)
(* transactions of a block never spend the same output, and that coinbases *)
(* differ by their height, is what makes one UtxoSet for a whole block and *)
(* the difference of all outputs and all inputs right.                     *)
(***************************************************************************)
IsSeq(s) == s \in Seq(Range(s))

HonestTx(tx) ==
  /\ IsSeq(tx.vin) /\ IsSeq(tx.vout)
  /\ \A i \in 1 .. Len(tx.vout) : tx.vout[i].nValue \in Int
  /\ \A i, j \in 1 .. Len(tx.vin) :
       i # j => tx.vin[i].prevout # tx.vin[j].prevout

IsBlock(blk) ==
  blk = [hashPrevBlock |-> blk.hashPrevBlock, hashMerkleRoot |-> blk.hashMerkleRoot,
         nTime |-> blk.nTime, nBits |-> blk.nBits, vtx |-> blk.vtx]

HonestBlock(blk, height) ==
  LET vtx == blk.vtx
  IN  /\ IsBlock(blk)
      /\ IsSeq(vtx) /\ vtx # <<>>
      /\ blk.nBits \in nBitsRange /\ blk.nTime \in Int
      /\ \A i \in 1 .. Len(vtx) : HonestTx(vtx[i])
      /\ vtx[1].vin = <<[prevout   |-> NullOutPoint,
                         scriptSig |-> <<"height", height>>]>>
      /\ \A i \in 2 .. Len(vtx) : ~IsCoinbase(vtx[i])
      /\ \A i, j \in 1 .. Len(vtx) :
           i # j => Inputs(vtx[i]) \cap Inputs(vtx[j]) = {}

HonestChain(c) ==
  /\ IsSeq(c)
  /\ validate_full_chain(c)
  /\ \A h \in 1 .. Len(c) : HonestBlock(c[h], h - 1)

(***************************************************************************)
(* Payments that were valid on some chain once, and a mempool of them.     *)
(***************************************************************************)
WasValid(tx) ==
  /\ HonestTx(tx)
  /\ ~IsCoinbase(tx)
  /\ validate_and_get_fee(tx, Inputs(tx)) >= 0

GoodPool(pool) == IsSeq(pool) /\ \A tx \in Range(pool) : WasValid(tx)

(***************************************************************************)
(* Once a block made from mempool is the tip of chain, the chain can no    *)
(* longer execute tx of that mempool, or tx stood out of turn: the miner   *)
(* reads the mempool once, from front to back, so it passes over a payment *)
(* that spends what the new block itself pays, by its reward or by an      *)
(* entry further back.                                                     *)
(***************************************************************************)
OutOfTurn(chain, mempool, tx) ==
  \E t \in Range(Last(chain).vtx) :
    /\ Outputs(t) \cap Inputs(tx) # {}
    /\ \/ IsCoinbase(t)
       \/ \E i, j \in 1 .. Len(mempool) :
            i > j /\ mempool[i] = t /\ mempool[j] = tx

Settled(chain, mempool, tx) ==
  \/ ~ (Inputs(tx) \subseteq build_utxo_set(chain))
  \/ OutOfTurn(chain, mempool, tx)

(***************************************************************************)
(* d is c, or c with further blocks; every input of tx is an output of c,  *)
(* spent or not.                                                           *)
(***************************************************************************)
IsPrefixOf(c, d) == Len(c) <= Len(d) /\ \A g \in 1 .. Len(c) : c[g] = d[g]

Funded(tx, c) == Inputs(tx) \subseteq UNION {Outputs(t) : t \in AllTxs(c)}
=============================================================================
