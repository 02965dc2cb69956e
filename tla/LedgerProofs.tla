---------------------------- MODULE LedgerProofs ----------------------------
(***************************************************************************)
(* Lemmas about transactions, blocks and chains, for every chain: what a   *)
(* UtxoSet holds, that a block that try_extend_chain accepts or a miner    *)
(* builds makes a valid chain, and that no transaction is mined twice.     *)
(***************************************************************************)
EXTENDS Ledger, PowProofs

-----------------------------------------------------------------------------
(***************************************************************************)
(* Sequences.  IsSeq says of a value that it is a sequence of something.   *)
(***************************************************************************)
LEMMA EmptyIsSeq == IsSeq(<<>>)
  BY DEF IsSeq, Range

LEMMA SingletonIsSeq ==
  ASSUME NEW x
  PROVE  IsSeq(<<x>>) /\ <<x>> # <<>> /\ <<x>>[1] = x
  BY DEF IsSeq, Range

LEMMA AppendIsSeq ==
  ASSUME NEW s, IsSeq(s), NEW x
  PROVE  /\ IsSeq(Append(s, x))
         /\ Append(s, x) # <<>>
         /\ s # <<>> => Append(s, x)[1] = s[1]
<1> DEFINE S == Range(s) \cup {x}
<1>1. s \in Seq(S) /\ x \in S
  BY DEF IsSeq
<1>2. Append(s, x) \in Seq(S)
  BY <1>1
<1>3. \A i \in 1 .. Len(Append(s, x)) : Append(s, x)[i] \in Range(Append(s, x))
  BY <1>2 DEF Range
<1>4. IsSeq(Append(s, x))
  BY <1>2, <1>3 DEF IsSeq
<1>5. Append(s, x) # <<>> /\ (s # <<>> => Append(s, x)[1] = s[1])
  BY <1>1
<1> QED
  BY <1>4, <1>5

LEMMA SeqIsSeq == ASSUME NEW S, NEW s \in Seq(S) PROVE IsSeq(s)
<1>1. \A i \in 1 .. Len(s) : s[i] \in Range(s)
  BY DEF Range
<1> QED
  BY <1>1 DEF IsSeq

LEMMA SeqFacts ==
  ASSUME NEW s, IsSeq(s)
  PROVE  /\ Len(s) \in Nat
         /\ DOMAIN s = 1 .. Len(s)
         /\ s # <<>> => Len(s) > 0
         /\ Len(s) = 0 => s = <<>>
         /\ \A i \in 1 .. Len(s) : s[i] \in Range(s)
         /\ \A x \in Range(s) : \E i \in 1 .. Len(s) : s[i] = x
  BY DEF IsSeq, Range

LEMMA AppendFacts ==
  ASSUME NEW s, IsSeq(s), NEW x
  PROVE  /\ Len(Append(s, x)) = Len(s) + 1
         /\ Append(s, x)[Len(s) + 1] = x
         /\ Last(Append(s, x)) = x
         /\ \A i \in 1 .. Len(s) : Append(s, x)[i] = s[i]
         /\ \A k \in 0 .. Len(s) : SubSeq(Append(s, x), 1, k) = SubSeq(s, 1, k)
         /\ SubSeq(Append(s, x), 1, Len(s)) = s
<1> DEFINE S == Range(s) \cup {x}
           t == Append(s, x)
<1>1. s \in Seq(S) /\ x \in S /\ Len(s) \in Nat
  BY DEF IsSeq
<1>2. Len(t) = Len(s) + 1 /\ t[Len(s) + 1] = x /\ t \in Seq(S)
  BY <1>1
<1>3. \A i \in 1 .. Len(s) : t[i] = s[i]
  BY <1>1
<1>4. \A k \in 0 .. Len(s) : SubSeq(t, 1, k) = SubSeq(s, 1, k)
  BY <1>1, <1>2, <1>3
<1>5. SubSeq(s, 1, Len(s)) = s
  BY <1>1
<1>6. SubSeq(t, 1, Len(s)) = s
  BY <1>1, <1>4, <1>5
<1> QED
  BY <1>1, <1>2, <1>3, <1>4, <1>6 DEF Last

-----------------------------------------------------------------------------
(***************************************************************************)
(* Hashes are terms: an outpoint is an output of one transaction only.     *)
(***************************************************************************)
LEMMA HashInjective ==
  ASSUME NEW t, NEW u, tx_hash(t) = tx_hash(u)
  PROVE  t = u
  BY DEF tx_hash, hash_double_sha256

LEMMA OutputFacts ==
  ASSUME NEW tx, IsSeq(tx.vout), NEW o \in Outputs(tx)
  PROVE  /\ o # NullOutPoint
         /\ o.n + 1 \in 1 .. Len(tx.vout)
         /\ CTxOut(o) = tx.vout[o.n + 1]
<1>1. PICK i \in 1 .. Len(tx.vout) : o = [txid |-> tx_hash(tx), n |-> i - 1]
  BY DEF Outputs
<1>2. i \in Nat \ {0} /\ Len(tx.vout) \in Nat /\ o.n = i - 1 /\ o.txid = tx_hash(tx)
  BY <1>1, SeqFacts
<1>3. o.n # -1
  BY <1>2
<1>4. NullOutPoint.n = -1
  BY DEF NullOutPoint
<1>5. o.txid[2] = tx
  BY <1>2 DEF tx_hash, hash_double_sha256
<1>6. o.n + 1 = i
  BY <1>2
<1> QED
  BY <1>1, <1>3, <1>4, <1>5, <1>6 DEF CTxOut

LEMMA OutputOfOne ==
  ASSUME NEW t, NEW u, NEW o, o \in Outputs(t), o \in Outputs(u)
  PROVE  t = u
<1>1. o.txid = tx_hash(t) /\ o.txid = tx_hash(u)
  BY DEF Outputs
<1> QED
  BY <1>1, HashInjective

-----------------------------------------------------------------------------
(***************************************************************************)
(* The fee of a transaction depends on a UtxoSet only in that its inputs   *)
(* must be there.                                                          *)
(***************************************************************************)
LEMMA FeeNeedsInputs ==
  ASSUME NEW tx, NEW U, validate_and_get_fee(tx, U) >= 0
  PROVE  Inputs(tx) \subseteq U /\ 1 .. Len(tx.vin) # {}
<1>1. ~(-1 >= 0)
  OBVIOUS
<1>2. 1 .. Len(tx.vin) # {} /\ \A i \in 1 .. Len(tx.vin) : tx.vin[i].prevout \in U
  BY <1>1 DEF validate_and_get_fee
<1> QED
  BY <1>2 DEF Inputs

LEMMA FeeSameUtxo ==
  ASSUME NEW tx, NEW U, NEW V, Inputs(tx) \subseteq U, Inputs(tx) \subseteq V
  PROVE  validate_and_get_fee(tx, U) = validate_and_get_fee(tx, V)
<1>1. \A i \in 1 .. Len(tx.vin) : tx.vin[i].prevout \in U /\ tx.vin[i].prevout \in V
  BY DEF Inputs
<1> QED
  BY <1>1 DEF validate_and_get_fee

LEMMA ValueInt ==
  ASSUME NEW tx, HonestTx(tx)
  PROVE  TotalValue(tx.vout) \in Int
<1> DEFINE f == [i \in 1 .. Len(tx.vout) |-> tx.vout[i].nValue]
<1>1. Len(tx.vout) \in Nat
  BY SeqFacts DEF HonestTx
<1>2. \A i \in 1 .. Len(tx.vout) : f[i] \in Int
  BY DEF HonestTx
<1>3. TotalValue(tx.vout) = SumFunctionOnSet(f, 1 .. Len(tx.vout))
  BY SumIsOnDomain DEF TotalValue
<1> HIDE DEF f
<1> QED
  BY <1>1, <1>2, <1>3, RangeFinite, SumInt

LEMMA FeeInt ==
  ASSUME NEW tx, HonestTx(tx), NEW U,
         \A o \in Inputs(tx) : CTxOut(o).nValue \in Int
  PROVE  validate_and_get_fee(tx, U) \in Int
<1> DEFINE f == [i \in 1 .. Len(tx.vin) |-> CTxOut(tx.vin[i].prevout).nValue]
<1>1. Len(tx.vin) \in Nat
  BY SeqFacts DEF HonestTx
<1>2. \A i \in 1 .. Len(tx.vin) : f[i] \in Int
  BY DEF Inputs
<1>3. SumFunction(f) = SumFunctionOnSet(f, 1 .. Len(tx.vin))
  BY SumIsOnDomain
<1>4. SumFunctionOnSet(f, 1 .. Len(tx.vin)) \in Int
  <2> HIDE DEF f
  <2> QED
    BY <1>1, <1>2, RangeFinite, SumInt
<1>5. SumFunction(f) - TotalValue(tx.vout) \in Int /\ -1 \in Int
  BY <1>3, <1>4, ValueInt
<1> QED
  BY <1>5 DEF validate_and_get_fee

-----------------------------------------------------------------------------
(***************************************************************************)
(* ReplayedUtxo by positions: transaction j of block g is replayed before  *)
(* transaction i of block h.                                               *)
(***************************************************************************)
Earlier(c, h, i, g, j) ==
  /\ g \in 1 .. h
  /\ j \in 1 .. (IF g = h THEN i - 1 ELSE Len(c[g].vtx))

Follows(k, l, g, j) == k > g \/ (k = g /\ l > j)

UnspentFrom(c, h, i, g, j, o) ==
  /\ Earlier(c, h, i, g, j)
  /\ o \in Outputs(c[g].vtx[j])
  /\ \A k, l : Earlier(c, h, i, k, l) /\ Follows(k, l, g, j)
                 => o \notin Inputs(c[k].vtx[l])

LEMMA InReplayed ==
  ASSUME NEW c, NEW h, NEW i, NEW o
  PROVE  o \in ReplayedUtxo(c, h, i) <=> \E g, j : UnspentFrom(c, h, i, g, j, o)
<1> DEFINE Size(g)   == IF g = h THEN i - 1 ELSE Len(c[g].vtx)
           earlier   == UNION {{<<g, j>> : j \in 1 .. Size(g)} : g \in 1 .. h}
           Tx(p)     == c[p[1]].vtx[p[2]]
           After(q, p) == q[1] > p[1] \/ (q[1] = p[1] /\ q[2] > p[2])
           Here(p)   == {u \in Outputs(Tx(p)) :
                           \A q \in earlier : After(q, p) => u \notin Inputs(Tx(q))}
<1>1. ReplayedUtxo(c, h, i) = UNION {Here(p) : p \in earlier}
  BY DEF ReplayedUtxo
<1>2. \A p : p \in earlier <=> \E g, j : p = <<g, j>> /\ Earlier(c, h, i, g, j)
  BY DEF Earlier
<1>3. \A g, j : <<g, j>>[1] = g /\ <<g, j>>[2] = j
  OBVIOUS
<1> HIDE DEF earlier
<1>4. ASSUME NEW g, NEW j, Earlier(c, h, i, g, j)
      PROVE  o \in Here(<<g, j>>) <=> UnspentFrom(c, h, i, g, j, o)
  <2>1. \A k, l : After(<<k, l>>, <<g, j>>) <=> Follows(k, l, g, j)
    BY DEF Follows
  <2>2. (\A q \in earlier : After(q, <<g, j>>) => o \notin Inputs(Tx(q)))
          <=> \A k, l : Earlier(c, h, i, k, l) /\ Follows(k, l, g, j)
                          => o \notin Inputs(c[k].vtx[l])
    <3>1. ASSUME \A q \in earlier : After(q, <<g, j>>) => o \notin Inputs(Tx(q)),
                 NEW k, NEW l, Earlier(c, h, i, k, l), Follows(k, l, g, j)
          PROVE  o \notin Inputs(c[k].vtx[l])
      <4>1. <<k, l>> \in earlier /\ After(<<k, l>>, <<g, j>>)
        BY <1>2, <2>1, <3>1
      <4>2. o \notin Inputs(Tx(<<k, l>>))
        BY <3>1, <4>1
      <4> QED
        BY <4>2
    <3>2. ASSUME \A k, l : Earlier(c, h, i, k, l) /\ Follows(k, l, g, j)
                             => o \notin Inputs(c[k].vtx[l]),
                 NEW q \in earlier, After(q, <<g, j>>)
          PROVE  o \notin Inputs(Tx(q))
      <4>1. PICK k, l : q = <<k, l>> /\ Earlier(c, h, i, k, l)
        BY <1>2
      <4>2. Follows(k, l, g, j)
        BY <2>1, <3>2, <4>1
      <4>3. o \notin Inputs(c[k].vtx[l])
        BY <3>2, <4>1, <4>2
      <4> QED
        BY <4>1, <4>3
    <3> QED
      BY <3>1, <3>2
  <2>3. Tx(<<g, j>>) = c[g].vtx[j]
    OBVIOUS
  <2> HIDE DEF Tx, After
  <2> QED
    BY <1>4, <2>2, <2>3 DEF UnspentFrom
<1>5. ASSUME o \in ReplayedUtxo(c, h, i) PROVE \E g, j : UnspentFrom(c, h, i, g, j, o)
  <2>1. PICK p \in earlier : o \in Here(p)
    BY <1>1, <1>5
  <2>2. PICK g, j : p = <<g, j>> /\ Earlier(c, h, i, g, j)
    BY <1>2
  <2> HIDE DEF Here
  <2> QED
    BY <1>4, <2>1, <2>2
<1>6. ASSUME NEW g, NEW j, UnspentFrom(c, h, i, g, j, o) PROVE o \in ReplayedUtxo(c, h, i)
  <2>1. Earlier(c, h, i, g, j)
    BY <1>6 DEF UnspentFrom
  <2>2. <<g, j>> \in earlier
    BY <1>2, <2>1
  <2>3. o \in Here(<<g, j>>)
    BY <1>4, <1>6, <2>1
  <2> HIDE DEF Here
  <2> QED
    BY <1>1, <2>2, <2>3
<1> QED
  BY <1>5, <1>6

(***************************************************************************)
(* The blocks after the one being replayed do not matter.                  *)
(***************************************************************************)
LEMMA ReplayedPrefix ==
  ASSUME NEW c, NEW d, NEW h, NEW i, \A g \in 1 .. h : c[g] = d[g]
  PROVE  ReplayedUtxo(c, h, i) = ReplayedUtxo(d, h, i)
<1>1. \A g, j : Earlier(c, h, i, g, j) <=> Earlier(d, h, i, g, j)
  BY DEF Earlier
<1>2. \A g, j : Earlier(c, h, i, g, j) => c[g] = d[g]
  BY DEF Earlier
<1>3. \A g, j, o : UnspentFrom(c, h, i, g, j, o) <=> UnspentFrom(d, h, i, g, j, o)
  BY <1>1, <1>2 DEF UnspentFrom
<1>4. \A o : o \in ReplayedUtxo(c, h, i) <=> o \in ReplayedUtxo(d, h, i)
  BY <1>3, InReplayed
<1> QED
  BY <1>4

LEMMA ValidBlockPrefix ==
  ASSUME NEW c, IsSeq(c), NEW blk, NEW h \in 1 .. Len(c)
  PROVE  ValidBlock(Append(c, blk), h) <=> ValidBlock(c, h)
<1> DEFINE d == Append(c, blk)
<1>1. Len(c) \in Nat
  BY SeqFacts
<1>2. \A g \in 1 .. h : d[g] = c[g]
  BY <1>1, AppendFacts
<1>3. d[h] = c[h] /\ (h # 1 => d[h - 1] = c[h - 1])
  BY <1>1, <1>2
<1>4. SubSeq(d, 1, h - 1) = SubSeq(c, 1, h - 1)
  BY <1>1, AppendFacts
<1> HIDE DEF d
<1>5. \A i : ReplayedUtxo(d, h, i) = ReplayedUtxo(c, h, i)
  BY <1>2, ReplayedPrefix
<1>6. ValidBlock(d, h) <=> ValidBlock(c, h)
  BY <1>3, <1>4, <1>5 DEF ValidBlock
<1> QED
  BY <1>6 DEF d

-----------------------------------------------------------------------------
(***************************************************************************)
(* Transactions by positions.                                              *)
(***************************************************************************)
HasSeqs(c) == IsSeq(c) /\ \A h \in 1 .. Len(c) : IsSeq(c[h].vtx)

LEMMA HonestHasSeqs == ASSUME NEW c, HonestChain(c) PROVE HasSeqs(c)
  BY DEF HonestChain, HonestBlock, HasSeqs

LEMMA InAllTxs ==
  ASSUME NEW c, HasSeqs(c)
  PROVE  \A tx : tx \in AllTxs(c) <=>
           \E h \in 1 .. Len(c) : \E j \in 1 .. Len(c[h].vtx) : tx = c[h].vtx[j]
<1>1. \A tx : tx \in AllTxs(c) <=> \E h \in 1 .. Len(c) : tx \in Range(c[h].vtx)
  BY DEF AllTxs
<1> TAKE tx
<1>2. ASSUME NEW h \in 1 .. Len(c)
      PROVE  tx \in Range(c[h].vtx) <=> \E j \in 1 .. Len(c[h].vtx) : tx = c[h].vtx[j]
  <2>1. IsSeq(c[h].vtx)
    BY DEF HasSeqs
  <2> QED
    BY <2>1, SeqFacts
<1> DEFINE Here(h) == tx \in Range(c[h].vtx)
           There(h) == \E j \in 1 .. Len(c[h].vtx) : tx = c[h].vtx[j]
<1>3. \A h \in 1 .. Len(c) : Here(h) <=> There(h)
  BY <1>2
<1>4. tx \in AllTxs(c) <=> \E h \in 1 .. Len(c) : Here(h)
  BY <1>1
<1> HIDE DEF Here, There
<1>5. tx \in AllTxs(c) <=> \E h \in 1 .. Len(c) : There(h)
  BY <1>3, <1>4
<1> QED
  BY <1>5 DEF There

LEMMA InUtxoSet ==
  ASSUME NEW c, HasSeqs(c)
  PROVE  \A o : o \in build_utxo_set(c) <=>
           /\ \E h \in 1 .. Len(c) : \E j \in 1 .. Len(c[h].vtx) :
                o \in Outputs(c[h].vtx[j])
           /\ \A h \in 1 .. Len(c) : \A j \in 1 .. Len(c[h].vtx) :
                o \notin Inputs(c[h].vtx[j])
<1>1. \A o : o \in build_utxo_set(c) <=>
        /\ \E tx \in AllTxs(c) : o \in Outputs(tx)
        /\ \A tx \in AllTxs(c) : o \notin Inputs(tx)
  BY DEF build_utxo_set
<1> QED
  BY <1>1, InAllTxs

(***************************************************************************)
(* What a transaction of a new block finds in the UtxoSet of the replay:   *)
(* the unspent outputs of the chain and those of the block before it, as   *)
(* long as no transaction of the block in between spends them.             *)
(***************************************************************************)
LEMMA OldOutputReplayed ==
  ASSUME NEW c, HasSeqs(c), NEW blk, IsSeq(blk.vtx), NEW i \in 1 .. Len(blk.vtx),
         NEW o \in build_utxo_set(c),
         \A j \in 1 .. i - 1 : o \notin Inputs(blk.vtx[j])
  PROVE  o \in ReplayedUtxo(Append(c, blk), Len(c) + 1, i)
<1> DEFINE d == Append(c, blk)
           n == Len(c) + 1
<1>1. IsSeq(c) /\ Len(c) \in Nat /\ Len(blk.vtx) \in Nat
  BY SeqFacts DEF HasSeqs
<1>2. d[n] = blk /\ \A g \in 1 .. Len(c) : d[g] = c[g]
  BY <1>1, AppendFacts
<1>3. PICK g \in 1 .. Len(c) :
        \E j \in 1 .. Len(c[g].vtx) : o \in Outputs(c[g].vtx[j])
  BY InUtxoSet
<1>3a. PICK j \in 1 .. Len(c[g].vtx) : o \in Outputs(c[g].vtx[j])
  BY <1>3
<1> HIDE DEF d
<1>4. Earlier(d, n, i, g, j) /\ o \in Outputs(d[g].vtx[j])
  BY <1>1, <1>2, <1>3a DEF Earlier
<1>5. ASSUME NEW k, NEW l, Earlier(d, n, i, k, l)
      PROVE  o \notin Inputs(d[k].vtx[l])
  <2>1. CASE k = n
    BY <1>1, <1>2, <1>5, <2>1 DEF Earlier
  <2>2. CASE k # n
    <3>1. k \in 1 .. n /\ l \in 1 .. Len(d[k].vtx)
      BY <1>5, <2>2 DEF Earlier
    <3>2. k \in 1 .. Len(c)
      BY <1>1, <2>2, <3>1
    <3> QED
      BY <1>2, <3>1, <3>2, InUtxoSet
  <2> QED
    BY <2>1, <2>2
<1>6. UnspentFrom(d, n, i, g, j, o)
  BY <1>4, <1>5 DEF UnspentFrom
<1> QED
  BY <1>6, InReplayed DEF d

LEMMA NewOutputReplayed ==
  ASSUME NEW c, HasSeqs(c), NEW blk, IsSeq(blk.vtx), NEW i \in 1 .. Len(blk.vtx),
         NEW j \in 1 .. i - 1, NEW o \in Outputs(blk.vtx[j]),
         \A l \in j + 1 .. i - 1 : o \notin Inputs(blk.vtx[l])
  PROVE  o \in ReplayedUtxo(Append(c, blk), Len(c) + 1, i)
<1> DEFINE d == Append(c, blk)
           n == Len(c) + 1
<1>1. IsSeq(c) /\ Len(c) \in Nat /\ Len(blk.vtx) \in Nat
  BY SeqFacts DEF HasSeqs
<1>2. d[n] = blk
  BY <1>1, AppendFacts
<1> HIDE DEF d
<1>4. Earlier(d, n, i, n, j) /\ o \in Outputs(d[n].vtx[j])
  BY <1>1, <1>2 DEF Earlier
<1>5. ASSUME NEW k, NEW l, Earlier(d, n, i, k, l), Follows(k, l, n, j)
      PROVE  o \notin Inputs(d[k].vtx[l])
  <2>1. k = n /\ l \in j + 1 .. i - 1
    BY <1>1, <1>5 DEF Earlier, Follows
  <2> QED
    BY <1>2, <2>1
<1>6. UnspentFrom(d, n, i, n, j, o)
  BY <1>4, <1>5 DEF UnspentFrom
<1> QED
  BY <1>6, InReplayed DEF d

(***************************************************************************)
(* A block whose transactions are all valid where the replay meets them    *)
(* and whose links, difficulty and coinbase are right extends the chain.   *)
(***************************************************************************)
FeeOf(blk, i, U) ==
  IF IsCoinbase(blk.vtx[i]) THEN 0 ELSE validate_and_get_fee(blk.vtx[i], U)

LEMMA AppendHonest ==
  ASSUME NEW c, HonestChain(c) \/ c = <<>>, NEW blk, HonestBlock(blk, Len(c)),
         NEW fee, DOMAIN fee = 1 .. Len(blk.vtx),
         \A i \in 1 .. Len(blk.vtx) :
           /\ FeeOf(blk, i, ReplayedUtxo(Append(c, blk), Len(c) + 1, i)) = fee[i]
           /\ fee[i] >= 0,
         IsMerkleRootValid(blk), check_proof_of_work(blk),
         blk.hashPrevBlock = IF c = <<>> THEN ZeroHash ELSE GetHash(Last(c)),
         blk.nBits = NextBits(c),
         IsCoinbase(blk.vtx[1]),
         TotalValue(blk.vtx[1].vout)
           = calculate_block_reward(Len(c)) + SumFunctionOnSet(fee, 1 .. Len(blk.vtx))
  PROVE  HonestChain(Append(c, blk))
<1> DEFINE d == Append(c, blk)
           n == Len(c) + 1
<1>1. IsSeq(c) /\ Len(c) \in Nat /\ IsSeq(blk.vtx) /\ Len(blk.vtx) \in Nat /\ blk.vtx # <<>>
  BY SeqFacts, EmptyIsSeq DEF HonestChain, HonestBlock
<1>2. /\ IsSeq(d) /\ d # <<>> /\ Len(d) = n /\ d[n] = blk
      /\ SubSeq(d, 1, n - 1) = c
      /\ \A g \in 1 .. Len(c) : d[g] = c[g]
  <2>1. n - 1 = Len(c)
    BY <1>1
  <2> QED
    BY <1>1, <2>1, AppendFacts, AppendIsSeq
<1>3. n = 1 <=> c = <<>>
  BY <1>1, SeqFacts
<1>4. n # 1 => d[n - 1] = Last(c)
  <2>1. n # 1 => n - 1 \in 1 .. Len(c) /\ n - 1 = Len(c)
    BY <1>1
  <2> HIDE DEF n, d
  <2> QED
    BY <1>2, <2>1 DEF Last
<1>5. ValidBlock(d, n)
  <2> DEFINE e == [i \in 1 .. Len(blk.vtx) |->
                     IF IsCoinbase(blk.vtx[i]) THEN 0
                     ELSE validate_and_get_fee(blk.vtx[i], ReplayedUtxo(d, n, i))]
  <2>1. \A i \in 1 .. Len(blk.vtx) : e[i] = fee[i]
    BY DEF FeeOf
  <2>2. SumFunction(e) = SumFunctionOnSet(fee, 1 .. Len(blk.vtx))
    <3>1. SumFunction(e) = SumFunctionOnSet(e, 1 .. Len(blk.vtx))
      BY SumIsOnDomain
    <3> HIDE DEF e
    <3>2. SumFunctionOnSet(e, 1 .. Len(blk.vtx)) = SumFunctionOnSet(fee, 1 .. Len(blk.vtx))
      BY <1>1, <2>1, RangeFinite, SumCongruence
    <3> QED
      BY <3>1, <3>2
  <2>3. blk.nBits = IF n = 1 THEN INITIAL_BITS
                    ELSE get_next_work_required(SubSeq(d, 1, n - 1))
    BY <1>2, <1>3 DEF NextBits
  <2>4. blk.hashPrevBlock = IF n = 1 THEN ZeroHash ELSE GetHash(d[n - 1])
    BY <1>3, <1>4
  <2>5. \A i \in 1 .. Len(blk.vtx) : e[i] >= 0
    BY <2>1
  <2>6. n - 1 = Len(c)
    BY <1>1
  <2> HIDE DEF n, d
  <2> QED
    BY <1>1, <1>2, <2>2, <2>3, <2>4, <2>5, <2>6 DEF ValidBlock
<1> HIDE DEF d
<1>6. ASSUME NEW h \in 1 .. n PROVE ValidBlock(d, h) /\ HonestBlock(d[h], h - 1)
  <2>1. CASE h = n
    <3>1. n - 1 = Len(c)
      BY <1>1
    <3> QED
      BY <1>2, <1>5, <2>1, <3>1
  <2>2. CASE h # n
    <3>1. h \in 1 .. Len(c) /\ HonestChain(c)
      BY <1>1, <1>3, <2>2
    <3>2. ValidBlock(c, h) /\ HonestBlock(c[h], h - 1)
      BY <3>1 DEF HonestChain, validate_full_chain
    <3> QED
      BY <1>1, <1>2, <3>1, <3>2, ValidBlockPrefix DEF d
  <2> QED
    BY <2>1, <2>2
<1>7. HonestChain(d)
  BY <1>2, <1>6 DEF HonestChain, validate_full_chain
<1> QED
  BY <1>7 DEF d

-----------------------------------------------------------------------------
(***************************************************************************)
(* Two valid chains that share a block hash share it at the same height:   *)
(* a hash determines the hashes of all blocks before it.                   *)
(***************************************************************************)
LEMMA LinkFacts ==
  ASSUME NEW c, HonestChain(c), NEW h \in 1 .. Len(c)
  PROVE  /\ h = 1 => c[h].hashPrevBlock = ZeroHash
         /\ h # 1 => c[h].hashPrevBlock = GetHash(c[h - 1])
         /\ HonestBlock(c[h], h - 1)
<1>1. ValidBlock(c, h)
  BY DEF HonestChain, validate_full_chain
<1>2. c[h].hashPrevBlock = IF h = 1 THEN ZeroHash ELSE GetHash(c[h - 1])
  BY <1>1 DEF ValidBlock
<1> QED
  BY <1>2 DEF HonestChain

LEMMA HeaderHash ==
  ASSUME NEW a, NEW b
  PROVE  /\ GetHash(a) = GetHash(b) => a.hashPrevBlock = b.hashPrevBlock
         /\ GetHash(a) # ZeroHash
<1> DEFINE Header(x) == [hashPrevBlock  |-> x.hashPrevBlock,
                         hashMerkleRoot |-> x.hashMerkleRoot,
                         nTime          |-> x.nTime,
                         nBits          |-> x.nBits]
<1>1. GetHash(a) = <<"sha256d", Header(a)>> /\ GetHash(b) = <<"sha256d", Header(b)>>
  BY DEF GetHash, hash_double_sha256
<1>2. GetHash(a) = GetHash(b) => Header(a) = Header(b)
  <2> HIDE DEF Header
  <2> QED
    BY <1>1
<1>3. GetHash(a) # ZeroHash
  <2> HIDE DEF Header
  <2>1. Len(<<"sha256d", Header(a)>>) = 2 /\ Len(ZeroHash) = 1
    BY DEF ZeroHash
  <2> QED
    BY <1>1, <2>1
<1>4. Header(a).hashPrevBlock = a.hashPrevBlock /\ Header(b).hashPrevBlock = b.hashPrevBlock
  OBVIOUS
<1> QED
  BY <1>2, <1>3, <1>4

LEMMA SameHashSameHeight ==
  ASSUME NEW c, NEW d, HonestChain(c), HonestChain(d)
  PROVE  \A k \in Nat : \A l \in 1 .. Len(d) :
           k \in 1 .. Len(c) /\ GetHash(c[k]) = GetHash(d[l]) => k = l
<1> DEFINE T == {k \in Nat : \A l \in 1 .. Len(d) :
                   k \in 1 .. Len(c) /\ GetHash(c[k]) = GetHash(d[l]) => k = l}
<1>0. Len(c) \in Nat /\ Len(d) \in Nat
  BY SeqFacts DEF HonestChain
<1>1. 0 \in T
  OBVIOUS
<1>2. ASSUME NEW k \in Nat, k \in T PROVE k + 1 \in T
  <2> SUFFICES ASSUME NEW l \in 1 .. Len(d), k + 1 \in 1 .. Len(c),
                      GetHash(c[k + 1]) = GetHash(d[l])
               PROVE  k + 1 = l
    BY <1>2
  <2>1. c[k + 1].hashPrevBlock = d[l].hashPrevBlock
    BY HeaderHash
  <2>2. CASE k = 0
    <3>1. c[k + 1].hashPrevBlock = ZeroHash
      BY <2>2, LinkFacts
    <3>2. l # 1 => d[l].hashPrevBlock # ZeroHash
      BY LinkFacts, HeaderHash
    <3> QED
      BY <2>1, <2>2, <3>1, <3>2
  <2>3. CASE k # 0
    <3>1. c[k + 1].hashPrevBlock = GetHash(c[k])
      <4>1. k + 1 # 1 /\ (k + 1) - 1 = k
        BY <2>3
      <4> QED
        BY <4>1, LinkFacts
    <3>2. l # 1
      BY <2>1, <3>1, LinkFacts, HeaderHash
    <3>3. d[l].hashPrevBlock = GetHash(d[l - 1])
      BY <3>2, LinkFacts
    <3>4. l - 1 \in 1 .. Len(d) /\ k \in 1 .. Len(c)
      BY <1>0, <2>3, <3>2
    <3>5. k = l - 1
      BY <1>2, <2>1, <3>1, <3>3, <3>4
    <3> QED
      BY <1>0, <3>5
  <2> QED
    BY <2>2, <2>3
<1> HIDE DEF T
<1>3. Nat \subseteq T
  BY <1>1, <1>2, InductionSet
<1> QED
  BY <1>3 DEF T

(***************************************************************************)
(* The tip of one honest chain that links to the tip of another is the     *)
(* next block of that other one, and its coinbase has the right height.    *)
(***************************************************************************)
LEMMA LinkedTipHeight ==
  ASSUME NEW c, NEW d, HonestChain(c), HonestChain(d),
         Last(d).hashPrevBlock = GetHash(Last(c))
  PROVE  HonestBlock(Last(d), Len(c))
<1>1. Len(c) \in Nat \ {0} /\ Len(d) \in Nat \ {0}
  BY SeqFacts DEF HonestChain, validate_full_chain
<1>2. Len(d) \in 1 .. Len(d) /\ Len(c) \in 1 .. Len(c)
  BY <1>1
<1>3. Len(d) # 1
  BY <1>2, LinkFacts, HeaderHash DEF Last
<1>4. GetHash(d[Len(d) - 1]) = GetHash(c[Len(c)])
  BY <1>2, <1>3, LinkFacts DEF Last
<1>5. Len(d) - 1 \in 1 .. Len(d)
  <2>1. \A x \in Nat \ {0} : x # 1 => x - 1 \in 1 .. x
    OBVIOUS
  <2> QED
    BY <1>1, <1>3, <2>1
<1>6. Len(c) = Len(d) - 1
  BY <1>1, <1>2, <1>4, <1>5, SameHashSameHeight
<1> QED
  BY <1>2, <1>6, LinkFacts DEF Last

(***************************************************************************)
(* try_extend_chain, which checks a block against one UtxoSet, accepts no  *)
(* tip of an honest chain that validate_full_chain would refuse.           *)
(***************************************************************************)
LEMMA ExtendHonest ==
  ASSUME NEW c, NEW d, HonestChain(c), HonestChain(d), try_extend_chain(c, Last(d))
  PROVE  HonestChain(Append(c, Last(d)))
<1> DEFINE blk == Last(d)
           U == build_utxo_set(c)
           fee == [i \in 1 .. Len(blk.vtx) |-> FeeOf(blk, i, U)]
           n == Len(c) + 1
<1>0. HonestBlock(blk, Len(c))
  BY LinkedTipHeight DEF try_extend_chain
<1>1. HasSeqs(c) /\ c # <<>> /\ IsSeq(blk.vtx) /\ Len(blk.vtx) \in Nat
  BY <1>0, HonestHasSeqs, SeqFacts DEF HonestChain, validate_full_chain, HonestBlock
<1>2. /\ IsMerkleRootValid(blk) /\ check_proof_of_work(blk)
      /\ blk.hashPrevBlock = GetHash(Last(c))
      /\ blk.nBits = get_next_work_required(c)
      /\ IsCoinbase(blk.vtx[1])
      /\ \A i \in 1 .. Len(blk.vtx) : fee[i] >= 0
      /\ TotalValue(blk.vtx[1].vout) = calculate_block_reward(Len(c)) + SumFunction(fee)
  BY DEF try_extend_chain, FeeOf
<1>3. SumFunction(fee) = SumFunctionOnSet(fee, 1 .. Len(blk.vtx))
  BY SumIsOnDomain
<1>4. DOMAIN fee = 1 .. Len(blk.vtx) /\ \A i \in 1 .. Len(blk.vtx) : fee[i] = FeeOf(blk, i, U)
  OBVIOUS
<1> HIDE DEF fee, blk, U
<1>5. ASSUME NEW i \in 1 .. Len(blk.vtx)
      PROVE  FeeOf(blk, i, ReplayedUtxo(Append(c, blk), n, i)) = fee[i]
  <2>1. CASE IsCoinbase(blk.vtx[i])
    BY <1>4, <2>1 DEF FeeOf
  <2>2. CASE ~IsCoinbase(blk.vtx[i])
    <3>1. validate_and_get_fee(blk.vtx[i], U) >= 0
      BY <1>2, <1>4, <2>2 DEF FeeOf
    <3>2. Inputs(blk.vtx[i]) \subseteq U
      BY <3>1, FeeNeedsInputs
    <3>3. ASSUME NEW o \in Inputs(blk.vtx[i])
          PROVE  o \in ReplayedUtxo(Append(c, blk), n, i)
      <4>1. ASSUME NEW j \in 1 .. i - 1 PROVE o \notin Inputs(blk.vtx[j])
        <5>1. j \in 1 .. Len(blk.vtx) /\ j # i
          BY <1>1
        <5> QED
          BY <1>0, <5>1 DEF HonestBlock
      <4> QED
        BY <1>1, <3>2, <4>1, OldOutputReplayed DEF U
    <3>4. validate_and_get_fee(blk.vtx[i], U)
            = validate_and_get_fee(blk.vtx[i], ReplayedUtxo(Append(c, blk), n, i))
      BY <3>2, <3>3, FeeSameUtxo
    <3> QED
      BY <1>4, <2>2, <3>4 DEF FeeOf
  <2> QED
    BY <2>1, <2>2
<1>6. blk.nBits = NextBits(c)
  BY <1>1, <1>2 DEF NextBits
<1>7. HonestChain(Append(c, blk))
  BY <1>0, <1>1, <1>2, <1>3, <1>4, <1>5, <1>6, AppendHonest
<1> QED
  BY <1>7 DEF blk

-----------------------------------------------------------------------------
(***************************************************************************)
(* Blocks the program builds.                                              *)
(***************************************************************************)
IsCons(t, x, s) ==
  /\ IsSeq(t)
  /\ Len(t) = Len(s) + 1
  /\ t[1] = x
  /\ \A i \in 1 .. Len(s) : t[i + 1] = s[i]
  /\ \A i \in 2 .. Len(s) + 1 : i - 1 \in 1 .. Len(s) /\ t[i] = s[i - 1]

LEMMA ConsFacts == ASSUME NEW x, NEW s, IsSeq(s) PROVE IsCons(<<x>> \o s, x, s)
<1> DEFINE S == Range(s) \cup {x}
           t == <<x>> \o s
<1>1. s \in Seq(S) /\ <<x>> \in Seq(S) /\ Len(s) \in Nat /\ Len(<<x>>) = 1
  BY DEF IsSeq
<1>2. t \in Seq(S) /\ Len(t) = Len(s) + 1
  BY <1>1
<1>3. t[1] = x
  BY <1>1
<1>4. \A i \in 2 .. Len(s) + 1 : i - 1 \in 1 .. Len(s) /\ t[i] = s[i - 1]
  BY <1>1
<1>5. \A i \in 1 .. Len(s) : i + 1 \in 2 .. Len(s) + 1 /\ (i + 1) - 1 = i
  BY <1>1
<1>6. \A i \in 1 .. Len(s) : t[i + 1] = s[i]
  BY <1>4, <1>5
<1> HIDE DEF t
<1>7. IsSeq(t)
  BY <1>2, SeqIsSeq
<1>8. IsCons(t, x, s)
  BY <1>2, <1>3, <1>4, <1>6, <1>7 DEF IsCons
<1> QED
  BY <1>8 DEF t

LEMMA RewardInt ==
  ASSUME NEW h \in Nat
  PROVE  calculate_block_reward(h) \in Int
<1>1. h \div HALVING_INTERVAL \in Nat
  BY LedgerAssumption
<1>2. Power(2, h \div HALVING_INTERVAL) \in Nat \ {0}
  BY <1>1, PowerPositive
<1>3. INITIAL_REWARD \div Power(2, h \div HALVING_INTERVAL) \in Int
  BY <1>2, LedgerAssumption, DivisionBounds
<1> QED
  BY <1>3 DEF calculate_block_reward

LEMMA NextBitsType ==
  ASSUME NEW c, HonestChain(c) \/ c = <<>>
  PROVE  NextBits(c) \in nBitsRange
<1>1. CASE c = <<>>
  BY <1>1, PowAssumption DEF NextBits
<1>2. CASE c # <<>>
  <2>1. c \in Seq(Range(c))
    BY <1>2 DEF HonestChain, IsSeq
  <2>2. \A h \in 1 .. Len(c) : c[h].nBits \in nBitsRange /\ c[h].nTime \in Int
    BY <1>2 DEF HonestChain, HonestBlock
  <2>3. get_next_work_required(c) \in nBitsRange
    BY <1>2, <2>1, <2>2, NextWorkType
  <2> QED
    BY <1>2, <2>3 DEF NextBits
<1> QED
  BY <1>1, <1>2

LEMMA CoinbaseFacts ==
  ASSUME NEW address, NEW height \in Nat, NEW total \in Int,
         NEW tx, tx = build_coinbase_tx(address, height, total)
  PROVE  /\ HonestTx(tx)
         /\ tx.vin = <<[prevout |-> NullOutPoint, scriptSig |-> <<"height", height>>]>>
         /\ IsCoinbase(tx)
         /\ Inputs(tx) = {NullOutPoint}
         /\ TotalValue(tx.vout) = calculate_block_reward(height) + total
<1> DEFINE in  == [prevout |-> NullOutPoint, scriptSig |-> <<"height", height>>]
           out == [nValue       |-> calculate_block_reward(height) + total,
                   scriptPubKey |-> build_p2pkh_script_pubkey(address)]
<1>1. tx.vin = <<in>> /\ tx.vout = <<out>>
  BY DEF build_coinbase_tx
<1>2. in.prevout = NullOutPoint /\ out.nValue = calculate_block_reward(height) + total
  OBVIOUS
<1>3. out.nValue \in Int
  BY <1>2, RewardInt
<1> HIDE DEF in, out
<1>4. Len(<<in>>) = 1 /\ Len(<<out>>) = 1 /\ <<in>>[1] = in /\ <<out>>[1] = out /\ 1 .. 1 = {1}
  OBVIOUS
<1>5. IsSeq(<<in>>) /\ IsSeq(<<out>>)
  BY SingletonIsSeq
<1>6. HonestTx(tx)
  BY <1>1, <1>3, <1>4, <1>5 DEF HonestTx
<1>7. IsCoinbase(tx)
  BY <1>1, <1>2, <1>4 DEF IsCoinbase
<1>8. Inputs(tx) = {NullOutPoint}
  BY <1>1, <1>2, <1>4 DEF Inputs
<1>9. TotalValue(tx.vout) = calculate_block_reward(height) + total
  <2> DEFINE f == [i \in 1 .. 1 |-> tx.vout[i].nValue]
  <2>1. TotalValue(tx.vout) = SumFunctionOnSet(f, 1 .. 1)
    BY <1>1, <1>4, SumIsOnDomain DEF TotalValue
  <2>2. f[1] = calculate_block_reward(height) + total /\ f[1] \in Int
    BY <1>1, <1>2, <1>3, <1>4
  <2> HIDE DEF f
  <2> QED
    BY <2>1, <2>2, SumOne
<1> QED
  BY <1>1, <1>6, <1>7, <1>8, <1>9 DEF in

IsNextBlock(blk, c, total, txs, time) ==
  /\ blk.hashPrevBlock = IF c = <<>> THEN ZeroHash ELSE GetHash(Last(c))
  /\ blk.hashMerkleRoot = BuildMerkleRoot(blk.vtx)
  /\ blk.nTime = time
  /\ blk.nBits = NextBits(c)
  /\ IsCons(blk.vtx, blk.vtx[1], txs)
  /\ HonestTx(blk.vtx[1]) /\ IsCoinbase(blk.vtx[1])
  /\ blk.vtx[1].vin
       = <<[prevout |-> NullOutPoint, scriptSig |-> <<"height", Len(c)>>]>>
  /\ Inputs(blk.vtx[1]) = {NullOutPoint}
  /\ TotalValue(blk.vtx[1].vout) = calculate_block_reward(Len(c)) + total

LEMMA BlockShape ==
  ASSUME NEW c, Len(c) \in Nat, NEW address, NEW total \in Int, NEW txs, IsSeq(txs),
         NEW time, NEW blk, blk = build_next_block(c, address, total, txs, time)
  PROVE  IsNextBlock(blk, c, total, txs, time)
<1>1. PICK coinbase : coinbase = build_coinbase_tx(address, Len(c), total)
  OBVIOUS
<1>2. /\ blk.vtx = <<coinbase>> \o txs
      /\ blk.hashPrevBlock = IF c = <<>> THEN ZeroHash ELSE GetHash(Last(c))
      /\ blk.hashMerkleRoot = BuildMerkleRoot(blk.vtx)
      /\ blk.nTime = time
      /\ blk.nBits = NextBits(c)
  BY <1>1 DEF build_next_block
<1>3. /\ HonestTx(coinbase) /\ IsCoinbase(coinbase)
      /\ coinbase.vin = <<[prevout |-> NullOutPoint, scriptSig |-> <<"height", Len(c)>>]>>
      /\ Inputs(coinbase) = {NullOutPoint}
      /\ TotalValue(coinbase.vout) = calculate_block_reward(Len(c)) + total
  BY <1>1, CoinbaseFacts
<1>4. IsCons(blk.vtx, coinbase, txs)
  BY <1>2, ConsFacts
<1>5. blk.vtx[1] = coinbase
  BY <1>4 DEF IsCons
<1> QED
  BY <1>2, <1>3, <1>4, <1>5 DEF IsNextBlock

LEMMA BuiltIsBlock ==
  ASSUME NEW c, NEW address, NEW total, NEW txs, NEW time
  PROVE  IsBlock(build_next_block(c, address, total, txs, time))
<1>1. PICK hashPrevBlock, hashMerkleRoot, nBits, vtx :
        build_next_block(c, address, total, txs, time)
          = [hashPrevBlock |-> hashPrevBlock, hashMerkleRoot |-> hashMerkleRoot,
             nTime |-> time, nBits |-> nBits, vtx |-> vtx]
  BY DEF build_next_block
<1> QED
  BY <1>1 DEF IsBlock

(***************************************************************************)
(* build_next_block makes an honest chain longer, if the transactions it   *)
(* is given are valid one after the other and pay the fees it is given.    *)
(***************************************************************************)
LEMMA BuiltHonest ==
  ASSUME NEW c, HonestChain(c) \/ c = <<>>, Mineable(NextBits(c)),
         NEW address, NEW time \in Int,
         NEW txs, IsSeq(txs),
         \A k \in 1 .. Len(txs) :
           /\ HonestTx(txs[k]) /\ ~IsCoinbase(txs[k])
           /\ NullOutPoint \notin Inputs(txs[k]),
         \A k, l \in 1 .. Len(txs) :
           k # l => Inputs(txs[k]) \cap Inputs(txs[l]) = {},
         NEW f, \A k \in 1 .. Len(txs) : f[k] \in Int /\ f[k] >= 0,
         NEW blk, blk = build_next_block(c, address,
                          SumFunctionOnSet(f, 1 .. Len(txs)), txs, time),
         \A k \in 1 .. Len(txs) :
           validate_and_get_fee(txs[k],
             ReplayedUtxo(Append(c, blk), Len(c) + 1, k + 1)) = f[k]
  PROVE  HonestChain(Append(c, blk))
<1> DEFINE total == SumFunctionOnSet(f, 1 .. Len(txs))
           m == Len(txs)
           fee == [i \in 1 .. m + 1 |-> IF i = 1 THEN 0 ELSE f[i - 1]]
<1>1. m \in Nat /\ Len(c) \in Nat
  BY SeqFacts, EmptyIsSeq DEF HonestChain
<1>2. total \in Int
  BY <1>1, RangeFinite, SumInt
<1>2a. blk = build_next_block(c, address, total, txs, time)
  OBVIOUS
<1> HIDE DEF total
<1>2b. IsNextBlock(blk, c, total, txs, time)
  BY <1>1, <1>2, <1>2a, BlockShape
<1>3. /\ blk.hashPrevBlock = IF c = <<>> THEN ZeroHash ELSE GetHash(Last(c))
      /\ blk.hashMerkleRoot = BuildMerkleRoot(blk.vtx)
      /\ blk.nTime = time
      /\ blk.nBits = NextBits(c)
      /\ IsSeq(blk.vtx) /\ Len(blk.vtx) = m + 1
      /\ \A i \in 2 .. m + 1 : i - 1 \in 1 .. m /\ blk.vtx[i] = txs[i - 1]
      /\ HonestTx(blk.vtx[1]) /\ IsCoinbase(blk.vtx[1])
      /\ blk.vtx[1].vin
           = <<[prevout |-> NullOutPoint, scriptSig |-> <<"height", Len(c)>>]>>
      /\ Inputs(blk.vtx[1]) = {NullOutPoint}
      /\ TotalValue(blk.vtx[1].vout) = calculate_block_reward(Len(c)) + total
  BY <1>2b DEF IsNextBlock, IsCons
<1>6. blk.vtx # <<>>
  BY <1>1, <1>3
<1>7. \A i \in 1 .. m + 1 : i = 1 \/ i \in 2 .. m + 1
  BY <1>1
<1>8. ASSUME NEW i \in 1 .. m + 1 PROVE HonestTx(blk.vtx[i])
  BY <1>3, <1>7
<1>9. ASSUME NEW i \in 2 .. m + 1 PROVE ~IsCoinbase(blk.vtx[i])
  BY <1>3
<1>10. ASSUME NEW i \in 1 .. m + 1, NEW j \in 1 .. m + 1, i # j
       PROVE  Inputs(blk.vtx[i]) \cap Inputs(blk.vtx[j]) = {}
  <2>1. CASE i = 1
    <3>1. j - 1 \in 1 .. m /\ blk.vtx[j] = txs[j - 1]
      BY <1>3, <1>7, <1>10, <2>1
    <3> QED
      BY <1>3, <2>1, <3>1
  <2>2. CASE j = 1
    <3>1. i - 1 \in 1 .. m /\ blk.vtx[i] = txs[i - 1]
      BY <1>3, <1>7, <1>10, <2>2
    <3> QED
      BY <1>3, <2>2, <3>1
  <2>3. CASE i # 1 /\ j # 1
    <3>1. /\ i - 1 \in 1 .. m /\ blk.vtx[i] = txs[i - 1]
          /\ j - 1 \in 1 .. m /\ blk.vtx[j] = txs[j - 1]
      BY <1>3, <1>7, <2>3
    <3>2. i - 1 # j - 1
      BY <1>1, <1>10
    <3> QED
      BY <3>1, <3>2
  <2> QED
    BY <2>1, <2>2, <2>3
<1>11. blk.nBits \in nBitsRange /\ blk.nTime \in Int
  BY <1>3, NextBitsType
<1>11a. IsBlock(blk)
  BY <1>2a, BuiltIsBlock
<1>12. HonestBlock(blk, Len(c))
  BY <1>3, <1>6, <1>8, <1>9, <1>10, <1>11, <1>11a DEF HonestBlock
<1>13. ASSUME NEW i \in 1 .. m + 1
       PROVE  /\ FeeOf(blk, i, ReplayedUtxo(Append(c, blk), Len(c) + 1, i)) = fee[i]
              /\ fee[i] >= 0
  <2>1. CASE i = 1
    BY <1>3, <2>1 DEF FeeOf
  <2>2. CASE i # 1
    <3>1. i - 1 \in 1 .. m /\ blk.vtx[i] = txs[i - 1] /\ ~IsCoinbase(blk.vtx[i])
      BY <1>3, <1>7, <1>9, <2>2
    <3>2. (i - 1) + 1 = i
      BY <1>1
    <3>3. fee[i] = f[i - 1]
      BY <2>2
    <3> QED
      BY <3>1, <3>2, <3>3 DEF FeeOf
  <2> QED
    BY <2>1, <2>2
<1>14. SumFunctionOnSet(fee, 1 .. m + 1) = total
  <2>1. fee[1] = 0 /\ \A i \in 1 .. m : f[i] \in Int /\ fee[i + 1] = f[i]
    BY <1>1
  <2> HIDE DEF fee
  <2> QED
    BY <1>1, <2>1, SumShift DEF total
<1>15. DOMAIN fee = 1 .. Len(blk.vtx)
  BY <1>3
<1>16. IsMerkleRootValid(blk) /\ check_proof_of_work(blk)
  BY <1>3 DEF IsMerkleRootValid, check_proof_of_work
<1> HIDE DEF fee, m
<1> QED
  BY <1>3, <1>12, <1>13, <1>14, <1>15, <1>16, AppendHonest

LEMMA GenesisHonest ==
  ASSUME NEW address, NEW time \in Int
  PROVE  HonestChain(build_genesis_chain(address, time))
<1> DEFINE blk == build_next_block(<<>>, address, 0, <<>>, time)
           f == <<>>
<1>1. SumFunctionOnSet(f, 1 .. 0) = 0
  BY SumNone
<1>2. Len(<<>>) = 0 /\ 1 .. 0 = {} /\ IsSeq(<<>>)
  BY EmptyIsSeq
<1>3. Mineable(NextBits(<<>>))
  BY InitialBitsAssumption DEF NextBits
<1>4. blk = build_next_block(<<>>, address, SumFunctionOnSet(f, 1 .. Len(<<>>)), <<>>, time)
  BY <1>1, <1>2
<1> HIDE DEF blk, f
<1>5. HonestChain(Append(<<>>, blk))
  BY <1>2, <1>3, <1>4, BuiltHonest
<1>6. Append(<<>>, blk) = <<blk>>
  OBVIOUS
<1> QED
  BY <1>5, <1>6 DEF build_genesis_chain, blk

-----------------------------------------------------------------------------
(***************************************************************************)
(* What the replay found for a transaction of an honest chain.             *)
(***************************************************************************)
LEMMA ChainTxFacts ==
  ASSUME NEW c, HonestChain(c), NEW h \in 1 .. Len(c), NEW j \in 1 .. Len(c[h].vtx)
  PROVE  /\ HonestTx(c[h].vtx[j])
         /\ j = 1 => Inputs(c[h].vtx[j]) = {NullOutPoint}
         /\ j # 1 => /\ Inputs(c[h].vtx[j]) \subseteq ReplayedUtxo(c, h, j)
                     /\ Inputs(c[h].vtx[j]) # {}
                     /\ ~IsCoinbase(c[h].vtx[j])
<1> DEFINE tx == c[h].vtx[j]
<1>1. HonestBlock(c[h], h - 1) /\ ValidBlock(c, h)
  BY DEF HonestChain, validate_full_chain
<1>2. HonestTx(tx)
  BY <1>1 DEF HonestBlock
<1>3. CASE j = 1
  <2>1. tx.vin = <<[prevout |-> NullOutPoint, scriptSig |-> <<"height", h - 1>>]>>
    BY <1>1, <1>3 DEF HonestBlock
  <2>2. Len(tx.vin) = 1 /\ tx.vin[1].prevout = NullOutPoint /\ 1 .. 1 = {1}
    BY <2>1
  <2>3. Inputs(tx) = {NullOutPoint}
    BY <2>2 DEF Inputs
  <2> QED
    BY <1>2, <1>3, <2>3
<1>4. CASE j # 1
  <2>0. Len(c[h].vtx) \in Nat
    BY <1>1, SeqFacts DEF HonestBlock
  <2>1. j \in 2 .. Len(c[h].vtx)
    BY <1>4, <2>0
  <2>2. ~IsCoinbase(tx)
    BY <1>1, <2>1 DEF HonestBlock
  <2>3. validate_and_get_fee(tx, ReplayedUtxo(c, h, j)) >= 0
    BY <1>1, <2>2 DEF ValidBlock
  <2>4. Inputs(tx) \subseteq ReplayedUtxo(c, h, j) /\ 1 .. Len(tx.vin) # {}
    BY <2>3, FeeNeedsInputs
  <2>5. Inputs(tx) # {}
    BY <2>4 DEF Inputs
  <2> QED
    BY <1>2, <1>4, <2>2, <2>4, <2>5
<1> QED
  BY <1>3, <1>4

(***************************************************************************)
(* An unspent output is real, and its value is a number.                   *)
(***************************************************************************)
LEMMA UnspentOutputFacts ==
  ASSUME NEW c, HonestChain(c), NEW tx \in AllTxs(c)
  PROVE  HonestTx(tx)
<1>1. HasSeqs(c)
  BY HonestHasSeqs
<1>2. PICK h \in 1 .. Len(c) : \E j \in 1 .. Len(c[h].vtx) : tx = c[h].vtx[j]
  BY <1>1, InAllTxs
<1>3. PICK j \in 1 .. Len(c[h].vtx) : tx = c[h].vtx[j]
  BY <1>2
<1> QED
  BY <1>3, ChainTxFacts

LEMMA HonestOutput ==
  ASSUME NEW tx, HonestTx(tx), NEW o \in Outputs(tx)
  PROVE  o # NullOutPoint /\ CTxOut(o).nValue \in Int
<1>1. IsSeq(tx.vout)
  BY DEF HonestTx
<1>2. o # NullOutPoint /\ o.n + 1 \in 1 .. Len(tx.vout) /\ CTxOut(o) = tx.vout[o.n + 1]
  BY <1>1, OutputFacts
<1> QED
  BY <1>2 DEF HonestTx

LEMMA MinedInputsAreOutputs ==
  ASSUME NEW c, HonestChain(c), NEW tx \in AllTxs(c), ~IsCoinbase(tx),
         NEW o \in Inputs(tx)
  PROVE  \E u \in AllTxs(c) : o \in Outputs(u)
<1>1. HasSeqs(c)
  BY HonestHasSeqs
<1>2. PICK h \in 1 .. Len(c) : \E j \in 1 .. Len(c[h].vtx) : tx = c[h].vtx[j]
  BY <1>1, InAllTxs
<1>3. PICK j \in 1 .. Len(c[h].vtx) : tx = c[h].vtx[j]
  BY <1>2
<1>4. j # 1
  <2>1. HonestBlock(c[h], h - 1)
    BY DEF HonestChain
  <2>2. c[h].vtx[1].vin = <<[prevout |-> NullOutPoint, scriptSig |-> <<"height", h - 1>>]>>
    BY <2>1 DEF HonestBlock
  <2>3. IsCoinbase(c[h].vtx[1])
    BY <2>2 DEF IsCoinbase
  <2> QED
    BY <1>3, <2>3
<1>5. o \in ReplayedUtxo(c, h, j)
  BY <1>3, <1>4, ChainTxFacts
<1>6. PICK g, k : UnspentFrom(c, h, j, g, k, o)
  BY <1>5, InReplayed
<1>7. Earlier(c, h, j, g, k) /\ o \in Outputs(c[g].vtx[k])
  BY <1>6 DEF UnspentFrom
<1>8. Len(c) \in Nat /\ Len(c[h].vtx) \in Nat
  BY <1>1, SeqFacts DEF HasSeqs
<1>9. g \in 1 .. Len(c) /\ k \in 1 .. Len(c[g].vtx)
  BY <1>7, <1>8 DEF Earlier
<1>10. c[g].vtx[k] \in AllTxs(c)
  BY <1>1, <1>9, InAllTxs
<1> QED
  BY <1>7, <1>10

-----------------------------------------------------------------------------
(***************************************************************************)
(* The miner's selection.  txs is what it keeps of the mempool; CanSpend   *)
(* says that o is unspent when it comes to the k-th of them.               *)
(***************************************************************************)
CanSpend(c, txs, k, o) ==
  \/ /\ o \in build_utxo_set(c)
     /\ \A l \in 1 .. k - 1 : o \notin Inputs(txs[l])
  \/ \E j \in 1 .. k - 1 :
       /\ o \in Outputs(txs[j])
       /\ \A l \in j + 1 .. k - 1 : o \notin Inputs(txs[l])

LEMMA InReplayedTxs ==
  ASSUME NEW U, NEW txs, NEW n \in Nat, Len(txs) = n, NEW o
  PROVE  o \in Replayed(U, txs) <=>
           \/ o \in U /\ \A l \in 1 .. n : o \notin Inputs(txs[l])
           \/ \E j \in 1 .. n : /\ o \in Outputs(txs[j])
                                /\ \A l \in j + 1 .. n : o \notin Inputs(txs[l])
<1>1. 0 + 1 = 1
  OBVIOUS
<1> QED
  BY <1>1 DEF Replayed

LEMMA KeptFacts ==
  ASSUME NEW pool, IsSeq(pool), NEW picked \in Seq(1 .. Len(pool))
  PROVE  /\ IsSeq(Kept(pool, picked))
         /\ Len(Kept(pool, picked)) = Len(picked)
         /\ \A k \in 1 .. Len(picked) : /\ Kept(pool, picked)[k] = pool[picked[k]]
                                        /\ picked[k] \in 1 .. Len(pool)
<1> DEFINE K == [k \in 1 .. Len(picked) |-> pool[picked[k]]]
<1>1. Len(picked) \in Nat /\ \A k \in 1 .. Len(picked) : picked[k] \in 1 .. Len(pool)
  OBVIOUS
<1>2. \A k \in 1 .. Len(picked) : pool[picked[k]] \in Range(pool)
  BY <1>1, SeqFacts
<1>3. K \in [1 .. Len(picked) -> Range(pool)]
  BY <1>2
<1>4. K \in Seq(Range(pool)) /\ Len(K) = Len(picked)
  BY <1>1, <1>3
<1>5. IsSeq(K)
  BY <1>4, SeqIsSeq
<1> QED
  BY <1>1, <1>4, <1>5 DEF Kept

LEMMA PickedIncreasing ==
  ASSUME NEW N \in Nat, NEW picked \in Seq(1 .. N),
         \A k \in 1 .. Len(picked) - 1 : picked[k] < picked[k + 1]
  PROVE  \A b \in Nat : \A a \in 1 .. Len(picked) :
           a < b /\ b <= Len(picked) => picked[a] < picked[b]
<1> DEFINE T == {b \in Nat : \A a \in 1 .. Len(picked) :
                   a < b /\ b <= Len(picked) => picked[a] < picked[b]}
<1>1. 0 \in T
  OBVIOUS
<1>2. ASSUME NEW b \in Nat, b \in T PROVE b + 1 \in T
  <2> SUFFICES ASSUME NEW a \in 1 .. Len(picked), a < b + 1, b + 1 <= Len(picked)
               PROVE  picked[a] < picked[b + 1]
    BY <1>2
  <2>1. b \in 1 .. Len(picked) - 1 /\ b \in 1 .. Len(picked) /\ b + 1 \in 1 .. Len(picked)
    OBVIOUS
  <2>2. picked[b] < picked[b + 1]
    BY <2>1
  <2>3. picked[a] \in Nat /\ picked[b] \in Nat /\ picked[b + 1] \in Nat
    BY <2>1
  <2>4. a = b \/ picked[a] < picked[b]
    BY <1>2, <2>1
  <2> QED
    BY <2>2, <2>3, <2>4
<1> HIDE DEF T
<1>3. Nat \subseteq T
  BY <1>1, <1>2, InductionSet
<1> QED
  BY <1>3 DEF T

(***************************************************************************)
(* The UtxoSet of the miner's pass, by what it has kept so far.            *)
(***************************************************************************)
LEMMA PickUtxo ==
  ASSUME NEW c, NEW pool, IsSeq(pool), NEW picked \in Seq(1 .. Len(pool)),
         NEW k \in 1 .. Len(picked) + 1
  PROVE  \A o : o \in UtxoBeforePick(c, pool, picked, k)
                  <=> CanSpend(c, Kept(pool, picked), k, o)
<1>1. Len(picked) \in Nat /\ k \in Nat
  OBVIOUS
<1> DEFINE front == SubSeq(picked, 1, k - 1)
           K == Kept(pool, picked)
           F == Kept(pool, front)
<1>2. front \in Seq(1 .. Len(pool)) /\ Len(front) = k - 1 /\ \A l \in 1 .. k - 1 : front[l] = picked[l]
  BY <1>1
<1> HIDE DEF front
<1>3. Len(F) = k - 1 /\ \A l \in 1 .. k - 1 : F[l] = K[l]
  <2>0. front \in Seq(1 .. Len(pool))
    BY <1>2
  <2>1. Len(F) = Len(front) /\ \A l \in 1 .. Len(front) : F[l] = pool[front[l]]
    BY <2>0, KeptFacts
  <2>2. \A l \in 1 .. Len(picked) : K[l] = pool[picked[l]]
    BY KeptFacts
  <2>3. \A l \in 1 .. k - 1 : l \in 1 .. Len(picked)
    BY <1>1
  <2> HIDE DEF F, K
  <2> QED
    BY <1>2, <2>1, <2>2, <2>3
<1>4. UtxoBeforePick(c, pool, picked, k) = Replayed(build_utxo_set(c), F)
  BY DEF UtxoBeforePick, front
<1> HIDE DEF F, K
<1>5. ASSUME NEW o
       PROVE  o \in Replayed(build_utxo_set(c), F) <=> CanSpend(c, K, k, o)
  <2>1. k - 1 \in Nat
    BY <1>1
  <2>2. o \in Replayed(build_utxo_set(c), F) <=>
           \/ o \in build_utxo_set(c) /\ \A l \in 1 .. k - 1 : o \notin Inputs(F[l])
           \/ \E i \in 1 .. k - 1 : /\ o \in Outputs(F[i])
                                    /\ \A l \in i + 1 .. k - 1 : o \notin Inputs(F[l])
    BY <1>3, <2>1, InReplayedTxs
  <2>3. \A i \in 1 .. k - 1 : \A l \in i + 1 .. k - 1 : l \in 1 .. k - 1
    BY <2>1
  <2>4. (\A l \in 1 .. k - 1 : o \notin Inputs(F[l]))
          <=> (\A l \in 1 .. k - 1 : o \notin Inputs(K[l]))
    BY <1>3
  <2>5. ASSUME NEW i \in 1 .. k - 1
        PROVE  (o \in Outputs(F[i]) /\ \A l \in i + 1 .. k - 1 : o \notin Inputs(F[l]))
                 <=> (o \in Outputs(K[i]) /\ \A l \in i + 1 .. k - 1 : o \notin Inputs(K[l]))
    <3>1. \A l \in i + 1 .. k - 1 : F[l] = K[l]
      BY <1>3, <2>3
    <3> QED
      BY <1>3, <3>1
  <2> QED
    BY <2>2, <2>4, <2>5 DEF CanSpend
<1> QED
  BY <1>4, <1>5 DEF K

LEMMA CountBelow == \A k \in Nat \ {0} : 1 + Cardinality(1 .. k - 1) = k
<1> SUFFICES ASSUME NEW k \in Nat \ {0} PROVE 1 + Cardinality(1 .. k - 1) = k
  OBVIOUS
<1>1. Cardinality(1 .. k - 1) = IF 1 > k - 1 THEN 0 ELSE (k - 1) - 1 + 1
  BY FS_Interval
<1> QED
  BY <1>1

(***************************************************************************)
(* What the pass keeps was valid, what it leaves was not.                  *)
(***************************************************************************)
LEMMA SelectionFacts ==
  ASSUME NEW c, NEW pool, IsSeq(pool), NEW picked \in Seq(1 .. Len(pool)),
         IsSelection(c, pool, picked), NEW k \in 1 .. Len(picked)
  PROVE  /\ validate_and_get_fee(pool[picked[k]], UtxoBeforePick(c, pool, picked, k)) >= 0
         /\ \A o : o \in UtxoBeforePick(c, pool, picked, k)
                     <=> CanSpend(c, Kept(pool, picked), k, o)
<1> DEFINE N == Len(pool)
           j == picked[k]
           before == {l \in 1 .. Len(picked) : picked[l] < j}
<1>1. N \in Nat /\ Len(picked) \in Nat /\ k \in Nat /\ j \in 1 .. N
  BY SeqFacts
<1>2. before = 1 .. k - 1
  <2>1. \A l \in 1 .. Len(picked) : l < k => picked[l] < j
    BY <1>1, PickedIncreasing DEF IsSelection
  <2>2. \A l \in 1 .. Len(picked) : k < l => j < picked[l]
    BY <1>1, PickedIncreasing DEF IsSelection
  <2>3. \A l \in 1 .. Len(picked) : picked[l] \in Nat /\ j \in Nat
    BY <1>1
  <2>4. \A l \in 1 .. Len(picked) : picked[l] < j <=> l < k
    BY <1>1, <2>1, <2>2, <2>3
  <2> QED
    BY <1>1, <2>4
<1>3. 1 + Cardinality(before) = k
  <2>1. k \in Nat \ {0}
    BY <1>1
  <2> HIDE DEF before
  <2> QED
    BY <1>2, <2>1, CountBelow
<1>4. j \in Range(picked)
  BY DEF Range
<1>5. (j \in Range(picked)) <=>
        validate_and_get_fee(pool[j],
          UtxoBeforePick(c, pool, picked, 1 + Cardinality(before))) >= 0
  BY <1>1 DEF IsSelection
<1>6. validate_and_get_fee(pool[j], UtxoBeforePick(c, pool, picked, k)) >= 0
  BY <1>3, <1>4, <1>5
<1>7. k \in 1 .. Len(picked) + 1
  BY <1>1
<1> QED
  BY <1>6, <1>7, PickUtxo

LEMMA RefusedFacts ==
  ASSUME NEW c, NEW pool, IsSeq(pool), NEW picked \in Seq(1 .. Len(pool)),
         IsSelection(c, pool, picked), NEW j \in 1 .. Len(pool), j \notin Range(picked)
  PROVE  \E k \in 1 .. Len(picked) + 1 :
           /\ \A l \in 1 .. Len(picked) : picked[l] < j <=> l < k
           /\ ~ (validate_and_get_fee(pool[j], UtxoBeforePick(c, pool, picked, k)) >= 0)
<1> DEFINE m == Len(picked)
           before == {l \in 1 .. m : picked[l] < j}
           rest == {x \in 1 .. m + 1 : x \notin before}
<1>1. m \in Nat /\ Len(pool) \in Nat /\ j \in Nat
  BY SeqFacts
<1>2. \A l \in 1 .. m : picked[l] \in Nat
  BY <1>1
<1>3. PICK k \in rest : \A x \in rest : k <= x
  <2>1. m + 1 \in rest /\ rest \subseteq Nat
    BY <1>1
  <2> QED
    BY <2>1, LeastMember
<1>4. k \in 1 .. m + 1 /\ k \in Nat \ {0}
  BY <1>1
<1>5. \A l \in 1 .. m : l < k => picked[l] < j
  BY <1>1, <1>3
<1>6. \A l \in 1 .. m : picked[l] < j => l < k
  <2> SUFFICES ASSUME NEW l \in 1 .. m, picked[l] < j, ~(l < k) PROVE FALSE
    OBVIOUS
  <2>1. k \in 1 .. m /\ ~(picked[k] < j) /\ k <= l
    BY <1>1, <1>4
  <2>2. k < l => picked[k] < picked[l]
    <3>1. \A b \in Nat : \A a \in 1 .. Len(picked) :
             a < b /\ b <= Len(picked) => picked[a] < picked[b]
      BY <1>1, PickedIncreasing DEF IsSelection
    <3>2. l \in Nat /\ l <= Len(picked)
      BY <1>1
    <3> QED
      BY <2>1, <3>1, <3>2
  <2> QED
    BY <1>1, <1>2, <2>1, <2>2
<1>7. before = 1 .. k - 1
  BY <1>1, <1>4, <1>5, <1>6
<1>8. 1 + Cardinality(before) = k
  <2> HIDE DEF before, rest
  <2> QED
    BY <1>4, <1>7, CountBelow
<1>9. (j \in Range(picked)) <=>
        validate_and_get_fee(pool[j],
          UtxoBeforePick(c, pool, picked, 1 + Cardinality(before))) >= 0
  BY DEF IsSelection
<1> HIDE DEF before, rest
<1>10. ~ (validate_and_get_fee(pool[j], UtxoBeforePick(c, pool, picked, k)) >= 0)
  BY <1>8, <1>9
<1> QED
  BY <1>4, <1>5, <1>6, <1>10

Selection(c, txs) ==
  /\ IsSeq(txs)
  /\ \A k \in 1 .. Len(txs) :
       /\ HonestTx(txs[k]) /\ Inputs(txs[k]) # {}
       /\ \A o \in Inputs(txs[k]) : CanSpend(c, txs, k, o)

LEMMA SpentIsReal ==
  ASSUME NEW c, HonestChain(c), NEW txs, Selection(c, txs),
         NEW k \in 1 .. Len(txs), NEW o, CanSpend(c, txs, k, o)
  PROVE  o # NullOutPoint /\ CTxOut(o).nValue \in Int
<1>0. Len(txs) \in Nat
  BY SeqFacts DEF Selection
<1>1. CASE o \in build_utxo_set(c)
  <2>1. PICK tx \in AllTxs(c) : o \in Outputs(tx)
    BY <1>1 DEF build_utxo_set
  <2> QED
    BY <2>1, UnspentOutputFacts, HonestOutput
<1>2. CASE \E j \in 1 .. k - 1 : o \in Outputs(txs[j])
  <2>1. PICK j \in 1 .. k - 1 : o \in Outputs(txs[j])
    BY <1>2
  <2>2. j \in 1 .. Len(txs)
    BY <1>0
  <2>3. HonestTx(txs[j])
    BY <2>2 DEF Selection
  <2> QED
    BY <2>1, <2>3, HonestOutput
<1> QED
  BY <1>1, <1>2 DEF CanSpend

LEMMA SelectedNotCoinbase ==
  ASSUME NEW c, HonestChain(c), NEW txs, Selection(c, txs), NEW k \in 1 .. Len(txs)
  PROVE  ~IsCoinbase(txs[k]) /\ NullOutPoint \notin Inputs(txs[k])
<1>1. \A o \in Inputs(txs[k]) : o # NullOutPoint
  BY SpentIsReal DEF Selection
<1>2. Inputs(txs[k]) # {} /\ IsSeq(txs[k].vin)
  BY DEF Selection, HonestTx
<1>3. Len(txs[k].vin) \in Nat /\ Len(txs[k].vin) # 0
  <2>1. Len(txs[k].vin) \in Nat
    BY <1>2, SeqFacts
  <2>2. 1 .. Len(txs[k].vin) # {}
    BY <1>2 DEF Inputs
  <2> QED
    BY <2>1, <2>2
<1>4. txs[k].vin[1].prevout \in Inputs(txs[k])
  BY <1>3 DEF Inputs
<1> QED
  BY <1>1, <1>3, <1>4 DEF IsCoinbase

(***************************************************************************)
(* No transaction is mined a second time: a selected transaction is not on *)
(* the chain.  The first that were would spend an output of an earlier one *)
(* of the selection, which the chain, holding its spender, also holds.     *)
(***************************************************************************)
LEMMA SelectedIsNew ==
  ASSUME NEW c, HonestChain(c), NEW txs, Selection(c, txs), NEW k \in 1 .. Len(txs)
  PROVE  txs[k] \notin AllTxs(c)
<1> SUFFICES ASSUME txs[k] \in AllTxs(c) PROVE FALSE
  OBVIOUS
<1> DEFINE T == {i \in 1 .. Len(txs) : txs[i] \in AllTxs(c)}
<1>0. Len(txs) \in Nat
  BY SeqFacts DEF Selection
<1>1. T \subseteq Nat /\ T # {}
  BY <1>0
<1>2. PICK i \in T : \A l \in T : i <= l
  BY <1>1, LeastMember
<1>3. PICK o : o \in Inputs(txs[i])
  BY DEF Selection
<1>4. CanSpend(c, txs, i, o)
  BY <1>3 DEF Selection
<1>5. o \notin build_utxo_set(c)
  BY <1>3 DEF build_utxo_set
<1>6. PICK j \in 1 .. i - 1 : o \in Outputs(txs[j])
  BY <1>4, <1>5 DEF CanSpend
<1>7. j \in 1 .. Len(txs) /\ j < i
  BY <1>0
<1>8. txs[j] \notin AllTxs(c)
  BY <1>0, <1>2, <1>7
<1>9. ~IsCoinbase(txs[i])
  BY SelectedNotCoinbase
<1>10. PICK u \in AllTxs(c) : o \in Outputs(u)
  BY <1>3, <1>9, MinedInputsAreOutputs
<1>11. u = txs[j]
  BY <1>6, <1>10, OutputOfOne
<1> QED
  BY <1>8, <1>10, <1>11

(***************************************************************************)
(* Nor do two selected transactions spend the same output.                 *)
(***************************************************************************)
LEMMA SelectedDisjoint ==
  ASSUME NEW c, HonestChain(c), NEW txs, Selection(c, txs),
         NEW k \in 1 .. Len(txs), NEW l \in 1 .. Len(txs), k # l
  PROVE  Inputs(txs[k]) \cap Inputs(txs[l]) = {}
<1> DEFINE Clash(a, b) == Inputs(txs[a]) \cap Inputs(txs[b]) # {}
           T == {b \in 1 .. Len(txs) : \E a \in 1 .. b - 1 : Clash(a, b)}
<1>0. Len(txs) \in Nat
  BY SeqFacts DEF Selection
<1> SUFFICES ASSUME T # {} PROVE FALSE
  <2>1. k < l \/ l < k
    BY <1>0
  <2>2. k < l => k \in 1 .. l - 1
    BY <1>0
  <2>3. l < k => l \in 1 .. k - 1
    BY <1>0
  <2>4. Clash(k, l) => k \in T \/ l \in T
    BY <2>1, <2>2, <2>3
  <2> QED
    BY <2>4
<1>1. T \subseteq Nat
  BY <1>0
<1>2. PICK b \in T : \A x \in T : b <= x
  BY <1>1, LeastMember
<1>3. PICK a \in 1 .. b - 1 : Clash(a, b)
  OBVIOUS
<1>4. PICK o : o \in Inputs(txs[a]) /\ o \in Inputs(txs[b])
  BY <1>3
<1>5. a \in 1 .. Len(txs) /\ a < b /\ a \in Nat /\ b \in Nat /\ b \in 1 .. Len(txs)
  BY <1>0
<1>6. CanSpend(c, txs, b, o) /\ CanSpend(c, txs, a, o)
  BY <1>4, <1>5 DEF Selection
<1>7. PICK m \in 1 .. b - 1 :
        o \in Outputs(txs[m]) /\ \A x \in m + 1 .. b - 1 : o \notin Inputs(txs[x])
  BY <1>3, <1>4, <1>6 DEF CanSpend
<1>8. m \in Nat /\ a <= m /\ m < b /\ m \in 1 .. Len(txs)
  <2>1. m \in Nat /\ m < b /\ m \in 1 .. Len(txs)
    BY <1>0, <1>5
  <2>2. ~(a \in m + 1 .. b - 1)
    BY <1>4, <1>7
  <2> QED
    BY <1>5, <2>1, <2>2
<1>9. o \notin build_utxo_set(c)
  <2> SUFFICES ASSUME o \in build_utxo_set(c) PROVE FALSE
    OBVIOUS
  <2>1. PICK u \in AllTxs(c) : o \in Outputs(u)
    BY DEF build_utxo_set
  <2>2. u = txs[m]
    BY <1>7, <2>1, OutputOfOne
  <2> QED
    BY <1>8, <2>1, <2>2, SelectedIsNew
<1>10. PICK p \in 1 .. a - 1 : o \in Outputs(txs[p])
  BY <1>6, <1>9 DEF CanSpend
<1>11. txs[p] = txs[m]
  BY <1>7, <1>10, OutputOfOne
<1>12. p \in 1 .. m - 1 /\ p \in 1 .. Len(txs)
  BY <1>0, <1>5, <1>8
<1>13. Clash(p, m)
  <2>1. Inputs(txs[m]) # {}
    BY <1>8 DEF Selection
  <2> QED
    BY <1>11, <2>1
<1>14. m \in T
  BY <1>8, <1>12, <1>13
<1> HIDE DEF T
<1>15. b <= m
  BY <1>2, <1>14
<1> QED
  BY <1>5, <1>8, <1>15

(***************************************************************************)
(* What the miner's pass keeps is such a selection, and the block it makes *)
(* of it, which nobody checks, is one that validate_full_chain accepts.    *)
(***************************************************************************)
LEMMA KeptIsSelection ==
  ASSUME NEW c, HonestChain(c), NEW pool, IsSeq(pool),
         \A tx \in Range(pool) : HonestTx(tx),
         NEW picked \in Seq(1 .. Len(pool)), IsSelection(c, pool, picked)
  PROVE  Selection(c, Kept(pool, picked))
<1> DEFINE K == Kept(pool, picked)
<1>1. IsSeq(K) /\ Len(K) = Len(picked)
  BY KeptFacts
<1>2. \A k \in 1 .. Len(picked) : K[k] = pool[picked[k]] /\ picked[k] \in 1 .. Len(pool)
  BY KeptFacts
<1> HIDE DEF K
<1>3. ASSUME NEW k \in 1 .. Len(K)
      PROVE  /\ HonestTx(K[k]) /\ Inputs(K[k]) # {}
             /\ \A o \in Inputs(K[k]) : CanSpend(c, K, k, o)
  <2>0. k \in 1 .. Len(picked)
    BY <1>1
  <2>1. HonestTx(K[k])
    BY <1>2, <2>0, SeqFacts
  <2>2. validate_and_get_fee(K[k], UtxoBeforePick(c, pool, picked, k)) >= 0
    BY <1>2, <2>0, SelectionFacts
  <2>3. Inputs(K[k]) \subseteq UtxoBeforePick(c, pool, picked, k) /\ 1 .. Len(K[k].vin) # {}
    BY <2>2, FeeNeedsInputs
  <2>4. Inputs(K[k]) # {}
    BY <2>3 DEF Inputs
  <2>5. \A o : o \in UtxoBeforePick(c, pool, picked, k) => CanSpend(c, K, k, o)
    BY <2>0, SelectionFacts DEF K
  <2> QED
    BY <2>1, <2>3, <2>4, <2>5
<1>4. Selection(c, K)
  BY <1>1, <1>3 DEF Selection
<1> QED
  BY <1>4 DEF K

LEMMA CanSpendIsReplayed ==
  ASSUME NEW c, HonestChain(c), NEW txs, Selection(c, txs),
         NEW blk, IsSeq(blk.vtx), Len(blk.vtx) = Len(txs) + 1,
         Inputs(blk.vtx[1]) = {NullOutPoint},
         \A i \in 2 .. Len(txs) + 1 : i - 1 \in 1 .. Len(txs) /\ blk.vtx[i] = txs[i - 1],
         NEW k \in 1 .. Len(txs), NEW o, CanSpend(c, txs, k, o)
  PROVE  o \in ReplayedUtxo(Append(c, blk), Len(c) + 1, k + 1)
<1>0. Len(txs) \in Nat /\ HasSeqs(c) /\ k + 1 \in 1 .. Len(blk.vtx) /\ (k + 1) - 1 = k
  BY SeqFacts, HonestHasSeqs DEF Selection
<1>1. o # NullOutPoint
  BY SpentIsReal
<1>2. CASE o \in build_utxo_set(c) /\ \A l \in 1 .. k - 1 : o \notin Inputs(txs[l])
  <2>1. ASSUME NEW j \in 1 .. (k + 1) - 1 PROVE o \notin Inputs(blk.vtx[j])
    <3>1. CASE j = 1
      BY <1>1, <3>1
    <3>2. CASE j # 1
      <4>1. j \in 2 .. Len(txs) + 1 /\ j - 1 \in 1 .. k - 1
        BY <1>0, <3>2
      <4> QED
        BY <1>2, <4>1
    <3> QED
      BY <3>1, <3>2
  <2> QED
    BY <1>0, <1>2, <2>1, OldOutputReplayed
<1>3. CASE \E j \in 1 .. k - 1 : /\ o \in Outputs(txs[j])
                                 /\ \A l \in j + 1 .. k - 1 : o \notin Inputs(txs[l])
  <2>1. PICK j \in 1 .. k - 1 : /\ o \in Outputs(txs[j])
                                /\ \A l \in j + 1 .. k - 1 : o \notin Inputs(txs[l])
    BY <1>3
  <2>2. j + 1 \in 2 .. Len(txs) + 1 /\ (j + 1) - 1 = j /\ j + 1 \in 1 .. (k + 1) - 1
    BY <1>0
  <2>3. o \in Outputs(blk.vtx[j + 1])
    BY <2>1, <2>2
  <2>4. ASSUME NEW i \in (j + 1) + 1 .. (k + 1) - 1 PROVE o \notin Inputs(blk.vtx[i])
    <3>1. i \in 2 .. Len(txs) + 1 /\ i - 1 \in j + 1 .. k - 1
      BY <1>0
    <3> QED
      BY <2>1, <3>1
  <2> QED
    BY <1>0, <2>2, <2>3, <2>4, NewOutputReplayed
<1> QED
  BY <1>2, <1>3 DEF CanSpend

LEMMA MinedHonest ==
  ASSUME NEW c, HonestChain(c), Mineable(NextBits(c)), NEW address, NEW time \in Int,
         NEW pool, IsSeq(pool), \A tx \in Range(pool) : HonestTx(tx),
         NEW picked \in Seq(1 .. Len(pool)), IsSelection(c, pool, picked)
  PROVE  HonestChain(Append(c, build_next_block(c, address,
           SelectedFees(c, pool, picked), Kept(pool, picked), time)))
<1> DEFINE K == Kept(pool, picked)
           m == Len(picked)
           f == [k \in 1 .. m |->
                   validate_and_get_fee(pool[picked[k]], UtxoBeforePick(c, pool, picked, k))]
           total == SumFunctionOnSet(f, 1 .. m)
<1>1. Selection(c, K)
  BY KeptIsSelection
<1>2. IsSeq(K) /\ Len(K) = m
  BY KeptFacts
<1>3. \A k \in 1 .. m : K[k] = pool[picked[k]]
  BY KeptFacts
<1>4. \A k \in 1 .. m : f[k] = validate_and_get_fee(K[k], UtxoBeforePick(c, pool, picked, k))
  BY <1>3
<1>5. SelectedFees(c, pool, picked) = total
  BY SumIsOnDomain DEF SelectedFees
<1>6. \A k \in 1 .. m : f[k] >= 0
  BY SelectionFacts
<1>6a. \A k \in 1 .. m : \A o : o \in UtxoBeforePick(c, pool, picked, k) => CanSpend(c, K, k, o)
  BY SelectionFacts
<1> HIDE DEF f, m, K
<1>7. ASSUME NEW k \in 1 .. m
      PROVE  /\ HonestTx(K[k]) /\ ~IsCoinbase(K[k]) /\ NullOutPoint \notin Inputs(K[k])
             /\ f[k] \in Int
  <2>1. k \in 1 .. Len(K)
    BY <1>2
  <2>2. HonestTx(K[k]) /\ \A o \in Inputs(K[k]) : CanSpend(c, K, k, o)
    BY <1>1, <2>1 DEF Selection
  <2>3. \A o \in Inputs(K[k]) : CTxOut(o).nValue \in Int
    BY <1>1, <2>1, <2>2, SpentIsReal
  <2>4. f[k] \in Int
    BY <1>4, <2>2, <2>3, FeeInt
  <2> QED
    BY <1>1, <2>1, <2>2, <2>4, SelectedNotCoinbase
<1>8. PICK blk : blk = build_next_block(c, address, total, K, time)
  OBVIOUS
<1>9. total \in Int /\ m \in Nat /\ Len(c) \in Nat
  <2>1. m \in Nat /\ Len(c) \in Nat
    BY SeqFacts DEF m, HonestChain
  <2> QED
    BY <1>7, <2>1, RangeFinite, SumInt
<1> HIDE DEF total
<1>10. IsNextBlock(blk, c, total, K, time)
  BY <1>2, <1>8, <1>9, BlockShape
<1>11. ASSUME NEW k \in 1 .. m
       PROVE  validate_and_get_fee(K[k],
                ReplayedUtxo(Append(c, blk), Len(c) + 1, k + 1)) = f[k]
  <2>1. k \in 1 .. Len(K)
    BY <1>2
  <2>2. Inputs(K[k]) \subseteq UtxoBeforePick(c, pool, picked, k)
    BY <1>4, <1>6, FeeNeedsInputs
  <2>3. /\ IsSeq(blk.vtx) /\ Len(blk.vtx) = Len(K) + 1
        /\ Inputs(blk.vtx[1]) = {NullOutPoint}
        /\ \A i \in 2 .. Len(K) + 1 : i - 1 \in 1 .. Len(K) /\ blk.vtx[i] = K[i - 1]
    BY <1>10 DEF IsNextBlock, IsCons
  <2>4. ASSUME NEW o \in Inputs(K[k])
        PROVE  o \in ReplayedUtxo(Append(c, blk), Len(c) + 1, k + 1)
    <3>1. CanSpend(c, K, k, o)
      BY <1>6a, <2>2
    <3> QED
      BY <1>1, <2>1, <2>3, <3>1, CanSpendIsReplayed
  <2> QED
    BY <1>4, <2>2, <2>4, FeeSameUtxo
<1>12. \A k, l \in 1 .. Len(K) : k # l => Inputs(K[k]) \cap Inputs(K[l]) = {}
  BY <1>1, SelectedDisjoint
<1>13. blk = build_next_block(c, address, SumFunctionOnSet(f, 1 .. Len(K)), K, time)
  BY <1>2, <1>8 DEF total
<1>14. HonestChain(Append(c, blk))
  BY <1>2, <1>6, <1>7, <1>11, <1>12, <1>13, BuiltHonest
<1> QED
  BY <1>5, <1>8, <1>14 DEF K

-----------------------------------------------------------------------------
(***************************************************************************)
(* Transactions the wallet creates.                                        *)
(***************************************************************************)
LEMMA CreatedHonest ==
  ASSUME NEW available, \A o \in available : CTxOut(o).nValue \in Int,
         NEW amount \in Int, NEW fee \in Int,
         NEW selected \in Sufficient(available, amount, fee),
         NEW address, NEW recipient
  PROVE  HonestTx(CreateTransaction(selected, address, recipient, amount, fee))
<1> DEFINE total == SelectedTotal(selected)
           change == total - amount - fee
           In(k) == [prevout |-> selected[k], scriptSig |-> build_script_sig(address)]
           vin == [k \in 1 .. Len(selected) |-> In(k)]
           Out(addr, value) ==
             [nValue |-> value, scriptPubKey |-> build_p2pkh_script_pubkey(addr)]
           rest == IF change >= DUST_THRESHOLD THEN <<Out(address, change)>> ELSE <<>>
           vout == <<Out(recipient, amount)>> \o rest
           tx == CreateTransaction(selected, address, recipient, amount, fee)
<1>1. PICK n \in 1 .. Cardinality(available) : selected \in Injection(1 .. n, available)
  BY DEF Sufficient
<1>2. n \in Nat /\ selected \in [1 .. n -> available]
  BY <1>1 DEF Injection
<1>3. selected \in Seq(available) /\ Len(selected) = n
  BY <1>2
<1>4. \A i, j \in 1 .. n : selected[i] = selected[j] => i = j
  BY <1>1, <1>2 DEF Injection, IsInjective
<1>5. total \in Int
  <2> DEFINE f == [k \in 1 .. n |-> CTxOut(selected[k]).nValue]
  <2>1. total = SumFunctionOnSet(f, 1 .. n)
    BY <1>3, SumIsOnDomain DEF SelectedTotal
  <2>2. \A k \in 1 .. n : f[k] \in Int
    BY <1>2
  <2> HIDE DEF f
  <2> QED
    BY <1>2, <2>1, <2>2, RangeFinite, SumInt
<1>6. tx.vin = vin /\ tx.vout = vout
  BY DEF CreateTransaction
<1> HIDE DEF total, tx
<1>7. vin \in [1 .. n -> {In(k) : k \in 1 .. n}]
  BY <1>3
<1>8. IsSeq(vin) /\ Len(vin) = n /\ \A k \in 1 .. n : vin[k].prevout = selected[k]
  <2>1. vin \in Seq({In(k) : k \in 1 .. n}) /\ Len(vin) = n
    BY <1>2, <1>7
  <2>2. \A k \in 1 .. n : vin[k] = In(k)
    BY <1>3
  <2>3. \A k : In(k).prevout = selected[k]
    OBVIOUS
  <2> HIDE DEF vin, In
  <2>4. \A k \in 1 .. n : vin[k].prevout = selected[k]
    BY <2>2, <2>3
  <2> QED
    BY <2>1, <2>4, SeqIsSeq
<1>9. change \in Int
  BY <1>5
<1> HIDE DEF vin
<1>10. IsSeq(rest) /\ \A i \in 1 .. Len(rest) : rest[i].nValue \in Int
  <2>1. CASE change >= DUST_THRESHOLD
    <3>1. rest = <<Out(address, change)>> /\ Out(address, change).nValue \in Int
      BY <1>9, <2>1
    <3> HIDE DEF Out, rest, change
    <3>2. Len(rest) = 1 /\ rest[1].nValue \in Int /\ 1 .. 1 = {1}
      BY <3>1
    <3> QED
      BY <3>1, <3>2, SingletonIsSeq
  <2>2. CASE ~(change >= DUST_THRESHOLD)
    <3>1. rest = <<>>
      BY <2>2
    <3> HIDE DEF rest
    <3> QED
      BY <3>1, EmptyIsSeq
  <2> QED
    BY <2>1, <2>2
<1>11. Out(recipient, amount).nValue \in Int
  OBVIOUS
<1>12. vout = <<Out(recipient, amount)>> \o rest
  OBVIOUS
<1> HIDE DEF rest, Out, vout
<1>13. IsCons(vout, Out(recipient, amount), rest)
  BY <1>10, <1>12, ConsFacts
<1>14. IsSeq(vout) /\ \A i \in 1 .. Len(vout) : vout[i].nValue \in Int
  <2>1. Len(rest) \in Nat
    BY <1>10, SeqFacts
  <2>2. \A i \in 1 .. Len(rest) + 1 : i = 1 \/ i \in 2 .. Len(rest) + 1
    BY <2>1
  <2> QED
    BY <1>10, <1>11, <1>13, <2>2 DEF IsCons
<1>15. HonestTx(tx)
  BY <1>4, <1>6, <1>8, <1>14 DEF HonestTx
<1> QED
  BY <1>15 DEF tx

LEMMA WalletValues ==
  ASSUME NEW c, HonestChain(c), NEW o \in build_utxo_set(c)
  PROVE  CTxOut(o).nValue \in Int
<1>1. PICK tx \in AllTxs(c) : o \in Outputs(tx)
  BY DEF build_utxo_set
<1> QED
  BY <1>1, UnspentOutputFacts, HonestOutput

-----------------------------------------------------------------------------
(***************************************************************************)
(* No transaction stands twice on an honest chain.                         *)
(***************************************************************************)
At(c, g, j) == g \in 1 .. Len(c) /\ j \in 1 .. Len(c[g].vtx)

LEMMA AtFacts ==
  ASSUME NEW c, HonestChain(c), NEW g, NEW j, At(c, g, j)
  PROVE  g \in Nat /\ j \in Nat /\ Len(c) \in Nat /\ Len(c[g].vtx) \in Nat
<1>1. HasSeqs(c)
  BY HonestHasSeqs
<1>2. Len(c) \in Nat /\ Len(c[g].vtx) \in Nat
  BY <1>1, SeqFacts DEF HasSeqs, At
<1> QED
  BY <1>2 DEF At

LEMMA EarlierIsAt ==
  ASSUME NEW c, HonestChain(c), NEW h, NEW i, At(c, h, i), NEW g, NEW j
  PROVE  Earlier(c, h, i, g, j) <=> At(c, g, j) /\ Follows(h, i, g, j)
<1>0. h \in Nat /\ i \in Nat /\ Len(c) \in Nat /\ h \in 1 .. Len(c) /\ i \in 1 .. Len(c[h].vtx)
  BY AtFacts DEF At
<1>1. Len(c[h].vtx) \in Nat
  BY AtFacts
<1>2. CASE g = h
  BY <1>0, <1>1, <1>2 DEF Earlier, At, Follows
<1>3. CASE g # h
  BY <1>0, <1>3 DEF Earlier, At, Follows
<1> QED
  BY <1>2, <1>3

LEMMA CoinbasesDiffer ==
  ASSUME NEW c, HonestChain(c), NEW g, NEW j, NEW h, At(c, g, j), At(c, h, 1),
         c[g].vtx[j] = c[h].vtx[1]
  PROVE  g = h /\ j = 1
<1>1. HonestBlock(c[g], g - 1) /\ HonestBlock(c[h], h - 1) /\ g \in Nat /\ h \in Nat
  BY AtFacts DEF HonestChain, At
<1>2. c[h].vtx[1].vin = <<[prevout |-> NullOutPoint, scriptSig |-> <<"height", h - 1>>]>>
  BY <1>1 DEF HonestBlock
<1>3. j = 1
  <2>1. Inputs(c[h].vtx[1]) = {NullOutPoint}
    BY ChainTxFacts DEF At
  <2>2. IsCoinbase(c[h].vtx[1])
    BY <1>2 DEF IsCoinbase
  <2> QED
    BY <2>2, ChainTxFacts DEF At
<1>4. c[g].vtx[1].vin = <<[prevout |-> NullOutPoint, scriptSig |-> <<"height", g - 1>>]>>
  BY <1>1 DEF HonestBlock
<1>5. h - 1 = g - 1
  BY <1>2, <1>3, <1>4
<1> QED
  BY <1>1, <1>3, <1>5

(***************************************************************************)
(* A first repetition would spend, like the first occurrence, an output    *)
(* that both found unspent: that output would have been made twice, so an  *)
(* even earlier transaction would have been repeated.                      *)
(***************************************************************************)
LEMMA TxsUnique ==
  ASSUME NEW c, HonestChain(c), NEW g0, NEW j0, NEW k0, NEW l0,
         At(c, g0, j0), At(c, k0, l0), c[g0].vtx[j0] = c[k0].vtx[l0]
  PROVE  g0 = k0 /\ j0 = l0
<1> DEFINE Repeats(g, j) ==
             /\ At(c, g, j)
             /\ \E a, b : /\ At(c, a, b) /\ Follows(g, j, a, b)
                          /\ c[a].vtx[b] = c[g].vtx[j]
           G == {g \in Nat : \E j \in Nat : Repeats(g, j)}
<1> SUFFICES ASSUME ~(g0 = k0 /\ j0 = l0) PROVE FALSE
  OBVIOUS
<1>1. \E g, j : Repeats(g, j)
  <2>1. g0 \in Nat /\ j0 \in Nat /\ k0 \in Nat /\ l0 \in Nat
    BY AtFacts
  <2>2. Follows(g0, j0, k0, l0) \/ Follows(k0, l0, g0, j0)
    BY <2>1 DEF Follows
  <2>3. Repeats(g0, j0) \/ Repeats(k0, l0)
    BY <2>2
  <2> HIDE DEF Repeats
  <2> QED
    BY <2>3
<1>2. \A g, j : Repeats(g, j) => g \in Nat /\ j \in Nat
  BY AtFacts
<1>3. PICK g \in G : \A x \in G : g <= x
  <2>1. G \subseteq Nat /\ G # {}
    <3> HIDE DEF Repeats
    <3> QED
      BY <1>1, <1>2
  <2> QED
    BY <2>1, LeastMember
<1> DEFINE J == {j \in Nat : Repeats(g, j)}
<1>4. PICK j \in J : \A x \in J : j <= x
  <2>1. J \subseteq Nat /\ J # {}
    <3> HIDE DEF Repeats
    <3> QED
      OBVIOUS
  <2> QED
    BY <2>1, LeastMember
<1>5. g \in Nat /\ j \in Nat /\ Repeats(g, j)
  <2> HIDE DEF Repeats
  <2> QED
    OBVIOUS
<1>6. \A x, y : Repeats(x, y) => ~Follows(g, j, x, y)
  <2> HIDE DEF Repeats
  <2> SUFFICES ASSUME NEW x, NEW y, Repeats(x, y), Follows(g, j, x, y) PROVE FALSE
    OBVIOUS
  <2>1. x \in Nat /\ y \in Nat /\ x \in G
    BY <1>2
  <2>2. g <= x
    BY <1>3, <2>1
  <2>3. g = x /\ y < j
    BY <1>5, <2>1, <2>2 DEF Follows
  <2>4. y \in J
    BY <2>1, <2>3
  <2> QED
    BY <1>4, <1>5, <2>1, <2>3, <2>4
<1>7. PICK a, b : At(c, a, b) /\ Follows(g, j, a, b) /\ c[a].vtx[b] = c[g].vtx[j]
  BY <1>5
<1>8. At(c, g, j)
  BY <1>5
<1> HIDE DEF Repeats, G, J
<1>9. a \in Nat /\ b \in Nat
  BY <1>7, AtFacts
<1>10. ~(a = g /\ b = j)
  BY <1>5, <1>7, <1>9 DEF Follows
<1>11. j # 1
  BY <1>7, <1>8, <1>10, CoinbasesDiffer
<1>12. b # 1
  BY <1>7, <1>8, <1>10, CoinbasesDiffer
<1> DEFINE tx == c[g].vtx[j]
<1>13. Inputs(tx) \subseteq ReplayedUtxo(c, g, j) /\ Inputs(tx) # {}
  BY <1>8, <1>11, ChainTxFacts DEF At
<1>14. Inputs(tx) \subseteq ReplayedUtxo(c, a, b)
  BY <1>7, <1>12, ChainTxFacts DEF At
<1>15. PICK o : o \in Inputs(tx)
  BY <1>13
<1>16. PICK r, s : UnspentFrom(c, g, j, r, s, o)
  BY <1>13, <1>15, InReplayed
<1>17. PICK p, q : UnspentFrom(c, a, b, p, q, o)
  BY <1>14, <1>15, InReplayed
<1>18. At(c, r, s) /\ Follows(g, j, r, s) /\ o \in Outputs(c[r].vtx[s])
  BY <1>8, <1>16, EarlierIsAt DEF UnspentFrom
<1>19. At(c, p, q) /\ Follows(a, b, p, q) /\ o \in Outputs(c[p].vtx[q])
  BY <1>7, <1>17, EarlierIsAt DEF UnspentFrom
<1>20. c[p].vtx[q] = c[r].vtx[s]
  BY <1>18, <1>19, OutputOfOne
<1>21. ~Follows(a, b, r, s)
  <2>1. Earlier(c, g, j, a, b)
    BY <1>7, <1>8, EarlierIsAt
  <2> QED
    BY <1>7, <1>15, <1>16, <2>1 DEF UnspentFrom
<1>22. Follows(r, s, p, q)
  <2>1. r \in Nat /\ s \in Nat /\ p \in Nat /\ q \in Nat
    BY <1>18, <1>19, AtFacts
  <2> QED
    BY <1>9, <1>19, <1>21, <2>1 DEF Follows
<1>23. Repeats(r, s)
  BY <1>18, <1>19, <1>20, <1>22 DEF Repeats
<1> QED
  BY <1>6, <1>18, <1>23

(***************************************************************************)
(* The UtxoSet as a difference of two sets is the UtxoSet of the replay.   *)
(***************************************************************************)
LEMMA UtxoViews ==
  ASSUME NEW c, HonestChain(c)
  PROVE  build_utxo_set(c) = ReplayedUtxo(c, Len(c), Len(Last(c).vtx) + 1)
<1> DEFINE H == Len(c)
           I == Len(Last(c).vtx) + 1
<1>1. HasSeqs(c) /\ H \in Nat \ {0}
  BY HonestHasSeqs, SeqFacts DEF HonestChain, validate_full_chain
<1>2. Last(c) = c[H] /\ H \in 1 .. Len(c) /\ Len(c[H].vtx) \in Nat
  BY <1>1, SeqFacts DEF Last, HasSeqs
<1>3. \A g, j : Earlier(c, H, I, g, j) <=> At(c, g, j)
  <2>1. I - 1 = Len(c[H].vtx)
    BY <1>2
  <2> HIDE DEF I
  <2> QED
    BY <1>1, <1>2, <2>1 DEF Earlier, At
<1> HIDE DEF I, H
<1>4. \A o : o \in build_utxo_set(c) <=>
        /\ \E g, j : At(c, g, j) /\ o \in Outputs(c[g].vtx[j])
        /\ \A g, j : At(c, g, j) => o \notin Inputs(c[g].vtx[j])
  BY <1>1, InUtxoSet DEF At
<1>5. ASSUME NEW o \in build_utxo_set(c) PROVE o \in ReplayedUtxo(c, H, I)
  <2>1. PICK g, j : At(c, g, j) /\ o \in Outputs(c[g].vtx[j])
    BY <1>4
  <2>2. UnspentFrom(c, H, I, g, j, o)
    BY <1>3, <1>4, <2>1 DEF UnspentFrom
  <2> QED
    BY <2>2, InReplayed
<1>6. ASSUME NEW o \in ReplayedUtxo(c, H, I) PROVE o \in build_utxo_set(c)
  <2>1. PICK g, j : UnspentFrom(c, H, I, g, j, o)
    BY InReplayed
  <2>2. At(c, g, j) /\ o \in Outputs(c[g].vtx[j])
    BY <1>3, <2>1 DEF UnspentFrom
  <2>3. ASSUME NEW k, NEW l, At(c, k, l), o \in Inputs(c[k].vtx[l]) PROVE FALSE
    <3>1. HonestTx(c[g].vtx[j])
      BY <2>2, ChainTxFacts DEF At
    <3>2. o # NullOutPoint
      BY <2>2, <3>1, HonestOutput
    <3>a. k \in 1 .. Len(c) /\ l \in 1 .. Len(c[k].vtx)
      BY <2>3 DEF At
    <3>b. l = 1 => Inputs(c[k].vtx[l]) = {NullOutPoint}
      BY <3>a, ChainTxFacts
    <3>3. l # 1
      BY <2>3, <3>2, <3>b
    <3>4. o \in ReplayedUtxo(c, k, l)
      BY <2>3, <3>3, ChainTxFacts DEF At
    <3>5. PICK p, q : UnspentFrom(c, k, l, p, q, o)
      BY <3>4, InReplayed
    <3>6. At(c, p, q) /\ Follows(k, l, p, q) /\ o \in Outputs(c[p].vtx[q])
      BY <2>3, <3>5, EarlierIsAt DEF UnspentFrom
    <3>7. c[p].vtx[q] = c[g].vtx[j]
      BY <2>2, <3>6, OutputOfOne
    <3>8. p = g /\ q = j
      BY <2>2, <3>6, <3>7, TxsUnique
    <3> QED
      BY <1>3, <2>1, <2>3, <3>6, <3>8 DEF UnspentFrom
  <2> QED
    BY <1>4, <2>2, <2>3
<1> QED
  BY <1>5, <1>6 DEF H, I

-----------------------------------------------------------------------------
(***************************************************************************)
(* What the processes do with honest chains.                               *)
(***************************************************************************)
LEMMA HonestNotEmpty == ASSUME NEW c, HonestChain(c) PROVE c # <<>>
  BY DEF HonestChain, validate_full_chain

LEMMA CreatedIsGood ==
  ASSUME NEW c, HonestChain(c), NEW n, NEW recipient, NEW amount \in Int,
         NEW selected \in Sufficient(filter_utxos_by_address(build_utxo_set(c), n),
                                     amount, DEFAULT_FEE)
  PROVE  HonestTx(CreateTransaction(selected, n, recipient, amount, DEFAULT_FEE))
<1>1. PICK A : A = filter_utxos_by_address(build_utxo_set(c), n)
  OBVIOUS
<1>2. \A o \in A : CTxOut(o).nValue \in Int
  BY <1>1, WalletValues DEF filter_utxos_by_address
<1>3. amount \in Int /\ DEFAULT_FEE \in Int
  BY LedgerAssumption
<1>4. selected \in Sufficient(A, amount, DEFAULT_FEE)
  BY <1>1
<1> QED
  BY <1>2, <1>3, <1>4, CreatedHonest

LEMMA PickedIsSeq ==
  ASSUME NEW m \in Nat,
         NEW picked \in UNION {[1 .. k -> 1 .. m] : k \in 0 .. m}
  PROVE  picked \in Seq(1 .. m)
<1>1. PICK k \in 0 .. m : picked \in [1 .. k -> 1 .. m]
  OBVIOUS
<1> QED
  BY <1>1

(***************************************************************************)
(* An honest chain gains work with every block.                            *)
(***************************************************************************)
LEMMA WorkGrows ==
  ASSUME NEW c, HonestChain(c), NEW blk, HonestChain(Append(c, blk))
  PROVE  /\ calculate_chain_work(Append(c, blk)) > calculate_chain_work(c)
         /\ GetHash(Append(c, blk)[1]) = GetHash(c[1])
<1>1. PICK d, n : d = Append(c, blk) /\ n = Len(c)
  OBVIOUS
<1>2. IsSeq(c) /\ n \in Nat \ {0}
  BY <1>1, SeqFacts, HonestNotEmpty DEF HonestChain
<1>3. /\ Len(d) = n + 1 /\ d[n + 1] = blk
      /\ \A h \in 1 .. n : d[h] = c[h]
  BY <1>1, <1>2, AppendFacts
<1>4. /\ \A h \in 1 .. n : c[h].nBits \in nBitsRange
      /\ blk.nBits \in nBitsRange
  <2>1. \A h \in 1 .. n : HonestBlock(c[h], h - 1)
    BY <1>1 DEF HonestChain
  <2>2. n + 1 \in 1 .. Len(d)
    BY <1>2, <1>3
  <2>3. HonestBlock(d[n + 1], n + 1 - 1)
    BY <1>1, <2>2 DEF HonestChain
  <2> QED
    BY <1>3, <2>1, <2>3 DEF HonestBlock
<1>5. Mineable(blk.nBits)
  <2>1. n + 1 \in 1 .. Len(d)
    BY <1>2, <1>3
  <2>2. ValidBlock(d, n + 1)
    BY <1>1, <2>1 DEF HonestChain, validate_full_chain
  <2> QED
    BY <1>3, <2>2 DEF ValidBlock, check_proof_of_work
<1>6. PICK S : S = Range(c) \cup {blk}
  OBVIOUS
<1>7. c \in Seq(S) /\ blk \in S
  BY <1>2, <1>6 DEF IsSeq
<1>8. /\ calculate_chain_work(c) \in Int
      /\ calculate_chain_work(d)
           = calculate_block_work(blk.nBits) + calculate_chain_work(c)
  BY <1>1, <1>4, <1>7, ChainWorkAppend
<1>9. calculate_block_work(blk.nBits) \in Nat /\ calculate_block_work(blk.nBits) > 0
  BY <1>4, <1>5, WorkNat, WorkPositive
<1>10. d[1] = c[1]
  BY <1>2, <1>3
<1> QED
  BY <1>1, <1>8, <1>9, <1>10

-----------------------------------------------------------------------------
(***************************************************************************)
(* What a mined block leaves of the mempool it was made from.              *)
(***************************************************************************)
MinedBlock(c, address, pool, picked, time) ==
  build_next_block(c, address, SelectedFees(c, pool, picked), Kept(pool, picked), time)

LEMMA PoolHonest ==
  ASSUME NEW pool, GoodPool(pool)
  PROVE  IsSeq(pool) /\ \A tx \in Range(pool) : HonestTx(tx)
  BY DEF GoodPool, WasValid

LEMMA MinedTxs ==
  ASSUME NEW c, NEW address, NEW time, NEW pool, IsSeq(pool),
         NEW picked \in Seq(1 .. Len(pool)),
         NEW vtx, vtx = MinedBlock(c, address, pool, picked, time).vtx
  PROVE  IsCons(vtx, vtx[1], Kept(pool, picked))
<1>1. PICK coinbase, K : /\ K = Kept(pool, picked)
                         /\ vtx = <<coinbase>> \o K
  BY DEF MinedBlock, build_next_block
<1>2. IsSeq(K)
  BY <1>1, KeptFacts
<1>3. IsCons(vtx, coinbase, K)
  BY <1>1, <1>2, ConsFacts
<1>4. vtx[1] = coinbase
  BY <1>3 DEF IsCons
<1> QED
  BY <1>1, <1>3, <1>4

LEMMA MinedSettles ==
  ASSUME NEW c, HonestChain(c), Mineable(NextBits(c)), NEW address, NEW time \in Int,
         NEW pool, GoodPool(pool), NEW picked \in Seq(1 .. Len(pool)),
         IsSelection(c, pool, picked), NEW tx \in Range(pool)
  PROVE  Settled(Append(c, MinedBlock(c, address, pool, picked, time)), pool, tx)
<1>1. PICK K, m, n, blk, d :
        /\ K = Kept(pool, picked) /\ m = Len(picked) /\ n = Len(c)
        /\ blk = MinedBlock(c, address, pool, picked, time)
        /\ d = Append(c, blk)
  OBVIOUS
<1>2. /\ IsSeq(pool) /\ Len(pool) \in Nat /\ m \in Nat /\ n \in Nat /\ IsSeq(c)
      /\ \A t \in Range(pool) : HonestTx(t)
  BY <1>1, SeqFacts, PoolHonest DEF HonestChain
<1>3. HonestChain(d)
  BY <1>1, <1>2, MinedHonest DEF MinedBlock
<1>4. Len(d) = n + 1 /\ d[n + 1] = blk /\ Last(d) = blk /\ \A h \in 1 .. n : d[h] = c[h]
  BY <1>1, <1>2, AppendFacts
<1>5. /\ Len(K) = m
      /\ \A l \in 1 .. m : K[l] = pool[picked[l]] /\ picked[l] \in 1 .. Len(pool)
  BY <1>1, <1>2, KeptFacts
<1>6. IsCons(blk.vtx, blk.vtx[1], K)
  BY <1>1, <1>2, MinedTxs
<1>7. /\ IsSeq(blk.vtx) /\ Len(blk.vtx) = m + 1
      /\ \A l \in 1 .. m : l + 1 \in 1 .. Len(blk.vtx) /\ blk.vtx[l + 1] = K[l]
      /\ \A i \in 2 .. m + 1 : i - 1 \in 1 .. m /\ blk.vtx[i] = K[i - 1]
  BY <1>2, <1>5, <1>6 DEF IsCons
<1>8. IsCoinbase(blk.vtx[1])
  <2>1. n + 1 \in 1 .. Len(d)
    BY <1>2, <1>4
  <2>2. ValidBlock(d, n + 1)
    BY <1>3, <2>1 DEF HonestChain, validate_full_chain
  <2> QED
    BY <1>4, <2>2 DEF ValidBlock
<1> SUFFICES ASSUME Inputs(tx) \subseteq build_utxo_set(d)
             PROVE  OutOfTurn(d, pool, tx)
  BY <1>1 DEF Settled
<1>9. \A o \in Inputs(tx) :
        /\ \E h \in 1 .. n + 1 : \E i \in 1 .. Len(d[h].vtx) : o \in Outputs(d[h].vtx[i])
        /\ \A h \in 1 .. n + 1 : \A i \in 1 .. Len(d[h].vtx) : o \notin Inputs(d[h].vtx[i])
  BY <1>3, <1>4, HonestHasSeqs, InUtxoSet
<1>10. \A o \in Inputs(tx) : \A l \in 1 .. m : o \notin Inputs(K[l])
  <2>1. n + 1 \in 1 .. n + 1
    BY <1>2
  <2>2. \A o \in Inputs(tx) : \A i \in 1 .. Len(blk.vtx) : o \notin Inputs(blk.vtx[i])
    BY <1>4, <1>9, <2>1
  <2> QED
    BY <1>7, <2>2
<1>11. PICK j \in 1 .. Len(pool) : pool[j] = tx
  BY <1>2, SeqFacts
<1>12. validate_and_get_fee(tx, Inputs(tx)) >= 0
  BY DEF GoodPool, WasValid
<1>13. j \notin Range(picked)
  <2> SUFFICES ASSUME j \in Range(picked) PROVE FALSE
    OBVIOUS
  <2>1. PICK l \in 1 .. m : picked[l] = j
    BY <1>1 DEF Range
  <2>2. K[l] = tx
    BY <1>5, <1>11, <2>1
  <2>3. Inputs(tx) = {}
    BY <1>10, <2>2
  <2>4. 1 .. Len(tx.vin) # {}
    BY <1>12, FeeNeedsInputs
  <2> QED
    BY <2>3, <2>4 DEF Inputs
<1>14. PICK k \in 1 .. m + 1 :
         /\ \A l \in 1 .. m : picked[l] < j <=> l < k
         /\ ~ (validate_and_get_fee(pool[j], UtxoBeforePick(c, pool, picked, k)) >= 0)
  BY <1>1, <1>2, <1>13, RefusedFacts
<1>15. PICK o \in Inputs(tx) : o \notin UtxoBeforePick(c, pool, picked, k)
  <2> SUFFICES ASSUME Inputs(tx) \subseteq UtxoBeforePick(c, pool, picked, k)
               PROVE  FALSE
    OBVIOUS
  <2>1. validate_and_get_fee(tx, UtxoBeforePick(c, pool, picked, k))
          = validate_and_get_fee(tx, Inputs(tx))
    BY FeeSameUtxo
  <2> QED
    BY <1>11, <1>12, <1>14, <2>1
<1>16. ~CanSpend(c, K, k, o)
  BY <1>1, <1>2, <1>15, PickUtxo
<1>17. k \in Nat /\ \A l \in 1 .. k - 1 : l \in 1 .. m /\ o \notin Inputs(K[l])
  BY <1>2, <1>10
<1>18. PICK h \in 1 .. n + 1 : \E i \in 1 .. Len(d[h].vtx) : o \in Outputs(d[h].vtx[i])
  BY <1>9
<1>19. PICK i \in 1 .. Len(d[h].vtx) : o \in Outputs(d[h].vtx[i])
  BY <1>18
<1>20. CASE h \in 1 .. n
  <2>1. o \in build_utxo_set(c)
    <3>1. i \in 1 .. Len(c[h].vtx) /\ o \in Outputs(c[h].vtx[i])
      BY <1>4, <1>19, <1>20
    <3>2. \A g \in 1 .. n : \A l \in 1 .. Len(c[g].vtx) : o \notin Inputs(c[g].vtx[l])
      <4> SUFFICES ASSUME NEW g \in 1 .. n PROVE
                     \A l \in 1 .. Len(c[g].vtx) : o \notin Inputs(c[g].vtx[l])
        OBVIOUS
      <4>1. g \in 1 .. n + 1 /\ d[g] = c[g]
        BY <1>2, <1>4
      <4> QED
        BY <1>9, <4>1
    <3> QED
      BY <1>1, <1>20, <3>1, <3>2, HonestHasSeqs, InUtxoSet
  <2> QED
    BY <1>16, <1>17, <2>1 DEF CanSpend
<1>21. CASE h = n + 1
  <2>1. i \in 1 .. m + 1 /\ o \in Outputs(blk.vtx[i])
    BY <1>4, <1>7, <1>19, <1>21
  <2>2. blk.vtx[i] \in Range(Last(d).vtx) /\ o \in Outputs(blk.vtx[i]) \cap Inputs(tx)
    BY <1>4, <1>7, <2>1, SeqFacts
  <2>3. CASE i = 1
    BY <1>8, <2>2, <2>3 DEF OutOfTurn
  <2>4. CASE i # 1
    <3>1. PICK l \in 1 .. m : blk.vtx[i] = K[l]
      BY <1>2, <1>7, <2>1, <2>4
    <3>2. ~(l < k)
      <4> SUFFICES ASSUME l < k PROVE FALSE
        OBVIOUS
      <4>1. l \in 1 .. k - 1
        BY <1>2, <1>17
      <4>2. \A e \in l + 1 .. k - 1 : e \in 1 .. k - 1
        BY <1>17, <4>1
      <4>3. o \in Outputs(K[l]) /\ \A e \in l + 1 .. k - 1 : o \notin Inputs(K[e])
        BY <1>17, <2>1, <3>1, <4>2
      <4> QED
        BY <1>16, <4>1, <4>3 DEF CanSpend
    <3>3. picked[l] \in 1 .. Len(pool) /\ picked[l] > j
      <4>1. picked[l] # j
        <5>1. picked[l] \in Range(picked)
          BY <1>1, SeqIsSeq, SeqFacts
        <5> QED
          BY <1>13, <5>1
      <4> QED
        BY <1>2, <1>5, <1>14, <3>2, <4>1
    <3>4. pool[picked[l]] = blk.vtx[i]
      BY <1>5, <3>1
    <3> QED
      BY <1>11, <2>2, <3>3, <3>4 DEF OutOfTurn
  <2> QED
    BY <2>3, <2>4
<1> QED
  BY <1>2, <1>18, <1>20, <1>21

-----------------------------------------------------------------------------
(***************************************************************************)
(* The Merkle root of transactions that differ determines them.  Without   *)
(* that condition it does not: an odd layer is hashed as if its last node  *)
(* stood there twice.                                                      *)
(***************************************************************************)
AllDiffer(s) == \A i, j \in 1 .. Len(s) : i # j => s[i] # s[j]

LEMMA FunctionIsSeq ==
  ASSUME NEW n \in Nat, NEW s, s = [i \in 1 .. n |-> s[i]]
  PROVE  IsSeq(s) /\ Len(s) = n
<1>1. \A i \in 1 .. n : s[i] \in Range(s)
  BY DEF Range
<1>2. s \in [1 .. n -> Range(s)]
  BY <1>1
<1> QED
  BY <1>2 DEF IsSeq

LEMMA PairInjective ==
  ASSUME NEW a, NEW b, NEW c, NEW d, hash_pair(a, b) = hash_pair(c, d)
  PROVE  a = c /\ b = d
  BY DEF hash_pair

LEMMA PairIsNoLeaf == \A a, b, tx : hash_pair(a, b) # tx_hash(tx)
<1> TAKE a, b, tx
<1>1. Len(hash_pair(a, b)) = 3 /\ Len(tx_hash(tx)) = 2
  BY DEF hash_pair, tx_hash, hash_double_sha256
<1> QED
  BY <1>1

(***************************************************************************)
(* One round, on a layer of at least two nodes.                            *)
(***************************************************************************)
Half(n) == (n + 1) \div 2

Partner(s, i) == IF 2*i <= Len(s) THEN s[2*i] ELSE s[2*i - 1]

LEMMA HalfFacts ==
  ASSUME NEW n \in Nat, n >= 2
  PROVE  /\ Half(n) \in Nat \ {0} /\ Half(n) < n
         /\ n = 2 * Half(n) \/ n = 2 * Half(n) - 1
         /\ \A i \in 1 .. Half(n) : 2*i - 1 \in 1 .. n /\ (2*i <= n => 2*i \in 1 .. n)
         /\ \A x \in 1 .. n : \E i \in 1 .. Half(n) : x = 2*i - 1 \/ x = 2*i
<1>1. /\ Half(n) \in Nat \ {0} /\ Half(n) < n
      /\ n = 2 * Half(n) \/ n = 2 * Half(n) - 1
  BY DEF Half
<1>2. PICK h \in Nat : h = Half(n)
  BY <1>1
<1>3. \A i \in 1 .. h : 2*i - 1 \in 1 .. n /\ (2*i <= n => 2*i \in 1 .. n)
  BY <1>1, <1>2
<1>4. ASSUME NEW x \in 1 .. n PROVE \E i \in 1 .. h : x = 2*i - 1 \/ x = 2*i
  <2>1. PICK i \in Int : i = (x + 1) \div 2
    OBVIOUS
  <2>2. x = 2*i - 1 \/ x = 2*i
    BY <2>1
  <2>3. i \in 1 .. h
    BY <1>1, <1>2, <2>2
  <2> QED
    BY <2>2, <2>3
<1> QED
  BY <1>1, <1>2, <1>3, <1>4

LEMMA NextLayerFacts ==
  ASSUME NEW s, IsSeq(s), Len(s) >= 2, NEW t, t = NextLayer(s)
  PROVE  /\ IsSeq(t) /\ Len(t) = Half(Len(s))
         /\ \A i \in 1 .. Half(Len(s)) : t[i] = hash_pair(s[2*i - 1], Partner(s, i))
<1>1. Len(s) \in Nat
  BY SeqFacts
<1>2. t = [i \in 1 .. Half(Len(s)) |-> hash_pair(s[2*i - 1], Partner(s, i))]
  BY <1>1 DEF NextLayer, Half, Partner
<1>3. Half(Len(s)) \in Nat
  BY <1>1, HalfFacts
<1> QED
  BY <1>2, <1>3, FunctionIsSeq

LEMMA LayerDiffers ==
  ASSUME NEW s, IsSeq(s), Len(s) >= 2, AllDiffer(s)
  PROVE  AllDiffer(NextLayer(s))
<1>1. PICK t, h : t = NextLayer(s) /\ h = Half(Len(s))
  OBVIOUS
<1>2. Len(s) \in Nat /\ h \in Nat
  BY <1>1, SeqFacts, HalfFacts
<1>3. Len(t) = h /\ \A i \in 1 .. h : t[i] = hash_pair(s[2*i - 1], Partner(s, i))
  BY <1>1, NextLayerFacts
<1>4. \A i \in 1 .. h : 2*i - 1 \in 1 .. Len(s)
  BY <1>1, <1>2, HalfFacts
<1>5. ASSUME NEW i \in 1 .. h, NEW j \in 1 .. h, i # j PROVE t[i] # t[j]
  <2>1. 2*i - 1 # 2*j - 1
    BY <1>2, <1>5
  <2>2. s[2*i - 1] # s[2*j - 1]
    BY <1>4, <2>1 DEF AllDiffer
  <2> QED
    BY <1>3, <2>2, PairInjective
<1> QED
  BY <1>1, <1>3, <1>5 DEF AllDiffer

LEMMA LayerDetermined ==
  ASSUME NEW s, NEW t, IsSeq(s), IsSeq(t), Len(s) >= 2, Len(t) >= 2,
         AllDiffer(s), AllDiffer(t), NextLayer(s) = NextLayer(t)
  PROVE  s = t
<1>1. PICK h : h = Half(Len(s))
  OBVIOUS
<1>2. Len(s) \in Nat /\ Len(t) \in Nat /\ h \in Nat \ {0} /\ h = Half(Len(t))
  BY <1>1, SeqFacts, HalfFacts, NextLayerFacts
<1>3. ASSUME NEW i \in 1 .. h
      PROVE  s[2*i - 1] = t[2*i - 1] /\ Partner(s, i) = Partner(t, i)
  BY <1>1, <1>2, NextLayerFacts, PairInjective
<1>4. /\ Len(s) = 2*h \/ Len(s) = 2*h - 1
      /\ Len(t) = 2*h \/ Len(t) = 2*h - 1
  BY <1>1, <1>2, HalfFacts
<1>5. h \in 1 .. h
  BY <1>2
<1>6. ~(Len(s) = 2*h /\ Len(t) = 2*h - 1)
  <2> SUFFICES ASSUME Len(s) = 2*h, Len(t) = 2*h - 1 PROVE FALSE
    OBVIOUS
  <2>1. Partner(s, h) = s[2*h] /\ Partner(t, h) = t[2*h - 1]
    BY <1>2 DEF Partner
  <2>2. s[2*h] = s[2*h - 1]
    BY <1>3, <1>5, <2>1
  <2>3. 2*h \in 1 .. Len(s) /\ 2*h - 1 \in 1 .. Len(s) /\ 2*h # 2*h - 1
    BY <1>2
  <2> QED
    BY <2>2, <2>3 DEF AllDiffer
<1>7. ~(Len(t) = 2*h /\ Len(s) = 2*h - 1)
  <2> SUFFICES ASSUME Len(t) = 2*h, Len(s) = 2*h - 1 PROVE FALSE
    OBVIOUS
  <2>1. Partner(t, h) = t[2*h] /\ Partner(s, h) = s[2*h - 1]
    BY <1>2 DEF Partner
  <2>2. t[2*h] = t[2*h - 1]
    BY <1>3, <1>5, <2>1
  <2>3. 2*h \in 1 .. Len(t) /\ 2*h - 1 \in 1 .. Len(t) /\ 2*h # 2*h - 1
    BY <1>2
  <2> QED
    BY <2>2, <2>3 DEF AllDiffer
<1>8. Len(s) = Len(t)
  BY <1>4, <1>6, <1>7
<1>9. ASSUME NEW x \in 1 .. Len(s) PROVE s[x] = t[x]
  <2>1. PICK i \in 1 .. h : x = 2*i - 1 \/ x = 2*i
    BY <1>1, <1>2, HalfFacts
  <2>2. CASE x = 2*i - 1
    BY <1>3, <2>2
  <2>3. CASE x = 2*i
    <3>1. Partner(s, i) = s[x] /\ Partner(t, i) = t[x]
      BY <1>2, <1>8, <2>3 DEF Partner
    <3> QED
      BY <1>3, <3>1
  <2> QED
    BY <2>1, <2>2, <2>3
<1> QED
  BY <1>8, <1>9 DEF IsSeq

(***************************************************************************)
(* All rounds.  N rounds leave one node of N transactions, and the round   *)
(* that first does so is found from the root: it is the only layer of one  *)
(* node that has been hashed as often as the root was.                     *)
(***************************************************************************)
Layer0(vtx) == [i \in 1 .. Len(vtx) |-> tx_hash(vtx[i])]

IsRounds(r, vtx, n) ==
  r = [k \in 0 .. n |-> IF k = 0 THEN Layer0(vtx) ELSE NextLayer(r[k - 1])]

LEMMA RoundsExist ==
  ASSUME NEW vtx
  PROVE  \A n \in Nat : \E r : IsRounds(r, vtx, n)
<1> DEFINE T == {n \in Nat : \E r : IsRounds(r, vtx, n)}
<1>1. 0 \in T
  <2>1. IsRounds([k \in 0 .. 0 |-> Layer0(vtx)], vtx, 0)
    BY DEF IsRounds
  <2> QED
    BY <2>1
<1>2. ASSUME NEW n \in Nat, n \in T PROVE n + 1 \in T
  <2>1. PICK r : IsRounds(r, vtx, n)
    BY <1>2
  <2> DEFINE q == [k \in 0 .. n + 1 |-> IF k = 0 THEN Layer0(vtx) ELSE NextLayer(r[k - 1])]
  <2>2. \A k \in 0 .. n : q[k] = r[k]
    BY <2>1 DEF IsRounds
  <2>3. \A k \in 0 .. n + 1 : k # 0 => k - 1 \in 0 .. n
    OBVIOUS
  <2>4. IsRounds(q, vtx, n + 1)
    BY <2>2, <2>3 DEF IsRounds
  <2> HIDE DEF q
  <2> QED
    BY <2>4
<1> HIDE DEF T
<1>3. Nat \subseteq T
  BY <1>1, <1>2, InductionSet
<1> QED
  BY <1>3 DEF T

LEMMA MerkleUnfolds ==
  ASSUME NEW vtx, Len(vtx) \in Nat \ {0}
  PROVE  \E r : IsRounds(r, vtx, Len(vtx)) /\ BuildMerkleRoot(vtx) = r[Len(vtx)][1]
<1> DEFINE q == CHOOSE r : r = [k \in 0 .. Len(vtx) |->
                   IF k = 0 THEN [i \in 1 .. Len(vtx) |-> tx_hash(vtx[i])]
                            ELSE NextLayer(r[k - 1])]
<1>1. BuildMerkleRoot(vtx) = q[Len(vtx)][1]
  BY DEF BuildMerkleRoot
<1>2. IsRounds(q, vtx, Len(vtx))
  BY RoundsExist DEF IsRounds, Layer0
<1> QED
  BY <1>1, <1>2

LEMMA RoundsStep ==
  ASSUME NEW vtx, NEW n \in Nat, NEW r, IsRounds(r, vtx, n)
  PROVE  /\ r[0] = Layer0(vtx)
         /\ \A k \in 0 .. n - 1 : r[k + 1] = NextLayer(r[k])
<1>1. 0 \in 0 .. n /\ \A k \in 0 .. n - 1 : k + 1 \in 0 .. n /\ k + 1 # 0 /\ (k + 1) - 1 = k
  OBVIOUS
<1> QED
  BY <1>1 DEF IsRounds

LEMMA Layer0Facts ==
  ASSUME NEW vtx, IsSeq(vtx), AllDiffer(vtx)
  PROVE  /\ IsSeq(Layer0(vtx)) /\ Len(Layer0(vtx)) = Len(vtx) /\ AllDiffer(Layer0(vtx))
         /\ \A i \in 1 .. Len(vtx) : Layer0(vtx)[i] = tx_hash(vtx[i])
<1>1. Len(vtx) \in Nat
  BY SeqFacts
<1>2. PICK s : s = Layer0(vtx)
  OBVIOUS
<1>3. \A i \in 1 .. Len(vtx) : s[i] = tx_hash(vtx[i])
  BY <1>2 DEF Layer0
<1>4. s = [i \in 1 .. Len(vtx) |-> s[i]]
  BY <1>2 DEF Layer0
<1>5. IsSeq(s) /\ Len(s) = Len(vtx)
  BY <1>1, <1>4, FunctionIsSeq
<1>6. AllDiffer(s)
  BY <1>3, <1>5, HashInjective DEF AllDiffer
<1> QED
  BY <1>2, <1>3, <1>5, <1>6

GoodLayer(s, k, n) ==
  /\ IsSeq(s) /\ AllDiffer(s) /\ Len(s) \in Nat \ {0}
  /\ Len(s) = 1 \/ Len(s) + k <= n

LEMMA GoodNextLayer ==
  ASSUME NEW k \in Nat, NEW n \in Nat, NEW s, GoodLayer(s, k, n), k + 1 <= n
  PROVE  GoodLayer(NextLayer(s), k + 1, n)
<1>1. PICK l \in Nat \ {0} : l = Len(s)
  BY DEF GoodLayer
<1>2. CASE l = 1
  <2>1. NextLayer(s) = s
    BY <1>1, <1>2 DEF NextLayer
  <2> QED
    BY <1>1, <1>2, <2>1 DEF GoodLayer
<1>3. CASE l >= 2
  <2>1. IsSeq(NextLayer(s)) /\ Len(NextLayer(s)) = Half(l) /\ AllDiffer(NextLayer(s))
    BY <1>1, <1>3, NextLayerFacts, LayerDiffers DEF GoodLayer
  <2>2. Half(l) \in Nat \ {0} /\ Half(l) < l
    BY <1>3, HalfFacts
  <2>3. l + k <= n
    BY <1>1, <1>3 DEF GoodLayer
  <2>4. Half(l) + (k + 1) <= n
    BY <2>2, <2>3
  <2> QED
    BY <2>1, <2>2, <2>4 DEF GoodLayer
<1> QED
  BY <1>2, <1>3

IsTree(r, n, vtx) ==
  /\ n \in Nat \ {0} /\ n = Len(vtx)
  /\ r[0] = Layer0(vtx)
  /\ \A k \in 0 .. n - 1 : r[k + 1] = NextLayer(r[k])
  /\ \A k \in 0 .. n : GoodLayer(r[k], k, n)

LEMMA MerkleTree ==
  ASSUME NEW vtx, IsSeq(vtx), AllDiffer(vtx), vtx # <<>>
  PROVE  \E r : IsTree(r, Len(vtx), vtx) /\ BuildMerkleRoot(vtx) = r[Len(vtx)][1]
<1>1. PICK n \in Nat \ {0} : n = Len(vtx)
  BY SeqFacts
<1>2. PICK r : IsRounds(r, vtx, n) /\ BuildMerkleRoot(vtx) = r[n][1]
  BY <1>1, MerkleUnfolds
<1>3. /\ r[0] = Layer0(vtx)
      /\ \A k \in 0 .. n - 1 : r[k + 1] = NextLayer(r[k])
  BY <1>2, RoundsStep
<1> DEFINE T == {k \in Nat : k \in 0 .. n => GoodLayer(r[k], k, n)}
<1>4. 0 \in T
  BY <1>1, <1>3, Layer0Facts DEF GoodLayer
<1>5. ASSUME NEW k \in Nat, k \in T PROVE k + 1 \in T
  <2> SUFFICES ASSUME k + 1 \in 0 .. n PROVE GoodLayer(r[k + 1], k + 1, n)
    OBVIOUS
  <2>1. k \in 0 .. n /\ k \in 0 .. n - 1 /\ k + 1 <= n
    OBVIOUS
  <2>2. GoodLayer(r[k], k, n) /\ r[k + 1] = NextLayer(r[k])
    BY <1>3, <1>5, <2>1
  <2> QED
    BY <2>1, <2>2, GoodNextLayer
<1> HIDE DEF T
<1>6. Nat \subseteq T
  BY <1>4, <1>5, InductionSet
<1>7. \A k \in 0 .. n : GoodLayer(r[k], k, n)
  BY <1>6 DEF T
<1> QED
  BY <1>1, <1>2, <1>3, <1>7 DEF IsTree

(***************************************************************************)
(* The top of a tree: its first layer of a single node.                    *)
(***************************************************************************)
IsTop(r, n, a) ==
  /\ a \in 0 .. n /\ Len(r[a]) = 1 /\ r[a][1] = r[n][1]
  /\ \A k \in 0 .. n : k < a => Len(r[k]) >= 2

LEMMA TreeTop ==
  ASSUME NEW vtx, NEW n, NEW r, IsTree(r, n, vtx)
  PROVE  \E a : IsTop(r, n, a)
<1> DEFINE U == {k \in 0 .. n : Len(r[k]) = 1}
<1>0. /\ n \in Nat \ {0}
      /\ \A k \in 0 .. n - 1 : r[k + 1] = NextLayer(r[k])
      /\ \A k \in 0 .. n : GoodLayer(r[k], k, n)
  BY DEF IsTree
<1>1. n \in U /\ U \subseteq Nat
  BY <1>0 DEF GoodLayer
<1>2. PICK a \in U : \A k \in U : a <= k
  <2> HIDE DEF U
  <2> QED
    BY <1>1, LeastMember
<1>3. ASSUME NEW k \in 0 .. n, k < a PROVE Len(r[k]) >= 2
  <2>1. PICK l \in Nat \ {0} : l = Len(r[k])
    BY <1>0 DEF GoodLayer
  <2>2. l # 1
    BY <1>2, <1>3, <2>1
  <2>3. l >= 2
    BY <2>2
  <2> QED
    BY <2>1, <2>3
<1> DEFINE T == {k \in Nat : a + k \in 0 .. n => r[a + k] = r[a]}
<1>4. 0 \in T
  OBVIOUS
<1>5. ASSUME NEW k \in Nat, k \in T PROVE k + 1 \in T
  <2> SUFFICES ASSUME a + (k + 1) \in 0 .. n PROVE r[a + (k + 1)] = r[a]
    OBVIOUS
  <2>1. a + k \in 0 .. n - 1 /\ a + k \in 0 .. n /\ (a + k) + 1 = a + (k + 1)
    BY <1>0
  <2>2. r[a + (k + 1)] = NextLayer(r[a + k])
    BY <1>0, <2>1
  <2>3. r[a + k] = r[a] /\ Len(r[a]) = 1
    BY <1>5, <2>1
  <2>4. NextLayer(r[a]) = r[a]
    BY <2>3 DEF NextLayer
  <2> QED
    BY <2>2, <2>3, <2>4
<1> HIDE DEF T
<1>6. Nat \subseteq T
  BY <1>4, <1>5, InductionSet
<1>7. n - a \in T /\ a + (n - a) = n /\ n \in 0 .. n
  BY <1>0, <1>6
<1>8. r[n] = r[a]
  BY <1>7 DEF T
<1> QED
  BY <1>2, <1>3, <1>8 DEF IsTop

(***************************************************************************)
(* Going down from the tops, the layers of two trees are the same.         *)
(***************************************************************************)
LEMMA TreesDescend ==
  ASSUME NEW v, NEW m, NEW r, IsTree(r, m, v), NEW a, IsTop(r, m, a),
         NEW w, NEW n, NEW s, IsTree(s, n, w), NEW b, IsTop(s, n, b), r[a] = s[b]
  PROVE  \A i \in Nat : i <= a /\ i <= b => r[a - i] = s[b - i]
<1> DEFINE T == {i \in Nat : i <= a /\ i <= b => r[a - i] = s[b - i]}
<1>0. m \in Nat /\ n \in Nat /\ a \in 0 .. m /\ b \in 0 .. n
  BY DEF IsTree, IsTop
<1>1. 0 \in T
  BY <1>0
<1>2. ASSUME NEW i \in Nat, i \in T PROVE i + 1 \in T
  <2> SUFFICES ASSUME i + 1 <= a, i + 1 <= b PROVE r[a - (i + 1)] = s[b - (i + 1)]
    OBVIOUS
  <2>1. PICK x, y : x = a - (i + 1) /\ y = b - (i + 1)
    OBVIOUS
  <2>2. /\ x \in 0 .. m - 1 /\ x \in 0 .. m /\ x < a /\ x + 1 = a - i
        /\ y \in 0 .. n - 1 /\ y \in 0 .. n /\ y < b /\ y + 1 = b - i
    BY <1>0, <2>1
  <2>3. r[a - i] = s[b - i]
    BY <1>0, <1>2
  <2>4. r[x + 1] = NextLayer(r[x]) /\ s[y + 1] = NextLayer(s[y])
    BY <2>2 DEF IsTree
  <2>5. NextLayer(r[x]) = NextLayer(s[y])
    BY <2>2, <2>3, <2>4
  <2>6. IsSeq(r[x]) /\ AllDiffer(r[x]) /\ Len(r[x]) >= 2
    BY <2>2 DEF GoodLayer, IsTree, IsTop
  <2>7. IsSeq(s[y]) /\ AllDiffer(s[y]) /\ Len(s[y]) >= 2
    BY <2>2 DEF GoodLayer, IsTree, IsTop
  <2>8. r[x] = s[y]
    BY <2>5, <2>6, <2>7, LayerDetermined
  <2> QED
    BY <2>1, <2>8
<1> HIDE DEF T
<1>3. Nat \subseteq T
  BY <1>1, <1>2, InductionSet
<1> QED
  BY <1>3 DEF T

(***************************************************************************)
(* A layer above the first is made of pairs, the first one of leaves.      *)
(***************************************************************************)
LEMMA TreesAsHigh ==
  ASSUME NEW v, NEW m, NEW r, IsTree(r, m, v), NEW a, IsTop(r, m, a),
         NEW w, IsSeq(w), AllDiffer(w), NEW n, NEW s, IsTree(s, n, w),
         NEW b, IsTop(s, n, b), r[a] = s[b]
  PROVE  ~(b < a)
<1> SUFFICES ASSUME b < a PROVE FALSE
  OBVIOUS
<1>1. m \in Nat /\ n \in Nat /\ a \in 0 .. m /\ b \in 0 .. n
  BY DEF IsTree, IsTop
<1>2. PICK x : x = a - b - 1
  OBVIOUS
<1>3. /\ x \in 0 .. m - 1 /\ x \in 0 .. m /\ x < a /\ a - b = x + 1
      /\ b \in Nat /\ b <= a /\ b <= b /\ b - b = 0
  BY <1>1, <1>2
<1>4. r[a - b] = s[b - b]
  BY <1>3, TreesDescend
<1>5. r[x + 1] = Layer0(w) /\ r[x + 1] = NextLayer(r[x]) /\ IsSeq(r[x]) /\ Len(r[x]) >= 2
  BY <1>3, <1>4 DEF IsTree, IsTop, GoodLayer
<1>6. Len(r[x]) \in Nat
  BY <1>5, SeqFacts
<1>7. 1 \in 1 .. Half(Len(r[x]))
  BY <1>5, <1>6, HalfFacts
<1>8. r[x + 1][1] = hash_pair(r[x][2*1 - 1], Partner(r[x], 1))
  BY <1>5, <1>7, NextLayerFacts
<1>9. 1 \in 1 .. Len(w)
  BY DEF IsTree
<1>10. Layer0(w)[1] = tx_hash(w[1])
  BY <1>9, Layer0Facts
<1> QED
  BY <1>5, <1>8, <1>10, PairIsNoLeaf

LEMMA MerkleInjective ==
  ASSUME NEW v, NEW w, IsSeq(v), IsSeq(w), v # <<>>, w # <<>>,
         AllDiffer(v), AllDiffer(w), BuildMerkleRoot(v) = BuildMerkleRoot(w)
  PROVE  v = w
<1>1. PICK m, n : m = Len(v) /\ n = Len(w)
  OBVIOUS
<1>2. PICK r : IsTree(r, m, v) /\ BuildMerkleRoot(v) = r[m][1]
  BY <1>1, MerkleTree
<1>3. PICK s : IsTree(s, n, w) /\ BuildMerkleRoot(w) = s[n][1]
  BY <1>1, MerkleTree
<1>4. PICK a : IsTop(r, m, a)
  BY <1>2, TreeTop
<1>5. PICK b : IsTop(s, n, b)
  BY <1>3, TreeTop
<1>6. m \in Nat /\ n \in Nat /\ a \in 0 .. m /\ b \in 0 .. n
  BY <1>2, <1>3, <1>4, <1>5 DEF IsTree, IsTop
<1>7. r[a] = s[b]
  <2>1. IsSeq(r[a]) /\ IsSeq(s[b]) /\ Len(r[a]) = 1 /\ Len(s[b]) = 1
    BY <1>2, <1>3, <1>4, <1>5, <1>6 DEF IsTree, IsTop, GoodLayer
  <2>2. r[a][1] = s[b][1]
    BY <1>2, <1>3, <1>4, <1>5 DEF IsTop
  <2> QED
    BY <2>1, <2>2 DEF IsSeq
<1>8. a = b /\ a \in Nat /\ a - a = 0 /\ b - a = 0 /\ a <= a /\ a <= b
  <2>1. ~(a < b) /\ ~(b < a)
    BY <1>2, <1>3, <1>4, <1>5, <1>7, TreesAsHigh
  <2> QED
    BY <1>6, <2>1
<1>9. r[a - a] = s[b - a]
  BY <1>2, <1>3, <1>4, <1>5, <1>7, <1>8, TreesDescend
<1>10. Layer0(v) = Layer0(w)
  BY <1>2, <1>3, <1>8, <1>9 DEF IsTree
<1>11. m = n /\ \A i \in 1 .. m : tx_hash(v[i]) = tx_hash(w[i])
  BY <1>1, <1>10, Layer0Facts
<1>12. \A i \in 1 .. m : v[i] = w[i]
  BY <1>11, HashInjective
<1>13. v = [i \in 1 .. m |-> v[i]] /\ w = [i \in 1 .. n |-> w[i]]
  BY <1>1 DEF IsSeq
<1> QED
  BY <1>11, <1>12, <1>13

-----------------------------------------------------------------------------
(***************************************************************************)
(* A block hash determines the block, and with it the chain before it: no  *)
(* two transactions of a valid block are equal, so its Merkle root         *)
(* determines them.                                                        *)
(***************************************************************************)
LEMMA HeaderDetermined ==
  ASSUME NEW a, NEW b, GetHash(a) = GetHash(b)
  PROVE  /\ a.hashPrevBlock = b.hashPrevBlock /\ a.hashMerkleRoot = b.hashMerkleRoot
         /\ a.nTime = b.nTime /\ a.nBits = b.nBits
<1> DEFINE Header(x) == [hashPrevBlock  |-> x.hashPrevBlock,
                         hashMerkleRoot |-> x.hashMerkleRoot,
                         nTime          |-> x.nTime,
                         nBits          |-> x.nBits]
<1>1. GetHash(a) = <<"sha256d", Header(a)>> /\ GetHash(b) = <<"sha256d", Header(b)>>
  BY DEF GetHash, hash_double_sha256
<1>2. Header(a) = Header(b)
  <2> HIDE DEF Header
  <2>1. <<"sha256d", Header(a)>> = <<"sha256d", Header(b)>>
    BY <1>1
  <2> QED
    BY <2>1
<1>3. \A x : /\ Header(x).hashPrevBlock = x.hashPrevBlock
             /\ Header(x).hashMerkleRoot = x.hashMerkleRoot
             /\ Header(x).nTime = x.nTime /\ Header(x).nBits = x.nBits
  OBVIOUS
<1> HIDE DEF Header
<1> QED
  BY <1>2, <1>3

LEMMA BlockDetermined ==
  ASSUME NEW c, NEW d, HonestChain(c), HonestChain(d),
         NEW g \in 1 .. Len(c), NEW h \in 1 .. Len(d), GetHash(c[g]) = GetHash(d[h])
  PROVE  c[g] = d[h]
<1>1. /\ IsBlock(c[g]) /\ IsSeq(c[g].vtx) /\ c[g].vtx # <<>>
      /\ IsBlock(d[h]) /\ IsSeq(d[h].vtx) /\ d[h].vtx # <<>>
  BY DEF HonestChain, HonestBlock
<1>2. IsMerkleRootValid(c[g]) /\ IsMerkleRootValid(d[h])
  BY DEF HonestChain, validate_full_chain, ValidBlock
<1>3. AllDiffer(c[g].vtx) /\ AllDiffer(d[h].vtx)
  BY TxsUnique DEF AllDiffer, At
<1>4. /\ c[g].hashPrevBlock = d[h].hashPrevBlock
      /\ c[g].hashMerkleRoot = d[h].hashMerkleRoot
      /\ c[g].nTime = d[h].nTime /\ c[g].nBits = d[h].nBits
  BY HeaderDetermined
<1>5. c[g].vtx = d[h].vtx
  BY <1>1, <1>2, <1>3, <1>4, MerkleInjective DEF IsMerkleRootValid
<1> QED
  BY <1>1, <1>4, <1>5 DEF IsBlock

LEMMA SharedHistory ==
  ASSUME NEW c, NEW d, HonestChain(c), HonestChain(d), NEW k \in 1 .. Len(c),
         NEW l \in 1 .. Len(d), GetHash(c[k]) = GetHash(d[l])
  PROVE  k = l /\ \A g \in 1 .. k : c[g] = d[g]
<1>0. Len(c) \in Nat /\ Len(d) \in Nat /\ k \in Nat
  BY SeqFacts DEF HonestChain
<1>1. k = l
  BY <1>0, SameHashSameHeight
<1> DEFINE T == {i \in Nat : i < k => c[k - i] = d[k - i]}
<1>2. 0 \in T
  <2>1. c[k] = d[k]
    BY <1>1, BlockDetermined
  <2> QED
    BY <1>0, <2>1
<1>3. ASSUME NEW i \in Nat, i \in T PROVE i + 1 \in T
  <2> SUFFICES ASSUME i + 1 < k PROVE c[k - (i + 1)] = d[k - (i + 1)]
    OBVIOUS
  <2>1. PICK x \in Int : x = k - (i + 1)
    BY <1>0
  <2>2. /\ x \in 1 .. Len(c) /\ x \in 1 .. Len(d) /\ (x + 1) - 1 = x /\ x + 1 = k - i
        /\ x + 1 \in 1 .. Len(c) /\ x + 1 \in 1 .. Len(d) /\ x + 1 # 1 /\ i < k
    BY <1>0, <1>1, <2>1
  <2>3. c[x + 1] = d[x + 1]
    BY <1>3, <2>2
  <2>4. c[x + 1].hashPrevBlock = GetHash(c[x]) /\ d[x + 1].hashPrevBlock = GetHash(d[x])
    BY <2>2, LinkFacts
  <2>5. GetHash(c[x]) = GetHash(d[x])
    BY <2>3, <2>4
  <2> QED
    BY <2>1, <2>2, <2>5, BlockDetermined
<1> HIDE DEF T
<1>4. Nat \subseteq T
  BY <1>2, <1>3, InductionSet
<1>5. ASSUME NEW g \in 1 .. k PROVE c[g] = d[g]
  <2>1. k - g \in T /\ k - g < k /\ k - (k - g) = g
    BY <1>0, <1>4
  <2> QED
    BY <2>1 DEF T
<1> QED
  BY <1>1, <1>5

(***************************************************************************)
(* The tip of an honest chain: the chain it stands for, and the chain it   *)
(* links to.                                                               *)
(***************************************************************************)
LEMMA SeqsEqual ==
  ASSUME NEW c, NEW d, IsSeq(c), IsSeq(d), Len(c) = Len(d), \A g \in 1 .. Len(c) : c[g] = d[g]
  PROVE  c = d
<1>1. c = [g \in 1 .. Len(c) |-> c[g]] /\ d = [g \in 1 .. Len(d) |-> d[g]]
  BY DEF IsSeq
<1> QED
  BY <1>1

LEMMA TipHeight ==
  ASSUME NEW c, HonestChain(c)
  PROVE  IsSeq(c) /\ Len(c) \in Nat \ {0} /\ Len(c) \in 1 .. Len(c) /\ Last(c) = c[Len(c)]
<1>1. IsSeq(c) /\ Len(c) \in Nat \ {0}
  BY SeqFacts, HonestNotEmpty DEF HonestChain
<1> QED
  BY <1>1 DEF Last

LEMMA SameTip ==
  ASSUME NEW c, NEW d, HonestChain(c), HonestChain(d), GetHash(Last(c)) = GetHash(Last(d))
  PROVE  c = d
  BY TipHeight, SharedHistory, SeqsEqual

LEMMA LinkedTip ==
  ASSUME NEW c, NEW d, HonestChain(c), HonestChain(d),
         Last(d).hashPrevBlock = GetHash(Last(c))
  PROVE  d = Append(c, Last(d))
<1>1. PICK n : n = Len(d)
  OBVIOUS
<1>2. n \in Nat \ {0} /\ n \in 1 .. Len(d) /\ Last(d) = d[n] /\ IsSeq(d) /\ IsSeq(c)
  BY <1>1, TipHeight
<1>3. n # 1
  BY <1>2, LinkFacts, HeaderHash
<1>4. n - 1 \in 1 .. Len(d)
  BY <1>1, <1>2, <1>3
<1>5. GetHash(c[Len(c)]) = GetHash(d[n - 1])
  BY <1>2, <1>3, LinkFacts, TipHeight
<1>6. Len(c) = n - 1 /\ \A g \in 1 .. Len(c) : c[g] = d[g]
  BY <1>4, <1>5, TipHeight, SharedHistory
<1>7. PICK e : e = Append(c, Last(d))
  OBVIOUS
<1>8. IsSeq(e) /\ Len(e) = n /\ e[n] = Last(d) /\ \A g \in 1 .. Len(c) : e[g] = c[g]
  BY <1>2, <1>6, <1>7, AppendFacts, AppendIsSeq
<1>9. \A g \in 1 .. n : d[g] = e[g]
  <2>1. \A g \in 1 .. n : g \in 1 .. Len(c) \/ g = n
    BY <1>2, <1>6
  <2> QED
    BY <1>2, <1>6, <1>8, <2>1
<1> QED
  BY <1>1, <1>2, <1>7, <1>8, <1>9, SeqsEqual

(***************************************************************************)
(* try_extend_chain refuses no block that validate_full_chain takes,       *)
(* unless a transaction of the block spends what the block itself pays.    *)
(***************************************************************************)
LEMMA ValidBlockExtends ==
  ASSUME NEW c, HonestChain(c), NEW blk, HonestChain(Append(c, blk)),
         \A i, j \in 1 .. Len(blk.vtx) : Outputs(blk.vtx[i]) \cap Inputs(blk.vtx[j]) = {}
  PROVE  try_extend_chain(c, blk)
<1>1. PICK d, n, U : d = Append(c, blk) /\ n = Len(c) + 1 /\ U = build_utxo_set(c)
  OBVIOUS
<1>2. IsSeq(c) /\ Len(c) \in Nat \ {0} /\ n \in Nat /\ n # 1 /\ n - 1 = Len(c)
  BY <1>1, TipHeight
<1>3. /\ Len(d) = n /\ d[n] = blk /\ d[n - 1] = Last(c) /\ SubSeq(d, 1, n - 1) = c
      /\ \A g \in 1 .. n - 1 : d[g] = c[g]
  <2>1. n - 1 \in 1 .. n - 1 /\ Last(c) = c[n - 1]
    BY <1>2 DEF Last
  <2> QED
    BY <1>1, <1>2, <2>1, AppendFacts
<1>4. n \in 1 .. Len(d)
  BY <1>2, <1>3
<1>5. ValidBlock(d, n) /\ Len(blk.vtx) \in Nat
  BY <1>1, <1>3, <1>4, SeqFacts DEF HonestChain, validate_full_chain, HonestBlock
<1> DEFINE R(i) == ReplayedUtxo(d, n, i)
           e == [i \in 1 .. Len(blk.vtx) |-> FeeOf(blk, i, R(i))]
           f == [i \in 1 .. Len(blk.vtx) |-> FeeOf(blk, i, U)]
<1>6. /\ IsMerkleRootValid(blk) /\ check_proof_of_work(blk)
      /\ blk.hashPrevBlock = GetHash(Last(c))
      /\ blk.nBits = get_next_work_required(c)
      /\ blk.vtx # <<>> /\ IsCoinbase(blk.vtx[1])
      /\ \A i \in 1 .. Len(blk.vtx) : FeeOf(blk, i, R(i)) >= 0
      /\ TotalValue(blk.vtx[1].vout) = calculate_block_reward(Len(c)) + SumFunction(e)
  BY <1>2, <1>3, <1>5 DEF ValidBlock, FeeOf
<1>7. ASSUME NEW i \in 1 .. Len(blk.vtx) PROVE FeeOf(blk, i, R(i)) = FeeOf(blk, i, U)
  <2>1. CASE IsCoinbase(blk.vtx[i])
    BY <2>1 DEF FeeOf
  <2>2. CASE ~IsCoinbase(blk.vtx[i])
    <3>1. PICK V : V = R(i)
      OBVIOUS
    <3>2. validate_and_get_fee(blk.vtx[i], V) >= 0
      BY <1>6, <2>2, <3>1 DEF FeeOf
    <3>3. Inputs(blk.vtx[i]) \subseteq V
      BY <3>2, FeeNeedsInputs
    <3>4. ASSUME NEW o \in Inputs(blk.vtx[i]) PROVE o \in U
      <4>1. PICK g, j : UnspentFrom(d, n, i, g, j, o)
        BY <3>1, <3>3, InReplayed
      <4>2. g \in 1 .. n /\ o \in Outputs(d[g].vtx[j]) /\ Earlier(d, n, i, g, j)
        BY <4>1 DEF UnspentFrom, Earlier
      <4>3. g # n
        <5> SUFFICES ASSUME g = n PROVE FALSE
          OBVIOUS
        <5>1. j \in 1 .. Len(blk.vtx)
          BY <1>5, <4>2 DEF Earlier
        <5> QED
          BY <1>3, <4>2, <5>1
      <4>4. \A k, l : At(c, k, l) => Earlier(d, n, i, k, l) /\ d[k] = c[k]
        <5>1. \A k : k \in 1 .. n - 1 => k \in 1 .. n /\ k # n
          BY <1>2
        <5> QED
          BY <1>2, <1>3, <5>1 DEF At, Earlier
      <4>5. At(c, g, j) /\ d[g] = c[g]
        <5>1. g \in 1 .. n - 1
          BY <1>2, <4>2, <4>3
        <5> QED
          BY <1>2, <1>3, <4>2, <4>3, <5>1 DEF At, Earlier
      <4>6. PICK H, I : H = Len(c) /\ I = Len(Last(c).vtx) + 1
        OBVIOUS
      <4>7. \A k, l : Earlier(c, H, I, k, l) <=> At(c, k, l)
        <5>1. H \in Nat \ {0} /\ H \in 1 .. H /\ Last(c) = c[H] /\ Len(c[H].vtx) \in Nat
          BY <1>2, <4>6, SeqFacts, HonestHasSeqs DEF HasSeqs, Last
        <5>2. I - 1 = Len(c[H].vtx)
          BY <4>6, <5>1
        <5> QED
          BY <4>6, <5>1, <5>2 DEF Earlier, At
      <4>8. UnspentFrom(c, H, I, g, j, o)
        BY <4>1, <4>4, <4>5, <4>7 DEF UnspentFrom
      <4> QED
        BY <1>1, <4>6, <4>8, InReplayed, UtxoViews
    <3>5. validate_and_get_fee(blk.vtx[i], V) = validate_and_get_fee(blk.vtx[i], U)
      BY <3>3, <3>4, FeeSameUtxo
    <3> QED
      BY <3>1, <3>5 DEF FeeOf
  <2> QED
    BY <2>1, <2>2
<1>8. e = f
  BY <1>7
<1>9. \A i \in 1 .. Len(blk.vtx) : FeeOf(blk, i, U) >= 0
  BY <1>6, <1>7
<1>10. TotalValue(blk.vtx[1].vout) = calculate_block_reward(Len(c)) + SumFunction(f)
  BY <1>6, <1>8
<1> QED
  BY <1>1, <1>6, <1>9, <1>10 DEF try_extend_chain, FeeOf

(***************************************************************************)
(* The work of a chain, and of the chains it has grown from.               *)
(***************************************************************************)
LEMMA HonestWork == ASSUME NEW c, HonestChain(c) PROVE calculate_chain_work(c) \in Int
<1>1. IsSeq(c) /\ Len(c) \in Nat \ {0} /\ \A h \in 1 .. Len(c) : c[h].nBits \in nBitsRange
  BY TipHeight DEF HonestChain, HonestBlock
<1>2. c \in Seq(Range(c)) /\ c[1] \in Range(c) /\ c[1].nBits \in nBitsRange
  BY <1>1, SeqFacts DEF IsSeq
<1> QED
  BY <1>1, <1>2, ChainWorkAppend

LEMMA PrefixWork ==
  ASSUME NEW c, NEW d, HonestChain(c), HonestChain(d), IsPrefixOf(c, d)
  PROVE  calculate_chain_work(c) <= calculate_chain_work(d)
<1> DEFINE f == [h \in 1 .. Len(c) |-> calculate_block_work(c[h].nBits)]
           e == [h \in 1 .. Len(d) |-> calculate_block_work(d[h].nBits)]
           S(k) == SumFunctionOnSet(e, 1 .. k)
           T == {k \in Nat : Len(c) + k <= Len(d) => S(Len(c) + k) >= S(Len(c))}
<1>1. Len(c) \in Nat /\ Len(d) \in Nat /\ Len(c) <= Len(d)
  BY TipHeight DEF IsPrefixOf
<1>2. \A h \in 1 .. Len(d) : d[h].nBits \in nBitsRange
  BY DEF HonestChain, HonestBlock
<1>3. \A h \in 1 .. Len(d) : e[h] \in Nat
  BY <1>2, WorkNat
<1>4. calculate_chain_work(d) = S(Len(d))
  BY SumIsOnDomain DEF calculate_chain_work
<1>5. calculate_chain_work(c) = SumFunctionOnSet(f, 1 .. Len(c))
  BY SumIsOnDomain DEF calculate_chain_work
<1>6. \A h \in 1 .. Len(c) : e[h] = f[h]
  <2>1. \A h \in 1 .. Len(c) : h \in 1 .. Len(d) /\ d[h] = c[h]
    BY <1>1 DEF IsPrefixOf
  <2> QED
    BY <2>1
<1> HIDE DEF e, f
<1>7. calculate_chain_work(c) = S(Len(c))
  BY <1>1, <1>5, <1>6, RangeFinite, SumCongruence
<1>8. \A k \in 0 .. Len(d) : S(k) \in Int
  <2> SUFFICES ASSUME NEW k \in 0 .. Len(d) PROVE S(k) \in Int
    OBVIOUS
  <2>1. k \in Nat /\ \A h \in 1 .. k : e[h] \in Int
    BY <1>1, <1>3
  <2> QED
    BY <2>1, RangeFinite, SumInt
<1>9. 0 \in T
  <2>1. Len(c) + 0 = Len(c) /\ Len(c) \in 0 .. Len(d)
    BY <1>1
  <2> HIDE DEF S
  <2> QED
    BY <1>8, <2>1
<1>10. ASSUME NEW k \in Nat, k \in T PROVE k + 1 \in T
  <2> SUFFICES ASSUME Len(c) + (k + 1) <= Len(d) PROVE S(Len(c) + (k + 1)) >= S(Len(c))
    OBVIOUS
  <2>1. PICK l \in Nat : l = Len(c) + k
    BY <1>1
  <2>2. /\ l \in 0 .. Len(d) /\ l + 1 \in 0 .. Len(d) /\ l + 1 \in 1 .. Len(d)
        /\ Len(c) + (k + 1) = l + 1 /\ Len(c) \in 0 .. Len(d) /\ l <= Len(d)
    BY <1>1, <2>1
  <2>3. \A h \in 1 .. l + 1 : e[h] \in Int
    BY <1>1, <1>3, <2>2
  <2>4. S(l + 1) = e[l + 1] + S(l)
    BY <2>3, SumLast
  <2>5. S(l) >= S(Len(c))
    BY <1>10, <2>1, <2>2
  <2>6. e[l + 1] \in Nat /\ S(l) \in Int /\ S(l + 1) \in Int /\ S(Len(c)) \in Int
    BY <1>3, <1>8, <2>2
  <2>7. \A x, y, z \in Int : \A w \in Nat : x = w + y /\ y >= z => x >= z
    OBVIOUS
  <2> HIDE DEF S
  <2> QED
    BY <2>2, <2>4, <2>5, <2>6, <2>7
<1> HIDE DEF T
<1>11. Nat \subseteq T
  BY <1>9, <1>10, InductionSet
<1>12. Len(d) - Len(c) \in T /\ Len(c) + (Len(d) - Len(c)) = Len(d)
  BY <1>1, <1>11
<1>13. S(Len(d)) >= S(Len(c)) /\ S(Len(d)) \in Int /\ S(Len(c)) \in Int
  <2>1. Len(d) \in 0 .. Len(d) /\ Len(c) \in 0 .. Len(d) /\ Len(d) <= Len(d)
    BY <1>1
  <2> HIDE DEF S
  <2> QED
    BY <1>8, <1>12, <2>1 DEF T
<1> HIDE DEF S
<1> QED
  BY <1>4, <1>7, <1>13
=============================================================================
