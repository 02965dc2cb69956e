------------------------------ MODULE MCCodec ------------------------------
(***************************************************************************)
(* Inputs of the byte formats: short strings over the bytes and digits at  *)
(* the edges of the bases, long ones of the largest digit, and records     *)
(* with every count, an empty script and the smallest and largest numbers. *)
(***************************************************************************)
EXTENDS Codec

MCByteStrings ==
  SeqOf({0, 1, 57, 58, 255}, 3) \cup {Repeat(0, z) \o Repeat(255, n) : z \in 0 .. 1, n \in 4 .. 25}

MCBase58Strings ==
  SeqOf({0, 1, 57, 58}, 3) \cup {Repeat(0, z) \o Repeat(57, n) : z \in 0 .. 1, n \in 4 .. 35}

MCAddresses ==
  {Repeat(b, ADDRESS_SIZE) : b \in {0, 1, 58, 255}}
    \cup {Repeat(0, n) \o Repeat(255, ADDRESS_SIZE - n) : n \in 1 .. 3}

Scripts == {<<>>, <<0, 255>>}
Hashes == {<<0, 0>>, <<255, 1>>}
UInt32s == {0, 65535}

OutPoints == [txid : Hashes, n : UInt32s]
TxIns == [prevout : {[txid |-> <<255, 1>>, n |-> 256]}, scriptSig : Scripts, nSequence : UInt32s]
TxOuts == [nValue : {-1, 0, 8388607}, scriptPubKey : Scripts]

ATxIn == [prevout |-> [txid |-> <<0, 0>>, n |-> 65535], scriptSig |-> <<>>, nSequence |-> 1]
ATxOut == [nValue |-> -8388608, scriptPubKey |-> <<0>>]

Txs == [nVersion : {-32768, 1},
        vin : {<<>>} \cup {<<ATxIn, in>> : in \in TxIns} \cup {<<in>> : in \in TxIns},
        vout : {<<>>} \cup {<<out, ATxOut>> : out \in TxOuts},
        nLockTime : {256}]

ATx == [nVersion |-> 1, vin |-> <<ATxIn>>, vout |-> <<>>, nLockTime |-> 0]
SomeTxs == {tx \in Txs : tx.nVersion = 1 /\ Len(tx.vin) + Len(tx.vout) = 3}

MCMempools == {<<>>} \cup {<<tx>> : tx \in Txs} \cup {<<ATx, tx>> : tx \in SomeTxs}

Headers == [nVersion : {-1, 1}, hashPrevBlock : {<<0, 0>>}, hashMerkleRoot : {<<255, 1>>},
            nTime : UInt32s, nBits : {257}, nNonce : UInt32s]
Blocks == {[header |-> h, vtx |-> txs] :
             h \in Headers, txs \in {<<>>, <<ATx>>, <<ATx, ATx>>}}

MCChains == {<<>>} \cup {<<b>> : b \in Blocks}
              \cup {<<b, c>> : b \in {b \in Blocks : b.header.nTime = b.header.nNonce /\ b.header.nVersion = 1},
                          c \in {c \in Blocks : c.header.nVersion = -1 /\ c.header.nNonce = 0}}

MCUtxoLists ==
  {<<>>} \cup {<<[outpoint |-> o, txout |-> t]>> : o \in OutPoints, t \in TxOuts}
    \cup {<<[outpoint |-> ATxIn.prevout, txout |-> ATxOut], [outpoint |-> o, txout |-> t]>> :
            o \in OutPoints, t \in TxOuts}

MCMessages == [command : {<<>>, <<86>>, <<86, 69, 82>>, <<86, 69, 82, 83>>},
               payload : {Repeat(3, n) : n \in 0 .. MAX_PAYLOAD_SIZE + 1} \cup {<<3, 1>>}]

SpendTxs == {[ATx EXCEPT !.vin = vin, !.vout = <<[nValue |-> v, scriptPubKey |-> <<>>]>>] :
               vin \in {<<ATxIn>>, <<ATxIn, ATxIn>>}, v \in 1 .. 2}
\* Signatures and keys are cut short only where nothing else is wrong.
MCSpends ==
  LET keys == 1 .. 2
      Spend(tx, signed, signer, shown, owner, sigSize, pubkeySize) ==
        [tx |-> tx, signed |-> signed, signer |-> signer, shown |-> shown, owner |-> owner,
         sigSize |-> sigSize, pubkeySize |-> pubkeySize]
  IN  {Spend(tx, signed, signer, shown, owner, SIGNATURE_SIZE, PUBKEY_SIZE) :
         tx \in SpendTxs, signed \in SpendTxs, signer \in keys, shown \in keys, owner \in keys}
        \cup {Spend(tx, tx, key, key, key, sigSize, pubkeySize) :
                tx \in SpendTxs, key \in keys,
                sigSize \in {0, SIGNATURE_SIZE - 1, SIGNATURE_SIZE},
                pubkeySize \in {0, PUBKEY_SIZE - 1, PUBKEY_SIZE}}

MCPurses == {p \in SeqOf({1, 2, 3, 5, 9, 20}, 3) :
               SumFunction(p) <= INT64_MAX}
=============================================================================
