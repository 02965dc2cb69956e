------------------------------- MODULE Codec -------------------------------
(***************************************************************************)
(* The byte formats: Base58Check addresses (wallet/base58.h), the          *)
(* serialised form of transactions, blocks, chains and mempools            *)
(* (core/serializer.h, core/transaction.cpp, core/block.cpp, storage/),    *)
(* the script machine (wallet/script.h) and the wallet's 64-bit sums       *)
(* (wallet/wallet.h, network/node.h).                                      *)
(*                                                                         *)
(* A byte string is a sequence of numbers.  Base58 has the program's own   *)
(* bases; the serialised integers and the sums have the widths of the      *)
(* constants.  What a hash or a signature is made from stands for its      *)
(* bytes, so that two of them are equal when what they are made from is.   *)
(*                                                                         *)
(* These are functions without state of their own: the specification picks *)
(* an input, and each property states what the code makes of it.           *)
(***************************************************************************)
EXTENDS Sequences, SequencesExt, Functions, Powers

CONSTANTS
  BYTE,          \* values of a byte
  UINT32_BYTES,  \* bytes of a uint32_t
  UINT64_BYTES,  \* bytes of a uint64_t
  HASH_BYTES,    \* bytes of a hash
  COMMAND_SIZE,  \* bytes of the command field of a message
  MAX_PAYLOAD_SIZE,
  INT64_MAX,     \* largest int64_t of the sums
  DEFAULT_FEE,
  DUST_THRESHOLD,
  ByteStrings,   \* inputs of base58_encode
  Base58Strings, \* inputs of base58_decode
  Addresses,     \* inputs of encode_address
  Chains,        \* sequences of blocks
  Mempools,      \* sequences of transactions
  UtxoLists,     \* entries of a UTXO set, in the order they are written
  Messages,      \* commands with their payloads
  Spends,        \* a transaction with the keys and the hash of its scriptSig
  Purses,        \* the values of a wallet's unspent outputs, in map order
  Amounts        \* amounts parse_amount lets through

VARIABLE picked  \* what is encoded, sent, signed or paid

ASSUME CodecAssumption ==
  /\ {UINT32_BYTES, UINT64_BYTES, HASH_BYTES, COMMAND_SIZE} \subseteq Nat \ {0}
  /\ BYTE \in Nat \ {0, 1}
  /\ {INT64_MAX, DEFAULT_FEE, DUST_THRESHOLD, MAX_PAYLOAD_SIZE} \subseteq Nat
  /\ DEFAULT_FEE + DUST_THRESHOLD <= INT64_MAX
  /\ Amounts \subseteq 1 .. INT64_MAX
  /\ \A purse \in Purses : purse \in Seq(Nat) /\ SumFunction(purse) <= INT64_MAX

Repeat(x, n) == [i \in 1 .. n |-> x]

-----------------------------------------------------------------------------
(***************************************************************************)
(* Base58.  A digit of the input is added to the number held by digits     *)
(* (least significant first), multiplied by its base.  A carry out of the  *)
(* last of them is lost.                                                   *)
(***************************************************************************)
AddDigit(digits, digit, from, to) ==
  LET carry[k \in 0 .. Len(digits)] ==
        IF k = 0 THEN digit ELSE (carry[k - 1] + from * digits[k]) \div to
  IN  [k \in 1 .. Len(digits) |-> (carry[k - 1] + from * digits[k]) % to]

\* The digits after the leading ones.
Stripped(s, leading) == SubSeq(s, leading + 1, Len(s))

Leading(s) == CHOOSE k \in 0 .. Len(s) :
                /\ \A i \in 1 .. k : s[i] = 0
                /\ k < Len(s) => s[k + 1] # 0

(***************************************************************************)
(* Both directions: leading zeros are copied, the rest is converted in a   *)
(* buffer of size digits and written without leading zeros.                *)
(***************************************************************************)
Converted(input, size, from, to) ==
  LET rest == Stripped(input, Leading(input))
      digits[k \in 0 .. Len(rest)] ==
        IF k = 0 THEN Repeat(0, size) ELSE AddDigit(digits[k - 1], rest[k], from, to)
      number == Reverse(digits[Len(rest)])
  IN  Repeat(0, Leading(input)) \o Stripped(number, Leading(number))

\* Mistake: the buffer is not rounded up.
EncodeTight(input) ==
  Converted(input, ((Len(input) - Leading(input)) * 138) \div 100, 256, 58)

base58_encode(input) ==
  Converted(input, ((Len(input) - Leading(input)) * 138) \div 100 + 1, 256, 58)

\* What stands for the result where the code throws.
Thrown == <<-1>>

base58_decode(str) ==
  IF \A i \in 1 .. Len(str) : str[i] < 58
  THEN Converted(str, ((Len(str) - Leading(str)) * 733) \div 1000 + 1, 58, 256)
  ELSE Thrown

(***************************************************************************)
(* Addresses.  checksum stands for the first four bytes of what            *)
(* crypto::hash_double_sha256 makes.                                       *)
(***************************************************************************)
ADDRESS_SIZE == 20
ADDRESS_VERSION_BYTE == 30

checksum(bytes) ==
  LET mix[k \in 0 .. Len(bytes)] ==
        IF k = 0 THEN 1 ELSE (31 * mix[k - 1] + bytes[k] + 7) % 65521
      hash == mix[Len(bytes)]
  IN  <<hash \div 256, hash % 256, (hash + 85) % 256, hash % 251>>

encode_address(address) ==
  LET payload == <<ADDRESS_VERSION_BYTE>> \o address
  IN  base58_encode(payload \o checksum(payload))

decode_address(text) ==
  LET decoded == base58_decode(text)
      payload == SubSeq(decoded, 1, 1 + ADDRESS_SIZE)
  IN  IF /\ Len(decoded) = 1 + ADDRESS_SIZE + 4
         /\ decoded[1] = ADDRESS_VERSION_BYTE
         /\ checksum(payload) = SubSeq(decoded, 2 + ADDRESS_SIZE, Len(decoded))
      THEN Tail(payload) ELSE Thrown

ASSUME Base58Assumption ==
  /\ ByteStrings \subseteq Seq(0 .. 255)
  /\ Base58Strings \subseteq Seq(Nat)
  /\ \A address \in Addresses : address \in Seq(0 .. 255) /\ Len(address) = ADDRESS_SIZE

-----------------------------------------------------------------------------
(***************************************************************************)
(* Writing: integers are little-endian, a negative one as its two's        *)
(* complement.                                                             *)
(***************************************************************************)
write_uint(value, width) ==
  [i \in 1 .. width |-> (value \div Power(BYTE, i - 1)) % BYTE]

write_uint_32LE(value) == write_uint(value, UINT32_BYTES)
write_uint_64LE(value) == write_uint(value, UINT64_BYTES)
write_var_int32(value) == write_uint_32LE(value)

write_script(s) == write_var_int32(Len(s)) \o s

\* The loops of the serialisers: a count and the serialised items, back to back.
write_items(items, Serialize(_)) ==
  write_var_int32(Len(items)) \o FlattenSeq([i \in 1 .. Len(items) |-> Serialize(items[i])])

COutPoint_Serialize(o) == o.txid \o write_uint_32LE(o.n)

\* Mistake: the length of an empty scriptSig is not written.
SerializeNoEmptyLength(in) ==
  COutPoint_Serialize(in.prevout)
    \o (IF in.scriptSig = <<>> THEN <<>> ELSE write_script(in.scriptSig))
    \o write_uint_32LE(in.nSequence)

CTxIn_Serialize(in) ==
  COutPoint_Serialize(in.prevout) \o write_script(in.scriptSig)
    \o write_uint_32LE(in.nSequence)

CTxOut_Serialize(out) == write_uint_64LE(out.nValue) \o write_script(out.scriptPubKey)

Transaction_Serialize(tx) ==
  write_uint_32LE(tx.nVersion) \o write_items(tx.vin, CTxIn_Serialize)
    \o write_items(tx.vout, CTxOut_Serialize) \o write_uint_32LE(tx.nLockTime)

CBlockHeader_Serialize(h) ==
  write_uint_32LE(h.nVersion) \o h.hashPrevBlock \o h.hashMerkleRoot
    \o write_uint_32LE(h.nTime) \o write_uint_32LE(h.nBits)
    \o write_uint_32LE(h.nNonce)

CBlock_Serialize(blk) ==
  CBlockHeader_Serialize(blk.header) \o write_items(blk.vtx, Transaction_Serialize)

serialize_chain(chain) == write_items(chain, CBlock_Serialize)

save_mempool(mempool) == write_items(mempool, Transaction_Serialize)

UtxoEntry_Serialize(e) == COutPoint_Serialize(e.outpoint) \o CTxOut_Serialize(e.txout)

save_utxo_set(entries) == write_items(entries, UtxoEntry_Serialize)

(***************************************************************************)
(* What is written: bytes, numbers of their width, and vectors whose size  *)
(* fits in the four bytes of the count before them, to which the code      *)
(* casts it.                                                               *)
(***************************************************************************)
Byte == 0 .. BYTE - 1
UIntOf(width) == 0 .. Power(BYTE, width) - 1
IntOf(width) == {n \in Int : 2 * n \in -Power(BYTE, width) .. Power(BYTE, width) - 1}
VectorOf(S) == {s \in Seq(S) : Len(s) \in UIntOf(UINT32_BYTES)}

Hash == {s \in Seq(Byte) : Len(s) = HASH_BYTES}
COutPoint == [txid : Hash, n : UIntOf(UINT32_BYTES)]
CTxIn == [prevout : COutPoint, scriptSig : VectorOf(Byte), nSequence : UIntOf(UINT32_BYTES)]
CTxOut == [nValue : IntOf(UINT64_BYTES), scriptPubKey : VectorOf(Byte)]
Transaction == [nVersion : IntOf(UINT32_BYTES), vin : VectorOf(CTxIn),
                 vout : VectorOf(CTxOut), nLockTime : UIntOf(UINT32_BYTES)]
CBlockHeader == [nVersion : IntOf(UINT32_BYTES), hashPrevBlock : Hash,
                 hashMerkleRoot : Hash, nTime : UIntOf(UINT32_BYTES),
                 nBits : UIntOf(UINT32_BYTES), nNonce : UIntOf(UINT32_BYTES)]
CBlock == [header : CBlockHeader, vtx : VectorOf(Transaction)]
UtxoEntry == [outpoint : COutPoint, txout : CTxOut]

\* A command has no zero byte and fits in its field.
ASSUME FormatAssumption ==
  /\ Chains \subseteq VectorOf(CBlock)
  /\ Mempools \subseteq VectorOf(Transaction)
  /\ UtxoLists \subseteq VectorOf(UtxoEntry)
  /\ \A m \in Messages : /\ m \in [command : Seq(Byte \ {0}), payload : VectorOf(Byte)]
                         /\ Len(m.command) <= COMMAND_SIZE

(***************************************************************************)
(* Reading: a cursor holds the buffer, the offset and the values read so   *)
(* far.  in.at(), read_bytes and read_bytes32 throw beyond the end; the    *)
(* caller then gets nothing (ok is FALSE).  Readers are applied one to the *)
(* result of the other: the innermost one reads first.                     *)
(***************************************************************************)
Cursor(bytes) == [in |-> bytes, offset |-> 0, ok |-> TRUE, vals |-> <<>>]

\* The last n values become one.
Joined(c, n, value) ==
  IF c.ok THEN [c EXCEPT !.vals = Append(SubSeq(@, 1, Len(@) - n), value)] ELSE c

\* The last values become a record of the given fields, or a sequence.
AsRecord(c, names) ==
  Joined(c, Len(names),
         [name \in ToSet(names) |-> c.vals[Len(c.vals) - Len(names)
                                             + SelectInSeq(names, LAMBDA x : x = name)]])

AsSequence(c, n) == Joined(c, n, SubSeq(c.vals, Len(c.vals) - n + 1, Len(c.vals)))

\* Mistake: what is left of the buffer is read without an error.
read_what_is_left(c, len) ==
  LET end == IF c.offset + len <= Len(c.in) THEN c.offset + len ELSE Len(c.in)
  IN  [c EXCEPT !.offset = end, !.vals = Append(@, SubSeq(c.in, c.offset + 1, end))]

read_bytes(c, len) ==
  IF c.ok /\ c.offset + len <= Len(c.in)
  THEN [c EXCEPT !.offset = @ + len,
                 !.vals = Append(@, SubSeq(c.in, c.offset + 1, c.offset + len))]
  ELSE [c EXCEPT !.ok = FALSE]

Unsigned(c) ==
  LET bytes == Last(c.vals)
  IN  Joined(c, 1, SumFunction([i \in DOMAIN bytes |-> bytes[i] * Power(BYTE, i - 1)]))

Signed(c, width) ==
  LET value == Last(c.vals)
      limit == Power(BYTE, width)
  IN  Joined(c, 1, IF 2 * value >= limit THEN value - limit ELSE value)

read_uint(c, width) == Unsigned(read_bytes(c, width))
read_int(c, width)  == Signed(read_uint(c, width), width)

read_uint_32LE(c) == read_uint(c, UINT32_BYTES)
read_var_int32(c) == read_uint_32LE(c)

\* The count read last, and the cursor without it.
Count(c)   == Last(c.vals)
Counted(c) == [c EXCEPT !.vals = Front(@)]

BytesOfCount(c) == IF c.ok THEN read_bytes(Counted(c), Count(c)) ELSE c

read_script(c) == BytesOfCount(read_var_int32(c))

\* The loops of the deserialisers: a count, then that many items or the first failure.
ItemsOfCount(c, Deserialize(_)) ==
  LET count == Count(c)
      after[k \in 0 .. count] == IF k = 0 THEN Counted(c) ELSE Deserialize(after[k - 1])
  IN  IF c.ok THEN AsSequence(after[count], count) ELSE c

read_items(c, Deserialize(_)) == ItemsOfCount(read_var_int32(c), Deserialize)

COutPoint_Deserialize(c) ==
  AsRecord(read_uint_32LE(read_bytes(c, HASH_BYTES)), <<"txid", "n">>)

CTxIn_Deserialize(c) ==
  AsRecord(read_uint_32LE(read_script(COutPoint_Deserialize(c))),
           <<"prevout", "scriptSig", "nSequence">>)

CTxOut_Deserialize(c) ==
  AsRecord(read_script(read_int(c, UINT64_BYTES)), <<"nValue", "scriptPubKey">>)

Transaction_Deserialize(c) ==
  LET nVersion == read_int(c, UINT32_BYTES)
      vin      == read_items(nVersion, CTxIn_Deserialize)
      vout     == read_items(vin, CTxOut_Deserialize)
  IN  AsRecord(read_uint_32LE(vout), <<"nVersion", "vin", "vout", "nLockTime">>)

CBlockHeader_Deserialize(c) ==
  LET nVersion       == read_int(c, UINT32_BYTES)
      hashPrevBlock  == read_bytes(nVersion, HASH_BYTES)
      hashMerkleRoot == read_bytes(hashPrevBlock, HASH_BYTES)
      nTime          == read_uint_32LE(hashMerkleRoot)
      nBits          == read_uint_32LE(nTime)
  IN  AsRecord(read_uint_32LE(nBits), <<"nVersion", "hashPrevBlock", "hashMerkleRoot",
                                        "nTime", "nBits", "nNonce">>)

CBlock_Deserialize(c) ==
  AsRecord(read_items(CBlockHeader_Deserialize(c), Transaction_Deserialize),
           <<"header", "vtx">>)

deserialize_chain(bytes) == read_items(Cursor(bytes), CBlock_Deserialize)

load_mempool(bytes) == read_items(Cursor(bytes), Transaction_Deserialize)

UtxoEntry_Deserialize(c) ==
  AsRecord(CTxOut_Deserialize(COutPoint_Deserialize(c)), <<"outpoint", "txout">>)

load_utxo_set(bytes) == read_items(Cursor(bytes), UtxoEntry_Deserialize)

-----------------------------------------------------------------------------
(***************************************************************************)
(* Messages on a stream.                                                   *)
(***************************************************************************)
MAGIC_BYTES == <<3, 1>>

\* Stands for the first bytes of a double SHA-256 of the payload.
message_checksum(payload) ==
  LET hash[k \in 0 .. Len(payload)] ==
        IF k = 0 THEN 1 ELSE (3 * hash[k - 1] + payload[k] + 1) % BYTE
  IN  <<hash[Len(payload)]>>

send_message(command, payload) ==
  MAGIC_BYTES
    \o [i \in 1 .. COMMAND_SIZE |-> IF i <= Len(command) THEN command[i] ELSE 0]
    \o write_uint_32LE(Len(payload)) \o message_checksum(payload) \o payload

\* Mistake: the zeros behind the command are kept.
untrimmed(field) == field

trimmed(field) ==
  LET end == SelectInSeq(field, LAMBDA b : b = 0)
  IN  IF end = 0 THEN field ELSE SubSeq(field, 1, end - 1)

\* The header is checked before the payload is read, the checksum after.
receive_message(c) ==
  LET magic   == read_bytes(c, Len(MAGIC_BYTES))
      length  == read_uint_32LE(read_bytes(magic, COMMAND_SIZE))
      header  == AsRecord(read_bytes(length, 1), <<"magic", "command", "length", "checksum">>)
      h       == Last(header.vals)
      payload == read_bytes(header, h.length)
      good    == /\ header.ok /\ h.magic = MAGIC_BYTES /\ h.length <= MAX_PAYLOAD_SIZE
                 /\ payload.ok /\ h.checksum = message_checksum(Last(payload.vals))
  IN  IF good
      THEN Joined(payload, 2, [command |-> trimmed(h.command), payload |-> Last(payload.vals)])
      ELSE [c EXCEPT !.ok = FALSE]

-----------------------------------------------------------------------------
(***************************************************************************)
(* Keys, hashes and signatures (crypto/ecdsa.h).  A key pair is named by   *)
(* one number.                                                             *)
(***************************************************************************)
SIGNATURE_SIZE == 64
PUBKEY_SIZE == 33

compressed_pubkey(key) == <<2>> \o Repeat(key, PUBKEY_SIZE - 1)

hash160(bytes) == Repeat(<<"hash160", bytes>>, ADDRESS_SIZE)

sign_raw(key, sighash) == Repeat(<<"signature", key, sighash>>, SIGNATURE_SIZE)

verify_sign(sig, pubkey, sighash) == sig = sign_raw(pubkey[2], sighash)

verify_raw_signature(sig, pubkey, sighash) ==
  /\ Len(sig) = SIGNATURE_SIZE
  /\ Len(pubkey) = PUBKEY_SIZE
  /\ verify_sign(sig, pubkey, sighash)

Transaction_GetHash(tx) == <<"sha256d", Transaction_Serialize(tx)>>

(***************************************************************************)
(* The script machine.  A machine has the next position in the program,    *)
(* the stack with its top last, and whether it has returned false.         *)
(***************************************************************************)
OP_DUP == 118
OP_HASH160 == 169
OP_EQUALVERIFY == 136
OP_CHECKSIG == 172

build_p2pkh_script_pubkey(address) ==
  <<OP_DUP, OP_HASH160, Len(address)>> \o address \o <<OP_EQUALVERIFY, OP_CHECKSIG>>

build_script_sig(signature, pubkey) ==
  <<Len(signature)>> \o signature \o <<Len(pubkey)>> \o pubkey

\* The address a scriptPubKey pays, Thrown where the code returns false.
extract_p2pkh_address(script) ==
  IF /\ Len(script) = 3 + ADDRESS_SIZE + 2
     /\ SubSeq(script, 1, 3) = <<OP_DUP, OP_HASH160, ADDRESS_SIZE>>
     /\ SubSeq(script, 4 + ADDRESS_SIZE, Len(script)) = <<OP_EQUALVERIFY, OP_CHECKSIG>>
  THEN SubSeq(script, 4, 3 + ADDRESS_SIZE) ELSE Thrown

Fails(m) == [m EXCEPT !.failed = TRUE]

\* n values are popped and the given ones pushed, if there are n.
Replaces(m, n, pushed) ==
  IF Len(m.stack) < n THEN Fails(m)
  ELSE [m EXCEPT !.stack = SubSeq(@, 1, Len(@) - n) \o pushed]

Push(m, program, n) ==
  IF m.i + n - 1 > Len(program) THEN Fails(m)
  ELSE [m EXCEPT !.stack = Append(@, SubSeq(program, m.i, m.i + n - 1)), !.i = @ + n]

\* Mistake: the two values are dropped without being compared.
DropTwo(m) == Replaces(m, 2, <<>>)

EqualVerify(m) ==
  LET s == m.stack
  IN  IF Len(s) >= 2 /\ s[Len(s)] = s[Len(s) - 1] THEN Replaces(m, 2, <<>>) ELSE Fails(m)

CheckSig(m, sighash) ==
  LET s  == m.stack
      ok == verify_raw_signature(s[Len(s) - 1], s[Len(s)], sighash)
  IN  IF Len(s) < 2 THEN Fails(m) ELSE Replaces(m, 2, <<IF ok THEN <<1>> ELSE <<>>>>)

Dup(m) == IF m.stack = <<>> THEN Fails(m) ELSE Replaces(m, 0, <<Last(m.stack)>>)

Hash160(m) ==
  IF m.stack = <<>> THEN Fails(m) ELSE Replaces(m, 1, <<hash160(Last(m.stack))>>)

\* One turn of the loop.
Executed(m, program, sighash) ==
  LET op   == program[m.i]
      next == [m EXCEPT !.i = @ + 1]
  IN  CASE op \in 1 .. 75      -> Push(next, program, op)
        [] op = OP_DUP         -> Dup(next)
        [] op = OP_HASH160     -> Hash160(next)
        [] op = OP_EQUALVERIFY -> EqualVerify(next)
        [] op = OP_CHECKSIG    -> CheckSig(next, sighash)
        [] OTHER               -> Fails(m)

\* The loop.  A turn goes on by at least one byte, so that there is at most one per byte;
\* from the turn that stops the machine on nothing changes, whichever is chosen.
Run(m, program, sighash) ==
  LET after[turns \in 0 .. Len(program)] ==
        IF turns = 0 THEN m
        ELSE LET now == after[turns - 1]
             IN  IF now.failed \/ now.i > Len(program) THEN now
                 ELSE Executed(now, program, sighash)
  IN  after[CHOOSE n \in 0 .. Len(program) : after[n].failed \/ after[n].i > Len(program)]

evaluate(script_sig, script_pubkey, sighash) ==
  LET end == Run([i |-> 1, stack |-> <<>>, failed |-> FALSE],
                 script_sig \o script_pubkey, sighash)
  IN  ~end.failed /\ end.stack # <<>> /\ Last(end.stack) # <<>> /\ Last(Last(end.stack)) # 0

WithScriptSig(tx, script) ==
  [tx EXCEPT !.vin = [i \in DOMAIN tx.vin |-> [tx.vin[i] EXCEPT !.scriptSig = script]]]

verify_transaction_signature(tx, i, script_pub_key) ==
  evaluate(tx.vin[i].scriptSig, script_pub_key,
           Transaction_GetHash(WithScriptSig(tx, <<>>)))

\* Wallet::Sign, and the loop that gives its result to every input.
Sign(tx, key) ==
  WithScriptSig(tx, build_script_sig(sign_raw(key, Transaction_GetHash(tx)),
                                     compressed_pubkey(key)))

\* A transaction to be signed has no scriptSig yet; signature and key may be cut short.
ASSUME SpendAssumption ==
  \A s \in Spends :
    /\ s.tx \in Transaction /\ s.signed \in Transaction
    /\ \A i \in DOMAIN s.tx.vin : s.tx.vin[i].scriptSig = <<>>
    /\ s.sigSize \in 0 .. SIGNATURE_SIZE /\ s.pubkeySize \in 0 .. PUBKEY_SIZE

-----------------------------------------------------------------------------
(***************************************************************************)
(* The sums of a payment, in int64_t.                                      *)
(***************************************************************************)
int64(n) == ((n + INT64_MAX + 1) % (2 * (INT64_MAX + 1))) - (INT64_MAX + 1)

SumInt64(values) ==
  LET total[k \in 0 .. Len(values)] ==
        IF k = 0 THEN 0 ELSE int64(total[k - 1] + values[k])
  IN  total[Len(values)]

\* Mistake: outputs are selected until they cover the amount alone.
SelectedWithoutFee(purse, amount, fee) ==
  CHOOSE k \in 0 .. Len(purse) :
    /\ k = Len(purse) \/ (k > 0 /\ SumInt64(SubSeq(purse, 1, k)) >= amount)
    /\ \A j \in 1 .. k - 1 : SumInt64(SubSeq(purse, 1, j)) < amount

\* How many outputs the loop takes.
Selected(purse, amount, fee) ==
  CHOOSE k \in 0 .. Len(purse) :
    /\ k = Len(purse) \/ (k > 0 /\ SumInt64(SubSeq(purse, 1, k)) >= int64(amount + fee))
    /\ \A j \in 1 .. k - 1 : SumInt64(SubSeq(purse, 1, j)) < int64(amount + fee)

\* The values of the inputs and outputs; ok is FALSE for insufficient funds.
CreateTransaction(purse, amount, fee) ==
  LET in     == SubSeq(purse, 1, Selected(purse, amount, fee))
      change == int64(int64(SumInt64(in) - amount) - fee)
  IN  [ok   |-> SumInt64(in) >= int64(amount + fee),
       vin  |-> in,
       vout |-> <<amount>> \o (IF change >= DUST_THRESHOLD THEN <<change>> ELSE <<>>)]

\* The sums of validate_and_get_fee.
get_fee(vin, vout) ==
  IF vin = <<>> \/ SumInt64(vout) > SumInt64(vin) THEN -1
  ELSE int64(SumInt64(vin) - SumInt64(vout))

-----------------------------------------------------------------------------
Picks(kind, values) ==
  /\ picked.kind = "none"
  /\ \E value \in values : picked' = [kind |-> kind, of |-> value]

Init == picked = [kind |-> "none"]

EncodeBytes   == Picks("bytes", ByteStrings)
DecodeString  == Picks("string", Base58Strings)
PrintAddress  == Picks("address", Addresses)
SaveChain     == Picks("chain", Chains)
SaveMempool   == Picks("mempool", Mempools)
SaveUtxos     == Picks("utxos", UtxoLists)
SendTwo       == Picks("messages", Messages \X Messages)
VerifySpend   == Picks("spend", Spends)
Pay           == Picks("payment", [purse : Purses, amount : Amounts])

Next ==
  \/ EncodeBytes
  \/ DecodeString
  \/ PrintAddress
  \/ SaveChain
  \/ SaveMempool
  \/ SaveUtxos
  \/ SendTwo
  \/ VerifySpend
  \/ Pay

Spec == Init /\ [][Next]_picked

-----------------------------------------------------------------------------
(***************************************************************************)
(* Base58 loses nothing: the digit buffers, sized by the ratios 1.38 and   *)
(* 0.733 of base58.h, are large enough for every input, leading zeros are  *)
(* kept, encoding and decoding are each other's inverse, and an address    *)
(* reads back as the one printed.                                          *)
(***************************************************************************)
Base58RoundTrip ==
  CASE picked.kind = "bytes"   -> base58_decode(base58_encode(picked.of)) = picked.of
    [] picked.kind = "string"  ->
         base58_decode(picked.of) # Thrown => base58_encode(base58_decode(picked.of)) = picked.of
    [] picked.kind = "address" -> decode_address(encode_address(picked.of)) = picked.of
    [] OTHER -> TRUE

\* A file as it is written, and what is read from the bytes of one.
Saved(kind, value) ==
  CASE kind = "chain"   -> serialize_chain(value)
    [] kind = "mempool" -> save_mempool(value)
    [] kind = "utxos"   -> save_utxo_set(value)

Loaded(kind, bytes) ==
  CASE kind = "chain"   -> deserialize_chain(bytes)
    [] kind = "mempool" -> load_mempool(bytes)
    [] kind = "utxos"   -> load_utxo_set(bytes)

IsFile == picked.kind \in {"chain", "mempool", "utxos"}

(***************************************************************************)
(* What is saved is what is loaded, whatever counts, empty scripts and     *)
(* signed values it holds, and reading uses up every byte written: the     *)
(* fields of one record never run into those of the next.                  *)
(***************************************************************************)
FilesReadBack ==
  IsFile => LET bytes == Saved(picked.kind, picked.of)
                read  == Loaded(picked.kind, bytes)
            IN  read.ok /\ read.vals = <<picked.of>> /\ read.offset = Len(bytes)

(***************************************************************************)
(* A file cut anywhere by a crash inside write_file is refused, never      *)
(* loaded as a shorter or different chain, mempool or UTXO set: the        *)
(* "torn" files of the module Daemon are all of them unreadable.           *)
(***************************************************************************)
TornFilesRefused ==
  IsFile => LET bytes == Saved(picked.kind, picked.of)
            IN  \A n \in 0 .. Len(bytes) - 1 : ~Loaded(picked.kind, SubSeq(bytes, 1, n)).ok

(***************************************************************************)
(* Two messages sent back to back are received as they were sent, each     *)
(* read ending where the next message begins; a payload over the limit is  *)
(* refused, and so is a stream that ends before the message does.          *)
(***************************************************************************)
FramesKept ==
  picked.kind = "messages" =>
    LET m      == picked.of
        stream == send_message(m[1].command, m[1].payload)
                    \o send_message(m[2].command, m[2].payload)
        first  == receive_message(Cursor(stream))
        second == receive_message(first)
        cut    == receive_message([first EXCEPT !.in = Front(stream)])
        Fits(message) == Len(message.payload) <= MAX_PAYLOAD_SIZE
    IN  /\ first.ok = Fits(m[1])
        /\ first.ok => /\ Last(first.vals) = m[1]
                       /\ second.ok = Fits(m[2])
                       /\ second.ok => Last(second.vals) = m[2] /\ second.offset = Len(stream)
                       /\ ~cut.ok

(***************************************************************************)
(* With the two pushes build_script_sig makes, an input unlocks a P2PKH    *)
(* output exactly when the public key is the one the address was made of,  *)
(* it is complete, and the signature is that key's over this transaction   *)
(* with every scriptSig empty.  So what Wallet::Sign signs is accepted at  *)
(* each input, and the owner's address is found in the scriptPubKey.       *)
(***************************************************************************)
OnlyOwnerSpends ==
  picked.kind = "spend" =>
    LET s       == picked.of
        address == hash160(compressed_pubkey(s.owner))
        script  == build_p2pkh_script_pubkey(address)
        sig     == SubSeq(sign_raw(s.signer, Transaction_GetHash(s.signed)), 1, s.sigSize)
        pubkey  == SubSeq(compressed_pubkey(s.shown), 1, s.pubkeySize)
        spend   == WithScriptSig(s.tx, build_script_sig(sig, pubkey))
        owned   == /\ s.signer = s.owner /\ s.shown = s.owner
                   /\ s.signed = s.tx
                   /\ s.sigSize = SIGNATURE_SIZE /\ s.pubkeySize = PUBKEY_SIZE
    IN  /\ \A i \in DOMAIN s.tx.vin :
             /\ verify_transaction_signature(spend, i, script) = owned
             /\ verify_transaction_signature(Sign(s.tx, s.owner), i, script)
        /\ extract_p2pkh_address(script) = address

(***************************************************************************)
(* While amount + fee fits in an int64_t, the wallet builds a payment      *)
(* exactly when its outputs cover it, whatever the order of the map, and   *)
(* the payment passes validate_and_get_fee with the promised fee, or less  *)
(* than a dust change above it.                                            *)
(***************************************************************************)
PaymentsExact ==
  picked.kind = "payment" /\ picked.of.amount + DEFAULT_FEE <= INT64_MAX =>
    LET p     == picked.of
        tx    == CreateTransaction(p.purse, p.amount, DEFAULT_FEE)
        funds == SumFunction(p.purse)
        paid  == get_fee(tx.vin, tx.vout)
    IN  /\ tx.ok = (funds >= p.amount + DEFAULT_FEE)
        /\ tx.ok => /\ tx.vout[1] = p.amount
                    /\ paid >= DEFAULT_FEE
                    /\ DUST_THRESHOLD > 0 => paid < DEFAULT_FEE + DUST_THRESHOLD
=============================================================================
