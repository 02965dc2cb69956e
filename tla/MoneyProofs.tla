---------------------------- MODULE MoneyProofs -----------------------------
(***************************************************************************)
(* No money is created or destroyed on the chain of a daemon.  The replay  *)
(* of validate_full_chain is followed transaction by transaction: each one *)
(* takes its fee out of the UtxoSet, and the coinbase puts the fees of its *)
(* block back, together with the reward.  And where one node mines, no     *)
(* daemon loses an accepted payment that its chain could still execute.    *)
(***************************************************************************)
EXTENDS DaemonProofs

-----------------------------------------------------------------------------
(***************************************************************************)
(* The value of a set of outpoints.                                        *)
(***************************************************************************)
Value(S) == SumFunctionOnSet([o \in S |-> CTxOut(o).nValue], S)

Valued(S) == IsFiniteSet(S) /\ \A o \in S : CTxOut(o).nValue \in Int

LEMMA ValueIsInt == ASSUME NEW S, Valued(S) PROVE Value(S) \in Int
<1>1. PICK f : f = [o \in S |-> CTxOut(o).nValue]
  OBVIOUS
<1>2. \A o \in S : f[o] \in Int
  BY <1>1 DEF Valued
<1>3. SumFunctionOnSet(f, S) \in Int
  BY <1>2, SumInt DEF Valued
<1> QED
  BY <1>1, <1>3 DEF Value

LEMMA ValueEmpty == Valued({}) /\ Value({}) = 0
  BY FS_EmptySet, SumEmpty DEF Valued, Value

LEMMA ValueAdd ==
  ASSUME NEW S, Valued(S), NEW x, x \notin S, CTxOut(x).nValue \in Int
  PROVE  /\ Valued(S \cup {x})
         /\ Value(S \cup {x}) = CTxOut(x).nValue + Value(S)
<1>1. PICK T : T = S \cup {x}
  OBVIOUS
<1>2. PICK f, g : f = [o \in T |-> CTxOut(o).nValue] /\ g = [o \in S |-> CTxOut(o).nValue]
  OBVIOUS
<1>3. IsFiniteSet(T) /\ x \in T /\ T \ {x} = S
  BY <1>1, FS_AddElement DEF Valued
<1>4. \A o \in T : f[o] \in Int
  BY <1>1, <1>2 DEF Valued
<1>5. SumFunctionOnSet(f, T) = f[x] + SumFunctionOnSet(f, T \ {x})
  BY <1>3, <1>4, SumRemove
<1>6. \A o \in S : f[o] = g[o]
  BY <1>1, <1>2
<1>7. SumFunctionOnSet(f, S) = SumFunctionOnSet(g, S)
  BY <1>6, SumCongruence DEF Valued
<1>8. Value(T) = SumFunctionOnSet(f, T) /\ Value(S) = SumFunctionOnSet(g, S)
  BY <1>2 DEF Value
<1>9. f[x] = CTxOut(x).nValue
  BY <1>2, <1>3
<1>10. Valued(T)
  BY <1>1, <1>3 DEF Valued
<1> QED
  BY <1>1, <1>3, <1>5, <1>7, <1>8, <1>9, <1>10

(***************************************************************************)
(* Adding the distinct outpoints g[1], ..., g[n] that are not in S.        *)
(***************************************************************************)
Items(g, n) == {g[i] : i \in 1 .. n}

LEMMA ItemsStep ==
  ASSUME NEW g, NEW k \in Nat
  PROVE  Items(g, k + 1) = Items(g, k) \cup {g[k + 1]}
<1>1. 1 .. k + 1 = (1 .. k) \cup {k + 1}
  OBVIOUS
<1> QED
  BY <1>1 DEF Items

LEMMA ValueAddAll ==
  ASSUME NEW S, Valued(S), NEW n \in Nat, NEW g, NEW e,
         \A i \in 1 .. n : /\ g[i] \notin S
                           /\ CTxOut(g[i]).nValue \in Int
                           /\ e[i] = CTxOut(g[i]).nValue,
         \A i, j \in 1 .. n : i # j => g[i] # g[j]
  PROVE  /\ Valued(S \cup Items(g, n))
         /\ Value(S \cup Items(g, n)) = Value(S) + SumFunctionOnSet(e, 1 .. n)
<1> DEFINE P(k) == /\ Valued(S \cup Items(g, k))
                   /\ Value(S \cup Items(g, k)) = Value(S) + SumFunctionOnSet(e, 1 .. k)
           T == {k \in Nat : k <= n => P(k)}
<1>0. Value(S) \in Int
  BY ValueIsInt
<1>1. 0 \in T
  <2>1. 1 .. 0 = {} /\ S \cup Items(g, 0) = S
    BY DEF Items
  <2>2. SumFunctionOnSet(e, 1 .. 0) = 0
    BY SumNone
  <2>3. Value(S) = Value(S) + 0
    BY <1>0
  <2>4. P(0)
    BY <2>1, <2>2, <2>3
  <2> QED
    BY <2>4
<1>2. ASSUME NEW k \in Nat, k \in T PROVE k + 1 \in T
  <2> SUFFICES ASSUME k + 1 <= n PROVE P(k + 1)
    OBVIOUS
  <2>1. PICK A, x : A = S \cup Items(g, k) /\ x = g[k + 1]
    OBVIOUS
  <2>2. P(k)
    BY <1>2
  <2>3. Valued(A) /\ Value(A) = Value(S) + SumFunctionOnSet(e, 1 .. k)
    BY <2>1, <2>2
  <2>4. k + 1 \in 1 .. n /\ \A i \in 1 .. k : i \in 1 .. n /\ i # k + 1
    OBVIOUS
  <2>5. x \notin A /\ CTxOut(x).nValue \in Int /\ e[k + 1] = CTxOut(x).nValue
    BY <2>1, <2>4 DEF Items
  <2>6. Valued(A \cup {x}) /\ Value(A \cup {x}) = CTxOut(x).nValue + Value(A)
    BY <2>3, <2>5, ValueAdd
  <2>7. A \cup {x} = S \cup Items(g, k + 1)
    BY <2>1, ItemsStep
  <2>8. \A i \in 1 .. k + 1 : e[i] \in Int
    OBVIOUS
  <2>9. SumFunctionOnSet(e, 1 .. k + 1) = e[k + 1] + SumFunctionOnSet(e, 1 .. k)
    BY <2>8, SumLast
  <2>10. SumFunctionOnSet(e, 1 .. k) \in Int
    <3>1. IsFiniteSet(1 .. k) /\ \A i \in 1 .. k : e[i] \in Int
      BY <2>4, <2>8, RangeFinite
    <3> QED
      BY <3>1, SumInt
  <2>11. Value(A \cup {x}) = Value(S) + SumFunctionOnSet(e, 1 .. k + 1)
    BY <1>0, <2>3, <2>5, <2>6, <2>9, <2>10
  <2> QED
    BY <2>6, <2>7, <2>11
<1> HIDE DEF T
<1>3. n \in T
  BY <1>1, <1>2, InductionSet
<1> QED
  BY <1>3 DEF T

-----------------------------------------------------------------------------
(***************************************************************************)
(* One transaction.                                                        *)
(***************************************************************************)
InputTotal(tx) ==
  SumFunction([i \in 1 .. Len(tx.vin) |-> CTxOut(tx.vin[i].prevout).nValue])

LEMMA SpendValue ==
  ASSUME NEW tx, HonestTx(tx), NEW U, Valued(U), Inputs(tx) \subseteq U
  PROVE  /\ Valued(U \ Inputs(tx))
         /\ Value(U) = Value(U \ Inputs(tx)) + InputTotal(tx)
<1>1. PICK n : n = Len(tx.vin)
  OBVIOUS
<1>2. PICK g : g = [i \in 1 .. n |-> tx.vin[i].prevout]
  OBVIOUS
<1>3. PICK e : e = [i \in 1 .. n |-> CTxOut(tx.vin[i].prevout).nValue]
  OBVIOUS
<1>4. PICK S : S = U \ Inputs(tx)
  OBVIOUS
<1>5. n \in Nat
  BY <1>1, SeqFacts DEF HonestTx
<1>6. Items(g, n) = Inputs(tx)
  BY <1>1, <1>2 DEF Items, Inputs
<1>7. S \cup Items(g, n) = U
  BY <1>4, <1>6
<1>8. Valued(S)
  BY <1>4, FS_Difference DEF Valued
<1>9. \A i \in 1 .. n : /\ g[i] \notin S
                        /\ CTxOut(g[i]).nValue \in Int
                        /\ e[i] = CTxOut(g[i]).nValue
  <2>1. \A i \in 1 .. n : g[i] \in Inputs(tx)
    BY <1>6 DEF Items
  <2> QED
    BY <1>2, <1>3, <1>4, <2>1 DEF Valued
<1>10. \A i, j \in 1 .. n : i # j => g[i] # g[j]
  BY <1>1, <1>2 DEF HonestTx
<1>11. Value(S \cup Items(g, n)) = Value(S) + SumFunctionOnSet(e, 1 .. n)
  BY <1>5, <1>8, <1>9, <1>10, ValueAddAll
<1>12. InputTotal(tx) = SumFunctionOnSet(e, 1 .. n)
  <2>1. DOMAIN e = 1 .. n
    BY <1>3
  <2> QED
    BY <1>1, <1>3, <2>1, SumIsOnDomain DEF InputTotal
<1> QED
  BY <1>4, <1>7, <1>8, <1>11, <1>12

LEMMA PayValue ==
  ASSUME NEW tx, HonestTx(tx), NEW U, Valued(U), Outputs(tx) \cap U = {}
  PROVE  /\ Valued(U \cup Outputs(tx))
         /\ Value(U \cup Outputs(tx)) = Value(U) + TotalValue(tx.vout)
<1>1. PICK n : n = Len(tx.vout)
  OBVIOUS
<1>2. PICK g : g = [i \in 1 .. n |-> [txid |-> tx_hash(tx), n |-> i - 1]]
  OBVIOUS
<1>3. PICK e : e = [i \in 1 .. n |-> tx.vout[i].nValue]
  OBVIOUS
<1>4. n \in Nat /\ IsSeq(tx.vout)
  BY <1>1, SeqFacts DEF HonestTx
<1>5. Items(g, n) = Outputs(tx)
  BY <1>1, <1>2 DEF Items, Outputs
<1>6. \A i \in 1 .. n : g[i] \in Outputs(tx) /\ g[i].n = i - 1
  BY <1>2, <1>5 DEF Items
<1>7. ASSUME NEW i \in 1 .. n
      PROVE  /\ g[i] \notin U
             /\ CTxOut(g[i]).nValue \in Int
             /\ e[i] = CTxOut(g[i]).nValue
  <2>1. PICK o : o = g[i]
    OBVIOUS
  <2>2. o \in Outputs(tx) /\ o.n = i - 1
    BY <1>6, <2>1
  <2>3. CTxOut(o) = tx.vout[o.n + 1]
    BY <1>4, <2>2, OutputFacts
  <2>4. o.n + 1 = i
    BY <2>2
  <2>5. CTxOut(o) = tx.vout[i]
    BY <2>3, <2>4
  <2>6. tx.vout[i].nValue \in Int
    BY <1>1 DEF HonestTx
  <2> QED
    BY <1>3, <2>1, <2>2, <2>5, <2>6
<1>8. \A i, j \in 1 .. n : i # j => g[i] # g[j]
  <2>1. \A i, j \in 1 .. n : i # j => i - 1 # j - 1
    OBVIOUS
  <2> QED
    BY <1>6, <2>1
<1>9. /\ Valued(U \cup Items(g, n))
      /\ Value(U \cup Items(g, n)) = Value(U) + SumFunctionOnSet(e, 1 .. n)
  BY <1>4, <1>7, <1>8, ValueAddAll
<1>10. TotalValue(tx.vout) = SumFunctionOnSet(e, 1 .. n)
  <2>1. DOMAIN e = 1 .. n
    BY <1>3
  <2> QED
    BY <1>1, <1>3, <2>1, SumIsOnDomain DEF TotalValue
<1> QED
  BY <1>5, <1>9, <1>10

LEMMA FeeIsDifference ==
  ASSUME NEW tx, NEW U, validate_and_get_fee(tx, U) >= 0
  PROVE  validate_and_get_fee(tx, U) = InputTotal(tx) - TotalValue(tx.vout)
<1>1. ~(-1 >= 0)
  OBVIOUS
<1> QED
  BY <1>1 DEF validate_and_get_fee, InputTotal

-----------------------------------------------------------------------------
(***************************************************************************)
(* The replay, one transaction at a time: from transaction i of block h to *)
(* the next, and from the end of a block to the start of the next.         *)
(***************************************************************************)
LEMMA EarlierNext ==
  ASSUME NEW c, NEW h \in Nat, NEW i \in Nat, h > 0, i > 0
  PROVE  /\ \A g, j : Earlier(c, h, i + 1, g, j) <=>
                        Earlier(c, h, i, g, j) \/ (g = h /\ j = i)
         /\ \A g, j : Earlier(c, h, i, g, j) =>
                        Follows(h, i, g, j) /\ ~Follows(g, j, h, i)
<1>1. h \in 1 .. h /\ (i + 1) - 1 = i
  OBVIOUS
<1>2. 1 .. i = (1 .. i - 1) \cup {i}
  OBVIOUS
<1>3. \A g, j : Earlier(c, h, i + 1, g, j) <=>
                  Earlier(c, h, i, g, j) \/ (g = h /\ j = i)
  BY <1>1, <1>2 DEF Earlier
<1>4. \A g, j : Earlier(c, h, i, g, j) =>
                  Follows(h, i, g, j) /\ ~Follows(g, j, h, i)
  BY DEF Earlier, Follows
<1> QED
  BY <1>3, <1>4

LEMMA ReplayStep ==
  ASSUME NEW c, NEW h \in Nat, NEW i \in Nat, h > 0, i > 0
  PROVE  ReplayedUtxo(c, h, i + 1)
           = (ReplayedUtxo(c, h, i) \ Inputs(c[h].vtx[i])) \cup Outputs(c[h].vtx[i])
<1>1. /\ \A g, j : Earlier(c, h, i + 1, g, j) <=>
                     Earlier(c, h, i, g, j) \/ (g = h /\ j = i)
      /\ \A g, j : Earlier(c, h, i, g, j) =>
                     Follows(h, i, g, j) /\ ~Follows(g, j, h, i)
  BY EarlierNext
<1>2. ~Follows(h, i, h, i)
  BY DEF Follows
<1>3. ASSUME NEW o, o \in ReplayedUtxo(c, h, i + 1)
      PROVE  o \in (ReplayedUtxo(c, h, i) \ Inputs(c[h].vtx[i])) \cup Outputs(c[h].vtx[i])
  <2>1. PICK g, j : UnspentFrom(c, h, i + 1, g, j, o)
    BY <1>3, InReplayed
  <2>2. CASE g = h /\ j = i
    BY <2>1, <2>2 DEF UnspentFrom
  <2>3. CASE ~(g = h /\ j = i)
    <3>1. Earlier(c, h, i, g, j)
      BY <1>1, <2>1, <2>3 DEF UnspentFrom
    <3>2. UnspentFrom(c, h, i, g, j, o)
      BY <1>1, <2>1, <3>1 DEF UnspentFrom
    <3>3. o \notin Inputs(c[h].vtx[i])
      BY <1>1, <2>1, <3>1 DEF UnspentFrom
    <3> QED
      BY <3>2, <3>3, InReplayed
  <2> QED
    BY <2>2, <2>3
<1>4. ASSUME NEW o, o \in Outputs(c[h].vtx[i])
      PROVE  o \in ReplayedUtxo(c, h, i + 1)
  <2>1. UnspentFrom(c, h, i + 1, h, i, o)
    BY <1>1, <1>2, <1>4 DEF UnspentFrom
  <2> QED
    BY <2>1, InReplayed
<1>5. ASSUME NEW o, o \in ReplayedUtxo(c, h, i), o \notin Inputs(c[h].vtx[i])
      PROVE  o \in ReplayedUtxo(c, h, i + 1)
  <2>1. PICK g, j : UnspentFrom(c, h, i, g, j, o)
    BY <1>5, InReplayed
  <2>2. UnspentFrom(c, h, i + 1, g, j, o)
    BY <1>1, <1>5, <2>1 DEF UnspentFrom
  <2> QED
    BY <2>2, InReplayed
<1> QED
  BY <1>3, <1>4, <1>5

LEMMA ReplayNextBlock ==
  ASSUME NEW c, NEW h \in Nat, Len(c[h].vtx) \in Nat, h > 0
  PROVE  ReplayedUtxo(c, h + 1, 1) = ReplayedUtxo(c, h, Len(c[h].vtx) + 1)
<1>1. PICK L : L = Len(c[h].vtx)
  OBVIOUS
<1>2. (L + 1) - 1 = L /\ 1 .. 1 - 1 = {}
  BY <1>1
<1>3. \A g, j : Earlier(c, h + 1, 1, g, j) <=> Earlier(c, h, L + 1, g, j)
  BY <1>1, <1>2 DEF Earlier
<1>4. \A g, j, o : UnspentFrom(c, h + 1, 1, g, j, o) <=> UnspentFrom(c, h, L + 1, g, j, o)
  BY <1>3 DEF UnspentFrom
<1>5. \A o : o \in ReplayedUtxo(c, h + 1, 1) <=> o \in ReplayedUtxo(c, h, L + 1)
  BY <1>4, InReplayed
<1> QED
  BY <1>1, <1>5

LEMMA ReplayStarts == ASSUME NEW c PROVE ReplayedUtxo(c, 1, 1) = {}
<1>1. \A g, j : ~Earlier(c, 1, 1, g, j)
  BY DEF Earlier
<1> QED
  BY <1>1, InReplayed DEF UnspentFrom

(***************************************************************************)
(* What a transaction pays was not there before; the null outpoint of a    *)
(* coinbase never is.                                                      *)
(***************************************************************************)
LEMMA OutputsAreNew ==
  ASSUME NEW c, HonestChain(c), NEW h, NEW i, At(c, h, i)
  PROVE  /\ Outputs(c[h].vtx[i]) \cap ReplayedUtxo(c, h, i) = {}
         /\ NullOutPoint \notin ReplayedUtxo(c, h, i)
<1>1. ASSUME NEW o \in ReplayedUtxo(c, h, i)
      PROVE  o \notin Outputs(c[h].vtx[i]) /\ o # NullOutPoint
  <2>1. PICK g, j : UnspentFrom(c, h, i, g, j, o)
    BY <1>1, InReplayed
  <2>2. At(c, g, j) /\ Follows(h, i, g, j) /\ o \in Outputs(c[g].vtx[j])
    BY <2>1, EarlierIsAt DEF UnspentFrom
  <2>3. HonestTx(c[g].vtx[j])
    BY <2>2, ChainTxFacts DEF At
  <2>4. o # NullOutPoint
    BY <2>2, <2>3, HonestOutput
  <2>5. ~(g = h /\ j = i)
    BY <2>2, AtFacts DEF Follows
  <2>6. o \notin Outputs(c[h].vtx[i])
    BY <2>2, <2>5, OutputOfOne, TxsUnique
  <2> QED
    BY <2>4, <2>6
<1> QED
  BY <1>1

-----------------------------------------------------------------------------
(***************************************************************************)
(* A payment takes its fee out of the UtxoSet, a coinbase adds its value.  *)
(***************************************************************************)
ChainFee(c, h, i) == FeeOf(c[h], i, ReplayedUtxo(c, h, i))

LEMMA PaymentStep ==
  ASSUME NEW c, HonestChain(c), NEW h, NEW i, At(c, h, i), i # 1,
         Valued(ReplayedUtxo(c, h, i))
  PROVE  /\ Valued(ReplayedUtxo(c, h, i + 1))
         /\ ChainFee(c, h, i) \in Int
         /\ Value(ReplayedUtxo(c, h, i + 1))
              = Value(ReplayedUtxo(c, h, i)) - ChainFee(c, h, i)
<1>1. PICK tx, U, V : tx = c[h].vtx[i] /\ U = ReplayedUtxo(c, h, i) /\ V = U \ Inputs(tx)
  OBVIOUS
<1>2. h \in Nat /\ i \in Nat /\ h > 0 /\ i > 0
  BY AtFacts DEF At
<1>3. HonestTx(tx) /\ Inputs(tx) \subseteq U /\ ~IsCoinbase(tx)
  BY <1>1, ChainTxFacts DEF At
<1>4. Outputs(tx) \cap V = {}
  BY <1>1, OutputsAreNew
<1>5. Valued(V) /\ Value(U) = Value(V) + InputTotal(tx)
  BY <1>1, <1>3, SpendValue
<1>6. Valued(V \cup Outputs(tx)) /\ Value(V \cup Outputs(tx)) = Value(V) + TotalValue(tx.vout)
  BY <1>3, <1>4, <1>5, PayValue
<1>7. ReplayedUtxo(c, h, i + 1) = V \cup Outputs(tx)
  BY <1>1, <1>2, ReplayStep
<1>8. ChainFee(c, h, i) = validate_and_get_fee(tx, U)
  BY <1>1, <1>3 DEF ChainFee, FeeOf
<1>9. validate_and_get_fee(tx, U) >= 0
  <2>1. ValidBlock(c, h)
    BY DEF HonestChain, validate_full_chain, At
  <2> QED
    BY <1>1, <1>3, <2>1 DEF ValidBlock, At
<1>10. ChainFee(c, h, i) = InputTotal(tx) - TotalValue(tx.vout)
  BY <1>8, <1>9, FeeIsDifference
<1>11. Value(U) \in Int /\ Value(V) \in Int /\ TotalValue(tx.vout) \in Int
  BY <1>1, <1>3, <1>5, ValueIsInt, ValueInt
<1>12. ChainFee(c, h, i) \in Int
  <2>1. \A o \in Inputs(tx) : CTxOut(o).nValue \in Int
    BY <1>1, <1>3 DEF Valued
  <2> QED
    BY <1>3, <1>8, <2>1, FeeInt
<1>13. InputTotal(tx) \in Int
  <2>1. PICK n, e : n = Len(tx.vin) /\ e = [k \in 1 .. n |-> CTxOut(tx.vin[k].prevout).nValue]
    OBVIOUS
  <2>2. n \in Nat /\ IsFiniteSet(1 .. n)
    BY <1>3, <2>1, SeqFacts, RangeFinite DEF HonestTx
  <2>3. \A k \in 1 .. n : e[k] \in Int
    BY <1>1, <1>3, <2>1 DEF Inputs, Valued
  <2>4. SumFunctionOnSet(e, 1 .. n) \in Int
    BY <2>2, <2>3, SumInt
  <2>5. DOMAIN e = 1 .. n
    BY <2>1
  <2> QED
    BY <2>1, <2>4, <2>5, SumIsOnDomain DEF InputTotal
<1>14. \A a, b, i0, t \in Int : a = b + i0 => b + t = a - (i0 - t)
  OBVIOUS
<1>15. Value(V) + TotalValue(tx.vout) = Value(U) - ChainFee(c, h, i)
  BY <1>5, <1>10, <1>11, <1>13, <1>14
<1> QED
  BY <1>1, <1>6, <1>7, <1>12, <1>15

LEMMA CoinbaseStep ==
  ASSUME NEW c, HonestChain(c), NEW h, At(c, h, 1), Valued(ReplayedUtxo(c, h, 1))
  PROVE  /\ Valued(ReplayedUtxo(c, h, 2))
         /\ ChainFee(c, h, 1) = 0
         /\ TotalValue(c[h].vtx[1].vout) \in Int
         /\ Value(ReplayedUtxo(c, h, 2))
              = Value(ReplayedUtxo(c, h, 1)) + TotalValue(c[h].vtx[1].vout)
<1>1. PICK tx, U : tx = c[h].vtx[1] /\ U = ReplayedUtxo(c, h, 1)
  OBVIOUS
<1>2. h \in Nat /\ h > 0
  BY AtFacts DEF At
<1>3. HonestTx(tx) /\ Inputs(tx) = {NullOutPoint}
  BY <1>1, ChainTxFacts DEF At
<1>4. Outputs(tx) \cap U = {} /\ U \ Inputs(tx) = U
  BY <1>1, <1>3, OutputsAreNew
<1>5. ReplayedUtxo(c, h, 1 + 1) = (U \ Inputs(tx)) \cup Outputs(tx)
  BY <1>1, <1>2, ReplayStep
<1>6. ReplayedUtxo(c, h, 2) = U \cup Outputs(tx)
  BY <1>4, <1>5
<1>7. ChainFee(c, h, 1) = 0
  <2>1. HonestBlock(c[h], h - 1)
    BY DEF HonestChain, At
  <2>2. tx.vin = <<[prevout |-> NullOutPoint, scriptSig |-> <<"height", h - 1>>]>>
    BY <1>1, <2>1 DEF HonestBlock
  <2>3. IsCoinbase(tx)
    BY <2>2 DEF IsCoinbase
  <2> QED
    BY <1>1, <2>3 DEF ChainFee, FeeOf
<1> QED
  BY <1>1, <1>3, <1>4, <1>6, <1>7, PayValue, ValueInt

(***************************************************************************)
(* One block: the fees it takes out, its coinbase puts back.               *)
(***************************************************************************)
LEMMA BlockSupply ==
  ASSUME NEW c, HonestChain(c), NEW h \in 1 .. Len(c), Valued(ReplayedUtxo(c, h, 1))
  PROVE  /\ Valued(ReplayedUtxo(c, h + 1, 1))
         /\ Value(ReplayedUtxo(c, h + 1, 1))
              = Value(ReplayedUtxo(c, h, 1)) + calculate_block_reward(h - 1)
<1>1. PICK L, fee, paid, before :
        /\ L = Len(c[h].vtx)
        /\ fee = [i \in 1 .. L |-> ChainFee(c, h, i)]
        /\ paid = TotalValue(c[h].vtx[1].vout)
        /\ before = Value(ReplayedUtxo(c, h, 1))
  OBVIOUS
<1>2. HonestBlock(c[h], h - 1) /\ ValidBlock(c, h)
  BY DEF HonestChain, validate_full_chain
<1>3. L \in Nat /\ L >= 1 /\ h \in Nat /\ h > 0
  <2>1. PICK vtx : vtx = c[h].vtx
    OBVIOUS
  <2>2. IsSeq(vtx) /\ vtx # <<>>
    BY <1>2, <2>1 DEF HonestBlock
  <2>3. Len(vtx) \in Nat /\ Len(vtx) > 0
    BY <2>2, SeqFacts
  <2> QED
    BY <1>1, <2>1, <2>3
<1>4. \A i \in 1 .. L : At(c, h, i) /\ fee[i] = ChainFee(c, h, i)
  BY <1>1 DEF At
<1>5. before \in Int
  BY <1>1, ValueIsInt
<1>6. /\ Valued(ReplayedUtxo(c, h, 2)) /\ fee[1] = 0 /\ paid \in Int
      /\ Value(ReplayedUtxo(c, h, 2)) = before + paid
  <2>1. At(c, h, 1) /\ fee[1] = ChainFee(c, h, 1)
    BY <1>3, <1>4
  <2> QED
    BY <1>1, <2>1, CoinbaseStep
<1> DEFINE P(k) == /\ Valued(ReplayedUtxo(c, h, (k + 1) + 1))
                   /\ \A i \in 1 .. k + 1 : fee[i] \in Int
                   /\ Value(ReplayedUtxo(c, h, (k + 1) + 1))
                        = before + paid - SumFunctionOnSet(fee, 1 .. k + 1)
           T == {k \in Nat : k + 1 <= L => P(k)}
<1>7. 0 \in T
  <2>1. (0 + 1) + 1 = 2 /\ 0 + 1 = 1 /\ 1 .. 1 = {1}
    OBVIOUS
  <2>2. SumFunctionOnSet(fee, 1 .. 1) = 0
    BY <1>6, SumOne
  <2>3. before + paid = before + paid - 0
    BY <1>5, <1>6
  <2>4. P(0)
    BY <1>6, <2>1, <2>2, <2>3
  <2> QED
    BY <2>4
<1>8. ASSUME NEW k \in Nat, k \in T PROVE k + 1 \in T
  <2> SUFFICES ASSUME (k + 1) + 1 <= L PROVE P(k + 1)
    OBVIOUS
  <2>1. PICK i : i = (k + 1) + 1
    OBVIOUS
  <2>2. i \in 1 .. L /\ i # 1 /\ i \in Nat /\ (k + 1) + 1 = i
    BY <1>3, <2>1
  <2>3. P(k)
    BY <1>3, <1>8
  <2>4. /\ Valued(ReplayedUtxo(c, h, i))
        /\ Value(ReplayedUtxo(c, h, i)) = before + paid - SumFunctionOnSet(fee, 1 .. k + 1)
        /\ \A l \in 1 .. k + 1 : fee[l] \in Int
    BY <2>1, <2>3
  <2>5. /\ Valued(ReplayedUtxo(c, h, i + 1)) /\ fee[i] \in Int
        /\ Value(ReplayedUtxo(c, h, i + 1)) = Value(ReplayedUtxo(c, h, i)) - fee[i]
    BY <1>4, <2>2, <2>4, PaymentStep
  <2>6. \A l \in 1 .. i : fee[l] \in Int
    <3>1. \A l \in 1 .. i : l = i \/ l \in 1 .. k + 1
      BY <2>2
    <3> QED
      BY <2>4, <2>5, <3>1
  <2>7. SumFunctionOnSet(fee, 1 .. i) = fee[i] + SumFunctionOnSet(fee, 1 .. k + 1)
    <3>1. k + 1 \in Nat /\ \A l \in 1 .. (k + 1) + 1 : fee[l] \in Int
      BY <2>1, <2>6
    <3>2. SumFunctionOnSet(fee, 1 .. (k + 1) + 1)
            = fee[(k + 1) + 1] + SumFunctionOnSet(fee, 1 .. k + 1)
      BY <3>1, SumLast
    <3> QED
      BY <2>1, <3>2
  <2>8. SumFunctionOnSet(fee, 1 .. k + 1) \in Int
    <3>1. IsFiniteSet(1 .. k + 1)
      BY RangeFinite
    <3> QED
      BY <2>4, <3>1, SumInt
  <2>9. Value(ReplayedUtxo(c, h, i + 1)) = before + paid - SumFunctionOnSet(fee, 1 .. i)
    BY <1>5, <1>6, <2>4, <2>5, <2>7, <2>8
  <2> QED
    BY <2>1, <2>5, <2>6, <2>9
<1> HIDE DEF T
<1>9. L - 1 \in T /\ (L - 1) + 1 = L
  <2>1. L - 1 \in Nat /\ Nat \subseteq T
    BY <1>3, <1>7, <1>8, InductionSet
  <2> QED
    BY <1>3, <2>1
<1>10. P(L - 1)
  BY <1>3, <1>9 DEF T
<1>11. /\ Valued(ReplayedUtxo(c, h, L + 1))
       /\ \A i \in 1 .. L : fee[i] \in Int
       /\ Value(ReplayedUtxo(c, h, L + 1)) = before + paid - SumFunctionOnSet(fee, 1 .. L)
  BY <1>9, <1>10
<1> HIDE DEF P
<1>12. paid = calculate_block_reward(h - 1) + SumFunctionOnSet(fee, 1 .. L)
  <2>1. fee = [i \in 1 .. Len(c[h].vtx) |->
                 IF IsCoinbase(c[h].vtx[i]) THEN 0
                 ELSE validate_and_get_fee(c[h].vtx[i], ReplayedUtxo(c, h, i))]
    BY <1>1 DEF ChainFee, FeeOf
  <2>2. paid = calculate_block_reward(h - 1) + SumFunction(fee)
    BY <1>1, <1>2, <2>1 DEF ValidBlock
  <2>3. DOMAIN fee = 1 .. L
    BY <1>1
  <2> QED
    BY <2>2, <2>3, SumIsOnDomain
<1>13. SumFunctionOnSet(fee, 1 .. L) \in Int /\ calculate_block_reward(h - 1) \in Int
  <2>1. IsFiniteSet(1 .. L) /\ h - 1 \in Nat
    BY <1>3, RangeFinite
  <2> QED
    BY <1>11, <2>1, SumInt, RewardInt
<1>14. Value(ReplayedUtxo(c, h, L + 1)) = before + calculate_block_reward(h - 1)
  BY <1>5, <1>6, <1>11, <1>12, <1>13
<1>15. ReplayedUtxo(c, h + 1, 1) = ReplayedUtxo(c, h, L + 1)
  BY <1>1, <1>3, ReplayNextBlock
<1> QED
  BY <1>1, <1>11, <1>14, <1>15

(***************************************************************************)
(* The whole chain.                                                        *)
(***************************************************************************)
LEMMA ChainSupply ==
  ASSUME NEW c, HonestChain(c)
  PROVE  Unspent(c) = Minted(c)
<1>1. PICK n, reward : n = Len(c) /\ reward = [h \in 1 .. n |-> calculate_block_reward(h - 1)]
  OBVIOUS
<1>2. IsSeq(c) /\ n \in Nat \ {0}
  BY <1>1, SeqFacts, HonestNotEmpty DEF HonestChain
<1>3. \A h \in 1 .. n : reward[h] = calculate_block_reward(h - 1) /\ reward[h] \in Int
  <2>1. \A h \in 1 .. n : h - 1 \in Nat
    OBVIOUS
  <2> QED
    BY <1>1, <2>1, RewardInt
<1> DEFINE P(k) == /\ Valued(ReplayedUtxo(c, k + 1, 1))
                   /\ Value(ReplayedUtxo(c, k + 1, 1)) = SumFunctionOnSet(reward, 1 .. k)
           T == {k \in Nat : k <= n => P(k)}
<1>4. 0 \in T
  <2>1. SumFunctionOnSet(reward, 1 .. 0) = 0 /\ 0 + 1 = 1
    BY SumNone
  <2>2. P(0)
    BY <2>1, ReplayStarts, ValueEmpty
  <2> QED
    BY <2>2
<1>5. ASSUME NEW k \in Nat, k \in T PROVE k + 1 \in T
  <2> SUFFICES ASSUME k + 1 <= n PROVE P(k + 1)
    OBVIOUS
  <2>1. P(k)
    BY <1>2, <1>5
  <2>2. k + 1 \in 1 .. Len(c)
    BY <1>1, <1>2
  <2>3. /\ Valued(ReplayedUtxo(c, (k + 1) + 1, 1))
        /\ Value(ReplayedUtxo(c, (k + 1) + 1, 1))
             = Value(ReplayedUtxo(c, k + 1, 1)) + calculate_block_reward((k + 1) - 1)
    BY <2>1, <2>2, BlockSupply
  <2>4. \A h \in 1 .. k + 1 : reward[h] \in Int
    BY <1>2, <1>3
  <2>5. SumFunctionOnSet(reward, 1 .. k + 1) = reward[k + 1] + SumFunctionOnSet(reward, 1 .. k)
    BY <2>4, SumLast
  <2>6. reward[k + 1] = calculate_block_reward((k + 1) - 1) /\ reward[k + 1] \in Int
    BY <1>1, <1>3, <2>2
  <2>7. SumFunctionOnSet(reward, 1 .. k) \in Int
    BY <2>1, ValueIsInt
  <2>8. Value(ReplayedUtxo(c, (k + 1) + 1, 1)) = SumFunctionOnSet(reward, 1 .. k + 1)
    BY <2>1, <2>3, <2>5, <2>6, <2>7
  <2> QED
    BY <2>3, <2>8
<1> HIDE DEF T
<1>6. n \in T
  BY <1>2, <1>4, <1>5, InductionSet
<1>7. P(n)
  BY <1>2, <1>6 DEF T
<1>8. build_utxo_set(c) = ReplayedUtxo(c, n + 1, 1)
  <2>1. HasSeqs(c)
    BY HonestHasSeqs
  <2>2. Len(c[n].vtx) \in Nat /\ Last(c) = c[n]
    BY <1>1, <1>2, <2>1, SeqFacts DEF HasSeqs, Last
  <2>3. ReplayedUtxo(c, n + 1, 1) = ReplayedUtxo(c, n, Len(c[n].vtx) + 1)
    BY <1>2, <2>2, ReplayNextBlock
  <2> QED
    BY <1>1, <2>2, <2>3, UtxoViews
<1>9. Unspent(c) = Value(build_utxo_set(c))
  <2>1. PICK U, f : U = build_utxo_set(c) /\ f = [o \in U |-> CTxOut(o).nValue]
    OBVIOUS
  <2>2. DOMAIN f = U
    BY <2>1
  <2>3. SumFunction(f) = SumFunctionOnSet(f, U)
    BY <2>2, SumIsOnDomain
  <2> QED
    BY <2>1, <2>3 DEF Unspent, Value
<1>10. Minted(c) = SumFunctionOnSet(reward, 1 .. n)
  <2>1. DOMAIN reward = 1 .. n
    BY <1>1
  <2> QED
    BY <1>1, <2>1, SumIsOnDomain DEF Minted
<1> QED
  BY <1>7, <1>8, <1>9, <1>10

LEMMA EmptySupply == Unspent(<<>>) = Minted(<<>>)
<1>1. Len(<<>>) = 0 /\ 1 .. 0 = {}
  OBVIOUS
<1>2. build_utxo_set(<<>>) = {}
  BY <1>1 DEF build_utxo_set, AllTxs
<1>3. \A f : DOMAIN f = {} => SumFunction(f) = 0
  BY SumIsOnDomain, SumEmpty
<1>4. DOMAIN [o \in {} |-> CTxOut(o).nValue] = {}
      /\ DOMAIN [h \in 1 .. Len(<<>>) |-> calculate_block_reward(h - 1)] = {}
  BY <1>1
<1> QED
  BY <1>2, <1>3, <1>4 DEF Unspent, Minted

(***************************************************************************)
(* On the chain of every node, at all times: what is unspent is exactly    *)
(* the sum of the rewards of its blocks.  Payments, fees, reorgs and       *)
(* crashes neither create nor destroy money.                               *)
(***************************************************************************)
THEOREM SupplyIsConserved == Spec => []SupplyConserved
<1>1. ChainInv => SupplyConserved
  BY ChainInvParts, ChainSupply, EmptySupply DEF GoodChain, SupplyConserved
<1> QED
  BY <1>1, ChainsAreHonest, PTL

-----------------------------------------------------------------------------
(***************************************************************************)
(* Payments.  Where one node m mines, every chain in the system is a       *)
(* genesis block or the beginning of the chain m keeps.                    *)
(***************************************************************************)
LEMMA PrefixFacts ==
  /\ \A c : IsSeq(c) => IsPrefixOf(c, c)
  /\ \A c, d, e : IsSeq(c) /\ IsSeq(d) /\ IsSeq(e) /\ IsPrefixOf(c, d) /\ IsPrefixOf(d, e)
                    => IsPrefixOf(c, e)
  /\ \A d : IsSeq(d) => IsPrefixOf(<<>>, d)
  /\ \A c, x : IsSeq(c) => IsPrefixOf(c, Append(c, x))
<1>1. \A c : IsSeq(c) => Len(c) \in Nat
  BY SeqFacts
<1>2. \A c, x : IsSeq(c) => IsPrefixOf(c, Append(c, x))
  BY DEF IsSeq, IsPrefixOf
<1>3. \A c, d, e : IsSeq(c) /\ IsSeq(d) /\ IsSeq(e) /\ IsPrefixOf(c, d) /\ IsPrefixOf(d, e)
                    => IsPrefixOf(c, e)
  <2> SUFFICES ASSUME NEW c, NEW d, NEW e, IsSeq(c), IsSeq(d), IsSeq(e),
                      IsPrefixOf(c, d), IsPrefixOf(d, e)
               PROVE  IsPrefixOf(c, e)
    OBVIOUS
  <2>1. Len(c) \in Nat /\ Len(d) \in Nat /\ Len(e) \in Nat
    BY <1>1
  <2> QED
    BY <2>1 DEF IsPrefixOf
<1>4. \A c : IsSeq(c) => IsPrefixOf(c, c)
  BY <1>1 DEF IsPrefixOf
<1>5. \A d : IsSeq(d) => IsPrefixOf(<<>>, d)
  BY <1>1 DEF IsPrefixOf
<1> QED
  BY <1>2, <1>3, <1>4, <1>5

LEMMA KeptIsGood ==
  ASSUME TypeOK, ChainInv, NEW n \in Nodes
  PROVE  GoodChain(Keeps(n)) /\ IsSeq(Keeps(n))
  BY ChainInvParts DEF Keeps, TypeOK

(***************************************************************************)
(* Under the mutex the chain in memory is the one the node keeps.          *)
(***************************************************************************)
LEMMA FreeKeeps ==
  ASSUME TypeOK, MutexInv, ChainInv, NEW n \in Nodes, MutexFree(n)
  PROVE  HonestChain(chain[n]) /\ Keeps(n) = chain[n] /\ diskChain[n] = chain[n]
  BY ChainInvParts DEF Keeps, MutexFree, MutexInv, MutexInvOf, GoodChain

(***************************************************************************)
(* What has been taken from the chain m keeps is still taken from it when  *)
(* that chain has grown.                                                   *)
(***************************************************************************)
LEMMA TakenGrows ==
  ASSUME NEW k, NEW l, IsSeq(k), IsSeq(l), IsPrefixOf(k, l)
  PROVE  /\ \A c : IsSeq(c) /\ TakenFrom(c, k) => TakenFrom(c, l)
         /\ \A p : IsSeq(p.got) /\ ReceivedFrom(p, k) => ReceivedFrom(p, l)
<1>1. \A c : IsSeq(c) /\ TakenFrom(c, k) => TakenFrom(c, l)
  BY PrefixFacts DEF TakenFrom
<1>2. Len(k) \in Nat /\ Len(l) \in Nat
  BY SeqFacts
<1>3. \A h \in 1 .. Len(k) : h \in 1 .. Len(l) /\ k[h] = l[h]
  BY <1>2 DEF IsPrefixOf
<1> QED
  BY <1>1, <1>3 DEF ReceivedFrom

LEMMA KeptGrows ==
  ASSUME TORN_CRASH = FALSE, TypeOK, MutexInv, ChainInv, NEW m \in Nodes,
         OneMinerInv(m), [Next]_vars
  PROVE  Keeps(m)' = Keeps(m)
           \/ (Truncate(m) /\ Keeps(m)' = chain[m] /\ IsPrefixOf(Keeps(m), chain[m]))
<1>1. CASE Best' = Best
  BY <1>1 DEF Best
<1>2. ASSUME NEW n \in Nodes, Truncate(n), n # m PROVE Keeps(m)' = Keeps(m)
  BY <1>2 DEF Truncate, TypeOK, Keeps
<1>3. CASE Truncate(m)
  <2>1. /\ job[m] # <<>> /\ ~open[m] /\ open'[m]
        /\ job' = job /\ chain' = chain
        /\ Head(job[m]) # "chain" => diskChain' = diskChain
    BY <1>3 DEF Truncate, TypeOK
  <2>2. CASE Head(job[m]) # "chain"
    BY <2>1, <2>2 DEF Keeps
  <2>3. CASE Head(job[m]) = "chain"
    <3>1. Keeps(m)' = chain[m]
      BY <2>1, <2>3 DEF Keeps
    <3>2. chain[m] # <<>>
      BY <2>1 DEF MutexInv, MutexInvOf
    <3> QED
      BY <1>3, <3>1, <3>2 DEF OneMinerInv
  <2> QED
    BY <2>2, <2>3
<1> QED
  BY <1>1, <1>2, <1>3, OnlyTruncateMoves

(***************************************************************************)
(* A received block that extends a chain is a block of m's chain, and the  *)
(* chain it extends is the beginning of m's up to it: a block's hash       *)
(* stands for the whole chain below the block.                             *)
(***************************************************************************)
LEMMA ExtensionIsTaken ==
  ASSUME TypeOK, MutexInv, ChainInv, NEW m \in Nodes, OneMinerInv(m),
         NEW n \in Nodes, ExtendChain(n)
  PROVE  IsPrefixOf(Append(chain[n], poll[n].got[1]), Keeps(m))
<1>1. PICK c, b, kept : c = chain[n] /\ b = poll[n].got[1] /\ kept = Keeps(m)
  OBVIOUS
<1>2. HonestChain(c)
  BY <1>1, FreeKeeps DEF ExtendChain
<1>3. PICK d : HonestChain(d) /\ b = Last(d)
  BY <1>1, ChainInvParts DEF ExtendChain, GoodPoll
<1>4. b.hashPrevBlock = GetHash(Last(c))
  BY <1>1 DEF ExtendChain, try_extend_chain
<1>5. d = Append(c, b)
  BY <1>2, <1>3, <1>4, LinkedTip
<1>6. b.hashPrevBlock # ZeroHash
  BY <1>4, HeaderHash
<1>7. PICK h \in 1 .. Len(kept) : b = kept[h]
  BY <1>1, <1>6 DEF OneMinerInv, ReceivedFrom, ExtendChain
<1>8. HonestChain(kept)
  <2>1. GoodChain(kept)
    BY <1>1, KeptIsGood
  <2>2. kept # <<>>
    BY <1>7
  <2> QED
    BY <2>1, <2>2 DEF GoodChain
<1>9. Len(d) \in 1 .. Len(d) /\ d[Len(d)] = b
  BY <1>3, TipHeight
<1>10. Len(d) = h /\ \A g \in 1 .. Len(d) : d[g] = kept[g]
  BY <1>3, <1>7, <1>8, <1>9, SharedHistory
<1>11. IsPrefixOf(d, kept)
  BY <1>7, <1>8, <1>10, TipHeight DEF IsPrefixOf
<1> QED
  BY <1>1, <1>5, <1>11

(***************************************************************************)
(* m itself is offered nothing it could take.                              *)
(***************************************************************************)
LEMMA MinerNotExtended ==
  ASSUME TypeOK, MutexInv, ChainInv, NEW m \in Nodes, OneMinerInv(m)
  PROVE  ~ExtendChain(m)
<1> SUFFICES ASSUME ExtendChain(m) PROVE FALSE
  OBVIOUS
<1>1. PICK c, b : c = chain[m] /\ b = poll[m].got[1]
  OBVIOUS
<1>2. HonestChain(c) /\ Keeps(m) = c
  BY <1>1, FreeKeeps DEF ExtendChain
<1>3. IsPrefixOf(Append(c, b), c)
  BY <1>1, <1>2, ExtensionIsTaken
<1>4. c \in Seq(Range(c))
  BY <1>2 DEF HonestChain, IsSeq
<1>5. Len(Append(c, b)) = Len(c) + 1 /\ Len(c) \in Nat
  BY <1>4
<1> QED
  BY <1>3, <1>5 DEF IsPrefixOf

LEMMA MinerNotReorganised ==
  ASSUME TypeOK, MutexInv, ChainInv, NEW m \in Nodes, OneMinerInv(m), Reorg(m)
  PROVE  ~try_reorg(chain[m], poll[m].got)
<1>1. PICK c, d : c = chain[m] /\ d = poll[m].got
  OBVIOUS
<1> SUFFICES ASSUME try_reorg(c, d) PROVE FALSE
  BY <1>1
<1>2. HonestChain(c) /\ Keeps(m) = c
  BY <1>1, FreeKeeps DEF Reorg
<1>3. HonestChain(d) /\ TakenFrom(d, c)
  BY <1>1, <1>2, ChainInvParts DEF Reorg, GoodPoll, OneMinerInv, ReceivedFrom
<1>4. Len(c) \in Nat \ {0} /\ Len(d) \in Nat \ {0}
  BY <1>2, <1>3, TipHeight
<1>5. d[1] = c[1]
  <2>1. GetHash(d[1]) = GetHash(c[1])
    BY DEF try_reorg
  <2>2. 1 \in 1 .. Len(c) /\ 1 \in 1 .. Len(d)
    BY <1>4
  <2> QED
    BY <1>2, <1>3, <2>1, <2>2, BlockDetermined
<1>6. IsPrefixOf(d, c)
  <2>1. CASE Len(d) = 1
    BY <1>4, <1>5, <2>1 DEF IsPrefixOf
  <2> QED
    BY <1>3, <2>1 DEF TakenFrom
<1>7. calculate_chain_work(d) <= calculate_chain_work(c)
  BY <1>2, <1>3, <1>6, PrefixWork
<1>8. calculate_chain_work(d) > calculate_chain_work(c)
  BY DEF try_reorg
<1>9. calculate_chain_work(d) \in Int /\ calculate_chain_work(c) \in Int
  BY <1>2, <1>3, HonestWork
<1> QED
  BY <1>7, <1>8, <1>9

-----------------------------------------------------------------------------
(***************************************************************************)
(* Each action preserves OneMinerInv.  A step is compared with the chain m *)
(* kept before it; that chain grows at most.                               *)
(***************************************************************************)
AllTaken(m, kept, ch, dc, po) ==
  /\ ch[m] = <<>> \/ IsPrefixOf(kept, ch[m])
  /\ \A n \in Nodes \ {m} : TakenFrom(ch[n], kept) /\ TakenFrom(dc[n], kept)
  /\ \A n \in Nodes : ReceivedFrom(po[n], kept)

LEMMA OneMinerParts ==
  ASSUME NEW m
  PROVE  OneMinerInv(m) <=> AllTaken(m, Keeps(m), chain, diskChain, poll)
  BY DEF OneMinerInv, AllTaken

LEMMA OneMinerPartsPrimed ==
  ASSUME NEW m
  PROVE  OneMinerInv(m)' <=> AllTaken(m, Keeps(m)', chain', diskChain', poll')
  BY DEF OneMinerInv, AllTaken, ReceivedFrom, TakenFrom, IsPrefixOf

(***************************************************************************)
(* A step of node n.                                                       *)
(***************************************************************************)
LEMMA TakenStepOf ==
  ASSUME NEW m \in Nodes, OneMinerInv(m), NEW n \in Nodes,
         n = m => chain'[n] = <<>> \/ IsPrefixOf(Keeps(m), chain'[n]),
         n # m => /\ TakenFrom(chain'[n], Keeps(m))
                  /\ TakenFrom(diskChain'[n], Keeps(m)),
         ReceivedFrom(poll'[n], Keeps(m)),
         \A k \in Nodes \ {n} : /\ chain'[k] = chain[k]
                                /\ diskChain'[k] = diskChain[k]
                                /\ poll'[k] = poll[k]
  PROVE  AllTaken(m, Keeps(m), chain', diskChain', poll')
<1>1. PICK kept : kept = Keeps(m)
  OBVIOUS
<1>2. AllTaken(m, kept, chain, diskChain, poll)
  BY <1>1, OneMinerParts
<1>3. chain'[m] = <<>> \/ IsPrefixOf(kept, chain'[m])
  BY <1>1, <1>2 DEF AllTaken
<1>4. \A k \in Nodes \ {m} : TakenFrom(chain'[k], kept) /\ TakenFrom(diskChain'[k], kept)
  BY <1>1, <1>2 DEF AllTaken
<1>5. \A k \in Nodes : ReceivedFrom(poll'[k], kept)
  BY <1>1, <1>2 DEF AllTaken
<1> QED
  BY <1>1, <1>3, <1>4, <1>5 DEF AllTaken

LEMMA IdleIsTaken ==
  ASSUME NEW kept
  PROVE  /\ \A t : ReceivedFrom(PollIdle(t), kept)
         /\ ReceivedFrom(PollStart, kept)
         /\ \A n : ReceivedFrom(PollReturns(n), kept)
         /\ \A n, pc, got : pc \notin {"got_chain", "got_block"}
                              => ReceivedFrom(PollAt(n, pc, got), kept)
         /\ \A p : ReceivedFrom(p, kept) => ReceivedFrom(Disconnected(p), kept)
  BY DEF ReceivedFrom, PollIdle, PollStart, PollReturns, PollAt, Disconnected

LEMMA StartTaken ==
  ASSUME TypeOK, MutexInv, ChainInv, NEW m \in Nodes, OneMinerInv(m),
         NEW n \in Nodes, NEW time, Start(n, time)
  PROVE  AllTaken(m, Keeps(m), chain', diskChain', poll')
<1>1. PICK c, kept : c = load_or_create_chain(n, time) /\ kept = Keeps(m)
  OBVIOUS
<1>2. /\ chain'[n] = c /\ diskChain' = diskChain /\ poll' = poll
      /\ \A k \in Nodes \ {n} : chain'[k] = chain[k]
  BY <1>1 DEF Start, TypeOK
<1>3. ~open[n] /\ Keeps(n) = diskChain[n]
  BY DEF Start, MutexInv, MutexInvOf, Keeps
<1>4. n = m => IsPrefixOf(kept, c)
  <2>1. c = diskChain[n] \/ (diskChain[n] = <<>> /\ IsSeq(c))
    BY <1>1, GenesisIsSeq DEF load_or_create_chain
  <2> QED
    BY <1>1, <1>3, <2>1, PrefixFacts DEF TypeOK
<1>5. n # m => TakenFrom(c, kept)
  BY <1>1, GenesisLength DEF load_or_create_chain, OneMinerInv, TakenFrom
<1>6. n # m => TakenFrom(diskChain'[n], kept)
  BY <1>1, <1>2 DEF OneMinerInv
<1>7. ReceivedFrom(poll'[n], kept)
  BY <1>1, <1>2 DEF OneMinerInv
<1> QED
  BY <1>1, <1>2, <1>4, <1>5, <1>6, <1>7, TakenStepOf

LEMMA EmptyIsTaken ==
  ASSUME NEW kept, IsSeq(kept)
  PROVE  TakenFrom(<<>>, kept)
  BY PrefixFacts DEF TakenFrom

LEMMA SaveTaken ==
  ASSUME TypeOK, MutexInv, ChainInv, NEW m \in Nodes, OneMinerInv(m),
         NEW n \in Nodes, SaveStep(n)
  PROVE  AllTaken(m, Keeps(m), chain', diskChain', poll')
<1>1. PICK kept : kept = Keeps(m) /\ IsSeq(kept)
  BY KeptIsGood
<1>2. AllTaken(m, kept, chain, diskChain, poll)
  BY <1>1, OneMinerParts
<1>3. /\ chain' = chain
      /\ diskChain'[n] \in {<<>>, chain[n], diskChain[n]}
      /\ poll'[n] \in {poll[n], PollReturns(n)}
      /\ \A k \in Nodes \ {n} : diskChain'[k] = diskChain[k] /\ poll'[k] = poll[k]
  BY DEF SaveStep, Truncate, Write, Released, TypeOK
<1>4. n # m => TakenFrom(diskChain'[n], kept)
  BY <1>1, <1>2, <1>3, EmptyIsTaken DEF AllTaken
<1>5. ReceivedFrom(poll'[n], kept)
  BY <1>2, <1>3, IdleIsTaken DEF AllTaken
<1>6. n = m => chain'[n] = <<>> \/ IsPrefixOf(kept, chain'[n])
  BY <1>2, <1>3 DEF AllTaken
<1>7. n # m => TakenFrom(chain'[n], kept)
  BY <1>2, <1>3 DEF AllTaken
<1> QED
  BY <1>1, <1>3, <1>4, <1>5, <1>6, <1>7, TakenStepOf

LEMMA CrashTaken ==
  ASSUME TypeOK, MutexInv, ChainInv, NEW m \in Nodes, OneMinerInv(m),
         NEW n \in Nodes, Crash(n)
  PROVE  AllTaken(m, Keeps(m), chain', diskChain', poll')
<1>1. PICK kept : kept = Keeps(m) /\ IsSeq(kept)
  BY KeptIsGood
<1>2. AllTaken(m, kept, chain, diskChain, poll)
  BY <1>1, OneMinerParts
<1>3. /\ chain'[n] = <<>> /\ diskChain' = diskChain
      /\ \A k \in Nodes \ {n} : chain'[k] = chain[k]
  BY DEF Crash, TypeOK
<1>4. \A k \in Nodes : poll'[k] \in {poll[k], PollStart, Disconnected(poll[k])}
  BY DEF Crash
<1>5. chain'[m] = <<>> \/ IsPrefixOf(kept, chain'[m])
  BY <1>2, <1>3 DEF AllTaken
<1>6. \A k \in Nodes \ {m} : TakenFrom(chain'[k], kept) /\ TakenFrom(diskChain'[k], kept)
  BY <1>1, <1>2, <1>3, EmptyIsTaken DEF AllTaken
<1>7. ASSUME NEW k \in Nodes PROVE ReceivedFrom(poll'[k], kept)
  <2>1. ReceivedFrom(poll[k], kept)
    BY <1>2 DEF AllTaken
  <2>2. ReceivedFrom(PollStart, kept) /\ ReceivedFrom(Disconnected(poll[k]), kept)
    BY <2>1, IdleIsTaken
  <2> QED
    BY <1>4, <2>1, <2>2
<1> QED
  BY <1>1, <1>5, <1>6, <1>7 DEF AllTaken

(***************************************************************************)
(* Only m mines, on top of the chain it keeps.                             *)
(***************************************************************************)
LEMMA MiningTaken ==
  ASSUME TypeOK, MutexInv, ChainInv, NEW m \in Nodes, Miners \subseteq {m},
         OneMinerInv(m), NEW n \in Nodes, NEW time, MiningLoop(n, time)
  PROVE  AllTaken(m, Keeps(m), chain', diskChain', poll')
<1>1. n = m /\ MutexFree(m)
  BY DEF MiningLoop
<1>2. PICK b : chain' = [chain EXCEPT ![m] = Append(chain[m], b)]
  BY <1>1 DEF MiningLoop
<1>3. PICK c : c = chain[m] /\ c = Keeps(m) /\ IsSeq(c)
  BY <1>1, FreeKeeps DEF HonestChain
<1>4. /\ chain'[m] = Append(c, b) /\ diskChain' = diskChain /\ poll' = poll
      /\ \A k \in Nodes \ {m} : chain'[k] = chain[k]
  BY <1>2, <1>3 DEF MiningLoop, TypeOK
<1>5. IsPrefixOf(c, Append(c, b))
  BY <1>3, PrefixFacts
<1>6. ReceivedFrom(poll'[m], Keeps(m))
  BY <1>4 DEF OneMinerInv
<1> QED
  BY <1>3, <1>4, <1>5, <1>6, TakenStepOf

(***************************************************************************)
(* The steps of a poll.                                                    *)
(***************************************************************************)
LEMMA PollOnlyTaken ==
  ASSUME TypeOK, NEW m \in Nodes, OneMinerInv(m), NEW n \in Nodes, NEW p,
         ReceivedFrom(p, Keeps(m)), poll' = [poll EXCEPT ![n] = p],
         UNCHANGED <<chain, diskChain>>
  PROVE  AllTaken(m, Keeps(m), chain', diskChain', poll')
<1>1. PICK kept : kept = Keeps(m)
  OBVIOUS
<1>2. AllTaken(m, kept, chain, diskChain, poll)
  BY <1>1, OneMinerParts
<1>3. poll'[n] = p /\ \A k \in Nodes \ {n} : poll'[k] = poll[k]
  BY DEF TypeOK
<1>4. \A k \in Nodes : ReceivedFrom(poll'[k], kept)
  BY <1>1, <1>2, <1>3 DEF AllTaken
<1> QED
  BY <1>1, <1>2, <1>4 DEF AllTaken

(***************************************************************************)
(* Whoever answers a poll sends what it has taken from m.                  *)
(***************************************************************************)
LEMMA AnswerTaken ==
  ASSUME TypeOK, MutexInv, ChainInv, NEW m \in Nodes, OneMinerInv(m),
         NEW k \in Nodes, MutexFree(k)
  PROVE  /\ TakenFrom(chain[k], Keeps(m))
         /\ \/ Last(chain[k]).hashPrevBlock = ZeroHash
            \/ \E h \in 1 .. Len(Keeps(m)) : Last(chain[k]) = Keeps(m)[h]
<1>1. PICK c, kept : c = chain[k] /\ kept = Keeps(m)
  OBVIOUS
<1>2. HonestChain(c) /\ Keeps(k) = c
  BY <1>1, FreeKeeps
<1>3. IsSeq(c) /\ Len(c) \in Nat \ {0} /\ Len(c) \in 1 .. Len(c) /\ Last(c) = c[Len(c)]
  BY <1>2, TipHeight
<1>4. TakenFrom(c, kept)
  <2>1. k = m => IsPrefixOf(c, kept)
    BY <1>1, <1>2, <1>3, PrefixFacts
  <2>2. k # m => TakenFrom(c, kept)
    BY <1>1 DEF OneMinerInv
  <2> QED
    BY <2>1, <2>2 DEF TakenFrom
<1>5. CASE Len(c) = 1
  <2>1. Last(c).hashPrevBlock = ZeroHash
    BY <1>2, <1>3, <1>5, LinkFacts
  <2> QED
    BY <1>1, <1>4, <2>1
<1>6. CASE IsPrefixOf(c, kept)
  <2>1. Len(kept) \in Nat
    BY <1>1, KeptIsGood, SeqFacts
  <2>2. Len(c) \in 1 .. Len(kept) /\ Last(c) = kept[Len(c)]
    BY <1>3, <1>6, <2>1 DEF IsPrefixOf
  <2> QED
    BY <1>1, <1>4, <2>2
<1> QED
  BY <1>4, <1>5, <1>6 DEF TakenFrom

LEMMA SendBlockTaken ==
  ASSUME TypeOK, MutexInv, ChainInv, NEW m \in Nodes, OneMinerInv(m),
         NEW n \in Nodes, NEW k \in Nodes, SendBlock(n, k)
  PROVE  AllTaken(m, Keeps(m), chain', diskChain', poll')
<1>1. PICK p : p = PollAt(n, "got_block", <<Last(chain[k])>>)
  OBVIOUS
<1>2. p.pc = "got_block" /\ p.got[1] = Last(chain[k])
  BY <1>1 DEF PollAt
<1>3. MutexFree(k) /\ poll' = [poll EXCEPT ![n] = p] /\ UNCHANGED <<chain, diskChain>>
  BY <1>1 DEF SendBlock, Answer, ExceptPoll
<1>4. ReceivedFrom(p, Keeps(m))
  BY <1>2, <1>3, AnswerTaken DEF ReceivedFrom
<1> QED
  BY <1>3, <1>4, PollOnlyTaken

LEMMA SendChainTaken ==
  ASSUME TypeOK, MutexInv, ChainInv, NEW m \in Nodes, OneMinerInv(m),
         NEW n \in Nodes, NEW k \in Nodes, SendChain(n, k)
  PROVE  AllTaken(m, Keeps(m), chain', diskChain', poll')
<1>1. PICK p : /\ p = PollAt(n, "got_chain", chain[k]) \/ p = PollReturns(n)
               /\ poll' = [poll EXCEPT ![n] = p]
  BY DEF SendChain
<1>2. MutexFree(k) /\ UNCHANGED <<chain, diskChain>>
  BY DEF SendChain, Answer, ExceptPoll
<1>3. TakenFrom(chain[k], Keeps(m))
  BY <1>2, AnswerTaken
<1>4. ReceivedFrom(PollAt(n, "got_chain", chain[k]), Keeps(m))
  BY <1>3 DEF ReceivedFrom, PollAt
<1>5. ReceivedFrom(p, Keeps(m))
  BY <1>1, <1>4, IdleIsTaken
<1> QED
  BY <1>1, <1>2, <1>5, PollOnlyTaken

LEMMA TakeoverTaken ==
  ASSUME TypeOK, NEW m \in Nodes, OneMinerInv(m), NEW n \in Nodes \ {m}, NEW c,
         TakenFrom(c, Keeps(m)), chain' = [chain EXCEPT ![n] = c],
         poll' = [poll EXCEPT ![n] = PollAt(n, "saving", <<>>)], UNCHANGED diskChain
  PROVE  AllTaken(m, Keeps(m), chain', diskChain', poll')
<1>1. /\ chain'[n] = c /\ poll'[n] = PollAt(n, "saving", <<>>)
      /\ \A k \in Nodes \ {n} : chain'[k] = chain[k] /\ poll'[k] = poll[k]
  BY DEF TypeOK
<1>2. ReceivedFrom(poll'[n], Keeps(m))
  BY <1>1, IdleIsTaken
<1>3. TakenFrom(diskChain'[n], Keeps(m))
  BY DEF OneMinerInv
<1> QED
  BY <1>1, <1>2, <1>3, TakenStepOf

LEMMA PollTaken ==
  ASSUME TypeOK, MutexInv, ChainInv, NEW m \in Nodes, OneMinerInv(m),
         NEW n \in Nodes, PollStep(n)
  PROVE  AllTaken(m, Keeps(m), chain', diskChain', poll')
<1>1. CASE PollConnect(n) \/ RequestChain(n) \/ ReceiveFails(n)
  <2>1. PICK p : /\ poll' = [poll EXCEPT ![n] = p]
                 /\ \/ p = [pc |-> "wait_inv", turn |-> poll[n].turn,
                            conn |-> TRUE, got |-> <<>>]
                    \/ p = PollReturns(n)
                    \/ p = PollAt(n, "wait_chain", <<>>)
    BY <1>1 DEF PollConnect, RequestChain, ReceiveFails
  <2>2. ReceivedFrom(p, Keeps(m))
    BY <2>1, IdleIsTaken DEF ReceivedFrom
  <2>3. UNCHANGED <<chain, diskChain>>
    BY <1>1 DEF PollConnect, RequestChain, ReceiveFails, ExceptPoll
  <2> QED
    BY <2>1, <2>2, <2>3, PollOnlyTaken
<1>2. ASSUME NEW k \in Nodes, SendInv(n, k)
      PROVE  AllTaken(m, Keeps(m), chain', diskChain', poll')
  <2>1. ReceivedFrom(PollAt(n, "wait_block", <<>>), Keeps(m))
    BY IdleIsTaken
  <2>2. UNCHANGED <<chain, diskChain>>
    BY <1>2 DEF SendInv, Answer, ExceptPoll
  <2> QED
    BY <1>2, <2>1, <2>2, PollOnlyTaken DEF SendInv
<1>3. CASE ExtendChain(n)
  <2>1. n \in Nodes \ {m}
    BY <1>3, MinerNotExtended
  <2>2. TakenFrom(Append(chain[n], poll[n].got[1]), Keeps(m))
    BY <1>3, ExtensionIsTaken DEF TakenFrom
  <2> QED
    BY <1>3, <2>1, <2>2, TakeoverTaken DEF ExtendChain
<1>4. CASE Reorg(n) /\ try_reorg(chain[n], poll[n].got)
  <2>1. n \in Nodes \ {m}
    BY <1>4, MinerNotReorganised
  <2>2. TakenFrom(poll[n].got, Keeps(m))
    BY <1>4 DEF Reorg, OneMinerInv, ReceivedFrom
  <2> QED
    BY <1>4, <2>1, <2>2, TakeoverTaken DEF Reorg
<1>5. CASE Reorg(n) /\ ~try_reorg(chain[n], poll[n].got)
  <2>1. ReceivedFrom(PollReturns(n), Keeps(m))
    BY IdleIsTaken
  <2> QED
    BY <1>5, <2>1, PollOnlyTaken DEF Reorg
<1> QED
  BY <1>1, <1>2, <1>3, <1>4, <1>5, SendBlockTaken, SendChainTaken DEF PollStep

LEMMA NextTaken ==
  ASSUME TypeOK, MutexInv, ChainInv, NEW m \in Nodes, Miners \subseteq {m},
         OneMinerInv(m), [Next]_vars
  PROVE  AllTaken(m, Keeps(m), chain', diskChain', poll')
<1>1. CASE UNCHANGED <<chain, diskChain, poll>>
  BY <1>1, OneMinerParts
<1>2. CASE UNCHANGED vars
  BY <1>1, <1>2 DEF vars
<1>3. ASSUME NEW n \in Nodes, MineForever(n) \/ Pay(n) PROVE UNCHANGED <<chain, diskChain, poll>>
  BY <1>3 DEF MineForever, Pay, run_send_tx
<1>4. ASSUME NEW n \in Nodes, NEW tx, AcceptTransaction(n, tx) \/ LoseTransaction(n, tx)
      PROVE  UNCHANGED <<chain, diskChain, poll>>
  BY <1>4 DEF AcceptTransaction, LoseTransaction
<1>5. ASSUME NEW n \in Nodes, LoseConnection(n)
      PROVE  AllTaken(m, Keeps(m), chain', diskChain', poll')
  <2>1. ReceivedFrom(poll[n], Keeps(m))
    BY DEF OneMinerInv
  <2>2. ReceivedFrom(Disconnected(poll[n]), Keeps(m))
    BY <2>1, IdleIsTaken
  <2> QED
    BY <1>5, <2>2, PollOnlyTaken DEF LoseConnection
<1>6. ASSUME NEW n \in Nodes, Fault(n)
      PROVE  AllTaken(m, Keeps(m), chain', diskChain', poll')
  BY <1>1, <1>4, <1>5, <1>6, CrashTaken DEF Fault
<1>7. CASE Next
  <2>1. PICK n \in Nodes : \/ \E time \in Times : Start(n, time) \/ MiningLoop(n, time)
                           \/ MineForever(n) \/ SaveStep(n) \/ PollStep(n) \/ Pay(n)
                           \/ \E tx \in wire[n] : AcceptTransaction(n, tx)
                           \/ Fault(n)
    BY <1>7 DEF Next
  <2>2. CASE \E time \in Times : Start(n, time) \/ MiningLoop(n, time)
    BY <2>2, StartTaken, MiningTaken
  <2>3. CASE SaveStep(n) \/ PollStep(n)
    BY <2>3, SaveTaken, PollTaken
  <2>4. CASE MineForever(n) \/ Pay(n) \/ \E tx \in wire[n] : AcceptTransaction(n, tx)
    BY <1>1, <1>3, <1>4, <2>4
  <2> QED
    BY <1>6, <2>1, <2>2, <2>3, <2>4
<1> QED
  BY <1>2, <1>7

LEMMA NextOneMinerInv ==
  ASSUME TORN_CRASH = FALSE, TypeOK, MutexInv, ChainInv, NEW m \in Nodes,
         Miners \subseteq {m}, OneMinerInv(m), [Next]_vars
  PROVE  OneMinerInv(m)'
<1>1. PICK kept, l : kept = Keeps(m) /\ l = Keeps(m)'
  OBVIOUS
<1>2. AllTaken(m, kept, chain', diskChain', poll')
  BY <1>1, NextTaken
<1>3. TypeOK'
  BY NextTypeOK
<1>4. \A n \in Nodes : IsSeq(chain'[n]) /\ IsSeq(diskChain'[n]) /\ IsSeq(poll'[n].got)
  BY <1>3 DEF TypeOK, PollOK, IsSeq
<1>5. IsSeq(kept) /\ \A n \in Nodes : IsSeq(chain[n])
  BY <1>1, KeptIsGood DEF TypeOK
<1>6. CASE l = kept
  BY <1>1, <1>2, <1>6, OneMinerPartsPrimed
<1>7. CASE l = chain[m] /\ Truncate(m) /\ IsPrefixOf(kept, l)
  <2>1. IsSeq(l) /\ chain'[m] = l
    BY <1>5, <1>7 DEF Truncate
  <2>2. IsPrefixOf(l, l)
    BY <2>1, PrefixFacts
  <2>3. \A n \in Nodes \ {m} : TakenFrom(chain'[n], l) /\ TakenFrom(diskChain'[n], l)
    BY <1>2, <1>4, <1>5, <1>7, <2>1, TakenGrows DEF AllTaken
  <2>4. \A n \in Nodes : ReceivedFrom(poll'[n], l)
    BY <1>2, <1>4, <1>5, <1>7, <2>1, TakenGrows DEF AllTaken
  <2>5. AllTaken(m, l, chain', diskChain', poll')
    BY <2>1, <2>2, <2>3, <2>4 DEF AllTaken
  <2> QED
    BY <1>1, <2>5, OneMinerPartsPrimed
<1> QED
  BY <1>1, <1>6, <1>7, KeptGrows

LEMMA InitOneMinerInv ==
  ASSUME Init, NEW m \in Nodes
  PROVE  OneMinerInv(m)
<1>1. PICK kept : kept = Keeps(m)
  OBVIOUS
<1>2. kept = diskChain[m] /\ IsSeq(kept)
  <2>1. TypeOK
    BY InitTypeOK
  <2> QED
    BY <1>1, <2>1 DEF Init, Keeps, TypeOK
<1>3. \A n \in Nodes : chain[n] = <<>> /\ diskChain[n] \in {<<>>, SeedChain} /\ poll[n] = PollStart
  BY DEF Init
<1>4. TakenFrom(<<>>, kept) /\ TakenFrom(SeedChain, kept)
  BY <1>2, EmptyIsTaken, GenesisLength DEF SeedChain, TakenFrom
<1>5. ReceivedFrom(PollStart, kept)
  BY IdleIsTaken
<1> QED
  BY <1>1, <1>3, <1>4, <1>5, OneMinerParts DEF AllTaken

-----------------------------------------------------------------------------
(***************************************************************************)
(* What m has accepted spends outputs of the chain m keeps.                *)
(***************************************************************************)
LEMMA FundedGrows ==
  ASSUME NEW c, NEW d, IsSeq(c), IsSeq(d), IsPrefixOf(c, d), NEW tx, Funded(tx, c)
  PROVE  Funded(tx, d)
<1>1. Len(c) \in Nat /\ Len(d) \in Nat
  BY SeqFacts
<1>2. \A g \in 1 .. Len(c) : g \in 1 .. Len(d) /\ c[g] = d[g]
  BY <1>1 DEF IsPrefixOf
<1>3. AllTxs(c) \subseteq AllTxs(d)
  BY <1>2 DEF AllTxs
<1> QED
  BY <1>3 DEF Funded

LEMMA AcceptedIsFunded ==
  ASSUME TypeOK, MutexInv, ChainInv, NEW n \in Nodes, MutexFree(n), NEW tx, HonestTx(tx),
         Acceptable(n, tx)
  PROVE  WasValid(tx) /\ Funded(tx, Keeps(n))
<1>1. PICK c, U : c = chain[n] /\ U = build_utxo_set(c)
  OBVIOUS
<1>2. Keeps(n) = c
  BY <1>1, FreeKeeps
<1>3. ~IsCoinbase(tx) /\ validate_and_get_fee(tx, U) >= 0
  BY <1>1 DEF Acceptable
<1>4. Inputs(tx) \subseteq U
  BY <1>3, FeeNeedsInputs
<1>5. validate_and_get_fee(tx, Inputs(tx)) >= 0
  BY <1>3, <1>4, FeeSameUtxo
<1>6. Funded(tx, c)
  BY <1>1, <1>4 DEF Funded, build_utxo_set
<1> QED
  BY <1>2, <1>3, <1>5, <1>6 DEF WasValid

(***************************************************************************)
(* Where the mempool's entries come from.                                  *)
(***************************************************************************)
Entries(n) == Range(diskPool[n]) \cup Range(newPool[n])

LEMMA EntriesStep ==
  ASSUME TypeOK, NEW n \in Nodes, [Next]_vars
  PROVE  \A tx \in Entries(n)' : \/ tx \in Entries(n)
                                 \/ tx \in wire[n] /\ MutexFree(n) /\ Acceptable(n, tx)
<1>1. Range(<<>>) = {}
  BY DEF Range
<1>2. CASE \A k \in Nodes : /\ diskPool'[k] \in {<<>>, diskPool[k], newPool[k]}
                            /\ newPool'[k] \in {<<>>, newPool[k]}
  BY <1>1, <1>2 DEF Entries
<1>3. ASSUME NEW k \in Nodes, NEW tx \in wire[k], AcceptTransaction(k, tx)
      PROVE  \A t \in Entries(n)' : \/ t \in Entries(n)
                                    \/ t \in wire[n] /\ MutexFree(n) /\ Acceptable(n, t)
  <2>1. diskPool' = diskPool /\ \A i \in Nodes \ {k} : newPool'[i] = newPool[i]
    BY <1>3 DEF AcceptTransaction, TypeOK
  <2>2. CASE k # n
    BY <2>1, <2>2 DEF Entries
  <2>3. CASE k = n /\ ~Acceptable(n, tx)
    BY <1>3, <2>1, <2>3 DEF Entries, AcceptTransaction
  <2>4. CASE k = n /\ Acceptable(n, tx)
    <3>1. newPool'[n] = Append(diskPool[n], tx) /\ MutexFree(n)
      BY <1>3, <2>4 DEF AcceptTransaction, TypeOK
    <3>2. IsSeq(diskPool[n])
      BY DEF TypeOK
    <3>3. Range(newPool'[n]) \subseteq Range(diskPool[n]) \cup {tx}
      BY <3>1, <3>2 DEF IsSeq, Range
    <3> QED
      BY <1>3, <2>1, <2>4, <3>1, <3>3 DEF Entries
  <2> QED
    BY <2>2, <2>3, <2>4
<1>4. CASE UNCHANGED vars
  BY <1>2, <1>4 DEF vars
<1>5. ASSUME NEW k \in Nodes, SaveStep(k)
      PROVE  \A i \in Nodes : /\ diskPool'[i] \in {<<>>, diskPool[i], newPool[i]}
                              /\ newPool'[i] \in {<<>>, newPool[i]}
  BY <1>5 DEF SaveStep, Truncate, Write, TypeOK
<1>6. ASSUME NEW k \in Nodes, Fault(k)
      PROVE  \A i \in Nodes : /\ diskPool'[i] \in {<<>>, diskPool[i], newPool[i]}
                              /\ newPool'[i] \in {<<>>, newPool[i]}
  BY <1>6 DEF Fault, Crash, LoseConnection, LoseTransaction, TypeOK
<1>7. ASSUME NEW k \in Nodes, NEW time, Start(k, time) \/ MiningLoop(k, time)
      PROVE  \A i \in Nodes : /\ diskPool'[i] \in {<<>>, diskPool[i], newPool[i]}
                              /\ newPool'[i] \in {<<>>, newPool[i]}
  BY <1>7 DEF Start, MiningLoop, TypeOK
<1>8. ASSUME NEW k \in Nodes, MineForever(k) \/ Pay(k)
      PROVE  diskPool' = diskPool /\ newPool' = newPool
  BY <1>8 DEF MineForever, Pay, run_send_tx
<1>9. ASSUME NEW k \in Nodes, PollStep(k)
      PROVE  diskPool' = diskPool /\ newPool' = newPool
  BY <1>9 DEF PollStep, PollConnect, SendInv, SendBlock, SendChain, Answer, ExtendChain,
     RequestChain, Reorg, ReceiveFails, ExceptPoll
<1>10. CASE Next
  <2>1. PICK k \in Nodes : \/ \E time \in Times : Start(k, time) \/ MiningLoop(k, time)
                           \/ MineForever(k) \/ SaveStep(k) \/ PollStep(k) \/ Pay(k)
                           \/ \E tx \in wire[k] : AcceptTransaction(k, tx)
                           \/ Fault(k)
    BY <1>10 DEF Next
  <2>2. CASE \E tx \in wire[k] : AcceptTransaction(k, tx)
    BY <1>3, <2>2
  <2>3. CASE \E time \in Times : Start(k, time) \/ MiningLoop(k, time)
    BY <1>2, <1>7, <2>3
  <2>4. CASE MineForever(k) \/ Pay(k) \/ PollStep(k)
    BY <1>2, <1>8, <1>9, <2>4
  <2>5. CASE SaveStep(k) \/ Fault(k)
    BY <1>2, <1>5, <1>6, <2>5
  <2> QED
    BY <2>1, <2>2, <2>3, <2>4, <2>5
<1> QED
  BY <1>4, <1>10

LEMMA NextFundedInv ==
  ASSUME TORN_CRASH = FALSE, TypeOK, MutexInv, ChainInv, NEW m \in Nodes,
         OneMinerInv(m), FundedInv(m), [Next]_vars
  PROVE  FundedInv(m)'
<1>1. PICK kept, l : kept = Keeps(m) /\ l = Keeps(m)'
  OBVIOUS
<1>2. IsSeq(kept) /\ IsSeq(chain[m])
  BY <1>1, KeptIsGood DEF TypeOK
<1>3. IsSeq(l) /\ IsPrefixOf(kept, l)
  BY <1>1, <1>2, KeptGrows, PrefixFacts
<1>4. \A tx \in Entries(m)' : WasValid(tx) /\ Funded(tx, kept)
  <2> TAKE tx \in Entries(m)'
  <2>1. CASE tx \in Entries(m)
    BY <1>1, <2>1 DEF FundedInv, Entries
  <2>2. CASE tx \in wire[m] /\ MutexFree(m) /\ Acceptable(m, tx)
    <3>1. HonestTx(tx)
      BY <2>2, ChainInvParts DEF HonestTxs
    <3> QED
      BY <1>1, <2>2, <3>1, AcceptedIsFunded
  <2> QED
    BY <2>1, <2>2, EntriesStep
<1>5. \A tx \in Entries(m)' : WasValid(tx) /\ Funded(tx, l)
  BY <1>2, <1>3, <1>4, FundedGrows
<1> QED
  BY <1>1, <1>5 DEF FundedInv, Entries

-----------------------------------------------------------------------------
(***************************************************************************)
(* A block m mines leaves no payment of m's mempool that the chain could   *)
(* still execute: the payments are funded by the blocks below the new one, *)
(* so that none of them stands out of turn.                                *)
(***************************************************************************)
LEMMA FundedInTurn ==
  ASSUME NEW c, HonestChain(c), NEW b, HonestChain(Append(c, b)), NEW pool, NEW tx,
         Funded(tx, c)
  PROVE  ~OutOfTurn(Append(c, b), pool, tx)
<1>1. PICK d : d = Append(c, b)
  OBVIOUS
<1> SUFFICES ASSUME OutOfTurn(d, pool, tx) PROVE FALSE
  BY <1>1
<1>2. c \in Seq(Range(c)) /\ IsSeq(c) /\ Len(c) \in Nat
  BY TipHeight DEF IsSeq
<1>3. Len(d) = Len(c) + 1 /\ d[Len(c) + 1] = b /\ \A g \in 1 .. Len(c) : d[g] = c[g]
  BY <1>1, <1>2
<1>4. Last(d) = b
  BY <1>1, <1>3, TipHeight
<1>5. PICK t \in Range(b.vtx), o \in Inputs(tx) : o \in Outputs(t)
  BY <1>4 DEF OutOfTurn
<1>6. PICK u \in AllTxs(c) : o \in Outputs(u)
  BY <1>5 DEF Funded
<1>7. t = u
  BY <1>5, <1>6, OutputOfOne
<1>8. PICK h, i : At(c, h, i) /\ c[h].vtx[i] = u
  BY <1>6, HonestHasSeqs, InAllTxs DEF At
<1>9. IsSeq(b.vtx)
  <2>1. HasSeqs(d) /\ Len(c) + 1 \in 1 .. Len(d)
    BY <1>1, <1>2, <1>3, HonestHasSeqs
  <2> QED
    BY <1>3, <2>1 DEF HasSeqs
<1>10. PICK j \in 1 .. Len(b.vtx) : b.vtx[j] = t
  BY <1>5, <1>9, SeqFacts
<1>11. At(d, h, i) /\ At(d, Len(c) + 1, j) /\ h \in 1 .. Len(c)
  BY <1>2, <1>3, <1>8, <1>10 DEF At
<1>12. d[h].vtx[i] = d[Len(c) + 1].vtx[j]
  BY <1>3, <1>7, <1>8, <1>10, <1>11
<1>13. h = Len(c) + 1
  BY <1>1, <1>11, <1>12, TxsUnique
<1> QED
  BY <1>2, <1>11, <1>13

LEMMA MiningSettlesPool ==
  ASSUME TypeOK, MutexInv, ChainInv, NEW m \in Nodes, FundedInv(m), NEW time \in Times,
         MiningLoop(m, time), NEW tx \in Range(diskPool[m])
  PROVE  ~(Inputs(tx) \subseteq build_utxo_set(chain'[m]))
<1>1. PICK c, pool : c = chain[m] /\ pool = diskPool[m]
  OBVIOUS
<1>2. PICK picked \in UNION {[1 .. k -> 1 .. Len(pool)] : k \in 0 .. Len(pool)} :
        /\ IsSelection(c, pool, picked)
        /\ chain' = [chain EXCEPT ![m] = Append(c,
             build_next_block(c, m, SelectedFees(c, pool, picked),
                              Kept(pool, picked), time))]
  BY <1>1 DEF MiningLoop
<1>3. PICK b : b = MinedBlock(c, m, pool, picked, time)
  OBVIOUS
<1>4. chain'[m] = Append(c, b)
  BY <1>2, <1>3 DEF TypeOK, MinedBlock
<1>5. HonestChain(c) /\ Keeps(m) = c /\ Mineable(NextBits(c))
  BY <1>1, FreeKeeps DEF MiningLoop
<1>6. GoodPool(pool)
  BY <1>1 DEF GoodPool, FundedInv, TypeOK
<1>7. picked \in Seq(1 .. Len(pool))
  BY <1>6, SeqFacts, PickedIsSeq DEF GoodPool
<1>8. time \in Int
  BY DaemonAssumption
<1>9. Settled(Append(c, b), pool, tx)
  BY <1>1, <1>2, <1>3, <1>5, <1>6, <1>7, <1>8, MinedSettles
<1>10. HonestChain(Append(c, b))
  <2>1. \A t \in Range(pool) : HonestTx(t)
    BY <1>6, PoolHonest
  <2> QED
    BY <1>2, <1>3, <1>5, <1>6, <1>7, <1>8, <2>1, MinedHonest DEF MinedBlock, GoodPool
<1>11. Funded(tx, c)
  BY <1>5 DEF FundedInv
<1>12. ~OutOfTurn(Append(c, b), pool, tx)
  BY <1>5, <1>10, <1>11, FundedInTurn
<1> QED
  BY <1>4, <1>9, <1>12 DEF Settled

(***************************************************************************)
(* Each action preserves PendingInv.                                       *)
(***************************************************************************)
LEMMA PendingFrame ==
  ASSUME PendingInv, UNCHANGED <<chain, diskPool, newPool, job, open>>
  PROVE  PendingInv'
  BY DEF PendingInv, PendingInvOf

LEMMA PendingStepOf ==
  ASSUME PendingInv, NEW n \in Nodes, PendingInvOf(n)',
         \A k \in Nodes \ {n} : /\ chain'[k] = chain[k]
                                /\ diskPool'[k] = diskPool[k]
                                /\ newPool'[k] = newPool[k]
                                /\ job'[k] = job[k]
                                /\ open'[k] = open[k]
  PROVE  PendingInv'
<1> SUFFICES ASSUME NEW k \in Nodes PROVE PendingInvOf(k)'
  BY DEF PendingInv
<1>1. CASE k = n
  BY <1>1
<1>2. CASE k # n
  BY <1>2 DEF PendingInv, PendingInvOf
<1> QED
  BY <1>1, <1>2

(***************************************************************************)
(* A step after which n has no mempool to save.                            *)
(***************************************************************************)
LEMMA PendingNothing ==
  ASSUME PendingInv, NEW n \in Nodes, job'[n] \in {<<>>, <<"chain">>},
         \A k \in Nodes \ {n} : /\ chain'[k] = chain[k]
                                /\ diskPool'[k] = diskPool[k]
                                /\ newPool'[k] = newPool[k]
                                /\ job'[k] = job[k]
                                /\ open'[k] = open[k]
  PROVE  PendingInv'
<1>1. PendingInvOf(n)'
  BY DEF PendingInvOf
<1> QED
  BY <1>1, PendingStepOf

LEMMA TruncatePending ==
  ASSUME TypeOK, PendingInv, NEW n \in Nodes, Truncate(n)
  PROVE  PendingInv'
<1>1. /\ chain' = chain /\ newPool' = newPool /\ job' = job
      /\ ~open[n] /\ open'[n] /\ job[n] # <<>>
      /\ Head(job[n]) = "chain" => diskPool' = diskPool
      /\ \A k \in Nodes \ {n} : open'[k] = open[k] /\ diskPool'[k] = diskPool[k]
  BY DEF Truncate, TypeOK
<1>2. PendingInvOf(n)'
  <2>1. CASE job[n] = <<"chain", "pool">>
    <3>1. diskPool' = diskPool
      BY <1>1, <2>1, HeadTail
    <3> QED
      BY <1>1, <3>1 DEF PendingInv, PendingInvOf
  <2>2. CASE job[n] # <<"chain", "pool">>
    BY <1>1, <2>2 DEF PendingInvOf
  <2> QED
    BY <2>1, <2>2
<1> QED
  BY <1>1, <1>2, PendingStepOf

LEMMA WritePending ==
  ASSUME TypeOK, MutexInv, PendingInv, NEW n \in Nodes, Write(n)
  PROVE  PendingInv'
<1>1. /\ chain' = chain /\ newPool' = newPool /\ job'[n] = Tail(job[n])
      /\ Head(job[n]) = "chain" => diskPool' = diskPool
      /\ \A k \in Nodes \ {n} : /\ open'[k] = open[k] /\ diskPool'[k] = diskPool[k]
                                /\ job'[k] = job[k]
  BY DEF Write, TypeOK
<1>2. job[n] # <<>> /\ job[n] \in Jobs
  BY DEF Write, MutexInv, MutexInvOf, TypeOK
<1>3. CASE job[n] = <<"chain", "pool">>
  <2>1. job'[n] = <<"pool">> /\ diskPool' = diskPool
    BY <1>1, <1>3, HeadTail
  <2>2. PendingInvOf(n)'
    BY <1>1, <1>3, <2>1 DEF PendingInv, PendingInvOf
  <2> QED
    BY <1>1, <2>2, PendingStepOf
<1>4. CASE job[n] # <<"chain", "pool">>
  <2>1. job'[n] = <<>>
    BY <1>1, <1>2, <1>4, HeadTail DEF Jobs
  <2> QED
    BY <1>1, <2>1, PendingNothing
<1> QED
  BY <1>3, <1>4

LEMMA MiningPending ==
  ASSUME TypeOK, MutexInv, ChainInv, NEW m \in Nodes, Miners \subseteq {m}, FundedInv(m),
         PendingInv, NEW n \in Nodes, NEW time \in Times, MiningLoop(n, time)
  PROVE  PendingInv'
<1>1. n = m
  BY DEF MiningLoop
<1>2. PICK b : chain' = [chain EXCEPT ![m] = Append(chain[m], b)]
  BY <1>1 DEF MiningLoop
<1>3. /\ diskPool' = diskPool /\ open' = open
      /\ \A k \in Nodes \ {m} : /\ chain'[k] = chain[k] /\ newPool'[k] = newPool[k]
                                /\ job'[k] = job[k]
  BY <1>1, <1>2 DEF MiningLoop, TypeOK
<1>4. PendingInvOf(m)'
  BY <1>1, <1>3, MiningSettlesPool DEF PendingInvOf
<1> QED
  BY <1>3, <1>4, PendingStepOf

LEMMA AcceptPending ==
  ASSUME TypeOK, PendingInv, NEW n \in Nodes, NEW tx, AcceptTransaction(n, tx)
  PROVE  PendingInv'
<1>1. CASE ~Acceptable(n, tx)
  BY <1>1, PendingFrame DEF AcceptTransaction
<1>2. CASE Acceptable(n, tx)
  <2>1. /\ chain' = chain /\ diskPool' = diskPool /\ open' = open
        /\ newPool'[n] = Append(diskPool[n], tx)
        /\ \A k \in Nodes \ {n} : newPool'[k] = newPool[k] /\ job'[k] = job[k]
    BY <1>2 DEF AcceptTransaction, TypeOK
  <2>2. diskPool[n] \in Seq(Range(diskPool[n]))
    BY DEF TypeOK, IsSeq
  <2>3. Range(diskPool[n]) \subseteq Range(newPool'[n])
    BY <2>1, <2>2 DEF Range
  <2>4. PendingInvOf(n)'
    BY <2>1, <2>3 DEF PendingInvOf
  <2> QED
    BY <2>1, <2>4, PendingStepOf
<1> QED
  BY <1>1, <1>2

LEMMA NextPendingInv ==
  ASSUME TypeOK, MutexInv, ChainInv, NEW m \in Nodes, Miners \subseteq {m}, FundedInv(m),
         PendingInv, [Next]_vars
  PROVE  PendingInv'
<1>1. CASE UNCHANGED vars
  BY <1>1, PendingFrame DEF vars
<1>2. ASSUME NEW n \in Nodes, NEW time \in Times, Start(n, time) PROVE PendingInv'
  <2>1. /\ job'[n] = <<"chain">> /\ UNCHANGED <<diskPool, newPool, open>>
        /\ \A k \in Nodes \ {n} : chain'[k] = chain[k] /\ job'[k] = job[k]
    BY <1>2 DEF Start, TypeOK
  <2> QED
    BY <2>1, PendingNothing
<1>3. ASSUME NEW n \in Nodes, Crash(n) PROVE PendingInv'
  <2>1. /\ job'[n] = <<>> /\ diskPool' = diskPool
        /\ \A k \in Nodes \ {n} : /\ chain'[k] = chain[k] /\ job'[k] = job[k]
                                  /\ newPool'[k] = newPool[k] /\ open'[k] = open[k]
    BY <1>3 DEF Crash, TypeOK
  <2> QED
    BY <2>1, PendingNothing
<1>4. ASSUME NEW n \in Nodes, ExtendChain(n) \/ Reorg(n) PROVE PendingInv'
  <2>1. /\ UNCHANGED <<diskPool, newPool, open>>
        /\ \A k \in Nodes \ {n} : chain'[k] = chain[k] /\ job'[k] = job[k]
        /\ job'[n] \in {<<>>, <<"chain">>}
    BY <1>4 DEF ExtendChain, Reorg, MutexFree, TypeOK
  <2> QED
    BY <2>1, PendingNothing
<1>5. ASSUME NEW n \in Nodes, PollStep(n) PROVE PendingInv'
  <2>1. CASE ExceptPoll
    BY <2>1, PendingFrame DEF ExceptPoll
  <2>2. PollConnect(n) \/ RequestChain(n) \/ ReceiveFails(n) => ExceptPoll
    BY DEF PollConnect, RequestChain, ReceiveFails
  <2>3. \A k \in Nodes : SendInv(n, k) \/ SendBlock(n, k) \/ SendChain(n, k) => ExceptPoll
    BY DEF SendInv, SendBlock, SendChain, Answer
  <2> QED
    BY <1>4, <1>5, <2>1, <2>2, <2>3 DEF PollStep
<1>6. ASSUME NEW n \in Nodes, MineForever(n) \/ Pay(n) PROVE PendingInv'
  BY <1>6, PendingFrame DEF MineForever, Pay, run_send_tx
<1>7. ASSUME NEW n \in Nodes, Fault(n) PROVE PendingInv'
  BY <1>3, <1>7, PendingFrame DEF Fault, LoseConnection, LoseTransaction
<1>8. ASSUME NEW n \in Nodes, SaveStep(n) PROVE PendingInv'
  BY <1>8, TruncatePending, WritePending DEF SaveStep
<1>9. ASSUME NEW n \in Nodes, NEW time \in Times, MiningLoop(n, time) PROVE PendingInv'
  BY <1>9, MiningPending
<1>10. ASSUME NEW n \in Nodes, NEW tx \in wire[n], AcceptTransaction(n, tx)
       PROVE  PendingInv'
  BY <1>10, AcceptPending
<1> QED
  BY <1>1, <1>2, <1>5, <1>6, <1>7, <1>8, <1>9, <1>10 DEF Next

-----------------------------------------------------------------------------
LEMMA InitPaymentInv ==
  ASSUME Init, NEW m \in Nodes
  PROVE  OneMinerInv(m) /\ FundedInv(m) /\ PendingInv
<1>1. FundedInv(m)
  BY DEF Init, FundedInv, Range
<1>2. PendingInv
  BY DEF Init, PendingInv, PendingInvOf
<1> QED
  BY <1>1, <1>2, InitOneMinerInv

(***************************************************************************)
(* Only the truncation of the mempool file takes payments from a mempool,  *)
(* and then the chain on file is the chain in memory.                      *)
(***************************************************************************)
NothingLost(n) ==
  \A tx \in KeepsPool(n) : \/ tx \in KeepsPool(n)'
                           \/ ~ (Inputs(tx) \subseteq build_utxo_set(Keeps(n)'))

LEMMA PoolKept ==
  ASSUME NEW n, ~(open[n] /\ Head(job[n]) = "pool"), ~(open'[n] /\ Head(job'[n]) = "pool"),
         diskPool'[n] = diskPool[n]
  PROVE  NothingLost(n)
  BY DEF NothingLost, KeepsPool

LEMMA PoolFrame ==
  ASSUME NEW n, open'[n] = open[n], job'[n] = job[n], newPool'[n] = newPool[n],
         diskPool'[n] = diskPool[n]
  PROVE  NothingLost(n)
  BY DEF NothingLost, KeepsPool

LEMMA TruncateLosesNothing ==
  ASSUME TypeOK, MutexInv, PendingInv, NEW n \in Nodes, Truncate(n)
  PROVE  NothingLost(n)
<1>1. /\ chain' = chain /\ newPool' = newPool /\ job' = job
      /\ ~open[n] /\ open'[n] /\ job[n] # <<>> /\ job[n] \in Jobs
      /\ Head(job[n]) = "chain" => diskPool' = diskPool
      /\ Head(job[n]) # "chain" => diskChain' = diskChain
  BY DEF Truncate, TypeOK
<1>2. CASE Head(job[n]) # "pool"
  BY <1>1, <1>2, JobSteps, PoolKept
<1>3. CASE Head(job[n]) = "pool"
  <2>1. job[n] = <<"pool">>
    BY <1>1, <1>3, HeadTail DEF Jobs
  <2>2. status[n] # "down" /\ diskChain[n] = chain[n]
    BY <1>1, <1>3 DEF MutexInv, MutexInvOf, TypeOK
  <2>3. Keeps(n)' = chain[n]
    BY <1>1, <1>3, <2>2 DEF Keeps
  <2>4. KeepsPool(n) = Range(diskPool[n]) /\ KeepsPool(n)' = Range(newPool[n])
    BY <1>1, <1>3 DEF KeepsPool
  <2>5. \A tx \in Range(diskPool[n]) :
          tx \in Range(newPool[n]) \/ ~ (Inputs(tx) \subseteq build_utxo_set(chain[n]))
    BY <1>1, <2>1 DEF PendingInv, PendingInvOf
  <2> QED
    BY <2>3, <2>4, <2>5 DEF NothingLost
<1> QED
  BY <1>2, <1>3

LEMMA WriteLosesNothing ==
  ASSUME TypeOK, MutexInv, NEW n \in Nodes, Write(n)
  PROVE  NothingLost(n)
<1>1. /\ open[n] /\ ~open'[n] /\ job[n] # <<>> /\ job[n] \in Jobs
      /\ Head(job[n]) = "chain" => diskPool' = diskPool
      /\ Head(job[n]) # "chain" => diskPool'[n] = newPool[n]
  BY DEF Write, TypeOK, MutexInv, MutexInvOf
<1>2. KeepsPool(n)' = KeepsPool(n)
  BY <1>1, JobSteps DEF KeepsPool
<1> QED
  BY <1>2 DEF NothingLost

LEMMA NextLosesNothing ==
  ASSUME TORN_CRASH = FALSE, TypeOK, MutexInv, PendingInv, [Next]_vars, NEW n \in Nodes
  PROVE  NothingLost(n)
<1>0. job[n] = <<>> => ~open[n]
  BY DEF MutexInv, MutexInvOf
<1>1. CASE UNCHANGED <<open, job, newPool, diskPool>>
  BY <1>1, PoolFrame
<1>2. CASE UNCHANGED vars
  BY <1>1, <1>2 DEF vars
<1>3. ASSUME NEW k \in Nodes, Truncate(k) \/ Write(k) PROVE NothingLost(n)
  <2>1. CASE k = n
    BY <1>3, <2>1, TruncateLosesNothing, WriteLosesNothing
  <2>2. CASE k # n
    BY <1>3, <2>2, PoolFrame DEF Truncate, Write, TypeOK
  <2> QED
    BY <2>1, <2>2
<1>4. ASSUME NEW k \in Nodes, Crash(k) PROVE NothingLost(n)
  <2>1. CASE k = n
    BY <1>4, <2>1, PoolKept DEF Crash, TypeOK
  <2>2. CASE k # n
    BY <1>4, <2>2, PoolFrame DEF Crash, TypeOK
  <2> QED
    BY <2>1, <2>2
<1>5. ASSUME NEW k \in Nodes, job[k] = <<>>, UNCHANGED <<open, diskPool>>,
             \A i \in Nodes \ {k} : job'[i] = job[i] /\ newPool'[i] = newPool[i]
      PROVE  NothingLost(n)
  <2>1. CASE k = n
    BY <1>0, <1>5, <2>1, PoolKept
  <2>2. CASE k # n
    BY <1>5, <2>2, PoolFrame
  <2> QED
    BY <2>1, <2>2
<1>6. ASSUME NEW k \in Nodes, NEW time, Start(k, time) \/ MiningLoop(k, time)
      PROVE  NothingLost(n)
  <2>1. job[k] = <<>>
    BY <1>6 DEF Start, MiningLoop, MutexFree, MutexInv, MutexInvOf
  <2>2. /\ UNCHANGED <<open, diskPool>>
        /\ \A i \in Nodes \ {k} : job'[i] = job[i] /\ newPool'[i] = newPool[i]
    BY <1>6 DEF Start, MiningLoop, TypeOK
  <2> QED
    BY <1>5, <2>1, <2>2
<1>7. ASSUME NEW k \in Nodes, NEW tx, AcceptTransaction(k, tx) PROVE NothingLost(n)
  <2>1. /\ job[k] = <<>> /\ UNCHANGED <<open, diskPool>>
        /\ \A i \in Nodes \ {k} : job'[i] = job[i] /\ newPool'[i] = newPool[i]
    BY <1>7 DEF AcceptTransaction, MutexFree, TypeOK
  <2> QED
    BY <1>5, <2>1
<1>8. ASSUME NEW k \in Nodes, PollStep(k) PROVE NothingLost(n)
  <2>1. ExtendChain(k) \/ Reorg(k) => NothingLost(n)
    <3> SUFFICES ASSUME ExtendChain(k) \/ Reorg(k) PROVE NothingLost(n)
      OBVIOUS
    <3>1. /\ job[k] = <<>> /\ UNCHANGED <<open, diskPool, newPool>>
          /\ \A i \in Nodes \ {k} : job'[i] = job[i]
      BY DEF ExtendChain, Reorg, MutexFree, TypeOK
    <3> QED
      BY <1>5, <3>1
  <2>2. ExceptPoll => NothingLost(n)
    BY <1>1 DEF ExceptPoll
  <2>3. PollConnect(k) \/ RequestChain(k) \/ ReceiveFails(k) => ExceptPoll
    BY DEF PollConnect, RequestChain, ReceiveFails
  <2>4. \A i \in Nodes : SendInv(k, i) \/ SendBlock(k, i) \/ SendChain(k, i) => ExceptPoll
    BY DEF SendInv, SendBlock, SendChain, Answer
  <2> QED
    BY <1>8, <2>1, <2>2, <2>3, <2>4 DEF PollStep
<1>9. ASSUME NEW k \in Nodes, MineForever(k) \/ Pay(k) PROVE NothingLost(n)
  BY <1>1, <1>9 DEF MineForever, Pay, run_send_tx
<1>10. ASSUME NEW k \in Nodes, Fault(k) PROVE NothingLost(n)
  BY <1>1, <1>4, <1>10 DEF Fault, LoseConnection, LoseTransaction
<1> QED
  BY <1>2, <1>3, <1>6, <1>7, <1>8, <1>9, <1>10 DEF Next, SaveStep

(***************************************************************************)
(* Where one node mines and no process dies between truncating a file and  *)
(* writing it, no daemon ever loses an accepted payment that the chain it  *)
(* keeps could still execute: not in MiningLoop, which empties the mempool *)
(* whatever it has selected from it, and not in a crash between save_chain *)
(* and save_mempool.  For every number of followers, every known_peers_    *)
(* and every bound.                                                        *)
(***************************************************************************)
THEOREM PaymentsAreNotLost ==
  ASSUME TORN_CRASH = FALSE, NEW m \in Nodes, Miners \subseteq {m}
  PROVE  Spec => PaymentsNotLost
<1> DEFINE PaymentInv == OneMinerInv(m) /\ FundedInv(m) /\ PendingInv
<1>1. Init => PaymentInv
  BY InitPaymentInv
<1>2. TypeOK /\ MutexInv /\ ChainInv /\ PaymentInv /\ [Next]_vars => PaymentInv'
  BY NextOneMinerInv, NextFundedInv, NextPendingInv
<1>3. TypeOK /\ MutexInv /\ PaymentInv /\ [Next]_vars
        => [\A n \in Nodes : \A tx \in KeepsPool(n) :
              \/ tx \in KeepsPool(n)'
              \/ ~ (Inputs(tx) \subseteq build_utxo_set(Keeps(n)'))]_vars
  BY NextLosesNothing DEF NothingLost
<1> QED
  BY <1>1, <1>2, <1>3, MutexProtectsFiles, ChainsAreHonest, PTL DEF Spec, PaymentsNotLost
=============================================================================
