--------------------------- MODULE OneShotProofs ---------------------------
(***************************************************************************)
(* The one-shot commands, for any nodes, any initial files the program can *)
(* have left and any number of processes that share them without a lock.   *)
(***************************************************************************)
EXTENDS OneShot, LedgerProofs

-----------------------------------------------------------------------------
(***************************************************************************)
(* Frames.  A process knows of the chain files only that a file once       *)
(* written is there.                                                       *)
(***************************************************************************)
FilesStay == \A n \in Nodes : chainFile[n] # <<>> => chainFile'[n] # <<>>

LEMMA ProcessFrame ==
  ASSUME NEW r, ProcessInv(r), FilesStay
  PROVE  ProcessInv(r)'
<1>1. ClearsPool(r) /\ r.node \in Nodes => ClearsPool(r)'
  BY DEF FilesStay, ClearsPool, Settled, OutOfTurn
<1>2. /\ SavesBoth(r)' = SavesBoth(r)
      /\ SavesFetched(r)' = SavesFetched(r)
      /\ SavesPayment(r)' = SavesPayment(r)
  BY DEF SavesBoth, SavesFetched, SavesPayment
<1> QED
  BY <1>1, <1>2 DEF ProcessInv, IsProcess

LEMMA IdleInv == ProcessInv(Idle) /\ ProcessInv(Idle)'
  BY DEF ProcessInv, IsProcess, Idle

(***************************************************************************)
(* A step of one process, or of two, that leaves the files alone.          *)
(***************************************************************************)
LEMMA StepOfOne ==
  ASSUME OneShotInv, NEW p \in Processes, NEW r, ProcessInv(r),
         proc' = [proc EXCEPT ![p] = r], UNCHANGED <<chainFile, poolFile>>
  PROVE  OneShotInv'
<1>1. FilesStay
  BY DEF FilesStay
<1>2. \A q \in Processes : ProcessInv(proc[q])
  BY DEF OneShotInv
<1>3. proc' = [q \in Processes |-> IF q = p THEN r ELSE proc[q]]
  BY DEF OneShotInv
<1>4. \A q \in Processes : ProcessInv(proc'[q])
  BY <1>2, <1>3
<1>5. ASSUME NEW q \in Processes PROVE ProcessInv(proc[q])'
  <2>1. PICK s : s = proc'[q]
    OBVIOUS
  <2>2. ProcessInv(s)'
    BY <1>1, <1>4, <2>1, ProcessFrame
  <2> QED
    BY <2>1, <2>2
<1> QED
  BY <1>3, <1>5 DEF OneShotInv

LEMMA StepOfTwo ==
  ASSUME OneShotInv, NEW p \in Processes, NEW q \in Processes, NEW r, NEW s,
         ProcessInv(r), ProcessInv(s),
         proc' = [proc EXCEPT ![q] = s, ![p] = r], UNCHANGED <<chainFile, poolFile>>
  PROVE  OneShotInv'
<1>1. FilesStay
  BY DEF FilesStay
<1>2. \A x \in Processes : ProcessInv(proc[x])
  BY DEF OneShotInv
<1>3. proc' = [x \in Processes |-> IF x = p THEN r ELSE IF x = q THEN s ELSE proc[x]]
  BY DEF OneShotInv
<1>4. \A x \in Processes : ProcessInv(proc'[x])
  BY <1>2, <1>3
<1>5. ASSUME NEW x \in Processes PROVE ProcessInv(proc[x])'
  <2>1. PICK t : t = proc'[x]
    OBVIOUS
  <2>2. ProcessInv(t)'
    BY <1>1, <1>4, <2>1, ProcessFrame
  <2> QED
    BY <2>1, <2>2
<1> QED
  BY <1>3, <1>5 DEF OneShotInv

-----------------------------------------------------------------------------
(***************************************************************************)
(* Records of a process, field by field.                                   *)
(***************************************************************************)
Process(cmd, node, pc, chain, tx, pool, job, sawChain, sawPool) ==
  [cmd |-> cmd, node |-> node, pc |-> pc, chain |-> chain, tx |-> tx,
   pool |-> pool, job |-> job, sawChain |-> sawChain, sawPool |-> sawPool]

LEMMA MinedRecord ==
  ASSUME NEW r, IsProcess(r), NEW pool, NEW c
  PROVE  Mined(r, pool, c)
           = Process(r.cmd, r.node, "save", c, r.tx, r.pool, FilesSavedByListener,
                     r.sawChain, pool)
<1>1. PICK r1 : r1 = [r EXCEPT !.chain = c]
  OBVIOUS
<1>2. PICK r2 : r2 = [r1 EXCEPT !.sawPool = pool]
  OBVIOUS
<1>3. PICK r3 : r3 = [r2 EXCEPT !.job = FilesSavedByListener]
  OBVIOUS
<1>4. Mined(r, pool, c) = [r3 EXCEPT !.pc = "save"]
  BY <1>1, <1>2, <1>3, Zenon DEF Mined
<1>5. r1 = Process(r.cmd, r.node, r.pc, c, r.tx, r.pool, r.job, r.sawChain, r.sawPool)
  BY <1>1 DEF IsProcess, Process
<1>6. r2 = Process(r.cmd, r.node, r.pc, c, r.tx, r.pool, r.job, r.sawChain, pool)
  BY <1>2, <1>5 DEF Process
<1>7. r3 = Process(r.cmd, r.node, r.pc, c, r.tx, r.pool, FilesSavedByListener,
                   r.sawChain, pool)
  BY <1>3, <1>6 DEF Process
<1> QED
  BY <1>4, <1>7 DEF Process

LEMMA ReceivedRecord ==
  ASSUME NEW r, IsProcess(r), NEW pool, NEW tx
  PROVE  Received(r, pool, tx)
           = Process(r.cmd, r.node, "save", r.chain, r.tx, Append(pool, tx), <<"pool">>,
                     r.sawChain, pool)
<1>1. PICK longer : longer = Append(pool, tx)
  OBVIOUS
<1>2. PICK r1 : r1 = [r EXCEPT !.pool = longer]
  OBVIOUS
<1>3. PICK r2 : r2 = [r1 EXCEPT !.sawPool = pool]
  OBVIOUS
<1>4. PICK r3 : r3 = [r2 EXCEPT !.job = <<"pool">>]
  OBVIOUS
<1>5. Received(r, pool, tx) = [r3 EXCEPT !.pc = "save"]
  BY <1>1, <1>2, <1>3, <1>4, Zenon DEF Received
<1>6. r1 = Process(r.cmd, r.node, r.pc, r.chain, r.tx, longer, r.job, r.sawChain, r.sawPool)
  BY <1>2 DEF IsProcess, Process
<1>7. r2 = Process(r.cmd, r.node, r.pc, r.chain, r.tx, longer, r.job, r.sawChain, pool)
  BY <1>3, <1>6 DEF Process
<1>8. r3 = Process(r.cmd, r.node, r.pc, r.chain, r.tx, longer, <<"pool">>, r.sawChain, pool)
  BY <1>4, <1>7 DEF Process
<1> QED
  BY <1>1, <1>5, <1>8 DEF Process

LEMMA FetchedRecord ==
  ASSUME NEW r, IsProcess(r), NEW c
  PROVE  Fetched(r, c)
           = Process(r.cmd, r.node, "save", c, r.tx, r.pool, <<"chain">>,
                     r.sawChain, r.sawPool)
<1>1. PICK r1 : r1 = [r EXCEPT !.chain = c]
  OBVIOUS
<1>2. PICK r2 : r2 = [r1 EXCEPT !.job = <<"chain">>]
  OBVIOUS
<1>3. Fetched(r, c) = [r2 EXCEPT !.pc = "save"]
  BY <1>1, <1>2, Zenon DEF Fetched
<1>4. r1 = Process(r.cmd, r.node, r.pc, c, r.tx, r.pool, r.job, r.sawChain, r.sawPool)
  BY <1>1 DEF IsProcess, Process
<1>5. r2 = Process(r.cmd, r.node, r.pc, c, r.tx, r.pool, <<"chain">>, r.sawChain, r.sawPool)
  BY <1>2, <1>4 DEF Process
<1> QED
  BY <1>3, <1>5 DEF Process

LEMMA SavedOneRecord ==
  ASSUME NEW r, IsProcess(r), NEW left, NEW file, NEW written
  PROVE  SavedOne(r, left, file, written)
           = Process(r.cmd, r.node, r.pc, r.chain, r.tx, r.pool, left,
                     IF r.sawChain = file THEN written ELSE <<>>, r.sawPool)
<1>1. PICK saw : saw = IF r.sawChain = file THEN written ELSE <<>>
  OBVIOUS
<1>2. PICK r1 : r1 = [r EXCEPT !.job = left]
  OBVIOUS
<1>3. r1 = Process(r.cmd, r.node, r.pc, r.chain, r.tx, r.pool, left, r.sawChain, r.sawPool)
  BY <1>2 DEF IsProcess, Process
<1>4. SavedOne(r, left, file, written)
        = [r1 EXCEPT !.sawChain = IF @ = file THEN written ELSE <<>>]
  BY <1>2, Zenon DEF SavedOne
<1>5. r1.sawChain = r.sawChain
  BY <1>3 DEF Process
<1>6. [r1 EXCEPT !.sawChain = IF @ = file THEN written ELSE <<>>]
        = [r1 EXCEPT !.sawChain = saw]
  BY <1>1, <1>5
<1>7. [r1 EXCEPT !.sawChain = saw]
        = Process(r.cmd, r.node, r.pc, r.chain, r.tx, r.pool, left, saw, r.sawPool)
  BY <1>3 DEF Process
<1> QED
  BY <1>1, <1>4, <1>6, <1>7, Zenon

LEMMA SavedAllRecord ==
  ASSUME NEW r, IsProcess(r)
  PROVE  SavedAll(r) = IF r.cmd = "listen"
                       THEN Process(r.cmd, r.node, "accept", r.chain, r.tx, r.pool, <<>>,
                                    r.sawChain, r.sawPool)
                       ELSE Idle
<1>1. PICK r1 : r1 = [r EXCEPT !.job = <<>>]
  OBVIOUS
<1>2. r1 = Process(r.cmd, r.node, r.pc, r.chain, r.tx, r.pool, <<>>, r.sawChain, r.sawPool)
  BY <1>1 DEF IsProcess, Process
<1>3. SavedAll(r) = IF r.cmd = "listen" THEN [r1 EXCEPT !.pc = "accept"] ELSE Idle
  BY <1>1, Zenon DEF SavedAll
<1>4. [r1 EXCEPT !.pc = "accept"]
        = Process(r.cmd, r.node, "accept", r.chain, r.tx, r.pool, <<>>,
                  r.sawChain, r.sawPool)
  BY <1>2 DEF Process
<1> QED
  BY <1>3, <1>4, Zenon

LEMMA StuckRecord ==
  ASSUME NEW r, IsProcess(r)
  PROVE  Stuck(r) = Process(r.cmd, r.node, "stuck", r.chain, r.tx, r.pool, r.job,
                            r.sawChain, r.sawPool)
  BY DEF Stuck, IsProcess, Process

-----------------------------------------------------------------------------
(***************************************************************************)
(* Each action preserves OneShotInv.                                       *)
(***************************************************************************)
LEMMA OneShotInit == Init => OneShotInv
<1> SUFFICES ASSUME Init PROVE OneShotInv
  OBVIOUS
<1>1. PICK files \in InitialFiles : chainFile = files.chains /\ poolFile = files.pools
  BY DEF Init
<1>2. proc = [p \in Processes |-> Idle]
  BY DEF Init
<1>3. \A p \in Processes : ProcessInv(proc[p])
  BY <1>2, IdleInv
<1> QED
  BY <1>1, <1>2, <1>3, OneShotAssumption DEF OneShotInv

LEMMA LaunchInv ==
  ASSUME OneShotInv, NEW p \in Processes, NEW n \in Nodes, NEW cmd, NEW pc, NEW c, NEW tx,
         Launch(p, n, cmd, pc, c, tx), HonestChain(c), chainFile[n] \in {<<>>, c},
         pc \in {"mine", "connect", "accept"}, pc = "mine" => cmd = "listen",
         cmd = "send" => HonestTx(tx[1])
  PROVE  OneShotInv'
<1>1. PICK r : r = Process(cmd, n, pc, c, tx, <<>>, <<>>, chainFile[n], <<>>)
  OBVIOUS
<1>2. proc' = [proc EXCEPT ![p] = r] /\ UNCHANGED <<chainFile, poolFile>>
  BY <1>1 DEF Launch, Process
<1>3. ProcessInv(r)
  BY <1>1 DEF ProcessInv, IsProcess, Process
<1> QED
  BY <1>2, <1>3, StepOfOne

LEMMA FileIsHonest ==
  ASSUME OneShotInv, NEW n \in Nodes, chainFile[n] # <<>>
  PROVE  HonestChain(chainFile[n])
  BY DEF OneShotInv, GoodChain

LEMMA ListenInv ==
  ASSUME OneShotInv, NEW p \in Processes, NEW n \in Nodes, NEW time \in Times,
         Listen(p, n, time)
  PROVE  OneShotInv'
<1>1. PICK c : c = load_or_create_chain(n, time)
  OBVIOUS
<1>2. HonestChain(c) /\ chainFile[n] \in {<<>>, c}
  <2>1. CASE chainFile[n] = <<>>
    <3>1. time \in Int
      BY OneShotAssumption
    <3> QED
      BY <1>1, <2>1, <3>1, GenesisHonest DEF load_or_create_chain
  <2>2. CASE chainFile[n] # <<>>
    BY <1>1, <2>2, FileIsHonest DEF load_or_create_chain
  <2> QED
    BY <2>1, <2>2
<1>3. Launch(p, n, "listen", "mine", c, <<>>)
  BY <1>1 DEF Listen
<1> QED
  BY <1>2, <1>3, LaunchInv

LEMMA ConnectInv ==
  ASSUME OneShotInv, NEW p \in Processes, NEW n \in Nodes,
         Connect(p, n) \/ ReceiveTx(p, n)
  PROVE  OneShotInv'
<1>1. PICK c : c = chainFile[n]
  OBVIOUS
<1>2. HonestChain(c) /\ chainFile[n] \in {<<>>, c}
  BY <1>1, FileIsHonest DEF Connect, ReceiveTx
<1>3. \/ Launch(p, n, "connect", "connect", c, <<>>)
      \/ Launch(p, n, "receive", "accept", c, <<>>)
  BY <1>1 DEF Connect, ReceiveTx
<1> QED
  BY <1>2, <1>3, LaunchInv

LEMMA SendTxInv ==
  ASSUME OneShotInv, NEW p \in Processes, NEW n \in Nodes, NEW recipient,
         NEW amount \in Amounts, SendTx(p, n, recipient, amount)
  PROVE  OneShotInv'
<1>1. PICK c : c = chainFile[n]
  OBVIOUS
<1>2. HonestChain(c) /\ chainFile[n] \in {<<>>, c} /\ amount \in Int
  <2>1. HonestChain(c)
    BY <1>1, FileIsHonest DEF SendTx
  <2> QED
    BY <1>1, <2>1, OneShotAssumption
<1>3. PICK selected \in Sufficient(
              filter_utxos_by_address(build_utxo_set(c), n), amount, DEFAULT_FEE) :
        Launch(p, n, "send", "connect", c,
               <<CreateTransaction(selected, n, recipient, amount, DEFAULT_FEE)>>)
  BY <1>1 DEF SendTx
<1>4. PICK tx : tx = CreateTransaction(selected, n, recipient, amount, DEFAULT_FEE)
  OBVIOUS
<1>5. HonestTx(tx)
  BY <1>2, <1>3, <1>4, CreatedIsGood
<1>6. Launch(p, n, "send", "connect", c, <<tx>>) /\ HonestTx(<<tx>>[1])
  BY <1>3, <1>4, <1>5
<1> QED
  BY <1>2, <1>6, LaunchInv

LEMMA MineInv ==
  ASSUME OneShotInv, NEW p \in Processes, NEW time \in Times, Mine(p, time)
  PROVE  OneShotInv'
<1>1. PICK r : r = proc[p]
  OBVIOUS
<1>2. PICK n, c, pool : n = r.node /\ c = r.chain /\ pool = poolFile[n]
  OBVIOUS
<1>3. /\ r.cmd = "listen" /\ r.pc = "mine" /\ IsProcess(r) /\ r.pool = <<>>
      /\ n \in Nodes /\ HonestChain(c) /\ r.sawChain \in {<<>>, c}
  BY <1>1, <1>2 DEF Mine, Runs, OneShotInv, ProcessInv
<1>4. GoodPool(pool) /\ Len(pool) \in Nat /\ time \in Int
  BY <1>2, <1>3, SeqFacts, OneShotAssumption DEF OneShotInv, GoodPool
<1>5. Mineable(NextBits(c)) /\ UNCHANGED <<chainFile, poolFile>>
  BY <1>1, <1>2 DEF Mine
<1>6a. PICK picked \in UNION {[1 .. k -> 1 .. Len(poolFile[proc[p].node])] :
                                 k \in 0 .. Len(poolFile[proc[p].node])} :
         /\ IsSelection(proc[p].chain, poolFile[proc[p].node], picked)
         /\ proc' = [proc EXCEPT ![p] =
              Mined(proc[p], poolFile[proc[p].node],
                Append(proc[p].chain,
                  MinedBlock(proc[p].chain, proc[p].node, poolFile[proc[p].node],
                             picked, time)))]
  BY Zenon DEF Mine, MinedBlock
<1>6. /\ picked \in UNION {[1 .. k -> 1 .. Len(pool)] : k \in 0 .. Len(pool)}
      /\ IsSelection(c, pool, picked)
      /\ proc' = [proc EXCEPT ![p] =
           Mined(r, pool, Append(c, MinedBlock(c, n, pool, picked, time)))]
  <2>1. proc[p] = r /\ r.node = n /\ r.chain = c /\ poolFile[n] = pool
    BY <1>1, <1>2
  <2>2. picked \in UNION {[1 .. k -> 1 .. Len(pool)] : k \in 0 .. Len(pool)}
    BY <2>1
  <2>3. IsSelection(c, pool, picked)
    BY <1>6a, <2>1
  <2>4. proc' = [proc EXCEPT ![p] =
           Mined(r, pool, Append(c, MinedBlock(c, n, pool, picked, time)))]
    BY <1>6a, <2>1
  <2> QED
    BY <2>2, <2>3, <2>4
<1>7. picked \in Seq(1 .. Len(pool))
  BY <1>4, <1>6, PickedIsSeq
<1>8. PICK d : d = Append(c, MinedBlock(c, n, pool, picked, time))
  OBVIOUS
<1>9. HonestChain(d)
  BY <1>3, <1>4, <1>5, <1>6, <1>7, <1>8, MinedHonest, PoolHonest DEF MinedBlock
<1>10. \A tx \in Range(pool) : Settled(d, pool, tx)
  BY <1>3, <1>4, <1>5, <1>6, <1>7, <1>8, MinedSettles
<1>11. MayBecome(r.sawChain, d)
  <2>1. GetHash(d[1]) = GetHash(c[1]) /\ calculate_chain_work(d) > calculate_chain_work(c)
    BY <1>3, <1>8, <1>9, WorkGrows
  <2> QED
    BY <1>3, <2>1 DEF MayBecome
<1>12. PICK s : s = Mined(r, pool, d)
  OBVIOUS
<1>13. proc' = [proc EXCEPT ![p] = s]
  BY <1>6, <1>8, <1>12
<1>14. s = Process(r.cmd, r.node, "save", d, r.tx, r.pool, FilesSavedByListener,
                   r.sawChain, pool)
  BY <1>3, <1>12, MinedRecord
<1>15. ProcessInv(s)
  BY <1>2, <1>3, <1>9, <1>10, <1>11, <1>14
     DEF ProcessInv, IsProcess, Process, SavesBoth
<1> QED
  BY <1>5, <1>13, <1>15, StepOfOne

(***************************************************************************)
(* What a Save does, by what is saved.                                     *)
(***************************************************************************)
Puts(file, n, content) == [file EXCEPT ![n] = content]

SaveEffect(p, r, n) ==
  \/ /\ SavesBoth(r)
     /\ chainFile' = Puts(chainFile, n, r.chain) /\ poolFile' = poolFile
     /\ proc' = Puts(proc, p, SavedOne(r, <<"pool">>, chainFile[n], r.chain))
  \/ /\ ClearsPool(r)
     /\ chainFile' = chainFile /\ poolFile' = Puts(poolFile, n, r.pool)
     /\ proc' = Puts(proc, p, SavedAll(r))
  \/ /\ SavesFetched(r)
     /\ chainFile' = Puts(chainFile, n, r.chain) /\ poolFile' = poolFile
     /\ proc' = Puts(proc, p, SavedAll(r))
  \/ /\ SavesPayment(r)
     /\ chainFile' = chainFile /\ poolFile' = Puts(poolFile, n, r.pool)
     /\ proc' = Puts(proc, p, SavedAll(r))

LEMMA PutsFacts ==
  ASSUME NEW S, NEW f, f = [x \in S |-> f[x]], NEW y \in S, NEW v
  PROVE  /\ Puts(f, y, v) = [x \in S |-> IF x = y THEN v ELSE f[x]]
         /\ Puts(f, y, v)[y] = v
         /\ \A x \in S : x # y => Puts(f, y, v)[x] = f[x]
  BY DEF Puts

LEMMA SaveCases ==
  ASSUME OneShotInv, NEW p \in Processes, Save(p),
         NEW r, r = proc[p], NEW n, n = r.node
  PROVE  /\ n \in Nodes /\ HonestChain(r.chain) /\ IsProcess(r) /\ r.pc = "save"
         /\ SaveEffect(p, r, n)
<1>1. ProcessInv(r) /\ r.pc = "save"
  BY DEF OneShotInv, Save
<1>2. n \in Nodes /\ HonestChain(r.chain) /\ IsProcess(r)
  BY <1>1 DEF ProcessInv
<1>3. PICK j : j = r.job
  OBVIOUS
<1>4. /\ Head(j) = "chain" => /\ chainFile' = Puts(chainFile, n, r.chain)
                              /\ poolFile' = poolFile
      /\ Head(j) # "chain" => /\ poolFile' = Puts(poolFile, n, r.pool)
                              /\ chainFile' = chainFile
      /\ Tail(j) = <<>> => proc' = Puts(proc, p, SavedAll(r))
      /\ Tail(j) # <<>> =>
           proc' = Puts(proc, p, SavedOne(r, Tail(j), chainFile[n], chainFile'[n]))
  BY <1>3 DEF Save, Puts
<1>5. chainFile = [x \in Nodes |-> chainFile[x]]
  BY DEF OneShotInv
<1>6. CASE SavesBoth(r)
  <2>1. j = <<"chain", "pool">>
    BY <1>3, <1>6 DEF SavesBoth, FilesSavedByListener
  <2>2. Head(j) = "chain" /\ Tail(j) = <<"pool">> /\ Tail(j) # <<>>
    BY <2>1
  <2>3. chainFile' = Puts(chainFile, n, r.chain)
    BY <1>4, <2>2
  <2>4. chainFile'[n] = r.chain
    BY <1>2, <1>5, <2>3, PutsFacts
  <2> QED
    BY <1>1, <1>2, <1>4, <1>6, <2>2, <2>4 DEF SaveEffect
<1>7. CASE ClearsPool(r) \/ SavesPayment(r)
  <2>1. j = <<"pool">>
    BY <1>3, <1>7 DEF ClearsPool, SavesPayment
  <2>2. Head(j) # "chain" /\ Tail(j) = <<>>
    BY <2>1
  <2> QED
    BY <1>1, <1>2, <1>4, <1>7, <2>2 DEF SaveEffect
<1>8. CASE SavesFetched(r)
  <2>1. j = <<"chain">>
    BY <1>3, <1>8 DEF SavesFetched
  <2>2. Head(j) = "chain" /\ Tail(j) = <<>>
    BY <2>1
  <2> QED
    BY <1>1, <1>2, <1>4, <1>8, <2>2 DEF SaveEffect
<1> QED
  BY <1>1, <1>6, <1>7, <1>8 DEF ProcessInv

LEMMA SaveFrame ==
  ASSUME OneShotInv, NEW p \in Processes, NEW s, proc' = Puts(proc, p, s),
         ProcessInv(s)', FilesStay,
         chainFile' = [n \in Nodes |-> chainFile'[n]],
         poolFile' = [n \in Nodes |-> poolFile'[n]],
         \A n \in Nodes : GoodChain(chainFile'[n]) /\ GoodPool(poolFile'[n])
  PROVE  OneShotInv'
<1>1. proc = [q \in Processes |-> proc[q]]
  BY DEF OneShotInv
<1>2. proc' = [q \in Processes |-> IF q = p THEN s ELSE proc[q]]
  BY <1>1, PutsFacts
<1>3. ASSUME NEW q \in Processes PROVE ProcessInv(proc[q])'
  <2>1. PICK t : t = proc'[q]
    OBVIOUS
  <2>2. ProcessInv(t)'
    <3>1. CASE q = p
      BY <1>2, <2>1, <3>1
    <3>2. CASE q # p
      <4>1. ProcessInv(t)
        BY <1>2, <2>1, <3>2 DEF OneShotInv
      <4> QED
        BY <4>1, ProcessFrame
    <3> QED
      BY <3>1, <3>2
  <2> QED
    BY <2>1, <2>2
<1> QED
  BY <1>2, <1>3 DEF OneShotInv

LEMMA SaveInv ==
  ASSUME OneShotInv, NEW p \in Processes, Save(p)
  PROVE  OneShotInv'
<1>1. PICK r, n : r = proc[p] /\ n = r.node
  OBVIOUS
<1>2. /\ n \in Nodes /\ HonestChain(r.chain) /\ IsProcess(r) /\ r.pc = "save"
      /\ SaveEffect(p, r, n)
  BY <1>1, SaveCases
<1>3. /\ chainFile = [x \in Nodes |-> chainFile[x]]
      /\ poolFile = [x \in Nodes |-> poolFile[x]]
      /\ \A x \in Nodes : GoodChain(chainFile[x]) /\ GoodPool(poolFile[x])
  BY DEF OneShotInv
<1>4. GoodPool(<<>>)
  BY EmptyIsSeq DEF GoodPool, Range
<1>5. r.chain # <<>>
  BY <1>2, HonestNotEmpty
<1>6. ASSUME chainFile' = Puts(chainFile, n, r.chain)
      PROVE  /\ chainFile' = [x \in Nodes |-> chainFile'[x]]
             /\ FilesStay /\ chainFile'[n] = r.chain
             /\ \A x \in Nodes : GoodChain(chainFile'[x])
  BY <1>2, <1>3, <1>5, <1>6, PutsFacts DEF GoodChain, FilesStay
<1>7. ASSUME poolFile' = Puts(poolFile, n, r.pool), GoodPool(r.pool)
      PROVE  /\ poolFile' = [x \in Nodes |-> poolFile'[x]]
             /\ \A x \in Nodes : GoodPool(poolFile'[x])
  BY <1>2, <1>3, <1>7, PutsFacts
<1>8. chainFile' = chainFile => FilesStay
  BY DEF FilesStay
<1>9. CASE /\ SavesBoth(r)
           /\ chainFile' = Puts(chainFile, n, r.chain) /\ poolFile' = poolFile
           /\ proc' = Puts(proc, p, SavedOne(r, <<"pool">>, chainFile[n], r.chain))
  <2>1. PICK saw : saw = IF r.sawChain = chainFile[n] THEN r.chain ELSE <<>>
    OBVIOUS
  <2>2. PICK s : s = Process(r.cmd, r.node, r.pc, r.chain, r.tx, r.pool, <<"pool">>,
                             saw, r.sawPool)
    OBVIOUS
  <2>3. proc' = Puts(proc, p, s)
    BY <1>2, <1>9, <2>1, <2>2, SavedOneRecord
  <2>4. chainFile'[s.node] # <<>>
    BY <1>1, <1>5, <1>6, <1>9, <2>2 DEF Process
  <2>5. ClearsPool(s)'
    BY <1>9, <2>1, <2>2, <2>4 DEF ClearsPool, SavesBoth, Process, Settled, OutOfTurn
  <2>6. ProcessInv(s)'
    BY <1>1, <1>2, <2>2, <2>5 DEF ProcessInv, IsProcess, Process
  <2> QED
    BY <1>3, <1>6, <1>9, <2>3, <2>6, SaveFrame
<1>10. CASE /\ ClearsPool(r)
            /\ chainFile' = chainFile /\ poolFile' = Puts(poolFile, n, r.pool)
            /\ proc' = Puts(proc, p, SavedAll(r))
  <2>1. PICK s : s = Process(r.cmd, r.node, "accept", r.chain, r.tx, r.pool, <<>>,
                             r.sawChain, r.sawPool)
    OBVIOUS
  <2>2. proc' = Puts(proc, p, s) /\ r.pool = <<>>
    BY <1>2, <1>10, <2>1, SavedAllRecord DEF ClearsPool
  <2>3. ProcessInv(s)'
    BY <1>1, <1>2, <2>1 DEF ProcessInv, IsProcess, Process
  <2> QED
    BY <1>3, <1>4, <1>7, <1>8, <1>10, <2>2, <2>3, SaveFrame
<1>11. CASE /\ SavesFetched(r)
            /\ chainFile' = Puts(chainFile, n, r.chain) /\ poolFile' = poolFile
            /\ proc' = Puts(proc, p, SavedAll(r))
  <2>1. proc' = Puts(proc, p, Idle)
    BY <1>2, <1>11, SavedAllRecord DEF SavesFetched
  <2>2. PICK s : s = Idle
    OBVIOUS
  <2>3. ProcessInv(s)'
    BY <2>2 DEF ProcessInv, IsProcess, Idle
  <2> QED
    BY <1>3, <1>6, <1>11, <2>1, <2>2, <2>3, SaveFrame
<1>12. CASE /\ SavesPayment(r)
            /\ chainFile' = chainFile /\ poolFile' = Puts(poolFile, n, r.pool)
            /\ proc' = Puts(proc, p, SavedAll(r))
  <2>1. proc' = Puts(proc, p, Idle) /\ GoodPool(r.pool)
    BY <1>2, <1>12, SavedAllRecord DEF SavesPayment
  <2>2. PICK s : s = Idle
    OBVIOUS
  <2>3. ProcessInv(s)'
    BY <2>2 DEF ProcessInv, IsProcess, Idle
  <2> QED
    BY <1>3, <1>7, <1>8, <1>12, <2>1, <2>2, <2>3, SaveFrame
<1> QED
  BY <1>2, <1>9, <1>10, <1>11, <1>12 DEF SaveEffect

(***************************************************************************)
(* A meeting of two processes.                                             *)
(***************************************************************************)
LEMMA ResolvedFacts ==
  ASSUME NEW c, HonestChain(c), NEW peer, HonestChain(peer), NEW d, d = Resolved(c, peer)
  PROVE  HonestChain(d) /\ MayBecome(c, d)
<1>1. CASE try_extend_chain(c, Last(peer))
  <2>1. d = Append(c, Last(peer))
    BY <1>1 DEF Resolved
  <2>2. HonestChain(d)
    BY <1>1, <2>1, ExtendHonest
  <2>3. PICK blk : blk = Last(peer)
    OBVIOUS
  <2>4. GetHash(d[1]) = GetHash(c[1]) /\ calculate_chain_work(d) > calculate_chain_work(c)
    BY <2>1, <2>2, <2>3, WorkGrows
  <2> QED
    BY <2>2, <2>4 DEF MayBecome
<1>2. CASE ~try_extend_chain(c, Last(peer)) /\ d = peer /\ try_reorg(c, peer)
  BY <1>2 DEF try_reorg, MayBecome
<1>3. CASE d = c
  BY <1>3 DEF MayBecome
<1> QED
  BY <1>1, <1>2, <1>3 DEF Resolved

LEMMA FetchInv ==
  ASSUME OneShotInv, NEW p \in Processes, NEW q \in Processes, Fetch(p, q)
  PROVE  OneShotInv'
<1>1. PICK r, c, peer, d : /\ r = proc[p] /\ c = r.chain /\ peer = proc[q].chain
                           /\ d = Resolved(c, peer)
  OBVIOUS
<1>2. /\ r.cmd = "connect" /\ r.pc = "connect" /\ proc[q].cmd = "listen"
      /\ proc[q].pc = "accept" /\ UNCHANGED <<chainFile, poolFile>>
  BY <1>1 DEF Fetch, Runs
<1>3. /\ proc = [x \in Processes |-> proc[x]] /\ p # q
      /\ ProcessInv(r) /\ ProcessInv(proc[q])
  BY <1>1, <1>2 DEF OneShotInv
<1>4. /\ HonestChain(c) /\ HonestChain(peer) /\ r.node \in Nodes
      /\ IsProcess(r) /\ r.sawChain \in {<<>>, c}
  BY <1>1, <1>2, <1>3 DEF ProcessInv
<1>5. HonestChain(d) /\ MayBecome(c, d)
  BY <1>1, <1>4, ResolvedFacts
<1>6. MayBecome(r.sawChain, d)
  BY <1>4, <1>5 DEF MayBecome
<1>7. PICK t : t = IF d = c THEN Idle ELSE Fetched(r, d)
  OBVIOUS
<1>8. proc' = [proc EXCEPT ![q] = Idle, ![p] = t]
  BY <1>1, <1>7 DEF Fetch
<1>9. ProcessInv(t)
  <2>1. CASE t = Idle
    BY <2>1, IdleInv
  <2>2. CASE t = Fetched(r, d)
    <3>1. t = Process(r.cmd, r.node, "save", d, r.tx, r.pool, <<"chain">>,
                      r.sawChain, r.sawPool)
      BY <1>4, <2>2, FetchedRecord
    <3> QED
      BY <1>2, <1>4, <1>5, <1>6, <3>1 DEF ProcessInv, IsProcess, Process, SavesFetched
  <2> QED
    BY <1>7, <2>1, <2>2
<1> QED
  BY <1>2, <1>8, <1>9, IdleInv, StepOfTwo

LEMMA AppendRange ==
  ASSUME NEW s, IsSeq(s), NEW x
  PROVE  Range(Append(s, x)) = Range(s) \cup {x}
<1>1. PICK t, n : t = Append(s, x) /\ n = Len(s)
  OBVIOUS
<1>2. IsSeq(t) /\ n \in Nat /\ DOMAIN s = 1 .. n
  BY <1>1, AppendIsSeq, SeqFacts
<1>3. Len(t) = n + 1 /\ t[n + 1] = x /\ \A i \in 1 .. n : t[i] = s[i]
  BY <1>1, AppendFacts
<1>4. DOMAIN t = 1 .. n + 1
  BY <1>2, <1>3, SeqFacts
<1>5. ASSUME NEW y \in Range(t) PROVE y \in Range(s) \cup {x}
  BY <1>2, <1>3, <1>4 DEF Range
<1>6. ASSUME NEW y \in Range(s) PROVE y \in Range(t)
  BY <1>2, <1>3, <1>4 DEF Range
<1>7. x \in Range(t)
  BY <1>2, <1>3, <1>4 DEF Range
<1> QED
  BY <1>1, <1>5, <1>6, <1>7

LEMMA DeliverInv ==
  ASSUME OneShotInv, NEW p \in Processes, NEW q \in Processes, Deliver(p, q)
  PROVE  OneShotInv'
<1>1. PICK r, c, pool, tx : /\ r = proc[q] /\ c = r.chain /\ pool = poolFile[r.node]
                            /\ tx = proc[p].tx[1]
  OBVIOUS
<1>2. /\ r.cmd = "receive" /\ r.pc = "accept" /\ proc[p].cmd = "send"
      /\ proc[p].pc = "connect" /\ UNCHANGED <<chainFile, poolFile>>
  BY <1>1 DEF Deliver, Runs
<1>3. /\ proc = [x \in Processes |-> proc[x]] /\ p # q
      /\ ProcessInv(r) /\ ProcessInv(proc[p])
  BY <1>1, <1>2 DEF OneShotInv
<1>4. /\ HonestChain(c) /\ r.node \in Nodes /\ IsProcess(r) /\ HonestTx(tx)
  BY <1>1, <1>2, <1>3 DEF ProcessInv
<1>5. PICK valid : valid = (/\ ~IsCoinbase(tx)
                            /\ validate_and_get_fee(tx, build_utxo_set(c)) >= 0)
  OBVIOUS
<1>6. PICK accepted : accepted = (valid /\ Len(pool) < MAX_MEMPOOL_SIZE)
  OBVIOUS
<1>7. PICK t : t = IF accepted THEN Received(r, pool, tx) ELSE Idle
  OBVIOUS
<1>8. proc' = [proc EXCEPT ![p] = Idle, ![q] = t]
  BY <1>1, <1>5, <1>6, <1>7 DEF Deliver
<1>9. ProcessInv(t)
  <2>1. CASE t = Idle
    BY <2>1, IdleInv
  <2>2. CASE accepted /\ t = Received(r, pool, tx)
    <3>1. t = Process(r.cmd, r.node, "save", r.chain, r.tx, Append(pool, tx), <<"pool">>,
                      r.sawChain, pool)
      BY <1>4, <2>2, ReceivedRecord
    <3>2. GoodPool(pool)
      BY <1>1, <1>4 DEF OneShotInv
    <3>3. WasValid(tx)
      <4>1. ~IsCoinbase(tx) /\ validate_and_get_fee(tx, build_utxo_set(c)) >= 0
        BY <1>5, <1>6, <2>2
      <4>2. PICK U : U = build_utxo_set(c)
        OBVIOUS
      <4>3. validate_and_get_fee(tx, Inputs(tx)) = validate_and_get_fee(tx, U)
        BY <4>1, <4>2, FeeNeedsInputs, FeeSameUtxo
      <4> QED
        BY <1>4, <4>1, <4>2, <4>3 DEF WasValid
    <3>4. IsSeq(pool) /\ IsSeq(Append(pool, tx))
      BY <3>2, AppendIsSeq DEF GoodPool
    <3>5. Range(Append(pool, tx)) = Range(pool) \cup {tx}
      BY <3>4, AppendRange
    <3>6. GoodPool(Append(pool, tx)) /\ Range(pool) \subseteq Range(Append(pool, tx))
      BY <3>2, <3>3, <3>4, <3>5 DEF GoodPool
    <3> QED
      BY <1>1, <1>2, <1>4, <3>1, <3>6 DEF ProcessInv, IsProcess, Process, SavesPayment
  <2> QED
    BY <1>7, <2>1, <2>2
<1> QED
  BY <1>2, <1>8, <1>9, IdleInv, StepOfTwo

LEMMA StuckInv == ASSUME NEW r, ProcessInv(r), r.pc # "idle" PROVE ProcessInv(Stuck(r))
<1>1. IsProcess(r) /\ r.node \in Nodes /\ HonestChain(r.chain)
  BY DEF ProcessInv
<1>2. PICK s : s = Process(r.cmd, r.node, "stuck", r.chain, r.tx, r.pool, r.job,
                           r.sawChain, r.sawPool)
  OBVIOUS
<1>3. Stuck(r) = s
  BY <1>1, <1>2, StuckRecord
<1>4. ProcessInv(s)
  BY <1>1, <1>2 DEF ProcessInv, IsProcess, Process
<1> QED
  BY <1>3, <1>4

LEMMA PartInv ==
  ASSUME OneShotInv, NEW p \in Processes, NEW q \in Processes,
         Refuse(p, q) \/ WaitForEachOther(p, q)
  PROVE  OneShotInv'
<1>1. UNCHANGED <<chainFile, poolFile>>
  BY DEF Refuse, WaitForEachOther
<1>2. CASE Refuse(p, q)
  <2>1. proc' = [proc EXCEPT ![p] = Idle, ![q] = Idle]
    BY <1>2 DEF Refuse
  <2> QED
    BY <1>1, <2>1, IdleInv, StepOfTwo
<1>3. CASE WaitForEachOther(p, q)
  <2>1. PICK r, s : r = Stuck(proc[p]) /\ s = Stuck(proc[q])
    OBVIOUS
  <2>2. proc' = [proc EXCEPT ![p] = r, ![q] = s]
    BY <1>3, <2>1 DEF WaitForEachOther
  <2>3. ProcessInv(r) /\ ProcessInv(s)
    <3>1. proc[p].pc # "idle" /\ proc[q].pc # "idle"
      BY <1>3 DEF WaitForEachOther, Runs
    <3>2. ProcessInv(proc[p]) /\ ProcessInv(proc[q])
      BY DEF OneShotInv
    <3> QED
      BY <2>1, <3>1, <3>2, StuckInv
  <2> QED
    BY <1>1, <2>2, <2>3, StepOfTwo
<1> QED
  BY <1>2, <1>3

LEMMA EndInv == ASSUME OneShotInv, NEW p \in Processes, End(p) PROVE OneShotInv'
<1>1. proc' = [proc EXCEPT ![p] = Idle] /\ UNCHANGED <<chainFile, poolFile>>
  BY DEF End
<1> QED
  BY <1>1, IdleInv, StepOfOne

LEMMA OneShotNext == OneShotInv /\ [Next]_vars => OneShotInv'
<1> SUFFICES ASSUME OneShotInv, [Next]_vars PROVE OneShotInv'
  OBVIOUS
<1>1. CASE UNCHANGED vars
  <2>1. FilesStay
    BY <1>1 DEF FilesStay, vars
  <2>2. ASSUME NEW p \in Processes PROVE ProcessInv(proc[p])'
    <3>1. PICK r : r = proc[p] /\ r = proc'[p]
      BY <1>1 DEF vars
    <3>2. ProcessInv(r)'
      BY <2>1, <3>1, ProcessFrame DEF OneShotInv
    <3> QED
      BY <3>1, <3>2
  <2> QED
    BY <1>1, <2>2 DEF vars, OneShotInv
<1>2. CASE Next
  <2>1. PICK p \in Processes :
          \/ \E n \in Nodes :
               \/ \E time \in Times : Listen(p, n, time)
               \/ Connect(p, n) \/ ReceiveTx(p, n)
               \/ \E recipient \in Recipients, amount \in Amounts :
                    SendTx(p, n, recipient, amount)
          \/ \E time \in Times : Mine(p, time)
          \/ Save(p)
          \/ \E q \in Processes : \/ Fetch(p, q) \/ Deliver(p, q)
                                  \/ Refuse(p, q) \/ WaitForEachOther(p, q)
          \/ End(p)
    BY <1>2 DEF Next
  <2>2. ASSUME NEW n \in Nodes, NEW time \in Times, Listen(p, n, time) PROVE OneShotInv'
    BY <2>2, ListenInv
  <2>3. ASSUME NEW n \in Nodes, Connect(p, n) \/ ReceiveTx(p, n) PROVE OneShotInv'
    BY <2>3, ConnectInv
  <2>4. ASSUME NEW n \in Nodes, NEW recipient \in Recipients, NEW amount \in Amounts,
               SendTx(p, n, recipient, amount)
        PROVE  OneShotInv'
    BY <2>4, SendTxInv
  <2>5. ASSUME NEW time \in Times, Mine(p, time) PROVE OneShotInv'
    BY <2>5, MineInv
  <2>6. CASE Save(p)
    BY <2>6, SaveInv
  <2>7. ASSUME NEW q \in Processes, Fetch(p, q) PROVE OneShotInv'
    BY <2>7, FetchInv
  <2>8. ASSUME NEW q \in Processes, Deliver(p, q) PROVE OneShotInv'
    BY <2>8, DeliverInv
  <2>9. ASSUME NEW q \in Processes, Refuse(p, q) \/ WaitForEachOther(p, q) PROVE OneShotInv'
    BY <2>9, PartInv
  <2>10. CASE End(p)
    BY <2>10, EndInv
  <2> QED
    BY <2>1, <2>2, <2>3, <2>4, <2>5, <2>6, <2>7, <2>8, <2>9, <2>10
<1> QED
  BY <1>1, <1>2

-----------------------------------------------------------------------------
(***************************************************************************)
(* Whatever the processes do to each other's files, the files and every    *)
(* process hold chains the program has made (node.h and chain.h), and a    *)
(* process about to save has made what it saves from what it saw.          *)
(***************************************************************************)
THEOREM ProcessesKeepHonestFiles == Spec => []OneShotInv
  BY OneShotInit, OneShotNext, PTL DEF Spec

(***************************************************************************)
(* A chain file always passes validate_full_chain: no payment is mined     *)
(* into a block in which it is not valid, however old the chain it was     *)
(* checked against (run_listener and run_receive_tx of node.h).            *)
(***************************************************************************)
THEOREM ChainFilesAreValid == Spec => []FilesValid
<1>1. OneShotInv => FilesValid
  BY DEF OneShotInv, GoodChain, HonestChain, FilesValid
<1> QED
  BY <1>1, ProcessesKeepHonestFiles, PTL

(***************************************************************************)
(* Only Save writes a file, and it leaves its process changed.             *)
(***************************************************************************)
LEMMA OnlySaveWrites ==
  ASSUME [Next]_vars
  PROVE  \/ chainFile' = chainFile /\ poolFile' = poolFile
         \/ \E p \in Processes : Save(p)
  BY DEF Next, vars, Listen, Connect, ReceiveTx, SendTx, Launch, Mine, Fetch, Deliver,
         Refuse, WaitForEachOther, End

LEMMA SaveMoves ==
  ASSUME OneShotInv, NEW p \in Processes, Save(p)
  PROVE  proc'[p] # proc[p]
<1>1. PICK r, n : r = proc[p] /\ n = r.node
  OBVIOUS
<1>2. IsProcess(r) /\ r.pc = "save" /\ SaveEffect(p, r, n)
  BY <1>1, SaveCases
<1>3. proc = [q \in Processes |-> proc[q]]
  BY DEF OneShotInv
<1>4. CASE proc' = Puts(proc, p, SavedAll(r))
  <2>1. proc'[p] = SavedAll(r)
    BY <1>3, <1>4, PutsFacts
  <2>2. SavedAll(r).pc # "save"
    <3>1. CASE r.cmd = "listen"
      BY <1>2, <3>1, SavedAllRecord DEF Process
    <3>2. CASE r.cmd # "listen"
      BY <1>2, <3>2, SavedAllRecord DEF Idle
    <3> QED
      BY <3>1, <3>2
  <2> QED
    BY <1>1, <1>2, <2>1, <2>2
<1>5. CASE /\ SavesBoth(r)
           /\ proc' = Puts(proc, p, SavedOne(r, <<"pool">>, chainFile[n], r.chain))
  <2>1. PICK s : s = SavedOne(r, <<"pool">>, chainFile[n], r.chain)
    OBVIOUS
  <2>2. proc'[p] = s
    BY <1>3, <1>5, <2>1, PutsFacts
  <2>3. s.job = <<"pool">>
    BY <1>2, <2>1, SavedOneRecord DEF Process
  <2>4. r.job = <<"chain", "pool">>
    BY <1>5 DEF SavesBoth, FilesSavedByListener
  <2>5. <<"chain", "pool">> # <<"pool">>
    OBVIOUS
  <2> QED
    BY <1>1, <2>2, <2>3, <2>4, <2>5
<1> QED
  BY <1>2, <1>4, <1>5 DEF SaveEffect

LEMMA HeavierStep ==
  ASSUME OneShotInv, [Next]_vars, NEW n \in Nodes
  PROVE  \/ chainFile'[n] = chainFile[n]
         \/ chainFile[n] = <<>>
         \/ /\ GetHash(chainFile'[n][1]) = GetHash(chainFile[n][1])
            /\ calculate_chain_work(chainFile'[n]) > calculate_chain_work(chainFile[n])
         \/ \E p \in Processes : Overtaken(p, n) /\ proc'[p] # proc[p]
<1> SUFFICES ASSUME chainFile'[n] # chainFile[n],
                    \A p \in Processes : Overtaken(p, n) => proc'[p] = proc[p]
             PROVE  MayBecome(chainFile[n], chainFile'[n])
  BY Zenon DEF MayBecome
<1>1. PICK p \in Processes : Save(p)
  BY OnlySaveWrites
<1>2. PICK r, m : r = proc[p] /\ m = r.node
  OBVIOUS
<1>3. r.pc = "save" /\ m \in Nodes /\ SaveEffect(p, r, m)
  BY <1>1, <1>2, SaveCases
<1>4. chainFile = [x \in Nodes |-> chainFile[x]]
  BY DEF OneShotInv
<1>5. ~Overtaken(p, n)
  BY <1>1, SaveMoves
<1>6. /\ chainFile' = Puts(chainFile, m, r.chain)
      /\ MayBecome(r.sawChain, r.chain)
  BY <1>3 DEF SaveEffect, SavesBoth, SavesFetched
<1>7. m = n /\ chainFile'[n] = r.chain
  BY <1>3, <1>4, <1>6, PutsFacts
<1>8. r.sawChain = chainFile[n]
  BY <1>2, <1>3, <1>5, <1>7 DEF Overtaken
<1> QED
  BY <1>6, <1>7, <1>8

(***************************************************************************)
(* However many commands share a node's files, its chain file is replaced  *)
(* only by a heavier chain of the same genesis, unless the writer has been *)
(* overtaken since it read (save_chain in run_listener and run_connector   *)
(* of node.h).                                                             *)
(***************************************************************************)
THEOREM FilesOnlyGrowHeavier == Spec => HeavierUnlessOvertaken
<1>1. OneShotInv /\ [Next]_vars =>
        \A n \in Nodes :
          \/ chainFile'[n] = chainFile[n]
          \/ chainFile[n] = <<>>
          \/ /\ GetHash(chainFile'[n][1]) = GetHash(chainFile[n][1])
             /\ calculate_chain_work(chainFile'[n]) > calculate_chain_work(chainFile[n])
          \/ \E p \in Processes : Overtaken(p, n) /\ proc'[p] # proc[p]
  BY HeavierStep
<1> QED
  BY <1>1, ProcessesKeepHonestFiles, PTL DEF Spec, HeavierUnlessOvertaken

LEMMA PendingStep ==
  ASSUME OneShotInv, [Next]_vars, NEW n \in Nodes, NEW tx \in Range(poolFile[n])
  PROVE  \/ tx \in Range(poolFile'[n])
         \/ Settled(chainFile'[n], poolFile[n], tx)
         \/ \E p \in Processes : Overtaken(p, n) /\ proc'[p] # proc[p]
<1> SUFFICES ASSUME tx \notin Range(poolFile'[n]),
                    \A p \in Processes : Overtaken(p, n) => proc'[p] = proc[p]
             PROVE  Settled(chainFile'[n], poolFile[n], tx)
  OBVIOUS
<1>1. PICK p \in Processes : Save(p)
  BY OnlySaveWrites
<1>2. PICK r, m : r = proc[p] /\ m = r.node
  OBVIOUS
<1>3. r.pc = "save" /\ m \in Nodes /\ SaveEffect(p, r, m)
  BY <1>1, <1>2, SaveCases
<1>4. poolFile = [x \in Nodes |-> poolFile[x]]
  BY DEF OneShotInv
<1>5. ~Overtaken(p, n)
  BY <1>1, SaveMoves
<1>6. /\ poolFile' = Puts(poolFile, m, r.pool) /\ chainFile' = chainFile
      /\ ClearsPool(r) \/ SavesPayment(r)
  BY <1>3 DEF SaveEffect
<1>7. m = n /\ poolFile'[n] = r.pool
  BY <1>3, <1>4, <1>6, PutsFacts
<1>8. "pool" \in Range(r.job)
  <2>1. r.job = <<"pool">>
    BY <1>6 DEF ClearsPool, SavesPayment
  <2> QED
    BY <2>1 DEF Range
<1>9. r.sawChain = chainFile[n] /\ r.sawPool = poolFile[n]
  BY <1>2, <1>3, <1>5, <1>7, <1>8 DEF Overtaken
<1>10. ClearsPool(r)
  BY <1>6, <1>7, <1>9 DEF SavesPayment
<1>11. chainFile[n] = r.chain
  BY <1>2, <1>7, <1>9, <1>10 DEF ClearsPool
<1>12. Settled(r.chain, poolFile[n], tx)
  BY <1>9, <1>10 DEF ClearsPool
<1> QED
  BY <1>6, <1>11, <1>12

(***************************************************************************)
(* A payment leaves the mempool file only when the node's chain file can   *)
(* no longer execute it, when it stood in the file before the payment it   *)
(* spends, or when the writer has been overtaken since it read             *)
(* (select_transactions and clear_mempool in run_listener of node.h).      *)
(***************************************************************************)
THEOREM PendingIsSettled == Spec => PendingConfirmedOrDropped
<1>1. OneShotInv /\ [Next]_vars =>
        \A n \in Nodes : \A tx \in Range(poolFile[n]) :
          \/ tx \in Range(poolFile'[n])
          \/ Settled(chainFile'[n], poolFile[n], tx)
          \/ \E p \in Processes : Overtaken(p, n) /\ proc'[p] # proc[p]
  BY PendingStep
<1> QED
  BY <1>1, ProcessesKeepHonestFiles, PTL DEF Spec, PendingConfirmedOrDropped

(***************************************************************************)
(* A connector that meets a listener.  A chain that its tip extends is     *)
(* that tip after the connector's own chain, since a block hash determines *)
(* the chain before the block.                                             *)
(***************************************************************************)
LEMMA ResolvedTakesHeavier ==
  ASSUME NEW c, HonestChain(c), NEW peer, HonestChain(peer), try_reorg(c, peer),
         ~(LinksTo(Last(peer), c) /\ SpendsWithinBlock(Last(peer)))
  PROVE  Resolved(c, peer) = peer
<1>1. PICK blk : blk = Last(peer)
  OBVIOUS
<1>2. CASE LinksTo(blk, c)
  <2>1. peer = Append(c, blk)
    BY <1>1, <1>2, LinkedTip DEF LinksTo
  <2>2. try_extend_chain(c, blk)
    <3>1. ~SpendsWithinBlock(blk)
      BY <1>1, <1>2
    <3> QED
      BY <2>1, <3>1, ValidBlockExtends DEF SpendsWithinBlock
  <2> QED
    BY <1>1, <2>1, <2>2 DEF Resolved
<1>3. CASE ~LinksTo(blk, c)
  <2>1. ~try_extend_chain(c, blk)
    BY <1>3 DEF try_extend_chain, LinksTo
  <2>2. IsMerkleRootValid(blk) /\ check_proof_of_work(blk)
    <3>1. ValidBlock(peer, Len(peer)) /\ blk = peer[Len(peer)]
      BY <1>1, TipHeight DEF HonestChain, validate_full_chain
    <3> QED
      BY <3>1 DEF ValidBlock
  <2> QED
    BY <1>1, <1>3, <2>1, <2>2 DEF Resolved
<1> QED
  BY <1>2, <1>3

(***************************************************************************)
(* A connector and a listener only move together in Fetch.                 *)
(***************************************************************************)
LEMMA OnlyFetchMeets ==
  ASSUME OneShotInv, [Next]_vars, NEW p \in Processes, NEW q \in Processes, Meet(p, q)
  PROVE  Fetch(p, q)
<1>1. /\ proc[p].cmd = "connect" /\ proc[p].pc = "connect" /\ proc'[p] # proc[p]
      /\ proc[q].cmd = "listen" /\ proc[q].pc = "accept" /\ proc'[q] # proc[q] /\ p # q
  BY DEF Meet, Runs
<1>2. proc = [x \in Processes |-> proc[x]]
  BY DEF OneShotInv
<1>3. \A a, v : proc' # Puts(proc, a, v)
  BY <1>1, <1>2 DEF Puts
<1>4. ASSUME NEW a, NEW b, NEW u, NEW v, proc' = [proc EXCEPT ![a] = u, ![b] = v]
      PROVE  {a, b} = {p, q}
  BY <1>1, <1>2, <1>4
<1>5. PICK a \in Processes, b \in Processes :
        Fetch(a, b) \/ Deliver(a, b) \/ Refuse(a, b) \/ WaitForEachOther(a, b)
  <2>1. ASSUME NEW a, NEW n, NEW cmd, NEW pc, NEW c, NEW tx PROVE ~Launch(a, n, cmd, pc, c, tx)
    BY <1>3 DEF Launch, Puts
  <2>2. ASSUME NEW a \in Processes, NEW time PROVE ~Mine(a, time)
    BY <1>3 DEF Mine, Puts
  <2>3. ASSUME NEW a \in Processes PROVE ~Save(a)
    BY <1>3 DEF Save, Puts
  <2>4. ASSUME NEW a \in Processes PROVE ~End(a)
    BY <1>3 DEF End, Puts
  <2>5. ~UNCHANGED vars
    BY <1>1 DEF vars
  <2> QED
    BY <2>1, <2>2, <2>3, <2>4, <2>5 DEF Next, Listen, Connect, ReceiveTx, SendTx
<1>6. CASE Fetch(a, b)
  <2>1. {a, b} = {p, q}
    BY <1>4, <1>6 DEF Fetch
  <2>2. proc[a].cmd = "connect" /\ proc[b].cmd = "listen"
    BY <1>6 DEF Fetch, Runs
  <2>3. a = p /\ b = q
    BY <1>1, <2>1, <2>2
  <2> QED
    BY <1>6, <2>3
<1>7. CASE Deliver(a, b)
  <2>1. {a, b} = {p, q} /\ proc[a].cmd = "send"
    BY <1>4, <1>7 DEF Deliver, Runs
  <2> QED
    BY <1>1, <2>1
<1>8. CASE Refuse(a, b)
  <2>1. {a, b} = {p, q} /\ proc[a].cmd = "send"
    BY <1>4, <1>8 DEF Refuse, Runs
  <2> QED
    BY <1>1, <2>1
<1>9. CASE WaitForEachOther(a, b)
  <2>1. {a, b} = {p, q} /\ proc[b].cmd = "receive"
    BY <1>4, <1>9 DEF WaitForEachOther, Runs
  <2> QED
    BY <1>1, <2>1
<1> QED
  BY <1>5, <1>6, <1>7, <1>8, <1>9

LEMMA ConnectorStep ==
  ASSUME OneShotInv, [Next]_vars, NEW p \in Processes, NEW q \in Processes,
         Meet(p, q), try_reorg(proc[p].chain, proc[q].chain)
  PROVE  \/ proc'[p].chain = proc[q].chain
         \/ /\ LinksTo(Last(proc[q].chain), proc[p].chain)
            /\ SpendsWithinBlock(Last(proc[q].chain))
<1>1. PICK r, c, peer : r = proc[p] /\ c = r.chain /\ peer = proc[q].chain
  OBVIOUS
<1>2. Fetch(p, q)
  BY OnlyFetchMeets
<1>3. /\ r.pc = "connect" /\ proc[q].pc = "accept" /\ r.cmd = "connect"
      /\ proc[q].cmd = "listen" /\ p # q
  BY <1>1, <1>2 DEF Fetch, Runs
<1>4. HonestChain(c) /\ HonestChain(peer) /\ IsProcess(r)
  BY <1>1, <1>3 DEF OneShotInv, ProcessInv
<1> SUFFICES ASSUME ~(LinksTo(Last(peer), c) /\ SpendsWithinBlock(Last(peer)))
             PROVE  proc'[p].chain = peer
  BY <1>1
<1>5. Resolved(c, peer) = peer
  BY <1>1, <1>4, ResolvedTakesHeavier
<1>6. peer # c
  <2>1. calculate_chain_work(peer) > calculate_chain_work(c)
    BY <1>1 DEF try_reorg
  <2>2. calculate_chain_work(c) \in Int
    BY <1>4, HonestWork
  <2> QED
    BY <2>1, <2>2
<1>7. proc'[p] = Fetched(r, peer)
  <2>1. proc = [x \in Processes |-> proc[x]]
    BY DEF OneShotInv
  <2>2. proc' = [proc EXCEPT ![q] = Idle, ![p] = Fetched(r, peer)]
    BY <1>1, <1>2, <1>5, <1>6 DEF Fetch
  <2> QED
    BY <1>3, <2>1, <2>2
<1> QED
  BY <1>4, <1>7, FetchedRecord DEF Process

(***************************************************************************)
(* A connector that has heard a listener leaves with the listener's chain  *)
(* whenever that is valid, of its genesis and heavier, except when the     *)
(* listener's block links to its own tip and spends what it pays itself    *)
(* (run_connector of node.h).                                              *)
(***************************************************************************)
THEOREM ConnectorEndsWithTheHeavier == Spec => ConnectorTakesHeavier
<1>1. OneShotInv /\ [Next]_vars =>
        \A p, q \in Processes :
          Meet(p, q) /\ try_reorg(proc[p].chain, proc[q].chain) =>
            \/ proc'[p].chain = proc[q].chain
            \/ /\ LinksTo(Last(proc[q].chain), proc[p].chain)
               /\ SpendsWithinBlock(Last(proc[q].chain))
  BY ConnectorStep
<1> QED
  BY <1>1, ProcessesKeepHonestFiles, PTL DEF Spec, ConnectorTakesHeavier
=============================================================================
