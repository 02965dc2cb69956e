---------------------------- MODULE DaemonProofs ----------------------------
(***************************************************************************)
(* Proofs about Daemon.tla for every set of nodes, every known_peers_ and  *)
(* every bound, with crashes at any point: the mutex and the files; every  *)
(* chain a daemon works with is valid; and what the daemons show of        *)
(* themselves implements HeaviestChain.                                    *)
(***************************************************************************)
EXTENDS DaemonProperties, LedgerProofs

-----------------------------------------------------------------------------
(***************************************************************************)
(* The values PollPeer takes between its steps.                            *)
(***************************************************************************)
LEMMA PollIdleOK ==
  ASSUME NEW n, NEW t \in 1 .. Len(KnownPeers[n]) \cup {1}
  PROVE  PollOK(n, PollIdle(t))
  BY EmptyIsSeq DEF PollOK, PollIdle, PollPcs

LEMMA PollReturnsOK ==
  ASSUME NEW n \in Nodes, PollOK(n, poll[n]), KnownPeers[n] # <<>>
  PROVE  PollOK(n, PollReturns(n))
<1>1. Len(KnownPeers[n]) \in Nat \ {0}
  BY DaemonAssumption
<1>2. poll[n].turn \in Nat
  BY <1>1 DEF PollOK
<1>3. (poll[n].turn % Len(KnownPeers[n])) + 1 \in 1 .. Len(KnownPeers[n])
  BY <1>1, <1>2
<1> QED
  BY <1>3, PollIdleOK DEF PollReturns

LEMMA PollAtOK ==
  ASSUME NEW n \in Nodes, PollOK(n, poll[n]), KnownPeers[n] # <<>>,
         NEW pc \in PollPcs, NEW got, IsSeq(got)
  PROVE  PollOK(n, PollAt(n, pc, got))
  BY DEF PollOK, PollAt

LEMMA DisconnectedOK ==
  ASSUME NEW n, NEW p, PollOK(n, p)
  PROVE  PollOK(n, Disconnected(p))
  BY DEF PollOK, Disconnected

-----------------------------------------------------------------------------
(***************************************************************************)
(* Each action preserves TypeOK.  The conjunct on poll is the only one     *)
(* that takes thought: it is settled by the lemmas above.                  *)
(***************************************************************************)
LEMMA GenesisIsSeq ==
  ASSUME NEW address, NEW time
  PROVE  /\ IsSeq(build_genesis_chain(address, time))
         /\ build_genesis_chain(address, time) # <<>>
  BY SingletonIsSeq DEF build_genesis_chain

LEMMA InitTypeOK == Init => TypeOK
<1> SUFFICES ASSUME Init PROVE TypeOK
  OBVIOUS
<1>1. \A n \in Nodes : /\ IsSeq(chain[n]) /\ IsSeq(diskChain[n])
                       /\ IsSeq(diskPool[n]) /\ IsSeq(newPool[n])
  BY EmptyIsSeq, GenesisIsSeq DEF Init, SeedChain
<1>2. \A n \in Nodes : PollOK(n, poll[n])
  BY PollIdleOK DEF Init, PollStart
<1>3. /\ chain = [n \in Nodes |-> chain[n]]
      /\ diskChain = [n \in Nodes |-> diskChain[n]]
      /\ diskPool = [n \in Nodes |-> diskPool[n]]
      /\ newPool = [n \in Nodes |-> newPool[n]]
      /\ wire = [n \in Nodes |-> wire[n]]
      /\ poll = [n \in Nodes |-> poll[n]]
  BY DEF Init
<1>4. /\ status \in [Nodes -> {"down", "boot", "run", "spin"}]
      /\ job \in [Nodes -> Jobs]
      /\ open \in [Nodes -> BOOLEAN]
  BY DEF Init, Jobs
<1>5. sends \in 0 .. MAX_SENDS /\ faults \in 0 .. MAX_FAULTS
  BY DaemonAssumption DEF Init
<1> QED
  BY <1>1, <1>2, <1>3, <1>4, <1>5 DEF TypeOK

(***************************************************************************)
(* Replacing n's entry in poll by a well-formed one.                       *)
(***************************************************************************)
LEMMA PollUpdate ==
  ASSUME TypeOK, NEW n \in Nodes, NEW p, PollOK(n, p),
         poll' = [poll EXCEPT ![n] = p]
  PROVE  /\ poll' = [m \in Nodes |-> poll'[m]]
         /\ \A m \in Nodes : PollOK(m, poll'[m])
<1>1. poll' = [m \in Nodes |-> IF m = n THEN p ELSE poll[m]]
  BY DEF TypeOK
<1>2. \A m \in Nodes : PollOK(m, poll[m])
  BY DEF TypeOK
<1>3. poll' = [m \in Nodes |-> poll'[m]]
  BY <1>1
<1>4. ASSUME NEW m \in Nodes PROVE PollOK(m, poll'[m])
  BY <1>1, <1>2
<1> QED
  BY <1>3, <1>4

LEMMA StartTypeOK ==
  ASSUME TypeOK, NEW n \in Nodes, NEW time, Start(n, time)
  PROVE  TypeOK'
<1>1. IsSeq(load_or_create_chain(n, time))
  BY GenesisIsSeq DEF TypeOK, load_or_create_chain
<1> QED
  BY <1>1 DEF TypeOK, Start, Jobs

LEMMA TruncateTypeOK ==
  ASSUME TypeOK, NEW n \in Nodes, Truncate(n)
  PROVE  TypeOK'
  BY EmptyIsSeq DEF TypeOK, Truncate

LEMMA MiningLoopTypeOK ==
  ASSUME TypeOK, NEW n \in Nodes, NEW time, MiningLoop(n, time)
  PROVE  TypeOK'
<1>1. PICK blk : chain' = [chain EXCEPT ![n] = Append(chain[n], blk)]
  BY DEF MiningLoop
<1>2. IsSeq(Append(chain[n], blk))
  BY AppendIsSeq DEF TypeOK
<1>3. /\ chain' = [m \in Nodes |-> chain'[m]]
      /\ \A m \in Nodes : IsSeq(chain'[m])
  BY <1>1, <1>2 DEF TypeOK
<1> QED
  BY <1>3, EmptyIsSeq DEF TypeOK, MiningLoop, FilesSavedByMiner, Jobs

LEMMA MineForeverTypeOK ==
  ASSUME TypeOK, NEW n \in Nodes, MineForever(n)
  PROVE  TypeOK'
  BY DEF TypeOK, MineForever

LEMMA SendTypeOK ==
  ASSUME TypeOK, NEW n, NEW m, NEW recipient, NEW amount,
         run_send_tx(n, m, recipient, amount)
  PROVE  TypeOK'
<1>1. PICK w : wire' = [wire EXCEPT ![m] = w]
  BY DEF run_send_tx
<1>2. sends' \in 0 .. MAX_SENDS
  BY DaemonAssumption DEF TypeOK, run_send_tx
<1> QED
  BY <1>1, <1>2 DEF TypeOK, run_send_tx

LEMMA AcceptTypeOK ==
  ASSUME TypeOK, NEW n \in Nodes, NEW tx, AcceptTransaction(n, tx)
  PROVE  TypeOK'
<1>1. IsSeq(Append(diskPool[n], tx))
  BY AppendIsSeq DEF TypeOK
<1> QED
  BY <1>1 DEF TypeOK, AcceptTransaction, Jobs

LEMMA LoseTransactionTypeOK ==
  ASSUME TypeOK, NEW n \in Nodes, NEW tx, LoseTransaction(n, tx)
  PROVE  TypeOK'
<1>1. faults' \in 0 .. MAX_FAULTS
  BY DaemonAssumption DEF TypeOK, LoseTransaction
<1> QED
  BY <1>1 DEF TypeOK, LoseTransaction

LEMMA HeadTail ==
  ASSUME NEW x, NEW y
  PROVE  /\ Head(<<x>>) = x /\ Tail(<<x>>) = <<>>
         /\ Head(<<x, y>>) = x /\ Tail(<<x, y>>) = <<y>>
         /\ <<x>> # <<>> /\ <<x, y>> # <<>>
<1>1. Head(<<x>>) = x /\ Head(<<x, y>>) = x /\ <<x>> # <<>> /\ <<x, y>> # <<>>
  OBVIOUS
<1>2. Tail(<<x>>) = <<>>
  OBVIOUS
<1>3. Tail(<<x, y>>) = <<y>>
  OBVIOUS
<1> QED
  BY <1>1, <1>2, <1>3

LEMMA JobSteps ==
  ASSUME NEW j \in Jobs, j # <<>>
  PROVE  /\ Head(j) \in {"chain", "pool"}
         /\ Head(j) = "pool" => Tail(j) = <<>>
         /\ Head(j) = "chain" => Tail(j) \in {<<>>, <<"pool">>}
<1>1. CASE j = <<"chain">>
  BY <1>1, HeadTail
<1>2. CASE j = <<"pool">>
  BY <1>2, HeadTail
<1>3. CASE j = <<"chain", "pool">>
  BY <1>3, HeadTail
<1> QED
  BY <1>1, <1>2, <1>3 DEF Jobs

LEMMA WriteTypeOK ==
  ASSUME TypeOK, NEW n \in Nodes, Write(n), job[n] # <<>>
  PROVE  TypeOK'
<1>1. Tail(job[n]) \in Jobs
  BY JobSteps DEF TypeOK, Jobs
<1>2. /\ job' \in [Nodes -> Jobs]
      /\ open' \in [Nodes -> BOOLEAN]
      /\ status' \in [Nodes -> {"down", "boot", "run", "spin"}]
  BY <1>1 DEF TypeOK, Write, Released
<1>3. /\ poll' = [m \in Nodes |-> poll'[m]]
      /\ \A m \in Nodes : PollOK(m, poll'[m])
  <2>1. CASE Tail(job[n]) = <<>>
    <3>1. PollOK(n, poll[n]) /\ IsSeq(poll[n].got)
      BY DEF TypeOK, PollOK
    <3>3. CASE poll[n].pc = "saving"
      <4>1. PollOK(n, PollReturns(n))
        BY <3>1, <3>3, PollReturnsOK DEF PollOK
      <4> QED
        BY <2>1, <3>3, <4>1, PollUpdate DEF Write, Released
    <3>4. CASE poll[n].pc # "saving"
      BY <2>1, <3>1, <3>4, PollUpdate DEF Write, Released
    <3> QED
      BY <3>3, <3>4
  <2>2. CASE Tail(job[n]) # <<>>
    BY <2>2 DEF Write, TypeOK
  <2> QED
    BY <2>1, <2>2
<1>4. /\ diskChain' = [m \in Nodes |-> diskChain'[m]]
      /\ diskPool' = [m \in Nodes |-> diskPool'[m]]
      /\ \A m \in Nodes : IsSeq(diskChain'[m]) /\ IsSeq(diskPool'[m])
  BY DEF TypeOK, Write
<1> QED
  BY <1>2, <1>3, <1>4 DEF TypeOK, Write

LEMMA CrashTypeOK ==
  ASSUME TypeOK, NEW n \in Nodes, Crash(n)
  PROVE  TypeOK'
<1>1. \A m \in Nodes : PollOK(m, poll'[m])
  <2> SUFFICES ASSUME NEW m \in Nodes PROVE PollOK(m, poll'[m])
    OBVIOUS
  <2>1. PollOK(m, PollStart) /\ PollOK(m, Disconnected(poll[m])) /\ PollOK(m, poll[m])
    BY PollIdleOK, DisconnectedOK DEF TypeOK, PollStart
  <2> QED
    BY <2>1 DEF Crash
<1>2. poll' = [m \in Nodes |-> poll'[m]]
  BY DEF Crash
<1>3. faults' \in 0 .. MAX_FAULTS
  BY DaemonAssumption DEF TypeOK, Crash
<1>4. /\ status' \in [Nodes -> {"down", "boot", "run", "spin"}]
      /\ job' \in [Nodes -> Jobs]
      /\ open' \in [Nodes -> BOOLEAN]
  BY DEF TypeOK, Crash, Jobs
<1>5. /\ chain' = [m \in Nodes |-> chain'[m]]
      /\ newPool' = [m \in Nodes |-> newPool'[m]]
      /\ wire' = [m \in Nodes |-> wire'[m]]
      /\ \A m \in Nodes : IsSeq(chain'[m]) /\ IsSeq(newPool'[m])
  BY EmptyIsSeq DEF TypeOK, Crash
<1> QED
  BY <1>1, <1>2, <1>3, <1>4, <1>5 DEF TypeOK, Crash

(***************************************************************************)
(* The steps of a poll that change nothing but poll.                       *)
(***************************************************************************)
LEMMA PollOnlyTypeOK ==
  ASSUME TypeOK, NEW n \in Nodes, NEW p, PollOK(n, p),
         poll' = [poll EXCEPT ![n] = p], ExceptPoll
  PROVE  TypeOK'
<1>1. /\ poll' = [m \in Nodes |-> poll'[m]]
      /\ \A m \in Nodes : PollOK(m, poll'[m])
  BY PollUpdate
<1> QED
  BY <1>1 DEF TypeOK, ExceptPoll

LEMMA PollStepTypeOK ==
  ASSUME TypeOK, NEW n \in Nodes, PollStep(n)
  PROVE  TypeOK'
<1>1. PollOK(n, poll[n])
  BY DEF TypeOK
<1>2. poll[n].pc # "idle" => PollOK(n, PollReturns(n))
  BY <1>1, PollReturnsOK DEF PollOK
<1>3. ASSUME poll[n].pc # "idle", NEW pc \in PollPcs, NEW got, IsSeq(got)
      PROVE  PollOK(n, PollAt(n, pc, got))
  BY <1>1, <1>3, PollAtOK DEF PollOK
<1>4. CASE PollConnect(n)
  <2> DEFINE wait == [pc |-> "wait_inv", turn |-> poll[n].turn, conn |-> TRUE,
                      got |-> <<>>]
  <2>1. PollOK(n, wait)
    BY <1>1, <1>4, EmptyIsSeq DEF PollConnect, PollOK, PollPcs
  <2>2. PollOK(n, PollReturns(n))
    BY <1>1, <1>4, PollReturnsOK DEF PollConnect
  <2>3. PICK p \in {wait, PollReturns(n)} : poll' = [poll EXCEPT ![n] = p]
    BY <1>4 DEF PollConnect
  <2>4. PollOK(n, p)
    BY <2>1, <2>2
  <2> QED
    BY <1>4, <2>3, <2>4, PollOnlyTypeOK DEF PollConnect
<1>5. ASSUME NEW m \in Nodes, SendInv(n, m) PROVE TypeOK'
  <2> DEFINE p == PollAt(n, "wait_block", <<>>)
  <2>1. PollOK(n, p)
    BY <1>3, <1>5, EmptyIsSeq DEF SendInv, Answer, PollPcs
  <2>2. poll' = [poll EXCEPT ![n] = p] /\ ExceptPoll
    BY <1>5 DEF SendInv, Answer
  <2> HIDE DEF p
  <2> QED
    BY <2>1, <2>2, PollOnlyTypeOK
<1>6. ASSUME NEW m \in Nodes, SendBlock(n, m) PROVE TypeOK'
  <2> DEFINE p == PollAt(n, "got_block", <<Last(chain[m])>>)
  <2>1. PollOK(n, p)
    BY <1>3, <1>6, SingletonIsSeq DEF SendBlock, Answer, PollPcs
  <2>2. poll' = [poll EXCEPT ![n] = p] /\ ExceptPoll
    BY <1>6 DEF SendBlock, Answer
  <2> HIDE DEF p
  <2> QED
    BY <2>1, <2>2, PollOnlyTypeOK
<1>7. ASSUME NEW m \in Nodes, SendChain(n, m) PROVE TypeOK'
  <2> DEFINE q == PollAt(n, "got_chain", chain[m])
  <2>1. IsSeq(chain[m])
    BY DEF TypeOK
  <2>2. PollOK(n, q)
    BY <1>3, <1>7, <2>1 DEF SendChain, Answer, PollPcs
  <2>3. PICK p \in {q, PollReturns(n)} : poll' = [poll EXCEPT ![n] = p]
    BY <1>7 DEF SendChain
  <2>4. PollOK(n, p)
    BY <1>2, <1>7, <2>2 DEF SendChain, Answer
  <2> QED
    BY <1>7, <2>3, <2>4, PollOnlyTypeOK DEF SendChain, Answer
<1>8. CASE ExtendChain(n)
  <2> DEFINE p == PollAt(n, "saving", <<>>)
  <2>1. PollOK(n, p)
    BY <1>3, <1>8, EmptyIsSeq DEF ExtendChain, PollPcs
  <2>2. poll' = [poll EXCEPT ![n] = p]
    BY <1>8 DEF ExtendChain
  <2> HIDE DEF p
  <2>3. /\ poll' = [m \in Nodes |-> poll'[m]]
        /\ \A m \in Nodes : PollOK(m, poll'[m])
    BY <2>1, <2>2, PollUpdate
  <2>4. IsSeq(Append(chain[n], poll[n].got[1]))
    BY AppendIsSeq DEF TypeOK
  <2>5. /\ chain' = [m \in Nodes |-> chain'[m]]
        /\ \A m \in Nodes : IsSeq(chain'[m])
    BY <1>8, <2>4 DEF ExtendChain, TypeOK
  <2> QED
    BY <1>8, <2>3, <2>5 DEF ExtendChain, TypeOK, Jobs
<1>9. CASE RequestChain(n)
  <2> DEFINE q == PollAt(n, "wait_chain", <<>>)
  <2>1. PollOK(n, q)
    BY <1>3, <1>9, EmptyIsSeq DEF RequestChain, PollPcs
  <2>2. PICK p \in {q, PollReturns(n)} : poll' = [poll EXCEPT ![n] = p]
    BY <1>9 DEF RequestChain
  <2>3. PollOK(n, p)
    BY <1>2, <1>9, <2>1 DEF RequestChain
  <2> QED
    BY <1>9, <2>2, <2>3, PollOnlyTypeOK DEF RequestChain
<1>11. CASE Reorg(n)
  <2> DEFINE q == PollAt(n, "saving", <<>>)
  <2>1. PollOK(n, q)
    BY <1>3, <1>11, EmptyIsSeq DEF Reorg, PollPcs
  <2>2. PICK p \in {q, PollReturns(n)} : poll' = [poll EXCEPT ![n] = p]
    BY <1>11 DEF Reorg
  <2>3. PollOK(n, p)
    BY <1>2, <1>11, <2>1 DEF Reorg
  <2>4. /\ poll' = [m \in Nodes |-> poll'[m]]
        /\ \A m \in Nodes : PollOK(m, poll'[m])
    BY <2>2, <2>3, PollUpdate
  <2>5. IsSeq(poll[n].got)
    BY <1>1 DEF PollOK
  <2>6. /\ chain' = [m \in Nodes |-> chain'[m]]
        /\ \A m \in Nodes : IsSeq(chain'[m])
        /\ job' \in [Nodes -> Jobs]
    BY <1>11, <2>5 DEF Reorg, TypeOK, Jobs
  <2> QED
    BY <1>11, <2>4, <2>6 DEF Reorg, TypeOK
<1>12. CASE ReceiveFails(n)
  BY <1>2, <1>12, PollOnlyTypeOK DEF ReceiveFails
<1> QED
  BY <1>4, <1>5, <1>6, <1>7, <1>8, <1>9, <1>11, <1>12 DEF PollStep

LEMMA LoseConnectionTypeOK ==
  ASSUME TypeOK, NEW n \in Nodes, LoseConnection(n)
  PROVE  TypeOK'
<1>1. PollOK(n, Disconnected(poll[n]))
  BY DisconnectedOK DEF TypeOK
<1>2. /\ poll' = [m \in Nodes |-> poll'[m]]
      /\ \A m \in Nodes : PollOK(m, poll'[m])
  BY <1>1, PollUpdate DEF LoseConnection
<1>3. faults' \in 0 .. MAX_FAULTS
  BY DaemonAssumption DEF TypeOK, LoseConnection
<1> QED
  BY <1>2, <1>3 DEF TypeOK, LoseConnection

(***************************************************************************)
(* TypeOK is not inductive alone: a Write needs a file to write, which is  *)
(* what MutexInv adds.                                                     *)
(***************************************************************************)
LEMMA NextTypeOK ==
  ASSUME TypeOK, MutexInv, [Next]_vars
  PROVE  TypeOK'
<1>1. CASE UNCHANGED vars
  BY <1>1 DEF TypeOK, vars
<1>2. ASSUME NEW n \in Nodes, NEW time \in Times, Start(n, time) PROVE TypeOK'
  BY <1>2, StartTypeOK
<1>3. ASSUME NEW n \in Nodes, NEW time \in Times, MiningLoop(n, time) PROVE TypeOK'
  BY <1>3, MiningLoopTypeOK
<1>4. ASSUME NEW n \in Nodes, MineForever(n) PROVE TypeOK'
  BY <1>4, MineForeverTypeOK
<1>5. ASSUME NEW n \in Nodes, SaveStep(n) PROVE TypeOK'
  BY <1>5, TruncateTypeOK, WriteTypeOK DEF SaveStep, Write, MutexInv, MutexInvOf
<1>6. ASSUME NEW n \in Nodes, PollStep(n) PROVE TypeOK'
  BY <1>6, PollStepTypeOK
<1>7. ASSUME NEW n \in Nodes, Pay(n) PROVE TypeOK'
  BY <1>7, SendTypeOK DEF Pay
<1>8. ASSUME NEW n \in Nodes, NEW tx \in wire[n], AcceptTransaction(n, tx) PROVE TypeOK'
  BY <1>8, AcceptTypeOK
<1>9. ASSUME NEW n \in Nodes, Fault(n) PROVE TypeOK'
  BY <1>9, CrashTypeOK, LoseConnectionTypeOK, LoseTransactionTypeOK DEF Fault
<1> QED
  BY <1>1, <1>2, <1>3, <1>4, <1>5, <1>6, <1>7, <1>8, <1>9 DEF Next

-----------------------------------------------------------------------------
(***************************************************************************)
(* The mutex and the files.                                                *)
(***************************************************************************)
LEMMA InitMutexInv == Init => MutexInv
  BY DEF Init, MutexInv, MutexInvOf

(***************************************************************************)
(* A step that leaves the files, chain_ and the mutex alone.               *)
(***************************************************************************)
MutexUnchanged == UNCHANGED <<status, chain, diskChain, job, open>>

LEMMA MutexFrame ==
  ASSUME MutexInv, MutexUnchanged
  PROVE  MutexInv'
  BY DEF MutexInv, MutexInvOf, MutexUnchanged

(***************************************************************************)
(* A thread takes the free mutex of n: it has changed chain_ and is left   *)
(* with files to save, the chain first.                                    *)
(***************************************************************************)
LEMMA MutexTaken ==
  ASSUME TypeOK, MutexInv, NEW n \in Nodes, status[n] = "run",
         job[n] = <<>>, NEW c, c # <<>>,
         NEW j \in {<<"chain">>, <<"chain", "pool">>},
         chain' = [chain EXCEPT ![n] = c],
         job' = [job EXCEPT ![n] = j],
         UNCHANGED <<status, diskChain, open>>
  PROVE  MutexInv'
<1>1. j # <<>> /\ Head(j) = "chain"
  BY HeadTail
<1>2. /\ chain'[n] = c /\ job'[n] = j
      /\ \A m \in Nodes \ {n} : chain'[m] = chain[m] /\ job'[m] = job[m]
  BY DEF TypeOK
<1>3. MutexInvOf(n)'
  BY <1>1, <1>2 DEF MutexInvOf
<1>4. \A m \in Nodes \ {n} : MutexInvOf(m)'
  BY <1>2 DEF MutexInv, MutexInvOf
<1> QED
  BY <1>3, <1>4 DEF MutexInv

LEMMA StartMutexInv ==
  ASSUME TypeOK, MutexInv, NEW n \in Nodes, NEW time, Start(n, time)
  PROVE  MutexInv'
<1>1. load_or_create_chain(n, time) # <<>>
  BY GenesisIsSeq DEF load_or_create_chain
<1>2. /\ status'[n] = "boot" /\ job'[n] = <<"chain">> /\ chain'[n] # <<>>
      /\ \A m \in Nodes \ {n} : /\ status'[m] = status[m]
                               /\ job'[m] = job[m]
                               /\ chain'[m] = chain[m]
      /\ diskChain' = diskChain /\ open' = open
  BY <1>1 DEF TypeOK, Start
<1>3. <<"chain">> # <<>> /\ Head(<<"chain">>) = "chain"
  BY HeadTail
<1>4. MutexInvOf(n)'
  BY <1>2, <1>3 DEF MutexInvOf
<1>5. \A m \in Nodes \ {n} : MutexInvOf(m)'
  BY <1>2 DEF MutexInv, MutexInvOf
<1> QED
  BY <1>4, <1>5 DEF MutexInv

LEMMA TruncateMutexInv ==
  ASSUME TypeOK, MutexInv, NEW n \in Nodes, Truncate(n)
  PROVE  MutexInv'
<1>1. /\ open'[n] = TRUE
      /\ Head(job[n]) # "chain" => diskChain'[n] = diskChain[n]
      /\ \A m \in Nodes \ {n} : open'[m] = open[m] /\ diskChain'[m] = diskChain[m]
      /\ status' = status /\ chain' = chain /\ job' = job
  BY DEF TypeOK, Truncate
<1>2. job[n] # <<>> /\ Head(job[n]) \in {"chain", "pool"}
  BY JobSteps DEF TypeOK, Truncate
<1>3. MutexInvOf(n)'
  BY <1>1, <1>2 DEF MutexInv, MutexInvOf
<1>4. \A m \in Nodes \ {n} : MutexInvOf(m)'
  BY <1>1 DEF MutexInv, MutexInvOf
<1> QED
  BY <1>3, <1>4 DEF MutexInv

LEMMA WriteMutexInv ==
  ASSUME TypeOK, MutexInv, NEW n \in Nodes, Write(n)
  PROVE  MutexInv'
<1> DEFINE rest == Tail(job[n])
<1>1. job[n] # <<>>
  BY DEF MutexInv, MutexInvOf, Write
<1>2. /\ Head(job[n]) \in {"chain", "pool"}
      /\ Head(job[n]) = "pool" => rest = <<>>
      /\ Head(job[n]) = "chain" => rest \in {<<>>, <<"pool">>}
      /\ rest # <<>> => rest = <<"pool">> /\ Head(rest) = "pool"
  BY <1>1, JobSteps, HeadTail DEF TypeOK
<1>3. /\ open'[n] = FALSE /\ job'[n] = rest
      /\ diskChain'[n] = IF Head(job[n]) = "chain" THEN chain[n] ELSE diskChain[n]
      /\ status'[n] = IF rest = <<>> THEN "run" ELSE status[n]
      /\ chain' = chain
      /\ \A m \in Nodes \ {n} : /\ open'[m] = open[m]
                               /\ job'[m] = job[m]
                               /\ diskChain'[m] = diskChain[m]
                               /\ status'[m] = status[m]
  BY DEF TypeOK, Write, Released
<1>4. status[n] \notin {"down", "spin"} /\ (rest # <<>> => status[n] # "boot")
  BY <1>1, <1>2, HeadTail DEF MutexInv, MutexInvOf
<1> HIDE DEF rest
<1>5. diskChain'[n] = chain[n]
  BY <1>1, <1>2, <1>3, <1>4 DEF MutexInv, MutexInvOf
<1>6. MutexInvOf(n)'
  BY <1>2, <1>3, <1>4, <1>5 DEF MutexInv, MutexInvOf, TypeOK
<1>7. \A m \in Nodes \ {n} : MutexInvOf(m)'
  BY <1>3 DEF MutexInv, MutexInvOf
<1> QED
  BY <1>6, <1>7 DEF MutexInv

LEMMA CrashMutexInv ==
  ASSUME TypeOK, MutexInv, NEW n \in Nodes, Crash(n)
  PROVE  MutexInv'
<1>1. /\ status'[n] = "down" /\ job'[n] = <<>> /\ open'[n] = FALSE
      /\ \A m \in Nodes \ {n} : /\ status'[m] = status[m]
                               /\ job'[m] = job[m]
                               /\ open'[m] = open[m]
                               /\ chain'[m] = chain[m]
      /\ diskChain' = diskChain
  BY DEF TypeOK, Crash
<1>2. MutexInvOf(n)'
  BY <1>1 DEF MutexInvOf
<1>3. \A m \in Nodes \ {n} : MutexInvOf(m)'
  BY <1>1 DEF MutexInv, MutexInvOf
<1> QED
  BY <1>2, <1>3 DEF MutexInv

LEMMA MineForeverMutexInv ==
  ASSUME TypeOK, MutexInv, NEW n \in Nodes, MineForever(n)
  PROVE  MutexInv'
<1>1. /\ status'[n] = "spin" /\ status[n] = "run" /\ job[n] = <<>>
      /\ \A m \in Nodes \ {n} : status'[m] = status[m]
      /\ UNCHANGED <<chain, diskChain, job, open>>
  BY DEF TypeOK, MineForever, MutexFree
<1>2. MutexInvOf(n)'
  BY <1>1 DEF MutexInv, MutexInvOf
<1>3. \A m \in Nodes \ {n} : MutexInvOf(m)'
  BY <1>1 DEF MutexInv, MutexInvOf
<1> QED
  BY <1>2, <1>3 DEF MutexInv

LEMMA MiningLoopMutexInv ==
  ASSUME TypeOK, MutexInv, NEW n \in Nodes, NEW time, MiningLoop(n, time)
  PROVE  MutexInv'
<1>1. PICK blk : chain' = [chain EXCEPT ![n] = Append(chain[n], blk)]
  BY DEF MiningLoop
<1>2. Append(chain[n], blk) # <<>>
  BY AppendIsSeq DEF TypeOK
<1> QED
  BY <1>1, <1>2, MutexTaken DEF MiningLoop, MutexFree, FilesSavedByMiner

LEMMA AcceptMutexInv ==
  ASSUME TypeOK, MutexInv, NEW n \in Nodes, NEW tx, AcceptTransaction(n, tx)
  PROVE  MutexInv'
<1>1. CASE Acceptable(n, tx)
  <2>1. /\ job'[n] = <<"pool">> /\ status[n] = "run" /\ job[n] = <<>>
        /\ \A m \in Nodes \ {n} : job'[m] = job[m]
        /\ UNCHANGED <<status, chain, diskChain, open>>
    BY <1>1 DEF TypeOK, AcceptTransaction, MutexFree
  <2>2. <<"pool">> # <<>>
    BY HeadTail
  <2>3. MutexInvOf(n)'
    BY <2>1, <2>2 DEF MutexInv, MutexInvOf
  <2>4. \A m \in Nodes \ {n} : MutexInvOf(m)'
    BY <2>1 DEF MutexInv, MutexInvOf
  <2> QED
    BY <2>3, <2>4 DEF MutexInv
<1>2. CASE ~Acceptable(n, tx)
  BY <1>2, MutexFrame DEF AcceptTransaction, MutexUnchanged
<1> QED
  BY <1>1, <1>2

LEMMA PollStepMutexInv ==
  ASSUME TypeOK, MutexInv, NEW n \in Nodes, PollStep(n)
  PROVE  MutexInv'
<1>1. CASE ExceptPoll
  BY <1>1, MutexFrame DEF ExceptPoll, MutexUnchanged
<1>2. CASE ExtendChain(n)
  <2>1. Append(chain[n], poll[n].got[1]) # <<>>
    BY AppendIsSeq DEF TypeOK
  <2> QED
    BY <1>2, <2>1, MutexTaken DEF ExtendChain, MutexFree
<1>3. CASE Reorg(n)
  <2>1. CASE try_reorg(chain[n], poll[n].got)
    <3>1. poll[n].got # <<>>
      BY <2>1 DEF try_reorg
    <3> QED
      BY <1>3, <2>1, <3>1, MutexTaken DEF Reorg, MutexFree
  <2>2. CASE ~try_reorg(chain[n], poll[n].got)
    BY <1>3, <2>2, MutexFrame DEF Reorg, MutexUnchanged
  <2> QED
    BY <2>1, <2>2
<1> QED
  BY <1>1, <1>2, <1>3 DEF PollStep, PollConnect, SendInv, SendBlock, SendChain,
     Answer, RequestChain, ReceiveFails

LEMMA NextMutexInv ==
  ASSUME TypeOK, MutexInv, [Next]_vars
  PROVE  MutexInv'
<1>1. CASE UNCHANGED vars
  BY <1>1, MutexFrame DEF vars, MutexUnchanged
<1>2. ASSUME NEW n \in Nodes, NEW time \in Times, Start(n, time) PROVE MutexInv'
  BY <1>2, StartMutexInv
<1>3. ASSUME NEW n \in Nodes, NEW time \in Times, MiningLoop(n, time) PROVE MutexInv'
  BY <1>3, MiningLoopMutexInv
<1>4. ASSUME NEW n \in Nodes, MineForever(n) PROVE MutexInv'
  BY <1>4, MineForeverMutexInv
<1>5. ASSUME NEW n \in Nodes, SaveStep(n) PROVE MutexInv'
  BY <1>5, TruncateMutexInv, WriteMutexInv DEF SaveStep
<1>6. ASSUME NEW n \in Nodes, PollStep(n) PROVE MutexInv'
  BY <1>6, PollStepMutexInv
<1>7. ASSUME NEW n \in Nodes, Pay(n) PROVE MutexInv'
  BY <1>7, MutexFrame DEF Pay, run_send_tx, MutexUnchanged
<1>8. ASSUME NEW n \in Nodes, NEW tx \in wire[n], AcceptTransaction(n, tx)
      PROVE  MutexInv'
  BY <1>8, AcceptMutexInv
<1>9. ASSUME NEW n \in Nodes, Fault(n) PROVE MutexInv'
  <2>1. CASE Crash(n)
    BY <2>1, CrashMutexInv
  <2>2. CASE ~Crash(n)
    BY <1>9, <2>2, MutexFrame DEF Fault, LoseConnection, LoseTransaction, MutexUnchanged
  <2> QED
    BY <2>1, <2>2
<1> QED
  BY <1>1, <1>2, <1>3, <1>4, <1>5, <1>6, <1>7, <1>8, <1>9 DEF Next

(***************************************************************************)
(* The inductive invariant: types, and the mutex that ties the files to    *)
(* chain_.                                                                 *)
(***************************************************************************)
THEOREM MutexProtectsFiles == Spec => [](TypeOK /\ MutexInv)
<1>1. Init => TypeOK /\ MutexInv
  BY InitTypeOK, InitMutexInv
<1>2. TypeOK /\ MutexInv /\ [Next]_vars => (TypeOK /\ MutexInv)'
  BY NextTypeOK, NextMutexInv
<1> QED
  BY <1>1, <1>2, PTL DEF Spec

(***************************************************************************)
(* The shared state keeps its type, whatever the interleaving of the       *)
(* accept, mining and poll threads of any number of nodes, with crashes at *)
(* any point (torn files included).                                        *)
(***************************************************************************)
THEOREM TypeCorrect == Spec => []TypeOK
  BY MutexProtectsFiles, PTL

(***************************************************************************)
(* Whoever holds the mutex of a running node and has not changed chain_    *)
(* sees the chain that is on disk: the blocks HandleConnection serves have *)
(* been saved.                                                             *)
(***************************************************************************)
THEOREM ServedBlocksAreDurable == Spec => []ServedIsDurable
<1>1. MutexInv => ServedIsDurable
  BY DEF MutexInv, MutexInvOf, ServedIsDurable, MutexFree
<1> QED
  BY <1>1, MutexProtectsFiles, PTL

-----------------------------------------------------------------------------
(***************************************************************************)
(* The genesis of a seeded node.                                           *)
(***************************************************************************)
LEMMA SeedIsOnSeed == OnSeed(SeedChain)
  BY GenesisIsSeq DEF OnSeed, SeedChain

LEMMA InitGenesisInv == Init => GenesisInv
<1> SUFFICES ASSUME Init, NEW n \in Seeded PROVE GenesisInvOf(n)
  BY DEF GenesisInv
<1>1. n \in Nodes
  BY DaemonAssumption
<1>2. diskChain[n] = SeedChain /\ chain[n] = <<>>
  BY <1>1 DEF Init
<1> QED
  BY <1>2, SeedIsOnSeed DEF GenesisInvOf

LEMMA GenesisFrame ==
  ASSUME GenesisInv, UNCHANGED <<chain, diskChain, job, open>>
  PROVE  GenesisInv'
  BY DEF GenesisInv, GenesisInvOf, OnSeed

(***************************************************************************)
(* A step of node n can only disturb what GenesisInv says of n.            *)
(***************************************************************************)
LEMMA GenesisStepOf ==
  ASSUME GenesisInv, NEW n \in Nodes, n \in Seeded => GenesisInvOf(n)',
         \A m \in Nodes \ {n} : /\ chain'[m] = chain[m]
                                /\ diskChain'[m] = diskChain[m]
                                /\ job'[m] = job[m]
                                /\ open'[m] = open[m]
  PROVE  GenesisInv'
<1> SUFFICES ASSUME NEW m \in Seeded PROVE GenesisInvOf(m)'
  BY DEF GenesisInv
<1>1. CASE m = n
  BY <1>1
<1>2. CASE m # n
  <2>1. m \in Nodes \ {n}
    BY <1>2, DaemonAssumption
  <2> QED
    BY <2>1 DEF GenesisInv, GenesisInvOf, OnSeed
<1> QED
  BY <1>1, <1>2

LEMMA NextGenesisInv ==
  ASSUME TORN_CRASH = FALSE, TypeOK, MutexInv, GenesisInv, [Next]_vars
  PROVE  GenesisInv'
<1>1. CASE UNCHANGED vars
  BY <1>1, GenesisFrame DEF vars
<1>2. ASSUME NEW n \in Nodes, NEW time \in Times, Start(n, time) PROVE GenesisInv'
  <2>1. open[n] = FALSE
    BY <1>2 DEF Start, MutexInv, MutexInvOf, TypeOK
  <2>2. /\ chain'[n] = load_or_create_chain(n, time)
        /\ \A m \in Nodes \ {n} : chain'[m] = chain[m] /\ job'[m] = job[m]
        /\ diskChain' = diskChain /\ open' = open
    BY <1>2 DEF Start, TypeOK
  <2>3. n \in Seeded => GenesisInvOf(n)'
    BY <2>1, <2>2 DEF GenesisInv, GenesisInvOf, OnSeed, load_or_create_chain
  <2> QED
    BY <2>2, <2>3, GenesisStepOf
<1>3. ASSUME NEW n \in Nodes, NEW time \in Times, MiningLoop(n, time) PROVE GenesisInv'
  <2>1. PICK blk : chain' = [chain EXCEPT ![n] = Append(chain[n], blk)]
    BY <1>3 DEF MiningLoop
  <2>2. /\ chain'[n] = Append(chain[n], blk)
        /\ open[n] = FALSE
        /\ \A m \in Nodes \ {n} : chain'[m] = chain[m] /\ job'[m] = job[m]
        /\ diskChain' = diskChain /\ open' = open
    BY <1>3, <2>1 DEF MiningLoop, TypeOK, MutexInv, MutexInvOf, MutexFree
  <2>3. chain[n] # <<>>
    BY <1>3 DEF MiningLoop, MutexFree, MutexInv, MutexInvOf
  <2>4. chain'[n] # <<>> /\ chain'[n][1] = chain[n][1]
    BY <2>2, <2>3, AppendIsSeq DEF TypeOK
  <2>5. n \in Seeded => GenesisInvOf(n)'
    BY <2>2, <2>3, <2>4 DEF GenesisInv, GenesisInvOf, OnSeed
  <2> QED
    BY <2>2, <2>5, GenesisStepOf
<1>4. ASSUME NEW n \in Nodes, MineForever(n) PROVE GenesisInv'
  BY <1>4, GenesisFrame DEF MineForever
<1>5. ASSUME NEW n \in Nodes, Truncate(n) PROVE GenesisInv'
  <2>1. /\ open'[n] = TRUE /\ job' = job /\ chain' = chain
        /\ Head(job[n]) # "chain" => diskChain' = diskChain /\ open[n] = FALSE
        /\ \A m \in Nodes \ {n} : open'[m] = open[m] /\ diskChain'[m] = diskChain[m]
    BY <1>5 DEF Truncate, TypeOK
  <2>2. n \in Seeded => GenesisInvOf(n)'
    BY <2>1 DEF GenesisInv, GenesisInvOf, OnSeed
  <2> QED
    BY <2>1, <2>2, GenesisStepOf
<1>6. ASSUME NEW n \in Nodes, Write(n) PROVE GenesisInv'
  <2>1. /\ open'[n] = FALSE /\ chain' = chain
        /\ diskChain'[n] = IF Head(job[n]) = "chain" THEN chain[n] ELSE diskChain[n]
        /\ \A m \in Nodes \ {n} : /\ open'[m] = open[m]
                                 /\ job'[m] = job[m]
                                 /\ diskChain'[m] = diskChain[m]
    BY <1>6 DEF Write, TypeOK
  <2>2. chain[n] # <<>>
    BY <1>6 DEF Write, MutexInv, MutexInvOf
  <2>3. n \in Seeded => GenesisInvOf(n)'
    BY <2>1, <2>2 DEF GenesisInv, GenesisInvOf, OnSeed
  <2> QED
    BY <2>1, <2>3, GenesisStepOf
<1>7. ASSUME NEW n \in Nodes, PollStep(n) PROVE GenesisInv'
  <2>1. CASE ExceptPoll
    BY <2>1, GenesisFrame DEF ExceptPoll
  <2>2. CASE ExtendChain(n)
    <3>1. /\ chain'[n] = Append(chain[n], poll[n].got[1])
          /\ open[n] = FALSE
          /\ \A m \in Nodes \ {n} : chain'[m] = chain[m] /\ job'[m] = job[m]
          /\ diskChain' = diskChain /\ open' = open
      BY <2>2 DEF ExtendChain, TypeOK, MutexInv, MutexInvOf, MutexFree
    <3>2. chain[n] # <<>>
      BY <2>2 DEF ExtendChain, MutexFree, MutexInv, MutexInvOf
    <3>3. chain'[n] # <<>> /\ chain'[n][1] = chain[n][1]
      BY <3>1, <3>2, AppendIsSeq DEF TypeOK
    <3>4. n \in Seeded => GenesisInvOf(n)'
      BY <3>1, <3>2, <3>3 DEF GenesisInv, GenesisInvOf, OnSeed
    <3> QED
      BY <3>1, <3>4, GenesisStepOf
  <2>3. CASE Reorg(n) /\ try_reorg(chain[n], poll[n].got)
    <3>1. /\ chain'[n] = poll[n].got
          /\ open[n] = FALSE
          /\ \A m \in Nodes \ {n} : chain'[m] = chain[m] /\ job'[m] = job[m]
          /\ diskChain' = diskChain /\ open' = open
      BY <2>3 DEF Reorg, TypeOK, MutexInv, MutexInvOf, MutexFree
    <3>2. /\ chain[n] # <<>> /\ poll[n].got # <<>>
          /\ GetHash(poll[n].got[1]) = GetHash(chain[n][1])
      BY <2>3 DEF try_reorg
    <3>3. n \in Seeded => GenesisInvOf(n)'
      BY <3>1, <3>2 DEF GenesisInv, GenesisInvOf, OnSeed
    <3> QED
      BY <3>1, <3>3, GenesisStepOf
  <2>4. CASE Reorg(n) /\ ~try_reorg(chain[n], poll[n].got)
    BY <2>4, GenesisFrame DEF Reorg
  <2> QED
    BY <1>7, <2>1, <2>2, <2>3, <2>4 DEF PollStep, PollConnect, SendInv, SendBlock,
       SendChain, Answer, RequestChain, ReceiveFails
<1>8. ASSUME NEW n \in Nodes, Pay(n) PROVE GenesisInv'
  BY <1>8, GenesisFrame DEF Pay, run_send_tx
<1>9. ASSUME NEW n \in Nodes, NEW tx \in wire[n], AcceptTransaction(n, tx)
      PROVE  GenesisInv'
  <2>1. /\ open[n] = FALSE /\ open' = open /\ chain' = chain /\ diskChain' = diskChain
        /\ \A m \in Nodes \ {n} : job'[m] = job[m]
    BY <1>9 DEF AcceptTransaction, TypeOK, MutexInv, MutexInvOf, MutexFree
  <2>2. n \in Seeded => GenesisInvOf(n)'
    BY <2>1 DEF GenesisInv, GenesisInvOf, OnSeed
  <2> QED
    BY <2>1, <2>2, GenesisStepOf
<1>10. ASSUME NEW n \in Nodes, Fault(n) PROVE GenesisInv'
  <2>1. CASE Crash(n)
    <3>1. /\ open[n] = FALSE /\ chain'[n] = <<>> /\ diskChain' = diskChain
          /\ \A m \in Nodes \ {n} : /\ chain'[m] = chain[m]
                                   /\ job'[m] = job[m]
                                   /\ open'[m] = open[m]
      BY <2>1 DEF Crash, TypeOK
    <3>2. n \in Seeded => GenesisInvOf(n)'
      BY <3>1 DEF GenesisInv, GenesisInvOf, OnSeed
    <3> QED
      BY <3>1, <3>2, GenesisStepOf
  <2>2. CASE ~Crash(n)
    BY <1>10, <2>2, GenesisFrame DEF Fault, LoseConnection, LoseTransaction
  <2> QED
    BY <2>1, <2>2
<1> QED
  BY <1>1, <1>2, <1>3, <1>4, <1>5, <1>6, <1>7, <1>8, <1>9, <1>10 DEF Next, SaveStep

(***************************************************************************)
(* If no process dies between truncating a file and writing it, a node     *)
(* that was given a chain file works on the genesis of that file for ever: *)
(* through mining, extension, reorg, crash and restart.                    *)
(***************************************************************************)
THEOREM GenesisIsKept ==
  ASSUME TORN_CRASH = FALSE
  PROVE  Spec => []GenesisKept
<1>1. Init => GenesisInv
  BY InitGenesisInv
<1>2. TypeOK /\ MutexInv /\ GenesisInv /\ [Next]_vars => GenesisInv'
  BY NextGenesisInv
<1>3. GenesisInv => GenesisKept
  BY DEF GenesisInv, GenesisInvOf, OnSeed, GenesisKept
<1> QED
  BY <1>1, <1>2, <1>3, MutexProtectsFiles, PTL DEF Spec

-----------------------------------------------------------------------------
(***************************************************************************)
(* The parts of ChainInv.                                                  *)
(***************************************************************************)
GoodChain(c) == c = <<>> \/ HonestChain(c)

GoodPoll(p) ==
  /\ p.pc = "got_chain" => HonestChain(p.got)
  /\ p.pc = "got_block" => \E c : HonestChain(c) /\ p.got[1] = Last(c)

LEMMA ChainInvParts ==
  ChainInv <=> \A n \in Nodes : /\ GoodChain(chain[n]) /\ GoodChain(diskChain[n])
                                /\ HonestTxs(Range(diskPool[n]))
                                /\ HonestTxs(Range(newPool[n]))
                                /\ HonestTxs(wire[n])
                                /\ GoodPoll(poll[n])
  BY DEF ChainInv, ChainInvOf, GoodChain, GoodPoll

LEMMA ChainInvPartsPrimed ==
  ChainInv' <=> \A n \in Nodes : /\ GoodChain(chain'[n]) /\ GoodChain(diskChain'[n])
                                 /\ HonestTxs(Range(diskPool'[n]))
                                 /\ HonestTxs(Range(newPool'[n]))
                                 /\ HonestTxs(wire'[n])
                                 /\ GoodPoll(poll'[n])
  BY DEF ChainInv, ChainInvOf, GoodChain, GoodPoll, HonestTxs

LEMMA EmptyPoolHonest == HonestTxs(Range(<<>>))
  BY DEF HonestTxs, Range

LEMMA IdleIsGood ==
  /\ \A t : GoodPoll(PollIdle(t))
  /\ GoodPoll(PollStart)
  /\ \A n : GoodPoll(PollReturns(n))
  BY DEF GoodPoll, PollIdle, PollStart, PollReturns

LEMMA PollAtIsGood ==
  ASSUME NEW n, NEW pc, NEW got, pc \notin {"got_chain", "got_block"}
  PROVE  GoodPoll(PollAt(n, pc, got))
  BY DEF GoodPoll, PollAt

LEMMA DisconnectedIsGood ==
  ASSUME NEW p, GoodPoll(p)
  PROVE  GoodPoll(Disconnected(p))
  BY DEF GoodPoll, Disconnected

-----------------------------------------------------------------------------
(***************************************************************************)
(* Each action preserves ChainInv.                                         *)
(***************************************************************************)
LEMMA InitChainInv == Init => ChainInv
<1> SUFFICES ASSUME Init, NEW n \in Nodes
             PROVE  /\ GoodChain(chain[n]) /\ GoodChain(diskChain[n])
                    /\ HonestTxs(Range(diskPool[n]))
                    /\ HonestTxs(Range(newPool[n]))
                    /\ HonestTxs(wire[n])
                    /\ GoodPoll(poll[n])
  BY ChainInvParts
<1>1. HonestChain(SeedChain)
  BY GenesisHonest DEF SeedChain
<1>2. GoodChain(diskChain[n])
  BY <1>1 DEF Init, GoodChain
<1> QED
  BY <1>2, EmptyPoolHonest, IdleIsGood DEF Init, GoodChain, HonestTxs

LEMMA StartChainInv ==
  ASSUME TypeOK, ChainInv, NEW n \in Nodes, NEW time \in Times, Start(n, time)
  PROVE  ChainInv'
<1>1. time \in Int
  BY DaemonAssumption
<1>2. GoodChain(load_or_create_chain(n, time))
  BY <1>1, GenesisHonest, ChainInvParts DEF load_or_create_chain, GoodChain
<1>3. \A m \in Nodes : GoodChain(chain'[m])
  BY <1>2, ChainInvParts DEF TypeOK, Start
<1> QED
  BY <1>3, ChainInvParts, ChainInvPartsPrimed DEF Start

LEMMA TruncateChainInv ==
  ASSUME TypeOK, ChainInv, NEW n \in Nodes, Truncate(n)
  PROVE  ChainInv'
<1>1. \A m \in Nodes : GoodChain(diskChain'[m])
  BY ChainInvParts DEF TypeOK, Truncate, GoodChain
<1>2. \A m \in Nodes : HonestTxs(Range(diskPool'[m]))
  BY ChainInvParts, EmptyPoolHonest DEF TypeOK, Truncate
<1> QED
  BY <1>1, <1>2, ChainInvParts, ChainInvPartsPrimed DEF Truncate

LEMMA WriteChainInv ==
  ASSUME TypeOK, ChainInv, NEW n \in Nodes, Write(n)
  PROVE  ChainInv'
<1>1. \A m \in Nodes : GoodChain(diskChain'[m])
  BY ChainInvParts DEF TypeOK, Write
<1>2. \A m \in Nodes : HonestTxs(Range(diskPool'[m]))
  BY ChainInvParts DEF TypeOK, Write
<1>3. \A m \in Nodes : GoodPoll(poll'[m])
  BY ChainInvParts, IdleIsGood DEF TypeOK, Write, Released
<1> QED
  BY <1>1, <1>2, <1>3, ChainInvParts, ChainInvPartsPrimed DEF Write

LEMMA CrashChainInv ==
  ASSUME TypeOK, ChainInv, NEW n \in Nodes, Crash(n)
  PROVE  ChainInv'
<1>1. \A m \in Nodes : GoodChain(chain'[m])
  BY ChainInvParts DEF TypeOK, Crash, GoodChain
<1>2. \A m \in Nodes : HonestTxs(Range(newPool'[m])) /\ HonestTxs(wire'[m])
  BY ChainInvParts, EmptyPoolHonest DEF TypeOK, Crash, HonestTxs
<1>3. \A m \in Nodes : GoodPoll(poll'[m])
  BY ChainInvParts, IdleIsGood, DisconnectedIsGood DEF Crash
<1> QED
  BY <1>1, <1>2, <1>3, ChainInvParts, ChainInvPartsPrimed DEF Crash

(***************************************************************************)
(* The miner's own block, which nothing checks: the selection makes it     *)
(* valid.                                                                  *)
(***************************************************************************)
LEMMA MiningLoopChainInv ==
  ASSUME TypeOK, MutexInv, ChainInv, NEW n \in Nodes, NEW time \in Times,
         MiningLoop(n, time)
  PROVE  ChainInv'
<1>1. PICK c, pool : c = chain[n] /\ pool = diskPool[n]
  OBVIOUS
<1>2. PICK picked \in UNION {[1 .. k -> 1 .. Len(pool)] : k \in 0 .. Len(pool)} :
        /\ IsSelection(c, pool, picked)
        /\ chain' = [chain EXCEPT ![n] = Append(c,
             build_next_block(c, n, SelectedFees(c, pool, picked),
                              Kept(pool, picked), time))]
  BY <1>1 DEF MiningLoop
<1>3. HonestChain(c) /\ Mineable(NextBits(c))
  BY <1>1, ChainInvParts DEF MiningLoop, MutexFree, MutexInv, MutexInvOf, GoodChain
<1>4. IsSeq(pool) /\ \A tx \in Range(pool) : HonestTx(tx)
  BY <1>1, ChainInvParts DEF TypeOK, HonestTxs
<1>5. picked \in Seq(1 .. Len(pool))
  BY <1>4, SeqFacts, PickedIsSeq
<1>6. time \in Int
  BY DaemonAssumption
<1>7. HonestChain(Append(c, build_next_block(c, n, SelectedFees(c, pool, picked),
                                             Kept(pool, picked), time)))
  BY <1>2, <1>3, <1>4, <1>5, <1>6, MinedHonest
<1>8. \A m \in Nodes : GoodChain(chain'[m])
  BY <1>2, <1>7, ChainInvParts DEF TypeOK, GoodChain
<1>9. \A m \in Nodes : HonestTxs(Range(newPool'[m]))
  BY ChainInvParts, EmptyPoolHonest DEF TypeOK, MiningLoop
<1> QED
  BY <1>8, <1>9, ChainInvParts, ChainInvPartsPrimed DEF MiningLoop

LEMMA SendChainInv ==
  ASSUME TypeOK, ChainInv, NEW n \in Nodes, NEW m \in Nodes, NEW recipient,
         NEW amount \in Amounts, run_send_tx(n, m, recipient, amount)
  PROVE  ChainInv'
<1>1. PICK c : c = diskChain[n]
  OBVIOUS
<1>2. HonestChain(c)
  BY <1>1, ChainInvParts DEF run_send_tx, GoodChain
<1>3. PICK selected \in Sufficient(
              filter_utxos_by_address(build_utxo_set(c), n), amount, DEFAULT_FEE) :
        wire' = [wire EXCEPT ![m] = @ \cup
          {CreateTransaction(selected, n, recipient, amount, DEFAULT_FEE)}]
  BY <1>1 DEF run_send_tx
<1>4. PICK tx : tx = CreateTransaction(selected, n, recipient, amount, DEFAULT_FEE)
  OBVIOUS
<1>5. HonestTx(tx)
  <2>1. amount \in Int
    BY DaemonAssumption
  <2> QED
    BY <1>2, <1>3, <1>4, <2>1, CreatedIsGood
<1>6. wire' = [wire EXCEPT ![m] = wire[m] \cup {tx}]
  BY <1>3, <1>4
<1>7. \A k \in Nodes : HonestTxs(wire'[k])
  BY <1>5, <1>6, ChainInvParts DEF TypeOK, HonestTxs
<1> QED
  BY <1>7, ChainInvParts, ChainInvPartsPrimed DEF run_send_tx

LEMMA AcceptChainInv ==
  ASSUME TypeOK, ChainInv, NEW n \in Nodes, NEW tx \in wire[n],
         AcceptTransaction(n, tx)
  PROVE  ChainInv'
<1>1. HonestTx(tx) /\ IsSeq(diskPool[n]) /\ HonestTxs(Range(diskPool[n]))
  BY ChainInvParts DEF TypeOK, HonestTxs
<1>2. PICK pool : pool = Append(diskPool[n], tx)
  OBVIOUS
<1>3. Range(pool) \subseteq Range(diskPool[n]) \cup {tx}
  BY <1>1, <1>2 DEF IsSeq, Range
<1>4. HonestTxs(Range(pool))
  BY <1>1, <1>3 DEF HonestTxs
<1>5. \A m \in Nodes : HonestTxs(Range(newPool'[m]))
  BY <1>2, <1>4, ChainInvParts DEF TypeOK, AcceptTransaction
<1>6. \A m \in Nodes : HonestTxs(wire'[m])
  BY ChainInvParts DEF TypeOK, AcceptTransaction, HonestTxs
<1> QED
  BY <1>5, <1>6, ChainInvParts, ChainInvPartsPrimed DEF AcceptTransaction

LEMMA LoseTransactionChainInv ==
  ASSUME TypeOK, ChainInv, NEW n \in Nodes, NEW tx, LoseTransaction(n, tx)
  PROVE  ChainInv'
<1>1. \A m \in Nodes : HonestTxs(wire'[m])
  BY ChainInvParts DEF TypeOK, LoseTransaction, HonestTxs
<1> QED
  BY <1>1, ChainInvParts, ChainInvPartsPrimed DEF LoseTransaction

LEMMA LoseConnectionChainInv ==
  ASSUME TypeOK, ChainInv, NEW n \in Nodes, LoseConnection(n)
  PROVE  ChainInv'
<1>1. \A m \in Nodes : GoodPoll(poll'[m])
  BY ChainInvParts, DisconnectedIsGood DEF TypeOK, LoseConnection
<1> QED
  BY <1>1, ChainInvParts, ChainInvPartsPrimed DEF LoseConnection

(***************************************************************************)
(* The steps of a poll that change nothing but poll.                       *)
(***************************************************************************)
LEMMA PollOnlyChainInv ==
  ASSUME TypeOK, ChainInv, NEW n \in Nodes, NEW p, GoodPoll(p),
         poll' = [poll EXCEPT ![n] = p], ExceptPoll
  PROVE  ChainInv'
<1>1. \A m \in Nodes : GoodPoll(poll'[m])
  BY ChainInvParts DEF TypeOK
<1> QED
  BY <1>1, ChainInvParts, ChainInvPartsPrimed DEF ExceptPoll

LEMMA PollStepChainInv ==
  ASSUME TypeOK, MutexInv, ChainInv, NEW n \in Nodes, PollStep(n)
  PROVE  ChainInv'
<1>1. CASE PollConnect(n)
  <2>1. PICK p : /\ poll' = [poll EXCEPT ![n] = p] /\ ExceptPoll
                 /\ \/ p = [pc |-> "wait_inv", turn |-> poll[n].turn,
                            conn |-> TRUE, got |-> <<>>]
                    \/ p = PollReturns(n)
    BY <1>1 DEF PollConnect
  <2>2. GoodPoll(p)
    BY <2>1, IdleIsGood DEF GoodPoll
  <2> QED
    BY <2>1, <2>2, PollOnlyChainInv
<1>2. ASSUME NEW m \in Nodes, SendInv(n, m) PROVE ChainInv'
  BY <1>2, PollAtIsGood, PollOnlyChainInv DEF SendInv, Answer
<1>3. ASSUME NEW m \in Nodes, SendBlock(n, m) PROVE ChainInv'
  <2>1. PICK p : p = PollAt(n, "got_block", <<Last(chain[m])>>)
    OBVIOUS
  <2>2. HonestChain(chain[m])
    BY <1>3, ChainInvParts DEF SendBlock, Answer, MutexFree, MutexInv, MutexInvOf, GoodChain
  <2>3. p.pc = "got_block" /\ p.got[1] = Last(chain[m])
    BY <2>1 DEF PollAt
  <2>4. GoodPoll(p)
    BY <2>2, <2>3 DEF GoodPoll
  <2> QED
    BY <1>3, <2>1, <2>4, PollOnlyChainInv DEF SendBlock, Answer
<1>4. ASSUME NEW m \in Nodes, SendChain(n, m) PROVE ChainInv'
  <2>1. PICK p : /\ poll' = [poll EXCEPT ![n] = p] /\ ExceptPoll
                 /\ p = PollAt(n, "got_chain", chain[m]) \/ p = PollReturns(n)
    BY <1>4 DEF SendChain, Answer
  <2>2. HonestChain(chain[m])
    BY <1>4, ChainInvParts DEF SendChain, Answer, MutexFree, MutexInv, MutexInvOf, GoodChain
  <2>3. GoodPoll(p)
    BY <2>1, <2>2, IdleIsGood DEF GoodPoll, PollAt
  <2> QED
    BY <2>1, <2>3, PollOnlyChainInv
<1>5. CASE ExtendChain(n)
  <2>1. PICK c : c = chain[n]
    OBVIOUS
  <2>2. HonestChain(c)
    BY <1>5, <2>1, ChainInvParts DEF ExtendChain, MutexFree, MutexInv, MutexInvOf, GoodChain
  <2>3. PICK d : HonestChain(d) /\ poll[n].got[1] = Last(d)
    BY <1>5, ChainInvParts DEF ExtendChain, GoodPoll
  <2>4. try_extend_chain(c, Last(d))
    BY <1>5, <2>1, <2>3 DEF ExtendChain
  <2>5. HonestChain(Append(c, Last(d)))
    BY <2>2, <2>3, <2>4, ExtendHonest
  <2>6. chain' = [chain EXCEPT ![n] = Append(c, Last(d))]
    BY <1>5, <2>1, <2>3 DEF ExtendChain
  <2>7. \A m \in Nodes : GoodChain(chain'[m])
    BY <2>5, <2>6, ChainInvParts DEF TypeOK, GoodChain
  <2>8. \A m \in Nodes : GoodPoll(poll'[m])
    BY <1>5, PollAtIsGood, ChainInvParts DEF TypeOK, ExtendChain
  <2> QED
    BY <1>5, <2>7, <2>8, ChainInvParts, ChainInvPartsPrimed DEF ExtendChain
<1>6. CASE RequestChain(n)
  <2>1. PICK p : /\ poll' = [poll EXCEPT ![n] = p] /\ ExceptPoll
                 /\ p = PollAt(n, "wait_chain", <<>>) \/ p = PollReturns(n)
    BY <1>6 DEF RequestChain
  <2>2. GoodPoll(p)
    BY <2>1, IdleIsGood, PollAtIsGood
  <2> QED
    BY <2>1, <2>2, PollOnlyChainInv
<1>7. CASE Reorg(n)
  <2>1. HonestChain(poll[n].got)
    BY <1>7, ChainInvParts DEF Reorg, GoodPoll
  <2>2. \A m \in Nodes : GoodChain(chain'[m])
    BY <1>7, <2>1, ChainInvParts DEF TypeOK, Reorg, GoodChain
  <2>3. \A m \in Nodes : GoodPoll(poll'[m])
    BY <1>7, PollAtIsGood, IdleIsGood, ChainInvParts DEF TypeOK, Reorg
  <2> QED
    BY <1>7, <2>2, <2>3, ChainInvParts, ChainInvPartsPrimed DEF Reorg
<1>8. CASE ReceiveFails(n)
  BY <1>8, IdleIsGood, PollOnlyChainInv DEF ReceiveFails
<1> QED
  BY <1>1, <1>2, <1>3, <1>4, <1>5, <1>6, <1>7, <1>8 DEF PollStep

LEMMA NextChainInv ==
  ASSUME TypeOK, MutexInv, ChainInv, [Next]_vars
  PROVE  ChainInv'
<1>1. CASE UNCHANGED vars
  BY <1>1, ChainInvParts, ChainInvPartsPrimed DEF vars
<1>2. ASSUME NEW n \in Nodes, NEW time \in Times, Start(n, time) PROVE ChainInv'
  BY <1>2, StartChainInv
<1>3. ASSUME NEW n \in Nodes, NEW time \in Times, MiningLoop(n, time) PROVE ChainInv'
  BY <1>3, MiningLoopChainInv
<1>4. ASSUME NEW n \in Nodes, MineForever(n) PROVE ChainInv'
  BY <1>4, ChainInvParts, ChainInvPartsPrimed DEF MineForever
<1>5. ASSUME NEW n \in Nodes, SaveStep(n) PROVE ChainInv'
  BY <1>5, TruncateChainInv, WriteChainInv DEF SaveStep
<1>6. ASSUME NEW n \in Nodes, PollStep(n) PROVE ChainInv'
  BY <1>6, PollStepChainInv
<1>7. ASSUME NEW n \in Nodes, Pay(n) PROVE ChainInv'
  BY <1>7, SendChainInv DEF Pay
<1>8. ASSUME NEW n \in Nodes, NEW tx \in wire[n], AcceptTransaction(n, tx)
      PROVE  ChainInv'
  BY <1>8, AcceptChainInv
<1>9. ASSUME NEW n \in Nodes, Fault(n) PROVE ChainInv'
  BY <1>9, CrashChainInv, LoseConnectionChainInv, LoseTransactionChainInv DEF Fault
<1> QED
  BY <1>1, <1>2, <1>3, <1>4, <1>5, <1>6, <1>7, <1>8, <1>9 DEF Next

(***************************************************************************)
(* Whatever a daemon holds, stores or has received is honest: every chain  *)
(* was put together by the operations of the program, from transactions    *)
(* made by them.                                                           *)
(***************************************************************************)
THEOREM ChainsAreHonest == Spec => []ChainInv
<1>1. Init => ChainInv
  BY InitChainInv
<1>2. TypeOK /\ MutexInv /\ ChainInv /\ [Next]_vars => ChainInv'
  BY NextChainInv
<1> QED
  BY <1>1, <1>2, MutexProtectsFiles, PTL DEF Spec

(***************************************************************************)
(* Every chain a node works with passes validate_full_chain, although      *)
(* try_extend_chain checks a block against one UtxoSet and the miner's own *)
(* blocks are not checked at all; with torn crashes too.                   *)
(***************************************************************************)
THEOREM ChainsAreValid == Spec => []ChainsValid
<1>1. ChainInv => ChainsValid
  BY DEF ChainInv, ChainInvOf, ChainsValid, HonestChain
<1> QED
  BY <1>1, ChainsAreHonest, PTL

(***************************************************************************)
(* build_utxo_set, all outputs minus all inputs, is on every chain a node  *)
(* works with the set validate_full_chain's replay ends with.              *)
(***************************************************************************)
THEOREM UtxoSetsAgree == Spec => []UtxoViewsAgree
<1>1. ChainInv => UtxoViewsAgree
  BY UtxoViews DEF ChainInv, ChainInvOf, UtxoViewsAgree
<1> QED
  BY <1>1, ChainsAreHonest, PTL

-----------------------------------------------------------------------------
(***************************************************************************)
(* The fork rule.                                                          *)
(***************************************************************************)
LEMMA MayReplaceByLonger ==
  ASSUME NEW c, HonestChain(c), NEW blk, HonestChain(Append(c, blk))
  PROVE  MayReplace(c, Append(c, blk))
  BY WorkGrows, HonestNotEmpty DEF MayReplace, GenesisHash

LEMMA GenesisLength ==
  ASSUME NEW address, NEW time
  PROVE  Len(build_genesis_chain(address, time)) = 1
  BY DEF build_genesis_chain

-----------------------------------------------------------------------------
(***************************************************************************)
(* What is saved may replace what is on file.                              *)
(***************************************************************************)
LEMMA InitHeavierInv == Init => HeavierInv
  BY DEF Init, HeavierInv, HeavierInvOf

LEMMA HeavierFrame ==
  ASSUME HeavierInv, UNCHANGED <<chain, diskChain, job, open>>
  PROVE  HeavierInv'
  BY DEF HeavierInv, HeavierInvOf, MayReplace

(***************************************************************************)
(* A step of node n can only disturb what HeavierInv says of n.            *)
(***************************************************************************)
LEMMA HeavierStepOf ==
  ASSUME HeavierInv, NEW n \in Nodes, HeavierInvOf(n)',
         \A m \in Nodes \ {n} : /\ chain'[m] = chain[m]
                                /\ diskChain'[m] = diskChain[m]
                                /\ job'[m] = job[m]
                                /\ open'[m] = open[m]
  PROVE  HeavierInv'
<1> SUFFICES ASSUME NEW m \in Nodes PROVE HeavierInvOf(m)'
  BY DEF HeavierInv
<1>1. CASE m = n
  BY <1>1
<1>2. CASE m # n
  BY <1>2 DEF HeavierInv, HeavierInvOf, MayReplace
<1> QED
  BY <1>1, <1>2

(***************************************************************************)
(* The holder of n's mutex has put c in the place of chain_.               *)
(***************************************************************************)
LEMMA HeavierTaken ==
  ASSUME TypeOK, MutexInv, HeavierInv, NEW n \in Nodes, NEW c,
         MayReplace(diskChain[n], c),
         NEW j, chain' = [chain EXCEPT ![n] = c], job' = [job EXCEPT ![n] = j],
         UNCHANGED <<diskChain, open>>
  PROVE  HeavierInv'
<1>1. /\ chain'[n] = c /\ diskChain' = diskChain /\ open' = open
      /\ \A m \in Nodes \ {n} : chain'[m] = chain[m] /\ job'[m] = job[m]
  BY DEF TypeOK
<1>2. HeavierInvOf(n)'
  BY <1>1 DEF HeavierInvOf, MayReplace
<1> QED
  BY <1>1, <1>2, HeavierStepOf

LEMMA StartHeavierInv ==
  ASSUME TypeOK, MutexInv, HeavierInv, NEW n \in Nodes, NEW time, Start(n, time)
  PROVE  HeavierInv'
<1>1. MayReplace(diskChain[n], load_or_create_chain(n, time))
  BY GenesisLength DEF MayReplace, load_or_create_chain
<1> QED
  BY <1>1, HeavierTaken DEF Start

LEMMA SaveHeavierInv ==
  ASSUME TypeOK, MutexInv, HeavierInv, NEW n \in Nodes, SaveStep(n)
  PROVE  HeavierInv'
<1>1. CASE Truncate(n)
  <2>1. /\ open'[n] = TRUE
        /\ chain' = chain /\ job' = job
        /\ \A m \in Nodes \ {n} : open'[m] = open[m] /\ diskChain'[m] = diskChain[m]
    BY <1>1 DEF Truncate, TypeOK
  <2>2. HeavierInvOf(n)'
    BY <2>1 DEF HeavierInvOf
  <2> QED
    BY <2>1, <2>2, HeavierStepOf
<1>2. CASE Write(n)
  <2>1. /\ job'[n] = Tail(job[n]) /\ chain' = chain
        /\ \A m \in Nodes \ {n} : /\ open'[m] = open[m]
                                  /\ job'[m] = job[m]
                                  /\ diskChain'[m] = diskChain[m]
    BY <1>2 DEF Write, TypeOK
  <2>2. job[n] # <<>> /\ job[n] \in Jobs
    BY <1>2 DEF Write, MutexInv, MutexInvOf, TypeOK
  <2>3. Tail(job[n]) # <<>> => Head(Tail(job[n])) = "pool"
    BY <2>2, JobSteps, HeadTail
  <2>4. HeavierInvOf(n)'
    BY <2>1, <2>3 DEF HeavierInvOf
  <2> QED
    BY <2>1, <2>4, HeavierStepOf
<1> QED
  BY <1>1, <1>2 DEF SaveStep

(***************************************************************************)
(* Mining and extension: ChainInv of both states says that the old and the *)
(* new chain are honest.                                                   *)
(***************************************************************************)
LEMMA LongerHeavierInv ==
  ASSUME TypeOK, MutexInv, ChainInv, ChainInv', HeavierInv, NEW n \in Nodes,
         MutexFree(n), NEW blk, chain' = [chain EXCEPT ![n] = Append(chain[n], blk)],
         NEW j, job' = [job EXCEPT ![n] = j], UNCHANGED <<diskChain, open>>
  PROVE  HeavierInv'
<1>1. PICK c : c = chain[n]
  OBVIOUS
<1>2. HonestChain(c) /\ diskChain[n] = c
  BY <1>1, ChainInvParts DEF MutexFree, MutexInv, MutexInvOf, GoodChain
<1>3. chain'[n] = Append(c, blk)
  BY <1>1 DEF TypeOK
<1>4. Append(c, blk) # <<>>
  BY <1>1, AppendIsSeq DEF TypeOK
<1>5. HonestChain(Append(c, blk))
  BY <1>3, <1>4, ChainInvPartsPrimed DEF GoodChain
<1>6. MayReplace(diskChain[n], Append(c, blk))
  BY <1>2, <1>5, MayReplaceByLonger
<1> QED
  BY <1>1, <1>6, HeavierTaken

LEMMA PollStepHeavierInv ==
  ASSUME TypeOK, MutexInv, ChainInv, ChainInv', HeavierInv, NEW n \in Nodes,
         PollStep(n)
  PROVE  HeavierInv'
<1>1. CASE ExceptPoll
  BY <1>1, HeavierFrame DEF ExceptPoll
<1>2. CASE ExtendChain(n)
  BY <1>2, LongerHeavierInv DEF ExtendChain
<1>3. CASE Reorg(n) /\ try_reorg(chain[n], poll[n].got)
  <2>1. diskChain[n] = chain[n]
    BY <1>3 DEF Reorg, MutexFree, MutexInv, MutexInvOf
  <2>2. MayReplace(diskChain[n], poll[n].got)
    BY <1>3, <2>1 DEF try_reorg, MayReplace, GenesisHash
  <2> QED
    BY <1>3, <2>2, HeavierTaken DEF Reorg
<1>4. CASE Reorg(n) /\ ~try_reorg(chain[n], poll[n].got)
  BY <1>4, HeavierFrame DEF Reorg
<1> QED
  BY <1>1, <1>2, <1>3, <1>4 DEF PollStep, PollConnect, SendInv, SendBlock, SendChain,
     Answer, RequestChain, ReceiveFails

LEMMA FaultHeavierInv ==
  ASSUME TypeOK, MutexInv, HeavierInv, NEW n \in Nodes, Fault(n)
  PROVE  HeavierInv'
<1>1. CASE Crash(n)
  <2>1. /\ job'[n] = <<>> /\ diskChain' = diskChain
        /\ \A m \in Nodes \ {n} : /\ chain'[m] = chain[m]
                                  /\ job'[m] = job[m]
                                  /\ open'[m] = open[m]
    BY <1>1 DEF Crash, TypeOK
  <2>2. HeavierInvOf(n)'
    BY <2>1 DEF HeavierInvOf
  <2> QED
    BY <2>1, <2>2, HeavierStepOf
<1>2. CASE ~Crash(n)
  BY <1>2, HeavierFrame DEF Fault, LoseConnection, LoseTransaction
<1> QED
  BY <1>1, <1>2

LEMMA AcceptHeavierInv ==
  ASSUME TypeOK, MutexInv, HeavierInv, NEW n \in Nodes, NEW tx, AcceptTransaction(n, tx)
  PROVE  HeavierInv'
<1>1. diskChain[n] = chain[n] /\ UNCHANGED <<chain, diskChain, open>>
  BY DEF AcceptTransaction, MutexFree, MutexInv, MutexInvOf
<1>2. \A m \in Nodes \ {n} : job'[m] = job[m]
  BY DEF AcceptTransaction, TypeOK
<1>3. HeavierInvOf(n)'
  BY <1>1 DEF HeavierInvOf, MayReplace
<1> QED
  BY <1>1, <1>2, <1>3, HeavierStepOf

LEMMA NextHeavierInv ==
  ASSUME TypeOK, MutexInv, ChainInv, HeavierInv, [Next]_vars
  PROVE  HeavierInv'
<1>0. ChainInv'
  BY NextChainInv
<1>1. CASE UNCHANGED vars
  BY <1>1, HeavierFrame DEF vars
<1>2. ASSUME NEW n \in Nodes, NEW time \in Times, Start(n, time) PROVE HeavierInv'
  BY <1>2, StartHeavierInv
<1>3. ASSUME NEW n \in Nodes, NEW time \in Times, MiningLoop(n, time) PROVE HeavierInv'
  <2>1. PICK blk : chain' = [chain EXCEPT ![n] = Append(chain[n], blk)]
    BY <1>3 DEF MiningLoop
  <2> QED
    BY <1>0, <1>3, <2>1, LongerHeavierInv DEF MiningLoop
<1>4. ASSUME NEW n \in Nodes, MineForever(n) PROVE HeavierInv'
  BY <1>4, HeavierFrame DEF MineForever
<1>5. ASSUME NEW n \in Nodes, SaveStep(n) PROVE HeavierInv'
  BY <1>5, SaveHeavierInv
<1>6. ASSUME NEW n \in Nodes, PollStep(n) PROVE HeavierInv'
  BY <1>0, <1>6, PollStepHeavierInv
<1>7. ASSUME NEW n \in Nodes, Pay(n) PROVE HeavierInv'
  BY <1>7, HeavierFrame DEF Pay, run_send_tx
<1>8. ASSUME NEW n \in Nodes, NEW tx \in wire[n], AcceptTransaction(n, tx)
      PROVE  HeavierInv'
  BY <1>8, AcceptHeavierInv
<1>9. ASSUME NEW n \in Nodes, Fault(n) PROVE HeavierInv'
  BY <1>9, FaultHeavierInv
<1> QED
  BY <1>1, <1>2, <1>3, <1>4, <1>5, <1>6, <1>7, <1>8, <1>9 DEF Next

-----------------------------------------------------------------------------
(***************************************************************************)
(* The refinement.  Only the truncation of the chain file changes the      *)
(* chain a node keeps; every other step is a stutter of HeaviestChain.     *)
(***************************************************************************)
Best == [n \in Nodes |-> Keeps(n)]

LEMMA KeepsFrame ==
  ASSUME \A m \in Nodes : Keeps(m)' = Keeps(m)
  PROVE  Best' = Best
  BY DEF Best

(***************************************************************************)
(* A step that leaves the chain file alone, at a node whose chain file is  *)
(* not open.                                                               *)
(***************************************************************************)
LEMMA KeepsClosed ==
  ASSUME NEW n \in Nodes, ~open[n], ~open'[n], diskChain'[n] = diskChain[n],
         \A m \in Nodes \ {n} : /\ chain'[m] = chain[m]
                                /\ diskChain'[m] = diskChain[m]
                                /\ job'[m] = job[m]
                                /\ open'[m] = open[m]
  PROVE  Best' = Best
<1>1. Keeps(n)' = Keeps(n)
  BY DEF Keeps
<1>2. \A m \in Nodes \ {n} : Keeps(m)' = Keeps(m)
  BY DEF Keeps
<1> QED
  BY <1>1, <1>2, KeepsFrame

LEMMA WriteStutters ==
  ASSUME TypeOK, MutexInv, NEW n \in Nodes, Write(n)
  PROVE  Best' = Best
<1>1. /\ open[n] /\ ~open'[n]
      /\ diskChain'[n] = IF Head(job[n]) = "chain" THEN chain[n] ELSE diskChain[n]
      /\ chain' = chain
      /\ \A m \in Nodes \ {n} : /\ open'[m] = open[m]
                                /\ job'[m] = job[m]
                                /\ diskChain'[m] = diskChain[m]
  BY DEF Write, TypeOK
<1>2. Keeps(n)' = Keeps(n)
  BY <1>1 DEF Keeps
<1>3. \A m \in Nodes \ {n} : Keeps(m)' = Keeps(m)
  BY <1>1 DEF Keeps
<1> QED
  BY <1>2, <1>3, KeepsFrame

LEMMA TruncateRefines ==
  ASSUME TypeOK, MutexInv, ChainInv, HeavierInv, NEW n \in Nodes, Truncate(n)
  PROVE  Promise!Next \/ Best' = Best
<1>1. /\ job[n] # <<>> /\ ~open[n] /\ open'[n]
      /\ job' = job /\ chain' = chain
      /\ Head(job[n]) # "chain" => diskChain' = diskChain
      /\ \A m \in Nodes \ {n} : open'[m] = open[m] /\ diskChain'[m] = diskChain[m]
  BY DEF Truncate, TypeOK
<1>2. \A m \in Nodes \ {n} : Keeps(m)' = Keeps(m)
  BY <1>1 DEF Keeps
<1>3. CASE Head(job[n]) # "chain"
  <2>1. Keeps(n)' = Keeps(n)
    BY <1>1, <1>3 DEF Keeps
  <2> QED
    BY <1>2, <2>1, KeepsFrame
<1>4. CASE Head(job[n]) = "chain"
  <2>1. Keeps(n) = diskChain[n] /\ Keeps(n)' = chain[n]
    BY <1>1, <1>4 DEF Keeps
  <2>2. chain[n] # <<>>
    BY <1>1 DEF MutexInv, MutexInvOf
  <2>3. validate_full_chain(chain[n])
    BY <2>2, ChainInvParts DEF GoodChain, HonestChain
  <2>4. MayReplace(diskChain[n], chain[n])
    BY <1>1, <1>4 DEF HeavierInv, HeavierInvOf
  <2>5. CASE chain[n] = diskChain[n]
    BY <1>2, <2>1, <2>5, KeepsFrame
  <2>6. CASE chain[n] # diskChain[n]
    <3>1. /\ Best' = [Best EXCEPT ![n] = Best'[n]]
          /\ Best[n] = diskChain[n] /\ Best'[n] = chain[n]
      BY <1>2, <2>1 DEF Best
    <3>2. Promise!Create(n) \/ Promise!Adopt(n)
      BY <2>2, <2>3, <2>4, <2>6, <3>1 DEF Best, MayReplace, Promise!Create, Promise!Adopt
    <3> QED
      BY <3>1, <3>2 DEF Best, Promise!Next
  <2> QED
    BY <2>5, <2>6
<1> QED
  BY <1>3, <1>4

LEMMA InitRefines == Init => Promise!Init
<1> SUFFICES ASSUME Init PROVE Promise!Init
  OBVIOUS
<1>1. \A n \in Nodes : Keeps(n) = <<>> \/ validate_full_chain(Keeps(n))
  <2>1. \A n \in Nodes : Keeps(n) = diskChain[n]
    BY DEF Init, Keeps
  <2>2. \A n \in Nodes : GoodChain(diskChain[n])
    BY InitChainInv, ChainInvParts
  <2> QED
    BY <2>1, <2>2 DEF GoodChain, HonestChain
<1>2. Best \in [Nodes -> {Best[n] : n \in Nodes}]
  BY DEF Best
<1> QED
  BY <1>1, <1>2 DEF Best, Promise!Init

LEMMA OnlyTruncateMoves ==
  ASSUME TORN_CRASH = FALSE, TypeOK, MutexInv, [Next]_vars
  PROVE  Best' = Best \/ \E n \in Nodes : Truncate(n)
<1>0. \A n \in Nodes : job[n] = <<>> => ~open[n]
  BY DEF MutexInv, MutexInvOf
<1>1. CASE UNCHANGED <<chain, diskChain, job, open>>
  BY <1>1, KeepsFrame DEF Keeps
<1>2. ASSUME NEW n \in Nodes, NEW time \in Times, Start(n, time) PROVE Best' = Best
  <2>1. /\ job[n] = <<>> /\ diskChain' = diskChain /\ open' = open
        /\ \A m \in Nodes \ {n} : chain'[m] = chain[m] /\ job'[m] = job[m]
    BY <1>2 DEF Start, TypeOK, MutexInv, MutexInvOf
  <2> QED
    BY <1>0, <2>1, KeepsClosed
<1>3. ASSUME NEW n \in Nodes, NEW time \in Times, MiningLoop(n, time) PROVE Best' = Best
  <2>1. PICK c : chain' = [chain EXCEPT ![n] = c]
    BY <1>3 DEF MiningLoop
  <2>2. /\ job[n] = <<>> /\ diskChain' = diskChain /\ open' = open
        /\ \A m \in Nodes \ {n} : chain'[m] = chain[m] /\ job'[m] = job[m]
    BY <1>3, <2>1 DEF MiningLoop, MutexFree, TypeOK
  <2> QED
    BY <1>0, <2>2, KeepsClosed
<1>4. ASSUME NEW n \in Nodes, Write(n) PROVE Best' = Best
  BY <1>4, WriteStutters
<1>5. ASSUME NEW n \in Nodes, ExtendChain(n) \/ Reorg(n) PROVE Best' = Best
  <2>1. /\ job[n] = <<>> /\ diskChain' = diskChain /\ open' = open
        /\ \A m \in Nodes \ {n} : chain'[m] = chain[m] /\ job'[m] = job[m]
    BY <1>5 DEF ExtendChain, Reorg, MutexFree, TypeOK
  <2> QED
    BY <1>0, <2>1, KeepsClosed
<1>6. ASSUME NEW n \in Nodes, NEW tx, AcceptTransaction(n, tx) PROVE Best' = Best
  <2>1. /\ job[n] = <<>> /\ diskChain' = diskChain /\ open' = open /\ chain' = chain
        /\ \A m \in Nodes \ {n} : job'[m] = job[m]
    BY <1>6 DEF AcceptTransaction, MutexFree, TypeOK
  <2> QED
    BY <1>0, <2>1, KeepsClosed
<1>7. ASSUME NEW n \in Nodes, Crash(n) PROVE Best' = Best
  <2>1. /\ ~open[n] /\ ~open'[n] /\ diskChain' = diskChain
        /\ \A m \in Nodes \ {n} : /\ chain'[m] = chain[m]
                                  /\ job'[m] = job[m]
                                  /\ open'[m] = open[m]
    BY <1>7 DEF Crash, TypeOK
  <2> QED
    BY <2>1, KeepsClosed
<1>8. ASSUME NEW n \in Nodes, MineForever(n) PROVE UNCHANGED <<chain, diskChain, job, open>>
  BY <1>8 DEF MineForever
<1>9. ASSUME NEW n \in Nodes, PollStep(n)
       PROVE  UNCHANGED <<chain, diskChain, job, open>> \/ ExtendChain(n) \/ Reorg(n)
  <2>1. ExceptPoll => UNCHANGED <<chain, diskChain, job, open>>
    BY DEF ExceptPoll
  <2>2. PollConnect(n) \/ RequestChain(n) \/ ReceiveFails(n) => ExceptPoll
    BY DEF PollConnect, RequestChain, ReceiveFails
  <2>3. \A m \in Nodes : SendInv(n, m) \/ SendBlock(n, m) \/ SendChain(n, m) => ExceptPoll
    BY DEF SendInv, SendBlock, SendChain, Answer
  <2> QED
    BY <1>9, <2>1, <2>2, <2>3 DEF PollStep
<1>10. ASSUME NEW n \in Nodes, Pay(n) PROVE UNCHANGED <<chain, diskChain, job, open>>
  BY <1>10 DEF Pay, run_send_tx
<1>11. ASSUME NEW n \in Nodes, Fault(n)
       PROVE  UNCHANGED <<chain, diskChain, job, open>> \/ Crash(n)
  BY <1>11 DEF Fault, LoseConnection, LoseTransaction
<1>12. CASE UNCHANGED vars
  BY <1>1, <1>12 DEF vars
<1>13. CASE Next
  <2>1. PICK n \in Nodes : \/ \E time \in Times : Start(n, time) \/ MiningLoop(n, time)
                           \/ MineForever(n) \/ SaveStep(n) \/ PollStep(n) \/ Pay(n)
                           \/ \E tx \in wire[n] : AcceptTransaction(n, tx)
                           \/ Fault(n)
    BY <1>13 DEF Next
  <2>2. CASE \E time \in Times : Start(n, time) \/ MiningLoop(n, time)
    BY <1>2, <1>3, <2>2
  <2>3. CASE SaveStep(n)
    BY <1>4, <2>3 DEF SaveStep
  <2>4. CASE MineForever(n) \/ Pay(n)
    BY <1>1, <1>8, <1>10, <2>4
  <2>5. CASE PollStep(n)
    BY <1>1, <1>5, <1>9, <2>5
  <2>6. CASE \E tx \in wire[n] : AcceptTransaction(n, tx)
    BY <1>6, <2>6
  <2>7. CASE Fault(n)
    BY <1>1, <1>7, <1>11, <2>7
  <2> QED
    BY <2>1, <2>2, <2>3, <2>4, <2>5, <2>6, <2>7
<1> QED
  BY <1>12, <1>13

LEMMA NextRefines ==
  ASSUME TORN_CRASH = FALSE, TypeOK, MutexInv, ChainInv, HeavierInv, [Next]_vars
  PROVE  Promise!Next \/ Best' = Best
  BY OnlyTruncateMoves, TruncateRefines

(***************************************************************************)
(* If no process dies between truncating the chain file and writing it,    *)
(* the daemons implement HeaviestChain: through mining, polling, reorgs,   *)
(* crashes and restarts the chain a node keeps is replaced only by a valid *)
(* chain of the same genesis with strictly more work, and is never lost.   *)
(***************************************************************************)
THEOREM DaemonsKeepHeaviestChain ==
  ASSUME TORN_CRASH = FALSE
  PROVE  Spec => KeepsHeaviestChain
<1>1. Init => Promise!Init /\ HeavierInv
  BY InitRefines, InitHeavierInv
<1>2. TypeOK /\ MutexInv /\ ChainInv /\ HeavierInv /\ [Next]_vars => HeavierInv'
  BY NextHeavierInv
<1>3. TypeOK /\ MutexInv /\ ChainInv /\ HeavierInv /\ [Next]_vars
        => [Promise!Next]_[n \in Nodes |-> Keeps(n)]
  BY NextRefines DEF Best
<1> QED
  BY <1>1, <1>2, <1>3, MutexProtectsFiles, ChainsAreHonest, PTL
     DEF Spec, KeepsHeaviestChain, Promise!Spec
=============================================================================
