# A TLA+ model of Siliqua

Siliqua (`src/`) is a small Bitcoin-like node in C++: proof of work, a UTXO ledger, a wallet, a
TCP protocol, and a persistent daemon that mines, serves peers and polls them. This directory
holds TLA+ specifications of its core, TLC configurations that check small instances, and proofs
that TLAPS checks for every instance. All paths below are relative to `src/Siliqua/include/`
unless they start with `src/`.

## 1. The system

| Part | State it keeps | Operations | What makes it hard |
| --- | --- | --- | --- |
| Proof of work (`consensus/pow.h`) | none | target of an nBits, mining loop, retarget, work | byte-normalised floating arithmetic, sign-bit mask, exponents with no solution |
| Transactions (`core/transaction.*`) | none | hash, coinbase test, byte format | identical coinbases, duplicate inputs |
| Blocks (`core/block.*`) | none | header hash, Merkle root, byte format | odd layers |
| Chain rules (free functions of `network/node.h`) | none (they receive the chain) | reward, coinbase, UTXO set, fees, `validate_full_chain`, `try_extend_chain`, `try_reorg`, `build_next_block` | three checks of the same rules that must agree |
| Daemon (`network/daemon.h`) | `chain_` under `mutex_`, known peers, wallet | constructor, `Run`, `AcceptLoop`, `HandleConnection`, `AcceptTransaction`, `MiningLoop`, `PeerPollLoop`, `PollPeer` | threads, messages, peers that restart |
| Storage (`storage/storage.h`) | chain file, mempool file | save and load | truncate-then-write, crashes between two files |
| Wallet (`wallet/wallet.h`) | a key | choose outputs, build and sign | order of a hash map, dust, 64-bit sums |
| Script and signatures (`wallet/script.h`, `wallet/signing.h`) | none | build, recognise and run P2PKH | a stack program over pushed bytes |
| Messages (`network/message.h`, `peer.h`, `socket.h`) | a socket | framing, checksum, handshake | payload limit, no timeouts |
| One-shot modes (`run_send_tx`, `run_listener`, `run_connector`, `run_receive_tx`) | the same files | one exchange, then exit | no lock on the files |
| Base58 (`wallet/base58.h`), serializer (`core/serializer.h`) | none | conversions | boundary values |
| Command line (`src/Siliqua/src/Siliqua.cpp`) | none | `--seed`, `--daemon`, `--send`, ... | none |
| Logger, utilities, vendored libraries | none | output, SHA-256, RIPEMD-160, secp256k1 | outside this code |

How they interact. A daemon has one thread that accepts connections (and one per connection), one
that mines, and one that polls; every access to `chain_` happens under `mutex_`, except one read
for a log message (`daemon.h:231`). The mining thread reads the mempool file, checks each entry
again, mines a block, saves the chain, then saves an empty mempool, all under the mutex. The poll
thread connects to each known peer in turn, learns its tip (INV), asks for it (GETDATA, BLOCK),
and either extends its chain or asks for the whole chain (GETBLOCKS, CHAIN) and switches to it if
it is valid, has the same genesis and has more work. It holds its own mutex only to decide and to
save, never while it waits. Transactions arrive from `--send`, a separate process that reads the
chain file without the lock. Blocks are never pushed.

What must hold: only valid chains are ever kept, exchanged only for heavier ones of the same
genesis, over crashes too; coins are conserved; what a peer has been told survives a crash; an
accepted payment is not lost while it is still good; a follower catches up; difficulty moves by at most
a factor of four and mining goes on.

## 2. Modules

| Module | What it is |
| --- | --- |
| `Powers` | powers by repeated multiplication |
| `Pow` | `pow.h` as operators; widths are parameters |
| `Ledger` | transactions, blocks, chain rules, block building, coin selection, as operators |
| `Daemon` | the network of daemons: threads, mutex, files, polls, payments, faults |
| `HeaviestChain` | abstract specification: what may happen to the chain a node keeps |
| `DaemonProperties` | the properties of `Daemon`, the refinement mapping, inductive invariants |
| `PowProofs`, `LedgerProofs` | lemmas about the operators of `Pow` and `Ledger` |
| `DaemonProofs` | theorems about `Daemon`: the mutex and the files, chains, the refinement |
| `MoneyProofs` | theorems about `Daemon`: the supply, and that payments are not lost |
| `Session` | connections between daemons: every call of every thread on blocking sockets, and the mutex |
| `OneShot` | `--listen`, `--connect`, `--send`, `--receive-tx` as processes on unlocked files |
| `Codec` | Base58, byte formats, message frames, the script machine, the wallet's sums |
| `Retarget` | one chain's difficulty over many periods, at the program's widths |
| `OneShotProofs`, `RetargetProofs`, `SessionProofs`, `CodecProofs` | theorems about `OneShot`, `Retarget`, `Session` and `Codec` |
| `MCDaemon`, `MCSession`, `MCOneShot`, `MCCodec`, `MCRetarget` | the small instances |

`Daemon` and `OneShot` are built on `Ledger`, which is built on `Pow`. `Daemon` and `Session` are two
views of the daemon: `Daemon` has the data (what chain is on which disk) and takes an exchange of
messages as it ends; `Session` has the control (who waits for whom) and leaves the data out.
`Codec` backs two abstractions of the others: that a file cut by a crash cannot be loaded, and that a
signature by the owner is what unlocks an output.

### Pow and Ledger

Operators keep the source's names. `nBits` is the pair (exponent, mantissa). `Mineable(bits)` says
whether any hash meets the target, which is when the loop of `mine_block` can end; a header is
mined before it is stored or sent, so `check_proof_of_work` is the same test. `RetargetedBits` is
the scaling of `get_next_work_required`: normalise to a value below 2^24, then clear the sign bit.
Two loops of the code that mutate one `UtxoSet` are given in closed form: `Replayed` for the
miner's pass and `ReplayedUtxo` for `validate_full_chain`. `IsSelection` characterises the
miner's pass over the mempool (an entry is kept exactly when it is valid against the set the kept
entries before it left), and exactly one index sequence satisfies it. `Settled` says what a block
does to a mempool that was pending before it, and `OutOfTurn` names the payments that the single pass
drops although the new chain could execute them.

Abstractions:

- A double SHA-256 is a term over its preimage: injective, and readable back, which is why a UTXO
  entry is its outpoint alone. Byte formats are in `Codec`.
- A signature names the key that made it and covers what it comes with.
- The retarget and the work are doubles in the code and exact quotients, rounded down, here. For
  the work this means that a fork decided by less than one unit of `WORK_SCALE` counts as a tie.
- The nonce is left out: `mine_block` is deterministic, so it is a function of the other fields.
  The wrap of the nonce that bumps `nTime` needs 2^32 failures and is left out.

### Daemon

| Variable | In the code |
| --- | --- |
| `status` | process down, in its constructor, running, or running with the mining thread caught in `mine_block` |
| `chain` | `chain_` |
| `diskChain`, `diskPool` | the files `chain_path` and `chain_path.mempool`; empty when loading them fails |
| `job`, `open`, `newPool` | what the holder of `mutex_` has still to save, whether the file is truncated, the mempool to be saved |
| `poll` | where `PollPeer` is, whose turn it is, whether its connection is up, what it has received |
| `wire` | TX messages on their way to a daemon |
| `sends`, `faults` | counters for the bounds |

Actions: `Start` (constructor), `Truncate` and `Write` (`write_file`), `MiningLoop`, `MineForever`
(the same round at an nBits without solution), `run_send_tx`, `AcceptTransaction`, `PollConnect`,
`SendInv`, `SendBlock`, `SendChain` (the answers of `HandleConnection`), `ExtendChain`,
`RequestChain`, `Reorg`, `ReceiveFails` (`PollPeer`), and the faults `Crash`, `LoseConnection`,
`LoseTransaction`. A critical section is one action up to its first save; each save is two, because
a crash or a `--send` can fall in between. The mutex is free when `job` is empty. Whether a
process can die between the truncation and the write of a file is the constant `TORN_CRASH`: a
run or a theorem that needs the weaker failure model says so.

### HeaviestChain

One variable, the chain each node keeps. It starts valid or absent, is created as a one-block
chain, and from then on only changes to a valid chain of the same genesis with strictly more work.
What is valid, a chain's genesis and its work are parameters of the module. `Daemon` implements it with `best[n]` mapped to the chain file of `n`, or to the chain in memory
while that file is being rewritten. Threads, polls, crashes and restarts are all stutters or
steps of this.

### Session

A thread on a connection is the list of calls it has still to make (`todo`), taken from the code of
`HandleConnection`, `PollPeer` and `run_send_tx`: sends, receives, the critical sections. A message is
its command, cut into chunks; only CHAIN has more than one. `buf` holds the chunks in the socket
buffers towards an end, at most `BUFFER` of them, so a send of a long message blocks until its peer
reads. Actions: `SendChunk` and `ReceiveChunk` (`send_all`, `recv_exact`), `SendFails` (the peer has
closed; no caller looks at the result and the thread goes on), `BrokenPipe` (the same `send()` raises
SIGPIPE, which is not blocked anywhere, and ends the process), `ReceiveFails`, `RefuseChain` (a header
above `MAX_PAYLOAD_SIZE`), `TakeLock`, `ReleaseLock`, `Close` (with a reset when something is
unread, which may destroy what its peer has not read yet), `Connect`, `Pay`, `MineBegins`, `MineEnds`,
`Crash` and `Start`, and `Stall`, a process that hangs while its kernel keeps its sockets, only in
`SlowSpec`. Crashes are not bounded.

### OneShot

A process has read files (`sawChain`, `sawPool`), works on a copy, and writes back in the order of
its `job`. `Listen`, `Connect`, `ReceiveTx` and `SendTx` start a command; `Mine` and `Save` are
`run_listener` up to its wait; `Fetch` is the exchange between a connector and a listener with the decision
of `run_connector` (`Resolved`), `Deliver` that between `--send` and `--receive-tx`, with the stale UTXO
view and the fresh mempool of the code; `Refuse` and `WaitForEachOther` are the mismatched pairs; `End`
kills a process anywhere. A file is written in one step here: the truncated state is in `Daemon`.
The files there may be at first are a parameter: chains the program has made and mempools of payments
that were valid once (`OneShotAssumption`), which is what earlier commands leave behind.

### Codec

Operators only; the specification picks an input and the invariants state what becomes of it.
Base58 has the program's bases, ratios and address size. Bytes have 256 values, but a `uint32_t` two
and a `uint64_t` three of them, so that TLC's integers hold them; a cursor carries the offset, the
values read so far and whether something was thrown. `hash160`, `sign_raw` and the hash of a transaction are terms over their
arguments, repeated to the length of the real thing, so the script machine can push and compare them.
`int64` is addition at the width `INT64_MAX`.

The loops of the code are recursive functions (`digits`, `carry`, `after`), so that theorems can be
proved about them. What may be written is given as sets named after the structs of the code (`CTxIn`, `CBlock`, ...): bytes,
integers of their width, vectors whose size fits the four bytes it is cast to.

## 3. What TLC checks

Bounds common to the daemon and one-shot runs: bytes of two bits, targets of four bytes, a retarget
every two blocks against four seconds, a halving every two blocks. These are the program's formulas
at widths where work and targets stay small integers while a retarget, a halving and a change of
exponent occur within three or four blocks.

| Run | Instance | Properties | Shows |
| --- | --- | --- | --- |
| `daemon_fork` | two miners, one polls, height 4, two clock values, one fault | `TypeOK`, `ServedIsDurable`, `KeepsHeaviestChain` | forks of different difficulty, races between a poll and one's own mining, and a crash anywhere never break the fork rule; nothing is announced before it is saved |
| `daemon_payments` | two miners, one polls, the polled one may not have the seed, one payment that leaves change or dust, height 4 | `ChainsValid`, `SupplyConserved`, `GenesisKept` | payments whose inputs exist only on an abandoned fork, dust, two coinbases of one miner with the same value, a heavier chain of another genesis |
| `daemon_follow` | a miner and a follower, two payments, one fault, fair | `ChainsValid`, `SupplyConserved`, `UtxoViewsAgree`, `PaymentsNotLost`, `FollowersCatchUp` | double spends and duplicates in the mempool; a crash between the two saves loses no payment; the follower catches up |
| `session` | two daemons that poll each other, one mines, two connections, CHAIN longer than the buffers, any crashes | `TypeOK`, `CommandsExpected`, `SessionsEnd` | no unexpected command, no circular wait, no handler left behind |
| `session_pay` | a miner, a polling follower, one `--send` | `PaymentsHandled` | a sent payment is handled or its loss has a cause |
| `oneshot` | two nodes, three processes at a time, four in all, chained payments pending | `FilesValid`, `HeavierUnlessOvertaken`, `PendingConfirmedOrDropped`, `ConnectorTakesHeavier` | without a lock, only an overtaken process does damage, and what it writes is still a valid chain |
| `codec` | inputs at the edges of the widths | `Base58RoundTrip`, `FilesReadBack`, `TornFilesRefused`, `FramesKept`, `OnlyOwnerSpends`, `PaymentsExact` | conversions are exact, a cut file or stream is refused, a spend needs its owner's signature over this transaction, payments add up |
| `retarget` | six periods at the program's widths, seven timespans | `EasesAtMostFourfold`, `FastPeriodNeverEases` | clamping, normalisation and masking never ease too much |

Why the bounds are enough. Two nodes have every pairwise race, since a daemon talks to one peer at a
time. Height 3 has a fork of two blocks against one above the common genesis; height 4 adds a fork
across a retarget, two rewards of one era for one miner, and a block mined after a reorganisation
from a stale mempool: one block to earn coins on a fork, two to leave it, one to mine. Two payments are
the smallest number with a double spend. One fault puts a crash into every step of every other action. In `session` two connections are one in each direction, which
is what a circular wait needs, and a CHAIN of three chunks does not fit the buffers of two. In
`oneshot` three processes are a writer, one that overtakes it and a peer. In `codec` strings are all
those of up to three digits at the edges of the bases and the largest ones up to the length of an
address, where a buffer one digit short fails first. `MAX_CHAIN_BLOCKS` of `Daemon` is above every
height; the refusal of a longer chain is in `session` (`RefuseChain`) and `codec` (`FramesKept`).

`Seeded` names the nodes that certainly have the seed chain; any other may have been given it or not.
In `daemon_payments` the polled miner is such a node, and without the seed it mines on a genesis of its
own; in `daemon_torn` a node has lost its file. In the other daemon runs every node has the seed chain.
That a restart does not change the genesis is part of `KeepsHeaviestChain` in `daemon_fork`, and of the
theorem `GenesisIsKept`. In `daemon_follow` the follower does not mine, so its tip moves only by its own
polls; a tip that moves under a poll is in `daemon_fork`. The two properties of `retarget` bound how much
easier a retarget makes mining; the mask of the sign bit makes it harder, which only
`HardensAtMostFourfold` is about.

Deadlock is checked except where the instance really stops: `daemon_follow` (a miner that spins at an
impossible target, and heights at their bound), `oneshot` (launches are bounded and processes end),
`codec` (one step), and the retarget runs (their bound, or an impossible target).

Fairness. `Daemon!FairSpec` (`daemon_follow`): weak fairness of starting a node, of saving, and of
the poll loop with the answers to it. A daemon that is down is expected to be restarted by its
operator; saving is straight-line code of a thread that holds the mutex; the poll loop is an endless
loop with a fixed pause. `Session!FairSpec`: strong fairness of each end of a connection, weak
fairness of connecting, of the end of mining and of restarting. Strong fairness is needed where a thread
waits for the mutex: `std::mutex` is not fair, but each loop that takes it sleeps
`DAEMON_CYCLE_SECONDS` between two rounds, so a waiting thread finds it free for seconds at a time.
Nothing obliges anyone to mine or to pay, and faults are never fair.

### Disagreements between the code and its documentation

Each is a run that is expected to be violated, with the quoted line in `PROJECT.json`.

- `retarget_swing` (`HardensAtMostFourfold`): `pow.h:159` masks a normalised mantissa whose top
  bit may be set. With periods of 20 seconds the fifth or so retarget makes blocks about 59 times
  harder; the comment at `pow.h:113` promises at most four.
- `daemon_spin` (`MiningGoesOn`): if the first five blocks take 150 seconds or more, as when a daemon
  starts minutes after `--seed`, the next exponent is 33, the target is zero, and the miner loops
  for ever with the mutex.
- `daemon_torn` (`GenesisKept`): after a crash between truncation and write, the node takes its
  unreadable chain for a missing one, mines a genesis of its own and never rejoins.
- `session_slow` (`SlowPeerBlocksNobody`): answers are sent with the mutex held and without a
  timeout, so a peer whose process hangs in the middle of a CHAIN stops the whole node, against the
  comment at `daemon.h:70`.

Met while modelling and recorded as hazards or as exceptions of a property:

- `run_connector` rejects a block that links to its tip but holds a payment spending another one of
  the same block, and does not ask for the whole chain, which it would accept (`node.h:540`; the comment at
  `node.h:441` names no such case). `ConnectorTakesHeavier` states the exception. The daemon does ask.
- `run_listener` clears the mempool with the comment "everything pending just got confirmed or dropped"
  (`node.h:392`). Its single pass drops more than what has become invalid: a payment that spends an
  entry further back in the file, or the reward of the very block being mined, could be executed on the
  new chain. `PendingConfirmedOrDropped` states the exception (`OutOfTurn`); it was found when the proof
  of the property without it failed, and TLC then showed it on a mempool with a child before its parent.
- The usage notes say that `--connect` "fetches exactly one block, and a block that does not link to
  its tip is rejected" (`src/README.md:617`). `run_connector` asks for the whole chain then
  (`node.h:541-569`), as `src/README.md:63` and `src/README.md:461` say; the model follows the code.
- GETDATA is answered with the current tip whatever hash it names (`daemon.h:105`).
- The height in a log message is read without the mutex (`daemon.h:231`).
- A chain above `MAX_PAYLOAD_SIZE` is sent but never received (`message.h:108`), so a follower more
  than one block behind stays there.
- `send()` to a closed connection may end the daemon by SIGPIPE (`socket.h:174`).
- `amount + fee` overflows for amounts within the fee of the largest `int64_t`, which `parse_amount`
  allows. The overflow is undefined behaviour; `PaymentsExact` is stated for sums that fit.
- With two miners `PaymentsNotLost` does not hold: after a reorganisation a payment may stand before
  its parent in the mempool file, and the miner's single pass drops it. The constructor's comment tells users to
  run one miner (`daemon.h:32`).

## 4. What is proved

The theorems hold for any set of nodes, any peer lists, any bounds and any widths that meet the named
assumptions (`PowAssumption`, `InitialBitsAssumption`, `LedgerAssumption`, `DaemonAssumption`,
`OneShotAssumption`, `SessionAssumption`, that of `Retarget`, and those of `Codec`), all of which the
runs evaluate. `PowAssumption` asks for bytes of at least two bits and a timespan divisible by four; the
program has 8 and 60, and the initial difficulty can be mined. In `Codec`, `CodecAssumption` bounds the
amounts and the value of a purse by the largest integer, which the limit on the supply keeps them below;
`FormatAssumption` says that what is saved or sent has the types of the structs, that a command has no
zero byte and that it fits its field; `SpendAssumption` that a signature covers empty scriptSigs, as `Wallet::Sign`
makes it; `Base58Assumption` that strings are of bytes or characters and that an address has its twenty
bytes. They allow inputs of every length.

| Theorem | States | From |
| --- | --- | --- |
| `TypeCorrect`, `MutexProtectsFiles` | `[](TypeOK /\ MutexInv)` | inductive |
| `ServedBlocksAreDurable` | `[]ServedIsDurable` | `MutexInv` |
| `GenesisIsKept` | `[]GenesisKept`, no torn writes | `GenesisInv` |
| `ChainsAreHonest` | `[]ChainInv` | inductive, with `MutexInv` |
| `ChainsAreValid` | `[]ChainsValid` | `ChainInv` |
| `UtxoSetsAgree` | `[]UtxoViewsAgree` | `ChainInv` |
| `SupplyIsConserved` | `[]SupplyConserved` | `ChainInv` |
| `DaemonsKeepHeaviestChain` | `KeepsHeaviestChain` (the refinement), no torn writes | `HeavierInv`, `ChainInv`, `MutexInv` |
| `RetargetEasesAtMostFourfold`, `RetargetNeverEasesAfterFast` | the invariants of the run `retarget` | `RetargetInv` |
| `ProcessesKeepHonestFiles` | `[]OneShotInv` | inductive |
| `ChainFilesAreValid` | `[]FilesValid` | `OneShotInv` |
| `FilesOnlyGrowHeavier` | `HeavierUnlessOvertaken`, an action property | `OneShotInv` |
| `PendingIsSettled` | `PendingConfirmedOrDropped`, an action property | `OneShotInv` |
| `SessionsFollowTheScript` | `[]SessionInv`, stalled processes included | inductive |
| `SocketsTyped` | `[]TypeOK` of `Session` | `SessionInv` |
| `OnlyExpectedCommands` | `[]CommandsExpected` | `SessionInv` |
| `ConnectorEndsWithTheHeavier` | `ConnectorTakesHeavier`, an action property | `OneShotInv`, Merkle roots |
| `PaymentsAreNotLost` | `PaymentsNotLost`, an action property; one miner, no torn writes | `OneMinerInv`, `FundedInv`, `PendingInv` |
| `PaymentsAreExact` | `[]PaymentsExact` | `CodecAssumption` |
| `FilesAreReadBack`, `TornFilesAreRefused` | `[]FilesReadBack`, `[]TornFilesRefused` | `FormatAssumption` |
| `FramesAreKept` | `[]FramesKept` | `FormatAssumption` |
| `OnlyOwnersSpend` | `[]OnlyOwnerSpends` | `SpendAssumption` |
| `Base58LosesNothing` | `[]Base58RoundTrip` | `Base58Assumption` |

### The arguments

*The mutex.* `MutexInv` is the discipline of the mutex: a truncated file belongs to a pending save, a
node that is down or spinning saves nothing, a constructor saves exactly the chain, and whenever the
chain is not still to be saved, the file equals the memory. `ServedIsDurable` alone is not inductive:
it says nothing while the mutex is held, and so nothing about what the file will hold when it is
released. The theorem holds for torn writes as well. `GenesisKept` speaks of the memory only;
`GenesisInv` extends it to the file, except while that is being rewritten, which is the state the
failure model protects. `daemon_torn` shows that its assumption is needed.

*Valid chains.* `validate_full_chain` of a chain is not enough to show that the next block keeps it
valid: a mined block is not checked at all, and `try_extend_chain` checks a received one against a
single UTXO set. `HonestChain` adds what makes both safe and what only chains of this program have:
transactions do not name an input twice, a coinbase carries its height, amounts are integers. From it
follow: no two transactions of a chain are equal (`TxsUnique`, because equal coinbases would have
equal heights and every payment consumes an output for good); the pass over the mempool keeps only
payments valid in the order of the block (`SelectionFacts`, `MinedHonest`), however stale the mempool;
a block that `try_extend_chain` accepts spends only outputs that the replay still has (`ExtendHonest`).
The last needs that hashes link chains: a tip that links to our tip has our height (`LinkedTipHeight`).
`ChainInv` says that everything in memory, on disk, in a poll or in the mempools is of this kind.

*UTXO views.* Both sets are "made by some transaction and spent by none": for `build_utxo_set` by
definition, for the replay because an output is never made again after it was spent (`UtxoViews`).

*Money.* `MoneyProofs` adds up the value of the replayed UTXO set, transaction by transaction
(`PaymentStep`, `CoinbaseStep`), then block by block (`BlockSupply`, `ChainSupply`): a payment lowers
it by its fee, a coinbase raises it by the reward and all fees. It needs that new outputs are new.

*The fork rule.* The refinement maps `best[n]` to what is on disk, or in memory during a save.
`HeavierInv` records that a chain in memory which is still to be saved may replace the one on
disk (same genesis, more work). Mining and extending gain work because the work of a block that can be
mined is positive (`WorkPositive`); a reorganisation compares under the mutex.

*Retarget.* `RetargetRatio` compares the value of the new nBits with that of the old one across the
normalisation: the number of dropped digits is that of the smallest exponent that fits
(`DigitExists`), dropping digits and masking the sign bit only lower the target.

*One-shot files.* `OneShotInv` says that files hold honest chains and payments that were valid once,
and of every process what it is about to write: a listener's or a connector's chain may replace the
one it saw (`SavesBoth`, `SavesFetched`), the mempool a listener clears is settled by its chain
(`ClearsPool`, from `MinedSettles`), a received payment is added to the mempool it saw
(`SavesPayment`). The proof showed that the record of what a process has seen must be emptied when
somebody else wrote between its own two saves: comparing it with the file later is not enough, as the
file may have come back to the old content.

*Conversations.* `CommandsExpected` looks at the first chunk in a buffer and at the next call of a
thread, which says nothing about the chunk behind it or the call after that. `SessionInv` therefore
gives each end a place in one of four scripts (poll, pay and the handler's answer to each): the calls
it has still to make are those from its place on, and its buffer holds the chunks that follow the ones
it has read. While both ends are at work, all that one has sent and the other has not read is in the
buffer; this count is what makes the handler's next request the one that its peer is going to send,
since a handler only knows its calls up to that request. When an end closes, fails, dies or refuses a
chain, the count is given up and the other end keeps its own half, whether or not a reset has emptied
its buffer. No argument depends on `BUFFER` or `CHAIN_CHUNKS`.

*Equal tips, equal chains.* Two blocks of distinct transactions with the same Merkle root have the same
transactions: a layer of odd length is hashed as if its last node stood there twice, so only two equal
nodes could be mistaken for it, and no two transactions of a valid block are equal. So a header hash determines its block and, link by link, everything below it.
A block that links to a connector's tip therefore comes from a chain that continues the connector's
own, and what `validate_full_chain` accepted as the last step of that chain, `try_extend_chain` accepts
on the tip, unless a payment of the block spends an output of the same block, which the one UTXO set
does not hold. That is the exception `ConnectorTakesHeavier` names.

*A single miner's payments.* With one miner every chain in the network is a genesis block or a beginning
of the chain that the miner keeps (`OneMinerInv`), so that chain only grows. `FundedInv`: every payment in
its mempool, on file or about to be saved, was valid once and names only outputs of that chain, so none
waits for a parent in the mempool. `PendingInv`: while the chain and then the empty mempool
are being saved, the new mempool keeps every payment of the file that the chain to be saved can still
execute, so a crash between the two saves leaves every good payment in the file. With a
second miner the first step fails (a reorganisation leaves payments in the wrong order); with torn
writes a cut mempool file is read as none.

*Payments in 64 bits.* No partial sum leaves the range: the purse as a whole fits, selection takes a
prefix of it, and `amount + fee` is assumed to fit; so wrapped and exact sums agree, and the
rest is arithmetic of the dust rule.

*Byte formats.* A reader is described by what it does to a cursor that stands before the bytes its writer made
(`Reader`): if they are all there (`Reads`) it takes exactly these and pushes the value written; if the
buffer ends inside them (`Short`) it fails; after a failure (`Failed`) it stays failed. The three are
proved together for bytes and integers, composed field by field, and carried through a vector by
induction on the function that is its loop. Read-back and refusal of every cut file are then
the two halves of one lemma, `Reader`, applied to a whole file. Integers rest on the uniqueness of digits
to base `BYTE`, negative ones on two's complement.

*The script machine.* The turns of `evaluate` are taken one by one on the concatenation of scriptSig and
scriptPubKey: two pushes, a duplicate, a hash, a push, a comparison, a check. The run stops early exactly
when the shown key's hash differs from the address or the key is incomplete; that hashes, keys and
signatures stand for their arguments makes the comparison one of owners and of transactions.

*Base58.* `AddDigit` on the digits of a number N gives the digits of `from * N + x`, by an invariant on the
carry: after k digits it is what is left of that number above them. A buffer loses nothing when the
carry out of its last digit is zero, that is when the number is below `to` to the power of its size. That follows from
256^8 <= 58^11 for encoding (11/8 is below 1.38) and from 58^15 <= 256^11 and 58^71 <= 256^52 for decoding
(52/71 is between the logarithm's 0.7322 and 0.733, and no simpler fraction is); the second power has 124 digits and is
bounded in millionths, factor by factor (`BelowTogether`). A number has one sequence of digits without leading
zeros in each base, so going there and back returns to the same digits, and the copied zeros are counted
on both sides. An address adds its version and checksum, whose bytes stay below 256.

### How the proofs are built

Each preservation proof has one step per action; frame lemmas cover the actions that leave the
relevant variables alone. The provers fail on `EXCEPT` with several fields of a record, so the states
of a poll are built with record constructors, and each such update of a process is an operator with a
lemma that gives its fields. The library's induction theorems cannot be used with the installed
provers, so `PowProofs` proves the least-number principle for sets of naturals (`LeastMember`,
`InductionSet`) and derives what is needed from it: powers, sums over finite sets (`SumRemove`,
`SumLast`), the sums over transactions and blocks.

The provers also do not see that an operator applied to a compound term is an instance of a lemma with a
variable there, so the byte-format proofs name each intermediate cursor, string and number (`PICK`) before
they use a lemma on it. No leaf multiplies literals beyond the prover's machine integers.

### Only model-checked

`FollowersCatchUp`, `SessionsEnd` and `PaymentsHandled`: they are liveness under fairness, and neither
fairness nor ENABLED can be reasoned about by these provers. Every invariant and every action property of
the passing runs is a theorem.

## 5. Not modelled

- Vendored libraries: Crypto++, spdlog with fmt, libsecp256k1 and picosha2 are about 55,000 of the
  59,000 lines of C++ under `src/`. They are not this program's logic; a model of them would be one of
  other projects. Of the program's own 3,700 lines, comments, includes and log calls counted, the rest
  of this list is what is left out.
- The script machine on bytes other than those `build_script_sig` and `build_p2pkh_script_pubkey`
  make; hashes and signatures are terms, so what their real bytes could mean as a program is not
  asked.
- The data of a `TX` or `BLOCK` that another program sends: peers are daemons and one-shot processes
  of this code, and frames arrive whole or not at all.
- The wallet file: every node has its key (`load_or_create_wallet` replaces one it cannot read).
- Errors of the operating system in setting up sockets, which end the process; `Crash` covers them.
- 64-bit sums beyond the range in which they are defined.
- Logging, argument parsing, `--address` and `--balance`, the demonstration mode of the command line.

## 6. Plan

Done: `Pow`, `Ledger`, `Daemon`, `HeaviestChain`, `Retarget`, `Session`, `OneShot`, `Codec`, the runs
and the theorems above.

Open: liveness stays with TLC. The `FollowersCatchUp` argument would be a well-founded order on the distance
between a follower's chain and the miner's, `SessionsEnd` one on the calls that the ends have still to make,
both already in the state of the modules; a prover with ENABLED could use them with the invariants proved
here. A wider model would add the peers of other programs (payloads that this code does not write) and the
wallet file.
