# A verification project for noir

noir is a cryptocurrency node of the Bitcoin family with private coins (zerocoin and its
successor sigma) and a second layer of noirnodes. This directory models, in TLA+, the parts of
the node on which the others stand: how it chooses its active chain, how a block changes the
coins on disk and in the caches while other threads check its scripts, how the sigma coins of
the chain are kept, and how a node synchronises its knowledge of the noirnodes. Small instances
are checked with TLC, and central safety properties are proved with TLAPS for every block tree,
every content of the blocks, any number of threads and any peers.

`PROJECT.json` lists the runs, the mutants that show that each property can fail, the source
lines behind every definition, the findings, the hazards and the theorems. Paths below are
relative to `src/src/`.

## 1. The system

| part | state | operations | hard behaviour | should hold |
|---|---|---|---|---|
| chain selection (`main.cpp`, `chain.h`) | `mapBlockIndex` with status flags, `setBlockIndexCandidates`, `mapBlocksUnlinked`, `setDirtyBlockIndex`, `chainActive` | headers and blocks arrive, `ActivateBestChain`, `invalidateblock`, `reconsiderblock`, `FlushStateToDisk`, `LoadBlockIndexDB` | `cs_main` is released between rounds; data arrives in any order; reorganisations fail half way; the process ends between two writes | the best valid chain is active; the candidate set never runs empty; what is on disk is a chain |
| sigma coins (`sigma.cpp`) | two maps per block index entry; `coinGroups`, `mintedPubCoins`, `latestCoinIds`, `usedCoinSerials`, `mempoolCoinSerials` | `ConnectBlockSigma`, `DisconnectTipSigma`, checks of spends, rebuild at start | every map is rolled forward and back by hand; checks have side effects; a refusal stops in the middle | each coin is spent once and after its mint; the state is a function of the chain |
| block validation (`main.cpp`) | undo data, best block, address index | `ConnectBlock`, `DisconnectBlock`, `TestBlockValidity`, `VerifyDB`, `FlushStateToDisk` | early returns; dry runs; undo data in a compressed form; the process ends between two writes | exactly the valid blocks are accepted; what was connected can be disconnected |
| coins (`coins.cpp`, `txdb.cpp`) | the database, `pcoinsTip`, the view of a block, each entry with `DIRTY` and `FRESH` | fetch, modify, flush, uncache | flags decide what a flush may drop | the coins are the unspent outputs of the chain |
| script checks (`checkqueue.h`) | queue, counters, threads at two condition variables | `Add`, `Wait`, `Loop` | wake-ups; results combined out of order | the verdict is exact and the master is not left waiting |
| memory pool (`txmempool.cpp`, `main.cpp`) | `mapTx`, and the serials above | `AcceptToMemoryPool`, removal by block, conflict, limit, reorganisation | two structures that must agree | no two spends of one coin |
| zerocoin v1/v2 (`zerocoin.cpp`) | as sigma, with accumulators | as sigma | as sigma | as sigma |
| noirnode sync (`noirnode-sync.cpp`, `netfulfilledman.cpp`) | asset, attempt and time of the last progress, fulfilled requests per peer | `ProcessTick`, `SwitchToNextAsset`, `IsBlockchainSynced`, `Reset` | timeouts against late answers; peers leave; a failed sync is retried | the sync ends; stages are not skipped |
| noirnode list (`noirnode.cpp`, `noirnodeman.cpp`) | entries with state and last ping, pending recovery and verification requests | broadcasts, pings, `Check`, `CheckAndRemove` | messages late, twice, out of order | an entry that stopped pinging expires |
| payments (`noirnode-payments.cpp`) | votes and payees per height | `AddPaymentVote`, `GetBestPayee`, `IsTransactionValid`, `CheckAndRemove` | lost and late votes | one vote per noirnode and height |
| active noirnode (`activenoirnode.cpp`) | its own state | `ManageState*` | depends on sync and list | it pings only while started |
| sporks (`spork.cpp`) | active spork messages | `ProcessSpork`, `ExecuteSpork` | out of order | the newest wins |
| mixing (`darksend.cpp`), instant send (`instantx.cpp`) | sessions; lock candidates and votes | messages, timeouts | as above | as above |
| wallet, network, mining, scripts, RPC, GUI | | | | |

The parts meet as follows. A message, an RPC or the miner hands a block to
`ProcessNewBlock`, which stores it and calls `ActivateBestChain`. That calls `DisconnectTip`
and `ConnectTip`, which under `cs_main` change the coins through a view of `pcoinsTip`, wait for
the threads of the check queue, drive the sigma state and the pool, and fill or empty the sigma
maps of the index entry. `FlushStateToDisk` writes the entries in
`setDirtyBlockIndex` and then the coins. At the next start `LoadBlockIndexDB` reads both and
rebuilds the sigma state from the entries of the active chain. The noirnode parts read the
chain and depend on one another through the sync stage; they do not change the chain.

## 2. Modules

| module | content |
|---|---|
| `BlockTree` | the tree of blocks as constants (`Parent` is `pprev`), paths, heights |
| `SigmaState` | the sigma state machine with its properties |
| `SigmaIndex` | `AddMint` as the loop in the code, and `BuildSigmaStateFromIndex`, as operators compared with `SigmaState` |
| `SigmaLedger` | the abstract specification: a ledger that grows and is rolled back at its end |
| `SigmaStateProofs`, `SigmaRefinement` | the proofs |
| `ChainState` | chain selection, disk and restart, with its properties |
| `BlockContent` | transactions, their inputs and outputs, and which blocks are valid: a reference definition on whole chains |
| `UtxoLedger` | the abstract specification of the coins: those of the active chain, and on disk those of a chain that was active |
| `CoinsCache` | the layers of coins as operators: fetch, modify, flush, uncache |
| `CheckQueue` | `CCheckQueue` as a state machine of its threads |
| `BlockValidation` | the composition of the last two with `ConnectBlock`, `DisconnectBlock`, `VerifyDB`, flush and restart, with the properties |
| `CheckQueueProofs`, `CoinsCacheProofs`, `BlockValidationProofs`, `BlockCoinsProofs` | the proofs |
| `NoirnodeSync`, `NoirnodeSyncProofs` | the noirnode sync with its properties, and the proof |
| `BlockTreeProofs` | facts about paths that the other proofs use |
| `MCSigmaState`, `MCChainState`, `MCBlockValidation`, `MCNoirnodeSync` | the instances for TLC; one `.cfg` per run |

### SigmaState

| variable | code |
|---|---|
| `vtx` | `CBlock::vtx` of every block, chosen once from `Worlds` |
| `tip` | `chainActive.Tip()` |
| `sigmaMintedPubCoins`, `sigmaSpentSerials` | the fields of `CBlockIndex` |
| `coinGroups`, `mintedPubCoins`, `latestCoinIds`, `usedCoinSerials`, `mempoolCoinSerials` | the fields of `CSigmaState` |
| `mempool` | `CTxMemPool::mapTx` |
| `aborted` | an `assert` of `RemoveBlock` has failed |

`ConnectTip` is the whole of a successful connection: the checks, `ConnectBlockSigma`, and the
removal of the block's transactions and their conflicts from the pool.
`ConnectBlockSigmaFails` is the refusal in the middle of the loop over the serials;
`RejectBlock` any earlier refusal, with the side effect of the checks. `DisconnectTip` is
`RemoveBlock` and the offer of the block's transactions to the pool;
`DisconnectTipAborts` the case that an assert fails. `AcceptToMemoryPool`,
`RejectTransaction`, `RemoveFromMempool` and `GetCoinSetForSpend` are the pool's and the
wallet's calls.

Abstractions. A serial number is identified with the commitment it opens. A proof verifies
against exactly the set of coins it was made for (`Verify`, external). An order of iteration
over a hash table is a nondeterministic choice. `operator[]` on `sigmaMintedPubCoins` leaves
empty entries behind, and the model keeps them (`Touched`). Hard-fork heights, fees, scripts
and the wording of errors are left out.

### ChainState

`ix` is the part of the index entries that is written to disk, one set of blocks per flag:
`known`, `data` (`BLOCK_HAVE_DATA`), `scripts` (`BLOCK_VALID_SCRIPTS`), `failedValid`,
`failedChild`, and `indexed` (the entry carries its sigma maps). `linked` is `nChainTx # 0`;
`rank` is `nSequenceId` followed by the address of the entry; `disk` is the index database
with the best block of the coins. A thread is `idle`, at the head of the loop of
`ActivateBestChain` without the lock (`loop`), in `FindMostWorkChain` (`find`), in
`ActivateBestChainStep` (`step`), in `InvalidateBlock` (`inval`), or after the loop (`end`).
`find`, `step` and `inval` hold `cs_main`. Each block that is connected or disconnected is a
step of its own, as it may be followed by the end of the process.

Abstractions. A block's content is whether `CheckBlock` refuses it (`Malformed`) and whether
`ConnectBlock` does (`Invalid`), the same each time. One of its refusals is a plain `return false`
(`main.cpp:2976`), which marks nothing: `AbandonStep`, for the blocks in `Unmarked`. The decision
of `FlushStateToDisk`, which depends on time and memory, is a choice: nothing, the index, or the
index and the coins. While a block is connected or disconnected (`FLUSH_STATE_IF_NEEDED`) the code
writes both or nothing. The index alone is written at the end of `ActivateBestChain` (`Finish`)
and when another thread flushes after a transaction or for an RPC (`FlushElsewhere`,
`main.cpp:7063`, `rpc/blockchain.cpp:777`). `Restart` may come at any point, and between the two
writes of a flush. The limit on blocks too far ahead, pruning, reindexing, disk errors, shutdown
requests inside the loop, `VerifyDB`, `RewindBlockIndex`, `ReprocessBlocks` and refusals marked as
possible corruption are left out. `invalidateblock` is not called for the genesis block.

### BlockValidation, CoinsCache and CheckQueue

| variable | code |
|---|---|
| `world` | the content of the blocks, chosen once from `Worlds` |
| `coins` | `db`, `tip` (`pcoinsTip`) and `view` (the `CCoinsViewCache` of the current call); a cached entry has its coins and the two flags |
| `tipBest`, `dbBest` | `hashBlock` of `pcoinsTip`, `DB_BEST_BLOCK` |
| `undo`, `undoDisk` | the undo data that the index, and the index on disk, point to |
| `addrIndex` | the blocks whose entries are in the address index |
| `job` | what the thread that holds `cs_main` does, and how far it is |
| `queue`, `nIdle`, `nTotal`, `nTodo`, `fAllOk` | the fields of `CCheckQueue` |
| `pc`, `batch`, `fOk`, `verdict` | per thread: where it is, its `vChecks` and `fOk`; what `Wait` returned |

`BeginConnect` is `ConnectBlock` up to its loop, `ConnectTx` one round of it, `CloseTxs` the
check of the reward and `control.Wait()`. Every way out, early or not, goes through the wait
for the checks, as the destructor of the control does. `ConnectTipDone` flushes or drops the
view; `TestBlockValidityDone` always drops it. `BeginDisconnect`, `UndoTx` and
`DisconnectTipDone` are the way back, `BeginVerifyDB` to `VerifyReconnected` are `VerifyDB` at
levels 3 and 4, `WriteIndex` and `FlushCoins` the two writes of `FlushStateToDisk`. `LookUp` and
`UncacheCoins` are what RPCs and the pool do to `pcoinsTip`. `Restart` may come at any point. A
thread of the queue runs from one release of the mutex to the next in one step; a waiting
thread may wake up for no reason, but liveness does not rely on that.

Abstractions. A transaction is its inputs and the set of its outputs. Values, fees, the reward and
the payee are one condition, whether the coinbase is one of `Overpaying`; a script is whether its
check passes (`BadScripts`). The scripts of a block below the last checkpoint (`Checkpointed`) are
not checked, except in a dry run: `TestBlockValidity` makes an index entry of its own, which is no
ancestor of a checkpoint (`main.cpp:2775`). The coins that `AccessCoins` or `HaveInputs` fetch on
the way to an early return stay fetched, as in the code. `fEnforceBIP30` is true in this code, and
so it is here. The check for a transaction that appears twice in a block depends in the code on
the height and the network (`main.cpp:2888`), and is always on here. `fQuit` of the queue is never
set. `VerifyDB` works on `pcoinsTip`, as the RPC does; at start the code gives it the database,
which is the case of an empty `pcoinsTip`. Disk errors, the size of the cache, the transaction,
spent and timestamp indexes and the sigma part of `VerifyDB` are left out. Where the order of
iteration of `BatchWrite` cannot be seen, the flush of a layer is one step: `cs_main` is held and
the database writes one batch.

### NoirnodeSync

The variables have the names of the code; `quiet` counts the ticks since the timestamp that the
current stage looks at, and `owed` holds the peers that were asked for the list and have not
answered. A member of `Peers` is a connection, and `Addr` its address: requests are remembered by
address, the version belongs to the connection.

`CNoirnodeSync` has no lock. `tick` is where `ProcessTick` is and what it holds in its variables:
the stage it has read or is going to write (`seen`), the count it has read (`loaded`), the peer and
the rest of its copy of `vNodes`. Each test of the stage, the test of the count after a time-out,
`nRequestedNoirnodeAttempt++` and the two halves of `SwitchToNextAsset` are steps of their own, and
any call of another thread may come between them. `Reset` and `noirsync next` by another thread set
the stage, and the count in a later step (`zeroing`). Two accesses are in one step only where
whatever comes between them could as well come before or after both: the timestamp of a stage is
set together with the stage, and the end of `SwitchToNextAsset` of the tick sets stage and count
together, as other threads do not read the count.

`asked` is a history variable: the stages whose asset a peer was asked for since the tick last
began a sync, where for the list a request less than three hours old counts too, because
`DsegUpdate` does not repeat it. `noirsync next` puts both stages into it: what the user skips is
excused. The actions under `Others` are the calls of other threads (`noirsync reset`,
`noirsync next`, accepted blocks, the reset after a sleep), the messages, the connections
(`net.cpp:431`, `1045`, `1065`), and the end of the hour and of the three hours for which requests
are remembered.

Abstractions. Heights and times behind `IsBlockchainSynced` are a choice, as is whether
`IsEnoughData` finds enough votes. Left out: the quick mode of regtest, the disconnection for
`full-sync` (nothing adds that request), outbound noirnode connections (skipped by the code),
`fImporting` and `fReindex`, a second call of another thread before the first has set the count, a
call of `noirsync next` that is overtaken between its own look at the stage and its write, two
connections to one address at a time, a change of the minimum protocol by a spork, and the race
between the gate of `CheckAndRemove` and its lock. The three hours are those of the main network.

## 3. Runs

| run | instance | shows |
|---|---|---|
| `sigma_state` | 6 blocks, two branches; 36 contents with 7 transactions about spends and 3 with mints of two denominations, double mints included; groups of three coins, two inputs per block | `ImplementsLedger`, `NoSerialInTwoBlocks`, `SpentWasMintedBefore`, `MempoolSpendsAreExclusive`, `GroupsEndOnChain`, `UsedSerialsMatchChain`, `CoinGroupsMatchChain`, `GroupAssignmentIsCanonical`, `MintedCoinsMatchChain`, `IndexDescribesBlocks`, `AddMintLoopAgrees`, `RebuildAgrees`, `TypeOK` |
| `chain_select` | one thread, tied branches with a second fork above `a1`, an invalid and a malformed block, four RPC calls for blocks at any height | `BestChainActive`, `ActiveChainNotFailed`, `CandidatesExact`, `FailedHaveCause`, `ActivationEnds`, `TypeOK` |
| `chain_threads` | three threads, each of which may hold an old target, and a block that is given up without a mark | `NoAssertFails`, `LinkedExact`, `BetterIsCandidate` |
| `chain_restart` | two restarts, flushes of every kind by the thread and by others, an invalid block | `BestChainActive`, `NoAssertFails`, `LinkedExact`, `ScriptsClosed`, `DiskChainComplete` |
| `block_validation` | 5 blocks, two branches, 5 contents with 12 transactions, two blocks below the last checkpoint, one of them with a bad script, two workers and the master | `VerdictIsExact`, `ImplementsUtxoLedger`, `FlagsSound`, `DisconnectsCleanly`, `VerifyFindsNothing`, `WaitIsExact`, `QueueIdleOutside`, `ConnectEnds`, `TypeOK` |
| `noirnode_sync` | one address, connected with an old or a new version, a time-out of one tick | `OnlyUserSkips`, `SyncFinishes`, `AlwaysRetried`, `TypeOK` |
| `failed_connect`, `pool_removal`, `double_mint`, `reconsider_sibling`, `stale_index`, `verify_index` | as above | each violates one property; section 4 |

What the newer runs show. `VerdictIsExact` compares the verdict of `ConnectBlock`, reached from
caches in any condition and by any interleaving of the check threads, with `Valid` of
`BlockContent`, which knows nothing of caches, undo data or threads. `ImplementsUtxoLedger` says
that what can be read from `pcoinsTip` are the unspent outputs of the active chain after every
history of reorganisations, refusals, flushes and crashes. `DisconnectsCleanly` and
`VerifyFindsNothing` are about the undo data, which holds the height of a transaction only where
its last output was spent. `ConnectEnds` says that no wake-up is lost. `SyncFinishes` says that
the sync, from whatever state a bad time left it in, finishes once peers stay and answer.
`BetterIsCandidate` says what remains true when threads follow old targets: as long as a chain
beats the active one, the candidate set has one as good, for the next call to find.
`OnlyUserSkips` says that no interleaving of `ProcessTick` with resets lets a stage be passed on
the strength of a request that belongs to another stage.

Bounds. A branch point with two and three blocks on its sides is the smallest tree in which a
reorganisation can fail after it has connected a block, and can be undone. Groups hold three coins
so that they fill up within a branch. Two restarts let an index that was written in pieces be
read, continued and read again. `MaxRpcs` and `MaxRestarts` are the only counters that are bounded
artificially, and `MaxAttempt`, beyond which the code does not tell counts of requests apart.
`AboveFailed` is false in `chain_select`: `reconsiderblock` is not called for a block with a
failed block below it. What happens otherwise is the run `reconsider_sibling`. In `sigma_state`
the constraint `PoolBound` keeps transactions out of the pool that belong to other contents than
the one at hand; histories are not followed past a state that has one. The contents of
`block_validation` have one block for each reason to refuse one, a transaction on both branches,
one that is made and spent in one block, one whose last output is spent in several inputs, and a
coinbase that comes back after it was spent; more contents repeat these. Two workers and a master
are the fewest threads of which one can take a wake-up that another one needs. One address is the
hard case for the sync, as there is nobody else to ask; that the peer may come back with another
version lets a request be remembered that was never sent. With two addresses TLC reaches 5.8
million states in which `TypeOK` and `OnlyUserSkips` hold, too many for a run that also checks
liveness; the proof of `OnlyUserSkips` is for any peers. `sigma_state` does not check for
deadlock, because the process ends when an assert fails; the other runs do.

Fairness. `chain_select` assumes weak fairness of the steps of its one thread: once in
`ActivateBestChain` it waits for nothing but `cs_main`, which nobody else holds. Nothing is
assumed of arriving blocks, RPCs or restarts. With several threads of `ActivateBestChain` no
liveness is claimed: a mutex need not be fair. `block_validation` assumes that some thread of the
queue, or the one that holds `cs_main`, goes on as long as one of them can: no fairness among
them, and a waiting thread goes on only when it is notified. `noirnode_sync` assumes that
`ProcessTick` keeps being called, which the loop of its thread does (`darksend.cpp:2505`), and
that the three hours for which a request for the list is remembered end. `SyncFinishes` has as a
hypothesis, `Settles`, what the network must do in the long run. An updated peer stays connected,
and no peer and no noirnode is lost. The chain is synced. Nobody resets the sync or moves it on.
Until the sync has finished, no announcement and no vote arrives but the answers: each one puts
off a time-out, and an endless stream of them keeps the sync in its stage for ever, which the code
accepts (`noirnode-sync.cpp:397`). Until then no fulfilled request is forgotten either, for the
same reason. While there are no noirnodes, requests for the list are answered. The lock is free
when the marks of the peers are cleared. `AlwaysRetried` does without it.

## 4. Findings

* `failed_connect`: `ConnectBlockSigma` enters a block's serials one by one and returns at the
  first used one; those it entered stay used although the block is refused.
* `pool_removal`: a spend of two coins leaves the pool by a conflict on one of them, and the
  serial of the other stays in `mempoolCoinSerials`.
* `double_mint`: a commitment minted twice is only logged, and an assert of `RemoveBlock` fails
  when a block with it is disconnected.
* `reconsider_sibling`: `reconsiderblock` for a block above an invalidated one removes the flags of
  the block, its descendants and its ancestors (`main.cpp:4013`), but not those of the other
  branches above these ancestors. They keep `BLOCK_FAILED_CHILD` with no invalid block below them,
  which `CheckBlockIndex` excludes (`main.cpp:5765`), and are not tried again.
* `stale_index`: the entry of a block is marked dirty only when it is connected for the first
  time. After a reorganisation away, a write, and a reorganisation back, the disk holds the
  emptied sigma maps for a block of the active chain.
* `verify_index`: `VerifyDB` disconnects blocks "memory-only" (`main.cpp:5312`), in a view that it
  never flushes; but `DisconnectBlock` erases the block from the address index on disk
  (`main.cpp:2616`) before it looks at `pfClean`. With `-addressindex`, the check at start removes
  the entries of the blocks it looks at, and at the default level nothing puts them back. The
  other index entries and the coins are left alone.

Observations that no run states, as no comment or test says otherwise:

* `DsegUpdate` does not ask a peer for the list twice within three hours
  (`noirnodeman.cpp:431`), but the sync counts the attempt (`noirnode-sync.h:38`: "Count peers we've
  requested the asset from"), so a restarted sync can pass the stage without a new request. It
  is tried again when there are no noirnodes, which is why `SyncFinishes` holds.
* `noirsync next` between the steps of a tick: the tick has seen the list time out, the user moves
  the sync on, and `SwitchToNextAsset` of the tick finds the votes and moves on again, so that the
  stage of the votes is passed without a request. `OnlyUserSkips` excuses it.
* `ActivateBestChain` keeps its target while it releases `cs_main`. When another thread activates
  a better chain meanwhile, the first goes back to its own target and returns. The better chain
  stays a candidate (`BetterIsCandidate`), and the next call repairs it.
* A block at which `ConnectBlock` gives up without a mark (`main.cpp:2976`) stays the best
  candidate. Every call of `ActivateBestChain` goes to the fork, tries it and returns there, so
  the node stays below it as long as no other chain has more work.
* The marks of the peers are cleared only if `cs_vNodes` is free at that moment
  (`noirnode-sync.cpp:251`); otherwise a restarted sync finds all peers asked, and fails again
  until the marks run out.
* The address index is written block by block and the coins are not; after a crash the index is
  ahead of the chain, and has entries of blocks that may never be connected again.

Further cases that the model reaches when a bound is widened. They limit what the passing runs
say:

* `invalidateblock` between two rounds of another thread's `ActivateBestChain`: the old target
  is followed into the invalidated block and the assertion at `main.cpp:3699` can fail.
  `chain_threads` has no RPC calls.
* A block whose data arrives while its parent is marked failed is not entered in
  `mapBlocksUnlinked` (`main.cpp:4100`), and `reconsiderblock` does not enter it: it stays
  unlinked until a restart. `LinkedExact` is therefore not checked in `chain_select`; elsewhere it
  makes the exception of `CheckBlockIndex` for blocks above an invalid one.
* `reconsiderblock` of a descendant clears the flags of its ancestors but makes only the block
  and its descendants candidates again, so a better chain may be missing. `AboveFailed` keeps it
  out of `chain_select`.
* A restart when the index with a failure flag was written and the coins still end in the
  failed block: the assertion at `main.cpp:3699` can fail. `chain_restart` has no RPC calls.

## 5. Proofs

All theorems hold for every value of the constants that satisfies the assumptions of the
modules: any tree (`TreeAssumption`), any transactions, contents and limits (`TxAssumption`,
`BoundAssumption`, `ContentAssumption`, `ChecksAssumption`), any finite number of threads
(`QueueAssumption`), any peers (`PeersAssumption`).

* `TypeCorrect`: `Spec => []TypeOK`. The type invariant is inductive; the work is in the maps
  that `Touched`, `AddMints` and `GroupsWithout` build.
* `SerialsAreUnique`, `MintsPrecedeSpends`, `PoolSpendsAreExclusive`, `IndexSupportsRollback`,
  from the inductive invariant `SpendInv`. None of the properties is inductive alone.
  That no two blocks spend one serial needs `ActiveSerialsAreUsed`, and to keep that when the
  tip is disconnected one must know that `sigmaSpentSerials` of the tip is exactly what the tip
  spent (`IndexDescribesBlocks`) and that no other active block spent any of it
  (`NoSerialInTwoBlocks` itself). That a spent coin was minted needs that a walk over a group
  stays on the active chain (`GroupsEndOnChain`); to keep that when a group's last block is
  disconnected one needs the asserts of `RemoveBlock`, which are guards of `DisconnectTip`: when
  one fails, the process ends. The pool's exclusiveness needs
  `ActiveSerialsAreUsed`, as the pool compares with `usedCoinSerials` and not with the chain.
* `SigmaStateImplementsLedger`: `Spec => ImplementsLedger`. `ConnectTip` is `Extend`,
  `DisconnectTip` is `Rollback`, every other step stutters.

* `WaitCorrect` and `QueueIdle`, from the inductive invariant `JobInv /\ PhaseInv`. `JobInv` says
  which block and transaction the thread with `cs_main` can be at. `PhaseInv` adds that the counters
  are the numbers of threads they stand for (`Counts`), that `nTodo` is the number of checks queued
  or in a batch, and that `fAllOk` is false exactly when a check that has been reported has failed
  (`Exact`). The last needs `Agreed`: a thread whose `fOk` is false took it from an `fAllOk` that
  already was, so what it skips cannot turn a verdict. It is all needed because `Wait` sees only
  `nTodo` and `fAllOk`.
  `CheckQueueProofs` has the steps of the queue by themselves, and `BlockValidationProofs` what
  `ConnectBlock` adds to them. That the checks of a block are distinct, on which the counting
  rests, follows because a transaction that appears twice is refused before it hands any over.
* `FlagsCorrect` (`BlockCoinsProofs`), from `CoinsInv`: the flags of both layers, and the shape of the entries. Each
  operator of `CoinsCache` has a lemma in `CoinsCacheProofs`. `ModifyNewCoins` marks an entry
  fresh without looking into the base; what makes that right is the last conjunct, that while
  `ConnectBlock` is in its loop `pcoinsTip` shows none of the block's transactions. The check of
  BIP30 establishes it, and nothing changes `pcoinsTip` before the view is flushed.
* `CoinsMoveOnlyByFlush`: what `pcoinsTip` shows changes only at the end of `ConnectTip` and
  `DisconnectTip` and at a restart.
* `OnlyUserSkipsStages`, from `SyncInv`. It adds to `OnlyUserSkips` what the tick may believe while
  others act (`TickInv`): when it is in `SwitchToNextAsset`, the stage it will find there, be it the
  one it tested or one set since, has been asked for or excused; when it is about to count a
  request, the stage is the one it has seen, or excused; what it is going to write was allowed when
  it read; and a stage that has failed is left by the tick alone. Another thread's step
  is one of three (`OtherStep`): it leaves the stage, starts again, or moves it on, which excuses all;
  it never counts. Any number of peers and addresses and any time-out are covered.

Model-checked only: all properties of `ChainState`, the exact content of `coinGroups`,
`mintedPubCoins` and `usedCoinSerials`, the two comparisons of `SigmaIndex` (folds, hence
induction over data), `VerdictIsExact` (in a dry run it includes the scripts of
checkpointed blocks), `DisconnectsCleanly`, `VerifyFindsNothing` and
`ImplementsUtxoLedger` (they rest on what a chain of blocks leaves unspent, a recursive
definition), and liveness.

## 6. What is not modelled, and the plan

A limit of what is stated: within one block, a transaction that mints is not compared with the
serials collected before it (`sigma.cpp:264`). The model does the same
(`CheckSigmaSpendSerials`). `NoSerialInTwoBlocks` and the ledger are about distinct blocks, and
nothing is claimed about one serial twice within a block.

Next, in this order:

1. `SigmaNode`: `ChainState` and the sigma maps composed, with the rebuild at restart, and
   `CheckBlock` on blocks of a side branch (`main.cpp:4383`). Each of the two already fills its
   run; the composition needs a smaller view of both.
2. Proofs about `ChainState`: the type invariant, `LinkedExact`, `DiskChainComplete`; and for the
   sigma state `UsedSerialsMatchChain` and `CoinGroupsMatchChain`.
3. Sporks, noirnode list, payments and the active noirnode, with lost, late and repeated
   messages. The payments need the rank of a noirnode at a height, a hash of the chain.
4. The zerocoin state, then the mixing session.

Not planned: the cryptography (external), scripts, mining, the network layer, the wallet and the
user interfaces: pure computation or input and output, and most of the lines of the repository.
Instant send is left out because the handler of lock votes and their relay are commented out in
this code.
