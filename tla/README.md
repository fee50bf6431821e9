# Verification of the Block Collider node

TLA+ models of `bcnode`, the Block Collider node (JavaScript, `src/src`), the
TLC runs that check them on small instances, and theorems proved with TLAPS.

The node follows five external chains with *rovers*, collects their block
headers, mines *multiverse* blocks that contain those headers, exchanges these
blocks with peers, and keeps the current chain in a RocksDB key-value store.
Beside the node, whose engine is written in `.es6` files, the repository holds
a full-chain library of its own in `.js` files (chain, chain database, scripts,
transactions), which the engine does not import yet. Both are modelled here.

## 1. Inventory

| Part | State | Operations | Works with |
| --- | --- | --- | --- |
| Engine (`engine/index.es6`) | `_knownBlocksCache`, `_knownEvaluationsCache`; keys `bc.block.latest`, `.parent`, `.<height>`, `synclock` | `init`, `blockFromPeer`, `_processMinedBlock`, `_broadcastMinedBlock`, `updateLatestAndStore`, subscribers of `update.block.latest` and `miner.block.new` | all parts; shared store, events |
| Multiverse (`bc/multiverse.es6`) | `_chain`, at most seven blocks, in memory | `addNextBlock`, `addBestBlock`, `addResyncRequest`, `isSyncLockActive`, `validateRoveredBlocks`, `purge` | engine (await), web clients (`purge`) |
| Validation (`bc/validation.es6`) | none (cache key `valid_<hash>`) | tests on one block and on neighbours | multiverse, engine, officer |
| Primitives (`mining/primitives.es6`) | none | difficulty, merkle roots, distance, preparation of a new block | officer, workers, validation |
| Mining officer (`mining/officer.es6`) | `_canMine`, `_collectedBlocks`, `_unfinished` (50), `_unfinishedBlock` | `newRoveredBlock`, `startMining`, `rebaseMiner`, `_handleWorkerFinishedMessage` | store, worker pool, engine |
| Worker pool, threads (`mining/pool.es6`, `thread.es6`, `worker.es6`) | the forked controller, its cluster workers | `allRise`, `_sendMessage`, exit and error handlers, `work`, `solution` | officer (messages between processes) |
| Block pool (`bc/blockpool.es6`) | `_checkpoint`, `_cache`, key `bc.block.earliest` | `addBlock`, `purge`, `purgeFrom` | store, publish/subscribe |
| Persistence (`persistence/rocksdb.es6`) | the store | `put`, `get`, `getBulk`, `putChildHeaders`, `flushFrom`, `putPending`, `stepFrom`, balances | everything |
| Header collection (`rpc/service/rover/collectBlock.es6`) | keys `<chain>.block.latest`, `<chain>.block.<height>` | `collectBlock` | rovers (gRPC), officer (event) |
| Rover manager, rovers (`rover/`) | child processes, restart timers | `startRover`, `killRovers`; polling cycles | header collection |
| Peer manager, book, peer (`p2p/manager`, `book`, `peer`) | discovered and connected books, schedule | `onPeerDiscovery`, `onPeerConnect`, `onPeerDisconnect`, `_checkPeerStatus`, `query` | bundle, node |
| Peer node (`p2p/node.es6`) | partial messages per connection, key `bc.dht.quorum` | reassembly, `peerDataHandler`, `broadcastNewBlock`, quorum flag | engine (events `putblock`, `announceblock`) |
| Publish/subscribe (`engine/pubsub.es6`) | subscribers | synchronous `publish` | engine, officer |
| Chain of the library (`blockchain/chain.js`) | `tip`, `orphanMap`, `orphanPrev`, `invalid`, the lock | `add`, `connect`, `setBestChain`, `reorganize`, `saveAlternate`, `reset`, `replay`, `invalidate`, orphans | chain database |
| Chain database (`blockchain/chaindb.js`) | keys `h`, `e`, `b`, `H`, `n`, `p`, `c`, `u`, `R`; `state`, `current`; `coinCache`, `cacheHash`, `cacheHeight` | one batch per `save`, `reconnect`, `disconnect`; `removeChains`, `reset`; `readCoin`, `getEntryByHeight`, `getEntryByHash` | chain (lock held), readers (no lock), LevelDB |
| Lock, LRU (`utils/lock.js`, `utils/lru.js`) | holder and queue; items, pending operations | `lock`, `unlock`; `set`, `push`, `commit`, `drop` | chain, chain database |
| Web server, RPC, command line, interface | views | queries; the socket message `purge` | engine |

Hard behaviours:

* Every handler is an async function. Nothing serialises two blocks (the queue
  of the engine receives promises that already run), so whatever is read
  before an await may be stale when it is used after it.
* A tip consists of several keys put one after another; the process may stop
  between any two of them, and a failed update ends it deliberately.
* The sync lock is read in one function, taken in another and expires by the
  timestamp of the block that holds it.
* Memory (`_chain`, the two caches) and store are updated separately.
* Peers repeat and reorder blocks; our own blocks come back.
* Mining works on a block that may be stale when its solution arrives.
* Worker and rover processes exit and are replaced; peers time out.
* A reorganization and a reset of the library are a row of batches; a failed
  write, a block that fails its verification or a stop may end them after any.
* Callers of the chain database that only read hold no lock, and the threads of
  the database call back in any order: an answer may be older than a batch that
  has been committed since.

What makes each part correct:

* intake: no block twice in the multiverse; pointers only to blocks that were
  the tip; index, parent and tip coherent once nothing is in flight; another
  branch only while no other sync holds the lock, and never a lower total
  distance; every block leaves its handler;
* officer: a solution is applied to the block it was mined for, once; the list
  stays bounded and drops only its oldest entry; the headers of new work are
  newer than those of the block it builds on;
* pool: work is sent to a controller that has not been replaced; one solution
  per work is used;
* header store: the latest header of a chain never moves back and is stored
  under its height;
* node: a message is delivered whole and once;
* chain: the stored coins, indexes and undo records are those of the stored tip
  after every batch; the tip in memory is the stored one; the heaviest branch
  wins; every stored block can be found again by a reset; only blocks that
  break a rule are condemned; the lock is always passed on;
* caches: what is cached is what is stored, whatever was written while a reader
  waited;
* primitives: difficulty bounded below, monotone in time; balances complete.

## 2. Modules

| Module | Contents |
| --- | --- |
| `Blocks` | blocks as a constant table, and the pure tests of the multiverse on them |
| `BlockIngest` | the intake: every path from a received or mined block to the stored tip |
| `TipRegister` | what the intake promises about the tip and the sync lock |
| `BlockIngestProofs` | theorems for any number of handlers |
| `BlockIngestSerialProofs` | theorems for one handler, the refinement among them |
| `WorkerPool` | the mining processes: controllers, workers and their messages |
| `Mining` | the officer and the rovers' headers, composed with `WorkerPool` |
| `WorkBoard` | what the officer promises about the work it hands out |
| `MiningProofs` | theorems about `Mining` and `WorkerPool`, the refinement among them |
| `ChainTree` | block trees of the library, coins of a branch, forks |
| `Chain` | chain and chain database: every batch written under the lock |
| `Ledger` | what the library promises about its stored state |
| `ChainProofs` | coins, indexes, tip, orphans, condemned blocks |
| `ChainTipProofs` | the heaviest branch and the listed tips |
| `ChainLedgerProofs` | resets, walks and the refinement of `Ledger` |
| `ChainCache` | chain database, its caches, and readers without the lock |
| `ChainCacheProofs` | theorems about `ChainCache` |
| `MCBlockIngest`, `MCMining`, `MCChain`, `MCChainCache` | the blocks of the checked instances |

### Blocks

`Content` gives each block the fields the intake compares: height, previous
hash, total distance, timestamp, the sum of its highest child heights
(`childrenHeightSum`), the timestamp of its newest child header
(`getNewestHeader`) and the keys of its headers. `DistanceFits` and
`DifficultyFits` stand for `validateSequenceTotalDistance` and
`validateSequenceDifficulty`: the arithmetic is not modelled here, so they are
arbitrary relations and every theorem holds for whatever they are. `NextTests`
is the list of tests of `addNextBlock`; `ResyncVerdict` is `addResyncRequest`
after its reads.

Some code has no effect and is left out of the tests: the comparison of two
`BN` objects with `===` makes the hotswap of `addNextBlock` unreachable;
`getParentHighestBlock` returns null or undefined, never a block, so
`addBestBlock` never replaces one; the comparison of `validateRoveredBlocks`
without await never equals true; `validateBlockSequence` on two blocks reduces
to the previous hash. `isValidBlockCached` is true below height 151500 and the
timestamp windows of `addResyncRequest` apply above height 100000; the model is
of a chain below both.

### BlockIngest

A `Slot` is one chain of promises: a block that has entered `blockFromPeer` or
`_processMinedBlock` and has not left the last continuation. A step runs from
one await to the next; `task[s].pc` names the await at which the chain waits,
`cur` and `par` are the latest and the parent block it has read, `mined` and
`force` tell the two kinds of intake and of update apart.

| Actions | Code |
| --- | --- |
| `BlockFromPeer`, `MinedBlock`, `MinedDuplicate` | arrival, the known-blocks cache |
| `ReadLatest`, `Judge` | `addNextBlock`, `addBestBlock` and what both callers do with the result |
| `CheckLock`, `ResetLock` | `isSyncLockActive` |
| `ReadTip`, `Weigh`, `AskNew`, `AskOld` | `addResyncRequest`, `validateRoveredBlocks` and what `blockFromPeer` does with the result |
| `ReadPreviousLatest`, `ReadParent`, `Decide` | the reads and the branches of `updateLatestAndStore` |
| `PutLock`, `PutParent`, `PutLatest`, `PutHeight`, `PutHeaders` | its puts, in the order of the code |
| `PutAside` | the `putChildHeaders` of an approved resync, which nobody awaits |
| `RoverStores`, `Purge`, `Restart`, `Tick` | a rover's header, a web client's purge, a stop and `Engine.init`, the clock |

`publish` is synchronous: the subscriber of `update.block.latest` runs inside
the step that publishes, up to its first await. `announced` records the blocks
handed to `broadcastNewBlock`, `accepted` those `addNextBlock` accepted, `tips`
those that have been `bc.block.latest`, `grafted` whether the tip ever moved
other than to a child of itself or the process restarted.

A mined block is one of `Own` whose previous block was a tip: work on an older
tip may finish late. The mining gate is not a guard of it, because it can be
switched off and because it was checked when the work was handed out.

Abstractions. A `put` or a `get` of one key is atomic and does not fail;
`putChildHeaders` is one step that stores all headers of the block. The two
LRU caches (1024 entries) do not overflow. `sendblock` and `getmultiverse`
change nothing the model keeps: the answers to `getmultiverse` cannot be
parsed by `peerDataHandler` (it splits an array), so `getMultiverseHandler`
never gets them, and for the same reason `stepSyncHandler` never runs and the
lock that a forced update takes is only ever released by its age or by a
restart. The tail of `updateLatestAndStore` that touches the counters of the
officer belongs to `Mining`. A block with an empty header list,
on which the tests throw, is not an input. `BC_BOOT_BLOCK` and `BC_CHECK` are
not set. `Engine.init` is one step.

### TipRegister

The abstract specification has the tip, the lock, the clock and the number of
starts. The tip may `Advance` to a child of itself; a sync may begin only when
the lock is open, and the tip may move to another branch (`Graft`) only when
the lock is open or held by the same block; neither lowers the total distance;
a stale lock may `Expire`; a restart opens it. `BlockIngest` implements it
with `tip <- latest`, `lock <- synclock`, as long as one block is handled at a
time: `ingest_serial` checks it. With two blocks in flight it does not hold,
as `ingest_two_syncs` shows for the lock.

### WorkerPool

The node forks a controller (`mining/pool.es6`); the controller forks a worker
per core for each work it is sent and kills the workers of earlier work
(`mining/thread.es6`). `controllers` is the sequence of all controllers forked
so far, `current` the one `_sendMessage` uses, `deploying` the handlers of
`work` messages that still run, `workers` the worker processes.

| Actions | Code |
| --- | --- |
| `SendMessage`, `PoolExit`, `ForkAnother` | `_sendMessage`, `_handlePoolExit`, `_handlePoolError`, `allRise` |
| `TakeMessage`, `KillEarlier`, `CountWorkers`, `CreateThread` | the controller's handlers of `config` and `work`, up to each await |
| `PurgeWorkers`, `WorkerExit`, `ControllerDies` | recycling, timers, crashes |
| `WorkerStarts`, `Mine`, `TakeSolution` | a worker, and its solution on the way to the officer |

The model keeps what the code does, also where it is surprising. A send to a
controller that died does not throw: its error event forks another one, its
exit event forks one more, and the message is lost. A replacement is sent no
configuration (it keeps the default limit) and no work. `fkill` goes by the
title of the process and so kills the workers of all controllers, those of
newer work included. Handlers of two `work` messages overlap, so there may be
more workers than the limit; and the cluster lists a killed worker until its
exit event, so a deployment may fork none. A worker that finds nothing within
300 seconds sends null, on which the controller dies.

### Mining

A rovered header is one call `r`; `calls[r].pc` names the await at which it
waits, as in `BlockIngest`.

| Actions | Code |
| --- | --- |
| `CollectBlock`, `NewRoveredBlock` | the two puts of `collectBlock`, and the event |
| `ReadQuorum`, `ReadParent`, `ReadLatest` | the gate in `newRoveredBlock` |
| `ReadTip`, `ReadHeights`, `StartMining` | `startMining` with `prepareNewBlock` |
| `HandleWorkerFinished` | `_handleWorkerFinishedMessage` |
| `PutLatest`, `PutParent`, `PutChildHeaders`, `CountStored`, `PutQuorum` | what intake and peers do to the keys the officer reads |

`handed` records every block handed out, by the id of its work, and `mined`
every block that was published. The environment may put the pointers in any
order, which allows more than the intake does; what holds here holds for the
composition.

Abstractions. `MIN_HEALTH_NET` is off and the quorum key is present; the tip
is past genesis; every chain already has a latest header, so the branch of
`collectBlock` for a first header is left out, as are the branch for a child
of genesis (`parent.getHeight() === '1'` compares a number with a string and
is never true) and the rest of `prepareNewBlock` that computes difficulty and
hashes. `blockchainHeadersAreChain` always answers true, and `isValidBlock`
does below height 151500. A `getBulk` of several keys is one step. Nobody
calls `rebaseMiner`, `stopMining` and `_handleWorkerExit`, nor sets `paused`;
they are not modelled.

### WorkBoard

The abstract specification has the works handed out so far, the ids on offer
and the blocks published. `HandOut` offers one more; when the board is full,
the oldest id makes room. `Publish` takes an id from the board and publishes
the block that was handed out under it. Nothing else changes the board: late
and repeated solutions, moves of the tip and deaths of processes are stutters.
`Mining` implements it with `offered <- {ids of unfinished}` and
`published <- mined`.

### ChainTree and Chain

A block has a parent, a height, cumulative work, the coins it creates and those
it spends; `Bad` are blocks that break a rule without regard to coins. `Path`
and `Unspent` are the branch of a block and the coins unspent after it: the
reference against which the stored chain is compared, pinned down by
`ReferenceAssumption`.

`jobs` is the lock with its queue; its head is the holder, `holder` what the
holder is doing. A step runs up to the next batch, so a failed write
(`WriteFails`) or a stop (`Restart`) may come between any two batches.

| Variables | Code |
| --- | --- |
| `entries`, `tips`, `mainAt`, `next`, `coins`, `undo`, `best` | keys `h`/`e`/`b`, `p`, `H`, `n`, `c`, `u`, `R` |
| `tip`, `invalid`, `orphans` | `Chain.tip`, `Chain.invalid`, `orphanMap` and `orphanPrev` |
| `cut`, `torn` | history: a reorganization ended before it was complete; a reset failed after it had removed a block |

| Actions | Code |
| --- | --- |
| `Submit`, `Finish` (in the last step of a job) | `Lock.lock`, `unlock` |
| `RefuseDuplicate`, `RefuseInvalid`, `StoreOrphan`, `StartConnect` | `_add`, `hasInvalid`, `storeOrphan`, `limitOrphans` |
| `SaveAlternate`, `SetBestChain`, `RefuseBlock` | `connect`, `saveAlternate`, `setBestChain`, `setInvalid`; with `Resolve`, the loop of `handleOrphans` |
| `Disconnect`, `Reconnect`, `ReconnectFails`, `ReorganizeThrows` | `reorganize`, one batch at a time |
| `RemoveChains`, `RemoveBlock`, `FinishReset`, `ResetThrows`, `RefuseReset` | `_reset`, `_replay`, `_invalidate`, `ChainDB.removeChains`, `ChainDB.reset` |

Two exceptions run through the properties. When a reset fails half way, the
store has lost blocks that `Chain.tip` still stands on: `torn`. When a
reorganization ends before its new branch is complete, the code does not return
to the old one: `cut`. `CoinsMatch`, `ChainStored`, `TipIsBest` and
`CondemnedForCause` survive a cut reorganization, `TipIsHeaviest` and
`AlternatesListed` do not, and `chain_reset` shows what follows from that.

Abstractions. No pruning, checkpoints, SPV, deployments, transaction or address
indexes, and `synced` is not kept. Proof of work is one of the rules behind
`Bad`. The keys `h`, `e` and `b` are written and removed together and are one
set. An undo record is the set of spent coins and an empty one equals none. A
`mutated` body is one whose error is marked as malleated, so that its hash is
not condemned. `limitOrphans` may expire any orphans, there is no clock. The
set of condemned blocks (an LRU of 100) does not overflow.

### Ledger

The abstract specification has the block whose state is stored (`head`), the
unspent outputs, where the head is going (`goal`), and `lost`. The head moves
only to a child or its parent in the tree, and takes the coins with it: it may
`Connect` only a block that breaks no rule on its own branch, on the way to a
block that has more work than the one it set out from, or `Disconnect` while it
is not on the path of its goal, or be recalled to an ancestor by a reset. It
comes to rest (`Rest`) at its goal, below a block that was refused, or because
of a fault. Nothing is promised after a reset that a fault ended (`Lose`,
`Astray`): the store has lost blocks that `Chain.tip` still stands on.

`Chain` implements it with `head <- best`, `lost <- torn` and `goal` the block
of the lock's holder from the first batch of a reorganization on, or of a
reset. Orphans, alternates, condemned blocks, the queue of the lock, writes
that fail before anything moved and restarts are stutters. The guard of
`Connect` says what `reorganize` has to get right: it reconnects in the order
of the tree, from the fork upwards, and verifies every block it reconnects
again on the coins it finds there.

### ChainCache

The same database seen by readers that hold no lock. A batch is open, is
written by a thread of the database (`BatchWritten`, or `BatchFails`), and only
later calls back (`Commit`); a reader's request takes effect in
`DatabaseReads` and calls back in `CoinArrives`, `HashArrives` or
`EntryArrives`. The two kinds of callbacks come in any order. `state` stands
for the identity of `ChainDB.state`, which readers compare. `acked` records
the coins at the last callback of a batch.

The three caches are bounded; `Evicted` lets any items go, where the code picks
by age and size, and counts coins where it counts bytes. In a reset, the entry
leaves the two entry caches in the step of the callback. Not covered: a failed
commit keeps `stateCache` (chaindb.js:224-231), and an entry may return to
`cacheHash` after a reset, where it is the same entry.

## 3. Runs

| Run | Instance | Shows |
| --- | --- | --- |
| `ingest_race` | 5 blocks, 2 slots, one purge, no clock | type correctness with the bound of the multiverse, `PointersWereTips`, `ChainHasNoDuplicates` under all interleavings |
| `ingest_serial` | 5 blocks, 1 slot, clock 0..6, one restart | `PointersWereTips` across a crash, `IndexHoldsTip`, `LinkedWhileExtending`, the refinement of `TipRegister`, `EveryBlockSettles` |
| `ingest_gate` | 4 blocks, 1 slot, one restart, no clock | violated: two linked blocks do not open the mining gate |
| `ingest_echo` | 4 blocks, 1 slot | violated: a forced update is not echoed in the multiverse |
| `ingest_two_syncs` | 4 blocks, 2 slots | violated: two syncs at once |
| `ingest_announce` | 4 blocks, 1 slot | violated: a mined block that `addNextBlock` refused is announced |
| `mining` | 1 call at a time, 2 workers, 3 controllers, 2 works, 4 heights, 2 moves of the pointers | `SolutionFitsBlock`, `OneBlockPerWork`, `FreshOrCarried`, `PoolIsReplaced`, the refinement of `WorkBoard` |
| `mining_headers` | the same with 2 calls | violated: work lists an older header than its parent |
| `chain` | 7 blocks, 1 orphan, 2 queued jobs, faults | `CoinsMatch`, `ChainStored`, `TipIsBest`, `CondemnedForCause`, `OrphansDetached`, `TipIsHeaviest`, `AlternatesListed`, `IntactReset`, `WalksSucceed`, the refinement of `Ledger`, `HolderFinishes` |
| `chain_reset` | 7 blocks, one job at a time, no faults | violated: a reset leaves a block of another branch |
| `chain_cache` | 4 blocks, 2 coins, 1 reader, caches of one item, 4 states | `CoinCacheCurrent` |
| `cache_height` | as `chain_cache` | violated: an entry of the old branch stays cached by height |

*Intake.* Genesis `g`; siblings `a2` and `b2` on it; `a3` on `a2`; `c3`, also
on `a2` but older than it by less than the permitted lag; `a4` on `a3`; `f4`,
the head of a branch whose other blocks are unknown. Between them they reach
every outcome of every test: next block, wrong height, equal and lower weight,
stale tip, unknown headers of the new block, of both, of neither, and all
branches of `updateLatestAndStore`. `ChainMax` is 2 instead of 7, so that the
multiverse overflows. The four periods (3, 27, 31 and 32 seconds) become 2, 3,
4 and 5, in the same order, and the clock runs past all of them. Two slots are
enough for every property about two handlers; they are interchangeable and the
race run uses that symmetry. Serial runs are the regime of a node to which
blocks come slower than its store answers, which takes milliseconds.

*Mining.* `x` on genesis lists header 1 of the one chain, `y` on `x` headers 2
to 4, and the rover delivers any of the heights 1 to 4 in any order. `MaxListed`
1 stands for 50, `MaxCount` 2 for 6, `Window` 1 for 30. Work on `x` lists one
header or two ({2, 3} or {3, 4}); with the latest header at 4, header 2 is out of
the window; work of two headers is too large to be reused, so that the next one
carries the last header of the tip; work of one header is carried over, also to
a new tip, for which the tip and its parent have to move: two moves. Two works in
a list of one reach the late solution of dropped work; two workers on the same
work reach the double solution; three controllers reach both ways of replacing
one. The default and the configured limit are 1 and 2. Workers are
interchangeable.

Once the last work is handed out, rovers and store can no longer reach the
officer, and the run compares states by the officer and the pool only (`Ahead`).
One header is on its way at a time; calls that overlap in the gate and between
their reads are left to `mining_headers` and to the theorems, which hold for any
number. That it is the oldest entry of a longer list that makes room is shown by
`BoardCorrect`, for any limit: in a list of one there is no other.

*Chain.* Two branches on genesis, `a1`-`a2` and `b1`-`b2`-`b3`, and `c2` on
`b1`. `b2` spends an output of `a1`, so the heavier branch of `b3` fails half
way through its reorganization; `a2` and `c2` contain the same transaction;
`a2` arrives in a mutated form too; two blocks spend an output of their own. A
reset and an invalidation of `b1` come at any time. `MaxQueue` 2 keeps one job
waiting, `MaxOrphans` 1 makes the second orphan displace the first. So
the run shows of `OrphansDetached` that an orphan is neither stored nor ready to
be connected; rows of orphans, and that a parent keeps one, are left to
`OrphansCorrect`. Of `CondemnedForCause` it shows that the mutated copy of `a2`
does not condemn its hash; the branch of `b1` may be invalidated, which excuses
its verdicts, and `CondemnedCorrect` covers what is not.
`chain_reset` needs neither faults nor a queue: legal calls alone lead there.

*ChainCache.* `a` and `c1` contain the same transaction, whose output is another
coin on either branch; `c1` spends an output of `b1`. Caches of one item evict
all the time. Four committed states are enough for save, disconnect, save of
the other branch and its child.

Runs of the intake and of mining do not check for deadlock: a node that has
seen all blocks of the instance at the last instant of the clock, or has handed
out its last work, has nothing left to do. The other runs do check it.

Fairness. `EveryBlockSettles` assumes weak fairness of each slot's next step
and of each pending unawaited put, `HolderFinishes` of the next step of the
lock's holder: the event loop runs every continuation and the store answers
every request. Nothing is assumed of peers, miners, rovers, web clients,
callers, stops, failed writes or the clock.

What the violated runs say about the code:

* `bc.block.parent` is put to genesis at every start, and afterwards the first
  branch of `updateLatestAndStore` is taken, which leaves it there. The gate
  of `MiningOfficer.newRoveredBlock` compares it with the previous hash of the
  latest block, not with the multiverse its comment speaks of: the node has
  two linked blocks and does not mine.
* A forced update changes `bc.block.latest` only. The multiverse keeps the
  old branch, although the comment asks for an echo.
* The lock is read, several awaits pass, and only then, in one branch, is it
  taken. Two candidates pass in between.
* `_processMinedBlock` answers true for a block that `addNextBlock` refused: a
  sibling of the latest block, mined on its parent, is broadcast as "next block
  in current multiverse". (It answers true for a duplicate as well, and one that
  is still being judged goes out before its verdict; the property excuses that.)
* `prepareNewBlock` takes the headers of a chain without news from the
  unfinished block, also when that was made for a former tip: the new work
  lists an older header than the block it is mined on.
* A reorganization that fails on the new branch leaves a tip whose `p` key its
  own child has taken over. Once that tip is reorganized away, `removeChains`
  does not find it, and a reset leaves its block stored: adding it again is
  refused as a duplicate.
* `getEntryByHeight` remembers the state after its first read. A
  reorganization during that read goes unnoticed, and the entry of the old
  branch stays in `cacheHeight`. `readCoin` remembers the state first, and its
  cache is sound.

## 4. Proofs

The theorems hold for every value of the constants under the named assumptions
of the modules. Each rests on an inductive invariant that was first checked by
TLC; there is one lemma per action or group of actions.

`BlockIngestProofs`, any number of slots, blocks, purges and restarts:

* `TypeCorrect`: the work is in the task of the slot that moves and in the
  multiverse, which is cut to `ChainMax` when a block is put on it.
* `PointersCorrect`: a handler puts what it read before, so `TipsInv` adds that
  the latest and the parent each slot holds are former tips, and that a block
  waiting to be indexed already is one, which is where the order of the puts
  enters. It holds across restarts, because genesis is always a former tip.
* `NoDuplicates`, for one session (`MaxRestarts = 0`: a restart empties the
  cache of known blocks). `OnceInv`: blocks in the multiverse and those on
  their way into it are known, except genesis; those on their way are pairwise
  different and not in the multiverse.

`BlockIngestSerialProofs`, one slot: what the only handler has read is still
stored (`ReadsHold`), and the keys follow the latest block (`KeysFollow`).

* `IndexCorrect` and `LinkedCorrect`.
* `RegisterCorrect`: the refinement of `TipRegister`, restarts included, for
  `MaxPurges = 0`: an emptied multiverse takes any block without tests. The
  branch of `updateLatestAndStore` that makes genesis the parent is shown to
  be unreachable here.

`MiningProofs`, any number of calls, workers and controllers. The invariant is
the conjunction of the checked ones with `PoolLinked` (deployments and workers
belong to a controller that was forked), `ListSound` (every entry of the
list is the block handed out under its id, no id is listed twice, and solved
ids are gone) and `LastKept` (`_unfinishedBlock`, if there is one, is the last
block handed out, so that what is carried over is of the work before). Of the pool nothing is used but types and links, so whatever it
loses, repeats or reorders, `SolutionCorrect`, `OneBlock`, `FreshCorrect` and
`PoolCorrect` hold. `NewestBounds`, on the greatest header of
a set, is by well-founded induction.

* `BoardCorrect`: the refinement of `WorkBoard`. It needs `Ordered` (ids rise
  along the list) on top: the entry at the head, which the code drops, is then
  the oldest on offer. Since no id is listed twice, the board is full exactly
  when the list is (`OfferedCounts`, by a bijection). This is for any limit;
  the run has a list of one entry.

`ChainProofs`, every block tree, every set of jobs and both settings of faults:
`CoreInv` joins `TypeOK`, what is stored (`DiskInv`: unless torn, coins,
indexes and undo records are those of `best`) and what the holder knows
(`MemoryInv`); `OrphansInv` adds that orphans and their parents are not
stored. They give `CoinsCorrect`, `StoredCorrect`, `TipCorrect`,
`CondemnedCorrect` and `OrphansCorrect`.

`ChainTipProofs`: `TreeInv` says that every stored block has its ancestors
stored and lies below a listed tip, that key `n` leads to children only, and
that while a reorganization has moved the tip its block is heavier than all
others. A minimal counterexample (`WFMin`) shows that the loops over ancestors
reach what they need. They give `HeaviestCorrect` and `ListedCorrect`.

`ChainLedgerProofs`, the same generality. `Journey` says what the holder relies
on between two batches, also where an earlier reorganization was cut short: a
reorganization that has moved the tip leads to more work than the tip has now,
and every entry between tip and goal (`WalkedBy`) is stored; a reset has its
target below the tip. It is inductive because `findFork` stops on the highest
block common to both paths (`ForkIsHighest`), so that the walk that is left
only shrinks (`WalkDown`, `WalkUp`).

* `LedgerCorrect`: each batch of a reorganization or a reset is a `Connect` or
  a `Disconnect`, the last step of a job a `Rest`, every other step a stutter.
* `ResetCorrect` and `WalksCorrect`: what is listed and stored (`TreeInv`) is
  enough for `removeChains` to remove every alternate, and for both walks to
  find each entry and undo record on their way.
* The properties above except chains that are `cut` or `torn`. `NeverTorn` and
  `NeverCut` say where these come from: only from faults and, for `cut`, from
  blocks that break a rule on their own branch or mutated bodies. So without
  them `HeaviestUnlessRefused` and `ResetUnlessRefused` hold with no exception;
  the second is the property that `chain_reset` refutes when a reorganization
  meets a bad block. Their hypotheses speak of the constants only: no faults,
  every block sound on its own branch, no mutated body among the jobs.

`ChainCacheProofs`, any block tree and any number of readers: `Fresh` (the
database differs from `acked` at most in the coins of the batch whose callback
is outstanding), `Pending` (an answer to a reader that still sees the state it
remembered is the stored coin, or the one before that batch) and `Cached` give
`CoinCacheCorrect`.

Only model-checked: `EveryBlockSettles` and `HolderFinishes`. Liveness under
fairness is out of reach of the prover. Every other property of a passing run
is stated by a theorem.

## 5. Plan

Done, in this order: the intake and its abstract register; the theorems on it;
chain and chain database with their theorems; the caches against readers; the
officer with the worker pool, and its theorems; the abstract specifications
`Ledger` and `WorkBoard` with the proofs that the code implements them.

What could still be added:

1. `HeaderStore`: `collectBlock`, `putChildHeaders` and `forcePutChildHeaders`
   at the grain of one put, with several writers, against a register per chain.
2. The composition of officer and intake, in place of the environment of
   `Mining`: smaller behaviour, the same properties.
3. `PeerNode`: reassembly of chunks and dispatch of messages.
4. `StoreScans`: `stepFrom`, `flushFrom`, `putPending`, `scanBlockGrants` as
   algorithms against reference definitions.
5. `Primitives`: difficulty and header differences over bounded inputs; the
   lower bound of the difficulty as a lemma.
6. `RoverManager`: restart timers against deliberate kills.
7. Theorems that bound the other refuted statements as `ResetUnlessRefused`
   bounds that of `chain_reset`: one slot for `ingest_two_syncs`, a tip that
   rests while work is prepared for `mining_headers`, no reorganization during
   a read for `cache_height`.

## 6. Not modelled

* Peer manager, peer book and bundle: only `_pipelineStartNode` reaches them,
  and the `waterfall` that would run it is commented out in
  `p2p/node.es6`; the handlers never run.
* Block pool: `addBlock` has no caller and calls `previousHash`, which blocks
  do not have; only `purge` is used.
* The sync paths that no message reaches (`proveTwo`, `stepSync`,
  `getMultiverseHandler`) and the second peer-to-peer stack, which is not
  imported.
* Reassembly of messages from bytes, protobuf and gRPC encoding.
* Scripts, stacks, transactions, coins in their encodings, primitives and
  cryptography of the library. They are the larger part of the `.js` files, and
  they are sequential code over bytes: their control is an interpreter or a
  field-by-field encoding, with no protocol state of their own. What the chain
  needs of them is here as the coins a block creates and spends and as `Bad`.
  Generated protobuf code is left out too.
* Logging, the web interface, the command line, NTP time, geolocation, and the
  Rust code, which the engine does not call.

`PROJECT.json` lists every component with its status and every hazard with the
properties that cover it.
