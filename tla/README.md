# TLA+ models of the perception node

perception is a small blockchain node in Go on top of libp2p: it keeps a chain
of blocks in a key-value store, finds other nodes, and downloads the blocks it
does not have. The modules of this directory model the parts of the node where
goroutines, locks, channels and crashes meet, and the layered data structures
(state, trie, trie node database) below the chain. TLC checks them on small
instances, and TLAPS proves the most important properties for every instance.

## The system and its parts

| part | source | state | operations |
|---|---|---|---|
| chain core, genesis, chain schema | `proton/core/blockchain.go`, `headerchain.go`, `genesis.go`, `rawdb/` | store records per block, canonical hashes, `LastBlock`, `LastHeader`, state roots; `currentBlock`, `currentHeader`, `chainmu` | init command, `NewBlockChain`, `loadLastState`, `repair`, `Reset`, `SetHead`, `InsertChain` |
| downloader | `proton/downloader` | `cancelCh`, `cancelWg`, `blockCh`, peer set, open requests | `Synchronise`, `fetchBlocks`, `processBlocks`, `Cancel`, `deliver`, `RegisterPeer` |
| protocol manager | `proton/handler.go`, `proton.go`, `peer.go` | `pm.peers` | `syncer`, `synchronise`, `handle`, `handleMsg`, `Protocol.Run`, `streamHandlerV1` |
| p2p server | `p2p/server.go` | `Server.Peers` | dial loop, `streamHandler`, `runPeer`, `Stop` |
| p2p connection | `p2p/peer.go`, `conn.go` | `protoErr`, `disc`, `closed`, `wmu`, the stream | `run`, `readLoop`, `pingLoop`, `handle`, `Disconnect`, `Close`, `WriteMsg` |
| node | `node/node.go` | `services`, `server`, `stop`, an RWMutex | `Register`, `Start`, `Stop`, `Wait` |
| state | `proton/core/state` | account objects with three storage layers, journal, pending and dirty sets | setters, journal revert, `Finalise`, `IntermediateRoot`, `Commit`, `New` |
| trie and proofs | `proton/trie/trie.go`, `hasher.go`, `node.go`, `encoding.go`, `proof.go` | nodes with cached hash and dirty flag | `TryGet`, `TryUpdate`, `TryDelete`, `Hash`, `Commit`, `New`, `Prove`, `VerifyProof` |
| trie node database | `proton/trie/database.go` | dirty cache, reference counts, flush-list, sizes, preimages | `insert`, `Reference`, `Dereference`, `Cap`, `Commit`, `Node` |
| feeds | `event/feed.go` | `inbox`, `sendCases`, `sendLock`, `removeSub` | `Subscribe`, `Unsubscribe`, `Send` |
| trie sync, other subscriptions, databases, priority queues, clocks, rlp, common, crypto, log, commands | `proton/trie/sync.go`, `event`, `db`, `common`, `rlp`, `proton/crypto`, `log`, `cmd` | mostly pure or I/O | see the last section |

How they interact: `main` starts a node; `Node.Start` opens the p2p server and
starts the proton service, whose constructor opens the chain with
`NewBlockChain`. The server dials and accepts streams and runs one `Peer` per
stream. `Protocol.Run` opens a second stream for the proton protocol and runs
`ProtocolManager.handle` on it, which registers the peer with the manager and
the downloader. Every ten seconds `syncer` starts a goroutine that downloads
from the best peer; the downloader's fetcher hands the blocks to `InsertChain`.
The genesis block and every inserted block commit a `StateDB`: it writes account
and storage tries into the trie node database, whose `Commit` moves them to the
store.

What is hard here, and a test would hardly reach:

* a process that stops between two writes of one logical update, in `init`, in
  `InsertChain` or in `SetHead`;
* overlapping syncs that share one cancel channel, one wait group and one
  delivery channel, and that insert overlapping batches without `chainmu`;
* locks taken twice by the same goroutine, or held while waiting for somebody
  who needs them;
* streams that both nodes open at once, that break at any point, and whose
  table entries other streams overwrite and delete;
* half-closed streams and error channels with limited room at the end of a
  connection;
* caches in layers (storage values, node hashes, dirty nodes) of which one may
  be stale after the right sequence of calls;
* nodes shared between tries, counted, linked, and moved to disk in batches that
  may fail or be cut off while a reader looks for them;
* a subscription that is cancelled in the middle of a send.

`PROJECT.json` lists these hazards one by one with the line where they bite.

## Modules

| module | models | instances |
|---|---|---|
| `BlockChain` | chain core, genesis, schema | `MCBlockChain`, `Chain*.cfg` |
| `Downloader` | downloader, syncer and message handler of the manager | `MCDownloader`, `Sync*.cfg` |
| `NodeLifecycle` | node | `MCNodeLifecycle`, `NodeApi.cfg` |
| `Peering` | the three peer tables of server, manager and downloader | `MCPeering`, `Peering.cfg` |
| `PeerConn` | one p2p connection, both ends | `MCPeerConn`, `ConnEnds.cfg` |
| `TrieEncoding`, `Trie` | key encodings; the trie, its hasher and proofs | `MCTrie`, `Trie.cfg` |
| `TrieCache`, `TrieDatabase` | the cache of trie nodes; the trie node database over a disk | `MCTrieDatabase`, `TrieDatabase.cfg` |
| `StateDB` | state objects, journal, state trie | `MCStateDB`, `StateDB.cfg` |
| `Feed` | one-to-many subscriptions | `MCFeed`, `Feed.cfg` |
| `Ledger` | what the chain promises; implemented by `BlockChain` and `Downloader` | |
| `AccountState` | what a `StateDB` promises: a map of accounts | |
| `BlockChainProofs`, `DownloaderProofs` | lemmas and theorems about `BlockChain` and `Downloader` | |
| `TrieCacheProofs` | what each operation of `TrieCache` does; the invariant of the cache | |
| `TrieDatabaseProofs`, `TrieDatabaseSizes` | the invariant of `TrieDatabase` and its theorems; those about sizes | |
| `StateDBProofs` | lemmas and theorems about `StateDB` | |
| `NodeProofs` | lemmas and theorems about `NodeLifecycle`, `PeerConn` and `Peering` | |
| `FeedProofs` | lemmas and theorems about `Feed` | |

`NodeProofs` extends three components at once, so their specifications have names of
their own: `NodeSpec`, `ConnSpec` and `PeeringSpec`.

Operators whose comment starts with "Mutant:" are variants of the definition
that follows them, changed the way a plausible mistake in the code would be.
No specification uses them; each shows that some property notices the mistake.

### BlockChain

The variables are the records of the store (`body`, `hashNumber`, `header`,
`canon`, `headBlock`, `headHeader`, `states`) and the fields in memory. Every
`Put` and every `batch.Write` is a step of its own, so `Crash` may come between
any two; it keeps the store and loses the rest. `pc` is what the process is
doing (down, one of the writes of `init`, loading, repairing, rewinding, up;
`hung` is a goroutine that waits for a lock it holds, `failed` an error of
`NewBlockChain`; the `SetHead` of a running chain returns that error to its caller and
the node runs on). Each inserter has its own control `ipc`, one value per read
or write of `insertChain`, `writeBlockWithState` and `insert`.

A block is identified with its hash. Transactions are not executed by this
code: `insertChain` opens the state at the block's own root and commits it
unchanged, so a state root is a name that is on disk or is not. `EmptyRoots` are the
roots that `trie.New` opens without the disk. The commit of a state may fail, which
ends the insert with the block stored, and so may the batch of `SetHead`, which
nobody notices. `StateLoss`
lets a root disappear while the node is down, which is the situation `repair`
is written for. `Rewind` lets `SetHead` be called on a running chain, as the
exported API allows, while no insert is under way (`InsertChain` does not take
`chainmu`, so this is left to the caller); inside the repository only `Reset`
calls it.

### Downloader

A sync is one goroutine of `pm.synchronise`, a fetch the goroutine that its
`spawnSync` starts, a handler the goroutine of one peer. `cancelCh` is the
field; `fch` and `hch` are the channels that a select waits on and that
`deliver` has read. A channel is a number, 0 is nil; numbers
that nobody can see any more are used again. Requests are a bag: each is sent by
its own goroutine, so they may overtake each other, and equal ones may be open
at once. `blockCh` holds one packet. The number of a block stands for the block
(all peers have one chain), and `InsertChain` is reduced to the steps that other
goroutines can observe: the read of the canonical hash, its write, the two
heads. `BlockChain` has the rest. With `Lossy`, a request may vanish (the
goroutine that sends it drops the error, and a peer need not answer).

Left out because no execution reaches it: the queue of future blocks
(`sortedBlocks` has value receivers and stays empty), the branches for packets
without items, the request timer (no select reads it), `UnregisterPeer` and
`removePeer` (called for errors that nothing returns).

### NodeLifecycle

A caller is a goroutine that makes one call at a time. The RWMutex is modelled
as Go implements it: a writer that waits keeps new readers out. The n-th
`Start` makes the n-th server and the n-th stop channel. A service may fail to
start or to stop, a constructor may fail. `live` is the set of servers whose host
is open, also those that a failed `Start` leaves behind.

### Peering

`table` is `Server.Peers`, `pmPeers` and `dlPeers` are the other two tables.
Conns are p2p streams, handlers are proton streams; either may be opened by
either side and may break at any point. Every access to an unlocked map is one
step; the abort of the Go runtime on concurrent map writes is not modelled.

### PeerConn

Both ends of one stream, each with `run`, `readLoop`, `pingLoop` and the
goroutines that send pongs. `stream.Close` closes the writing side only (that is
libp2p's contract), so an end that has closed still reads until the other closes
as well. `WriteMsg` ignores the error of `Flush`; `bufio.Writer` keeps it and
the next write returns it. `wmuHeld` is the state in which `Close` waits for the
lock it holds. `Foreign` are messages that this code handles and never sends.
Each end has its own list of protocols; `matchProtocols` compares every
capability of the remote with the first local protocol only, as its misplaced
`continue outer` does, and the number of matches sizes `protoErr`.

### Trie and TrieEncoding

A node is a record (`shortNode`, `fullNode`, `valueNode`, `hashNode`) with its
flags. A hash is the encoded node itself, so equal hashes are equal contents and
a hash can be looked up in `db`, the set of hashes stored so far. Encoded keys are
the compact ones: a node that is reloaded has gone through `hexToCompact` and
`compactToHex`. Small nodes are embedded in their parents, as `hasher.store`
does for encodings below 32 bytes. `Canonical` is the reference: the encoded trie
of a content, built from its keys at once without any insertion.

### TrieDatabase

`TrieCache` has the operations on the cache as operators from one cache to the
next: `insert`, `reference`, the first half of `dereference` (`release`), the two
places that take a node out of the flush-list (`unlink`), `cleaner.Put`
(`uncache`), and `Size`. An entry has its counter of parents, its external
children and its links; the hashes inside a node are a constant (`Kids`), and so
is the `Height` below a hash, which exists because no hash is inside what it is
the hash of. `dirtiesSize` and `childrenSize` are kept as their sum, which is what
`Size` and `Cap` read. `insert` truncates the length of a blob (`BlobSize`) to a uint16 and adds
`HashLength` to it in a uint16, the paths that remove a node subtract both as ints
(`NodeSize`); `Width` is 2^16, and the history field `wraps` counts the sums that
overflowed.

In `TrieDatabase`, `mem` is the cache, `disk` the store. Every loop takes one step
per turn, and the recursion of `dereference` and `commit` one step per call:
`stack` holds the calls in progress, each with the children it has still to turn
to (the external ones in any order, as a Go map has them). A batch that is
full is written before the loop goes on; a batch write may fail, and the process
may crash at any point. A reader does `Node` in two steps, the look into the cache
and the read of the disk, since the lock is released in between. The clean cache
is left out: it holds copies of what the disk has. `Below`, what a root
holds, is the least set that is closed under children.

### StateDB

`stateObjects` with their dirty, pending and origin storage, `code`, data and
trie; the journal; the pending and dirty sets; the state trie; what the node
database has. A trie is a function here: that the trie is one is the subject of
`Trie`. `AccountState` is a map of accounts with operations that change,
undo, drop empty accounts, commit and reopen; `IsAccountState` maps a `StateDB`
to it by what its getters return. The undoing is `journal.revert`, which is complete
but has no caller in the repository yet.

### Feed

A subscription has its channel (two may share one). `Send` is a goroutine with
its control, its active prefix of `sendCases` and the lock; an `Unsubscribe` is in
one of the stages of `remove`. Readers take from their channels, or stop reading.
`expected`, `reachable` and `copies` only record what a send owes and has done.
Channels are buffered (`ChanCap`); a value that is in the buffer is delivered.

### Ledger

The canonical blocks are a set that grows by blocks whose parent is in it, and
the head moves inside the set. `BlockChain` implements it with its single writes
and its crashes, `Downloader` with its overlapping fetches; so the reduced
`InsertChain` of `Downloader` and the full one keep the same promise.

## What the runs show

Properties that hold:

| run | instance | shows |
|---|---|---|
| `chain_concurrent_insert` | 2 inserters, 4 blocks of one chain, the last with a root this node does not have | every block up to the head on disk is canonical and stored, and an initialised database opens, wherever the process stops; the chain implements `Ledger` |
| `chain_rewind` | 1 inserter, `SetHead`, lost states | the head on disk, the canonical chain and the header stay readable through `SetHead`, the state of the current block can be opened unless `SetHead` fell back to a genesis block without one, `SetHead` ends, and a running node moves its stored head to a child only |
| `sync_alone` | 1 sync, peers at 3 and 4, requests of 2 | the chain catches up although one fetch stops a block short; nothing is left over between syncs |
| `sync_overlap` | 2 syncs, peers at 1 and 4, requests of 1, some lost | both heads stay canonical, and the download implements `Ledger`: the canonical chain grows by its next block only |
| `node_api` | 3 callers, 3 starts, 1 service | no close of a nil or closed channel; the node in `n.server` can be stopped; every call returns unless a `Wait` sits in the lock on a running node |
| `peering` | 2 remotes, 2 conns, 2 handlers | no dead entry, one handler per remote, manager and downloader agree |
| `conn_ends` | ends with different protocol lists that may disconnect, an unknown and a disconnect message | errors have room; both ends come to an end, unless one closes for a `DiscReason` |
| `trie` | 4 keys of nibbles in base 4, one a prefix of another, small and large values | reads return the content, the root hash depends on the content alone, every hash a clean node stands for is in the database, and the proof of every key verifies with what the trie holds |
| `trie_database` | 4 nodes of two tries that share a subtrie, one of them larger than a size field, batches of 2 | live nodes are readable, also by a reader in mid-`Commit`; the disk is closed under children at any crash; list and counts are exact, and the size but for sums that overflow; a finished `Commit` is durable and `Cap` meets its limit |
| `statedb` | 1 account, 1 storage slot, 4 changes | a `StateDB` implements a map of accounts; the state trie agrees with the objects; a commit has everything a reopening needs |
| `feed` | 3 subscriptions, two on one channel, repeated sends | a value reaches each subscription once, none after `Unsubscribe`; `Unsubscribe` always returns; `Send` returns if subscribers read |

A statement of the repository that the code does not keep (the run finds the
counterexample; `findings` in `PROJECT.json` quotes the line):

| run | what happens |
|---|---|
| `sync_after_crash` | with the header one behind, no block is ever inserted again |

Four further deviations are part of the models as the code has them, and the
properties above are stated around them:

* `init` stops between the canonical hash of block 0 and `LastBlock`: every later
  start goes from `loadLastState` to `Reset` to `SetHead` and back, with `chainmu`
  held, and blocks (`pc = "hung"`), while `init` refuses to run again.
  `OpensOnceInitialised` says that a database with a `LastBlock` never does this.
* `Wait` keeps the read lock while it waits for the channel that `Stop` closes
  under the write lock, although the comment at `node/node.go:139` says that `Stop`
  notifies `Wait`. `CallsReturn` excepts just this state (`Blocked`).
* A handler that ends leaves its remote in `pm.peers` and in the downloader, so
  `Protocol.Run` takes every later stream of that remote for an existing
  connection (`CheckPeer` in `Peering`). `ManagerAgreesWithDownloader` holds with
  the entry left behind.
* After a `discMsg`, `Close` takes `wmu` and `SendItems` takes it again
  (`run[e] = "stuck"`); `BothRunsEnd` excepts ends that close for a `DiscReason`.

The models also contain the following, as the code has it, and no property
claims otherwise:

* `repair` reads the parent into a local variable and never moves `*head`, so it
  loops once the state of a head above genesis is gone (`Repair`);
* `updateFn` of `SetHead` falls back to the genesis block without trying its state, so
  a node can run on a genesis block whose state is lost until the next start reports
  it; `CurrentStateOpens` says that no other block can be current without its state;
* the size of a blob of 65504 bytes or more overflows in `insert`, and the
  size that `Size` reports and `Cap` acts on is then 2^16 too small for the life of the
  database; `SizeIsTotal` says that it is off by this and by nothing else;
* `InsertChain` compares the blocks of a batch with each other, and the first
  one with nothing: peers with different chains can be put on top of each other;
* a stop between `LastBlock` and `LastHeader` leaves `CurrentHeader` one behind
  `CurrentBlock` after the restart, which is where `sync_after_crash` begins;
* a fetch returns nil one block short when its last request would be for one
  block (`from < end` in `Advance`); the next tick fetches it;
* two overlapping syncs share `d.cancelCh`: the `Cancel` of one can end the
  download of the other and leave its own channel open (`Cancel`);
* with no common protocol `protoErr` has one slot for the two senders `readLoop`
  and `pingLoop`; `ErrorsHaveRoom` is about ends that run a protocol;
* `cleaner.Put` takes the size of the children map from `dirtiesSize` instead of
  `childrenSize`; the swap cancels out in the sum that `Size` and `Cap` use, and shows
  in the log lines that print `dirtiesSize` alone;
* a node that is on disk already and is inserted again may have a wrong counter,
  as the comment in `dereference` says; `CountsAreExact` is about the others;
* an account with storage and no balance, nonce or code is empty to `Finalise(true)`
  and dropped with its storage.

### Bounds

* Blocks: one chain of three blocks above genesis gives batches that overlap,
  that start too low, at and above the head, that are not contiguous
  (`InsertChain` ends the process), whose state is missing, and one with an empty state.
* `Syncs`, `Peers` = 2: the second sync is the one that replaces the channel and
  takes foreign packets. With one sync, heads at 3 and 4 and requests of two
  blocks make a fetch stop one block short. With two syncs, requests of one block
  and a head at 4, a reply can be two blocks ahead of the chain, which is what a
  gap takes.
* `MaxOutstanding` = 2: no new sync starts while two requests are open. Without a
  bound the bag of requests is unbounded, as in the code.
* `Chans`: `ChanAssumption` says how many are enough for a fresh one to exist in
  every state. It is a bound on names, not on behaviours.
* `MaxStarts` = 3, `MaxServices` = 1: a start over a running node, one that fails,
  and one after a stop.
* `Conns`, `Handlers` = 2 for two remotes: two streams to one remote, or one to
  each. The theorems have no such bounds.
* `MaxInFlight` = 1 message in each direction and one pending pong.
* Trie keys: four keys give every split and fold of `insert` and `delete`: at the
  root, below a short node, at the terminator, and with an embedded child.
  `MaxCommits` = 2: a change over a committed trie that is opened again, and a
  commit over nodes stored before. Between commits histories are not bounded.
* `TrieDatabase`: two roots over a shared branch, `MaxRefs` = 1 reference per root,
  `IdealBatchSize` = 2 so that a commit needs several batches, limits below and
  above what is cached. `Width` = 4 and `HashLength` = 1: one node whose sum with
  `HashLength` overflows, one whose length is truncated, two that fit. `MaxWraps` = 1
  overflow, after which the size stays too small; the theorem has any number of them.
* `StateDB`: `MaxChanges` = 4 calls that change an account, with any number of
  finalisations, roots, commits and reopenings between them: create, change,
  drop, create again. One account suffices for the layers; accounts share
  nothing but the journal. Two accounts pass with three changes (121,920 states).
* `Feed`: three subscriptions, so that a removal can come before, at and after the
  case the send is at.

Symmetry is used for syncs, remotes, conns and handlers, in runs of safety
properties only.

Deadlock checking is off where the system may stop: when no peer is ahead of the
node, when the bound on starts is reached, and when a connection has ended.

### Fairness

Weak fairness of every step of a goroutine that can go on, since the Go
scheduler is fair to runnable goroutines. For `Downloader` also of the ticker
and of the remote peer: `CatchesUp` says nothing about peers that do not answer,
and the code has no timeout for them. For `NodeLifecycle` strong fairness of the
lock: Go's mutex hands over to a waiter that has waited too long, so nobody
waits for ever for a lock that is free again and again. For `Feed` likewise
strong fairness of taking `sendLock` and of the select in `remove`, since waiters
of a channel are served in order. No fairness for calls, crashes, broken
streams, disconnects, unsubscriptions, or the start of commands.

## What is proved

TLAPS checks every theorem to the last leaf.

| theorem | statement | hypotheses |
|---|---|---|
| `BlockChainProofs!TypeCorrect` | `[]TypeOK` | |
| `BlockChainProofs!StoredHead` | `[]HeadIsStored` | no `SetHead` on a running chain |
| `BlockChainProofs!CanonicalChain` | `[]CanonicalChainIsComplete` | the same, and one chain (`SingleChain`) |
| `BlockChainProofs!InitialisedChainOpens` | `[]OpensOnceInitialised` | the same |
| `BlockChainProofs!ChainIsLedger` | `IsLedger` | the same |
| `BlockChainProofs!CanonicalHeader` | `[]HeaderIsCanonical` | the same |
| `BlockChainProofs!CurrentStateKnown` | `[]CurrentStateOpens` | |
| `BlockChainProofs!HeadGrows` | `HeadOnlyGrows` | one inserter, one chain; `SetHead` allowed |
| `BlockChainProofs!RewoundHeadStored` | `[]HeadIsStored` | the same |
| `BlockChainProofs!RewoundChain` | `[]CanonicalChainIsComplete` | the same |
| `BlockChainProofs!RewoundHeader` | `[]HeaderIsCanonical` | the same |
| `DownloaderProofs!TypeCorrect` | `[]TypeOK` | |
| `DownloaderProofs!CanonicalHeads` | `[]HeadsAreCanonical` | |
| `DownloaderProofs!NoGapsOpen` | `NoGaps` | |
| `DownloaderProofs!DownloadIsLedger` | `IsLedger` | |
| `DownloaderProofs!NothingLeft` | `[]NothingLeftOver` | one sync at a time, heads equal at the start |
| `TrieDatabaseProofs!DiskClosed` | `[]DiskIsClosed` | |
| `TrieDatabaseProofs!LiveNodesReadable` | `[]LiveIsReadable` | |
| `TrieDatabaseProofs!ReaderSucceeds` | `[]ReaderFindsNode` | |
| `TrieDatabaseProofs!FlushListWhole` | `[]FlushListIsWhole` | |
| `TrieDatabaseProofs!CountersExact` | `[]CountsAreExact` | |
| `TrieDatabaseProofs!CommitDurable` | `CommitIsDurable` | |
| `TrieDatabaseSizes!SizeTotal` | `[]SizeIsTotal` | |
| `TrieDatabaseSizes!CapLimit` | `CapMeetsLimit` | |
| `StateDBProofs!StateInvariant` | `[]StateInv`, the inductive invariant | |
| `StateDBProofs!TrieCurrent` | `[]TrieIsCurrent` | |
| `StateDBProofs!CommittedComplete` | `[]CommittedIsComplete` | |
| `StateDBProofs!StateDBIsAccountState` | `IsAccountState` | |
| `NodeProofs!LifeTypeCorrect` | `[]NodeTypeOK` | |
| `NodeProofs!StopNeverPanics` | `[]NoPanic` | |
| `NodeProofs!RunningNodeIsStoppable` | `[]RunningIsStoppable` | |
| `NodeProofs!RoomForErrors` | `[]ErrorsHaveRoom` | |
| `NodeProofs!PeersTypeCorrect` | `[]PeeringTypeOK` | |
| `NodeProofs!EntriesAreLive` | `[]NoStaleEntry` | |
| `NodeProofs!SingleHandler` | `[]OneHandlerPerRemote` | |
| `NodeProofs!TablesAgree` | `[]ManagerAgreesWithDownloader` | |
| `FeedProofs!CasesCorrect` | `[]CasesAreSubscriptions` | |
| `FeedProofs!DeliveryCorrect` | `[]DeliveredOnce` | |

The assumptions on the constants are the named `ASSUME`s of the modules. A leaf that
needs no arithmetic cites `Zenon`, which keeps the larger modules quick to check; what
arithmetic such a leaf rests on is a step or a small lemma of its own.

*BlockChain.* `HeadIsStored` is not inductive: `WriteHeadBlockHash` keeps it only
because the block was stored by the steps before. `StoreInv` adds what each
control state of `init` and of an inserter has stored by then (`ProgressInv`),
and that without `SetHead` nothing is deleted. For the canonical chain,
`ChainInv` adds that every canonical block is stored with a canonical parent
(`CanonStore`) and that the next block of every inserter is at most one above
the canonical chain (`InserterOnCanon`). The latter is what makes the lack of a
lock harmless on one chain: the test against the head is made before the
writes, the head may move meanwhile, but canonical hashes are never taken back.
With two chains the property is false, since nothing compares a batch with the
block below it; hence `SingleChain`.

*Downloader.* `Inv` adds to the types that a sync knows
its peer, that the field `cancelCh` is not nil once a sync has begun, that the first request of a fetch
is not negative, and that the block inside `InsertChain` is at most one above
`top` before its hash is written and at most `top` after. Types need two facts
about data: the bag stays a bag (`BagAdd`, `BagRemove`), and a fresh channel
exists, which is a count of the finite sets of channels in use
(`FreshChanExists`).

*NodeLifecycle.* `LockInv`: whoever is in the middle of `Start` or `Stop` owns the
lock; in `Start` the new server is open and its channel is not closed, in `Stop`
`n.server` is nil already and the channel still open.

*Peering.* `OneHandlerPerRemote` needs that a handler in its loop has registered
its remote (`LoopIsRegistered`); the locked test of `peerSet.Register` does the
rest. `NoStaleEntry` is inductive once open streams are known to have a remote.

*Chain head.* That the chain implements `Ledger` follows from `ChainInv`: the one
step that adds a canonical hash adds a block with a canonical parent, and the
steps that move `LastBlock` name a block whose hash was written before. The
header needs its own invariant: the header in memory and the block of every
inserter past its canonical write are on the chain, and canonical hashes stay.
`CurrentStateOpens` needs none of the hypotheses. A running node deletes no state, and
`loadLastState`, `updateFn` and `insertChain` try a state before its block
becomes current; what is left is the genesis block of `updateFn`. `StateInv` follows it
through the rest of `SetHead`: a current block without its state is the genesis block,
and `LastBlock` names it unless an insert is under way.

*SetHead on a running chain.* With `SetHead` the invariants above fail: the batch of
`HeaderChain.SetHead` leaves canonical hashes above the new head, with gaps under them,
and the next inserts overwrite them one by one. `RewindInv` therefore says nothing about
hashes above the heads; it says that every number up to `LastBlock`, `LastHeader` and
`CurrentHeader` has a canonical block with a header (`Below`), and that the batch of a
`SetHead` in progress is above all three (`SetHeadInv`). `HeadGrows` needs that the
block of the inserter is the child of the head until `LastBlock` is written
(`GrowInv`). Both need `OneInserter`: two goroutines that insert can each pass the test
against the head, and the later one then takes `LastBlock` back; with a `SetHead` in
between it may even name a block whose header the batch has deleted. TLC finds both.

*One sync at a time.* `NothingLeftOver` is not inductive: `AloneInv` adds that only a
fetcher in its `select` has anything open, that this is one thing (a request, an answer
inside `deliver`, or the packet in `blockCh`) for the blocks the fetcher waits for
(`WireInv`), that nobody closes the channel of a sync that fetches (`ChanInv`), and where
the heads are at each step of `insert` (`HeadInv`). Lost requests need no
hypothesis: the fetcher then waits forever and the sync does not return. With two
syncs the property is false, as the shared fields `cancelCh` and `blockCh` suggest.

*PeerConn.* The errors in `protoErr` and the goroutines of an end that still have
one to send are at most two (`readLoop` and `pingLoop`), and an end that runs a
protocol has two slots.

*TrieDatabase.* `CacheInv` is about a cache `m`, for any stack of calls of
`dereference` in progress, any contents `d` of the disk and any set of
references that `insert` has not recorded yet (`Hole`). It says that

* the counter of an entry that is not on disk is the number of hashes inside
  cached nodes, external children and root references that name it, without
  those the calls in progress have already released (`Counts`);
* an entry has exactly the external children that it should (`Recorded`);
* an entry whose call is in progress has counter 0, is out of the flush-list,
  and the calls go strictly down in `Height`, so no node is collected twice
  (`Dying`);
* the other entries are linked in the order of some positions `pos`, and a node
  comes after its children or they are on disk (`Linked`, `ChildFirst`).

The last point is why `Cap` may write a prefix of the list at any time, and it is
preserved by a collection only because the counters are exact: a node with
counter 0 has no parent in the list. The positions are a witness of the proof
and no part of the model. `TrieCacheProofs` shows that every
operation preserves `CacheInv`; counting is reduced to a few lemmas on
cardinalities. `Inv` adds where the mutator is: what `Cap` has passed
is saved (`CapInv`), disk and batch together are closed under children (`DiskInv`),
each call of `commit` has saved its children up to the one it is at (`CommitInv`),
preimages are written before nodes (`PreimageInv`), a trie is stored bottom up
(`StoreInv`), and a node that a reader missed in the cache is on disk for good
(`ReaderInv`). `LiveIsReadable` and `CommitIsDurable` follow since the available nodes,
and the disk, are closed under children and `Below` is the least such set.
`FlushListIsWhole` also says that the list leaves no entry out: of the entries outside a set
that holds `oldest` and is closed under `flushNext`, the one with the least position would
have its predecessor in the set (`ListReached`).

*Sizes.* `Sized` compares the size field with the number of bytes of all entries,
a set (`Bytes`), so that a sum over entries is a cardinality, and adds what the overflows
have lost (`Lost`): only `insert` changes it, by as much as its sum falls short. In `Cap` the running
size is that of the entries from `walk.next` on (`Before`); when the walk ends, they
are what is left in the cache.

*StateDB.* `StateInv` is about the whole trail of states that the journal leads back to
(`Trail`), not only about the present one: in each of them every object is coherent
(`Good`: its storage trie is at the root its account has, what it cached is what that
trie has, only keys that were read are written, a code that is not in the database is
at hand), every object that nothing has changed reads as the state trie has it
(`Clean`), and the entry below can be reverted (`Legal`). What makes it
inductive is that reads also create and fill objects, without a journal entry, so that
reverting does not restore the objects that were there: `Like` and `Covers` say that an
object with more keys read, and a map with more objects read, stand for the old ones,
and `BackCovers` that reverting keeps this. So a setter appends one state to the
trail (`KeptPushed`), `journal.revert` cuts it (`KeptCut`), and a read leaves what a
caller sees in all of them as it was (`KeptCovered`). `Finalise`, `IntermediateRoot`
and `Commit` empty the journal; they are reduced to what they do to views (`Finalised`,
`Rooted`, `CommitOf`). The refinement then maps the accounts to the views and the undo
list to the views along the trail.

*Feed.* `CasesAreSubscriptions` is not inductive: a `Send` and a `remove` that both
changed `sendCases` could take a case from each other. `TokenInv` says
that `sendLock` has one owner, `CountInv` that a channel has as many cases as live
subscriptions and that the subscriptions no longer looked for in the inbox have
theirs in `sendCases`. For `DeliveredOnce`, `Serves` says of the `Send` in progress
that the cases behind the active prefix have had the value and that copies and
active cases together are no more than the subscriptions it began with.
Every step moves or removes one case of a list, and lemmas such as `CountMoved` and
`CountSplit` say what that does to the number of cases of a channel.
That `find` returns a case when there is one needs a least index (`Least`), from the
well-foundedness of the natural numbers. `StateDBProofs` uses the same lemma for its
inductions over the journal, down to the existence and the uniqueness of the recursive
function `undone`.

The invariants of `TrieDatabase`, `Feed` and `StateDB`, and `AloneInv`, were model-checked
on the instances of the runs before they were proved. The type invariants, `StateInv`,
and `NoGaps` (which `IsLedger` of `Downloader` implies), are proved and not part of a run.
With `SetHead` on a running chain, `HeadIsStored` and `HeaderIsCanonical` are
model-checked for the instances of the runs and proved for one inserter and one chain.

Only model-checked: all liveness (`CatchesUp`, `SetHeadCompletes`, `CallsReturn`,
`BothRunsEnd`, `UnsubscribeReturns`, `SendReturns`), which TLAPS does not do; and the
module `Trie` (`GetIsContent`, `RootIsCanonical`, `CleanIsStored`, `ProofsVerify`), which
is built from recursive operators over nodes that the proof system cannot handle.

## What is not modelled

* The last part of `ResetWithGenesisBlock`, after a call that does not return.
* Failing writes of the chain accessors (they panic) and a store that loses a
  suffix of what was written. Failing batches are modelled, in `SetHead` and in
  `TrieDatabase`.
* The abort of Go on concurrent map access, and the panic on reuse of a
  `WaitGroup` by a third sync.
* Encodings: keys of the store, RLP, messages. The compact keys of the trie are
  modelled. Hashes do not collide.
* libp2p: discovery, transport and host. A stream opens, carries messages in
  order, closes by halves, or breaks.
* Code that nothing in the program calls: trie sync and its bloom filter, trie
  iterators, `TypeMux`, `NewSubscription`, `Resubscribe`, `SubscriptionScope`, the
  priority queues and the simulated clock. State sync, their natural caller, is
  a stub.
* The future-block queue, which stays empty as described under Downloader.
* `rlp`, driven by reflection over Go types, and the pure conversions of `common`.
* `SecureTrie`, which hashes keys before it calls the trie.
* `proton/crypto`: curves and hashes are arithmetic out of TLC's reach, and
  `secp256k1` is a vendored C library.
* `log`, generated code, test helpers, configuration parsing.
* The composition of `StateDB`, `Trie` and `TrieDatabase` in one instance: each is
  checked against the promise the next one relies on (a trie is a map; a stored
  node has its children), and the product is too large for TLC.

## Where to go on

1. Trie sync, once state sync calls it: dependencies and commit order of the
   requests, and a crash between commits.
2. `SubscriptionScope` and `Resubscribe`, once the program subscribes to its feeds.
3. `Trie` with recursive functions in place of recursive operators, for proofs that a trie
   is a map of its keys.
