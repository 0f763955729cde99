----------------------------- MODULE BlockChain -----------------------------
(***************************************************************************)
(* The persistent chain of a node: proton/core/blockchain.go,              *)
(* headerchain.go, genesis.go and rawdb/accessors_chain.go.                *)
(*                                                                         *)
(* Every Put and every batch.Write on the key-value store is one step, and *)
(* the process may stop between any two of them.  The store keeps a prefix *)
(* of the writes, so the disk variables survive and the rest is lost.      *)
(* A block is identified with its hash (hashes do not collide), so         *)
(* the headerNumber index is a set of blocks.  Blocks carry no executed    *)
(* transactions: insertChain opens the state at the block's root and       *)
(* commits it unchanged, so a root is a name that is on disk or is not.    *)
(***************************************************************************)
EXTENDS Integers, Sequences

CONSTANTS
    Blocks,      \* the blocks any peer may send, and the genesis block
    Genesis,     \* the block Genesis.ToBlock builds
    NoHash,      \* common.Hash{}: a key that is absent from the store
    Number,      \* Header.Number of every block
    Parent,      \* Header.ParentHash of every block
    Root,        \* Header.Root of every block
    EmptyRoots,  \* common.Hash{} and emptyRoot, which trie.New opens without reading the disk
    Batches,     \* the batches of blocks a peer may deliver
    Inserters,   \* goroutines that call InsertChain (one per running fetch)
    Rewind,      \* TRUE when SetHead is also called on a running chain with no insert under way
    StateLoss    \* TRUE when the disk may lose a state root while the node is down

ASSUME BlockAssumption ==
    /\ Genesis \in Blocks
    /\ NoHash \notin Blocks
    /\ Number \in [Blocks -> Nat]
    /\ Parent \in [Blocks -> Blocks \cup {NoHash}]
    /\ Number[Genesis] = 0
    /\ Parent[Genesis] = NoHash
    /\ Batches \subseteq Seq(Blocks) \ {<<>>}
    /\ Rewind \in BOOLEAN /\ StateLoss \in BOOLEAN

VARIABLES
    \* on disk
    body,           \* blocks with a body record
    hashNumber,     \* blocks with a hash -> number record
    header,         \* blocks with a header record
    canon,          \* number -> canonical hash
    headBlock,      \* LastBlock
    headHeader,     \* LastHeader
    states,         \* state roots whose tries are stored
    \* in memory
    currentBlock, currentHeader,
    chainmu,        \* TRUE while SetHead holds chainmu
    pc,             \* what the process is doing
    target,         \* the argument of the SetHead in progress
    batch,          \* the blocks the batch of that SetHead deletes
    ipc,            \* what each inserter is about to do
    chain,          \* the blocks each inserter still has to write
    updateHeads     \* the local variable of BlockChain.insert

disk == <<body, hashNumber, header, canon, headBlock, headHeader, states>>
inserts == <<ipc, chain, updateHeads>>
rewinding == <<chainmu, target, batch>>
vars == <<disk, currentBlock, currentHeader, rewinding, pc, inserts>>

Numbers == {Number[b] : b \in Blocks}
Hashes == Blocks \cup {NoHash}

GenesisPC == {"gState", "gBody", "gNumber", "gHeader", "gCanon", "gHead", "gHeadHeader"}
PC == GenesisPC \cup {"down", "load", "repair", "setHead", "setHeadHeader", "up", "hung", "failed"}
InsertPC == {"idle", "state", "body", "number", "header", "commit", "read", "canon",
             "head", "store", "headHeader", "storeHeader"}

-----------------------------------------------------------------------------
(* Reads of the store *)

\* HeaderChain.GetHeader(hash, number): the record's key holds both.
GetHeader(h, n) == h \in header /\ Number[h] = n

\* HeaderChain.GetHeaderByHash
GetHeaderByHash(h) == h \in hashNumber /\ GetHeader(h, Number[h])

\* rawdb.ReadBlock: header and body
GetBlock(h, n) == GetHeader(h, n) /\ h \in body

\* BlockChain.GetBlockByHash
GetBlockByHash(h) == h \in hashNumber /\ GetBlock(h, Number[h])

\* state.New succeeds: the trie is empty, or its root node can be resolved.
StateAt(b) == Root[b] \in states \cup EmptyRoots

Idle == \A t \in Inserters : ipc[t] = "idle"

Init ==
    /\ body = {} /\ hashNumber = {} /\ header = {} /\ states = {}
    /\ canon = [n \in Numbers |-> NoHash]
    /\ headBlock = NoHash /\ headHeader = NoHash
    /\ currentBlock = NoHash /\ currentHeader = NoHash
    /\ chainmu = FALSE /\ target = 0 /\ batch = {}
    /\ pc = "down"
    /\ ipc = [t \in Inserters |-> "idle"]
    /\ chain = [t \in Inserters |-> <<>>]
    /\ updateHeads = [t \in Inserters |-> FALSE]

-----------------------------------------------------------------------------
(* The process ends: a crash, a kill, a panic or log.Fatalf. *)

Exit ==
    /\ pc' = "down"
    /\ currentBlock' = NoHash /\ currentHeader' = NoHash
    /\ chainmu' = FALSE /\ target' = 0 /\ batch' = {}
    /\ ipc' = [t \in Inserters |-> "idle"]
    /\ chain' = [t \in Inserters |-> <<>>]
    /\ updateHeads' = [t \in Inserters |-> FALSE]
    /\ UNCHANGED disk

Crash == pc # "down" /\ Exit

\* The damage loadLastState's "Head state missing" branch is written for.
LoseState(r) ==
    /\ StateLoss /\ pc = "down" /\ r \in states
    /\ states' = states \ {r}
    /\ UNCHANGED <<body, hashNumber, header, canon, headBlock, headHeader,
                   currentBlock, currentHeader, rewinding, pc, inserts>>

-----------------------------------------------------------------------------
(* The init command: SetupGenesisBlock and Genesis.Commit *)

SetupGenesisBlock ==
    /\ pc = "down" /\ canon[0] = NoHash
    /\ pc' = "gState"
    /\ UNCHANGED <<disk, currentBlock, currentHeader, rewinding, inserts>>

\* ToBlock drops the errors of both Commit calls, so the state may be missing.
ToBlock ==
    /\ pc = "gState"
    /\ states' \in {states, states \cup ({Root[Genesis]} \ EmptyRoots)}
    /\ pc' = "gBody"
    /\ UNCHANGED <<body, hashNumber, header, canon, headBlock, headHeader>>

\* Mutant: LastBlock before the canonical hash.
CommitGenesisHeadFirst ==
    /\ \/ /\ pc = "gBody" /\ pc' = "gHeader"
          /\ body' = body \cup {Genesis} /\ hashNumber' = hashNumber \cup {Genesis}
          /\ UNCHANGED <<header, canon, headBlock, headHeader>>
       \/ /\ pc = "gHeader" /\ pc' = "gHead"
          /\ header' = header \cup {Genesis}
          /\ UNCHANGED <<body, hashNumber, canon, headBlock, headHeader>>
       \/ /\ pc = "gHead" /\ pc' = "gCanon"
          /\ headBlock' = Genesis
          /\ UNCHANGED <<body, hashNumber, header, canon, headHeader>>
       \/ /\ pc = "gCanon" /\ pc' = "down"
          /\ canon' = [canon EXCEPT ![0] = Genesis] /\ headHeader' = Genesis
          /\ UNCHANGED <<body, hashNumber, header, headBlock>>
    /\ UNCHANGED states

\* The writes of Genesis.Commit, in order.
CommitGenesis ==
    /\ \/ /\ pc = "gBody" /\ pc' = "gNumber"
          /\ body' = body \cup {Genesis}
          /\ UNCHANGED <<hashNumber, header, canon, headBlock, headHeader>>
       \/ /\ pc = "gNumber" /\ pc' = "gHeader"
          /\ hashNumber' = hashNumber \cup {Genesis}
          /\ UNCHANGED <<body, header, canon, headBlock, headHeader>>
       \/ /\ pc = "gHeader" /\ pc' = "gCanon"
          /\ header' = header \cup {Genesis}
          /\ UNCHANGED <<body, hashNumber, canon, headBlock, headHeader>>
       \/ /\ pc = "gCanon" /\ pc' = "gHead"
          /\ canon' = [canon EXCEPT ![0] = Genesis]
          /\ UNCHANGED <<body, hashNumber, header, headBlock, headHeader>>
       \/ /\ pc = "gHead" /\ pc' = "gHeadHeader"
          /\ headBlock' = Genesis
          /\ UNCHANGED <<body, hashNumber, header, canon, headHeader>>
       \/ /\ pc = "gHeadHeader" /\ pc' = "down"
          /\ headHeader' = Genesis
          /\ UNCHANGED <<body, hashNumber, header, canon, headBlock>>
    /\ UNCHANGED states

GenesisStep ==
    /\ ToBlock \/ CommitGenesis
    /\ UNCHANGED <<currentBlock, currentHeader, rewinding, inserts>>

-----------------------------------------------------------------------------
(* Start: NewBlockChain, NewHeaderChain, loadLastState, repair *)

\* A nil currentBlock, the header chain on the head block if its header is there.
NewBlockChain ==
    /\ pc = "down"
    /\ IF canon[0] # NoHash /\ GetBlock(canon[0], 0)
       THEN /\ pc' = "load"
            /\ currentHeader' = IF GetHeaderByHash(headBlock) THEN headBlock ELSE canon[0]
       ELSE /\ pc' = "failed"
            /\ UNCHANGED currentHeader
    /\ UNCHANGED <<disk, currentBlock, rewinding, inserts>>

\* A head that cannot be read: Reset, whose SetHead(0) takes chainmu.  Inside
\* SetHead the mutex is held already and Go mutexes are not reentrant.
Reset ==
    /\ IF chainmu
       THEN pc' = "hung" /\ UNCHANGED rewinding
       ELSE /\ pc' = "setHead"
            /\ chainmu' = TRUE /\ target' = 0 /\ batch' = {}
    /\ UNCHANGED <<disk, currentBlock, currentHeader>>

\* NewBlockChain, or the SetHead of a running chain, returns to its caller.
Return == pc' = "up" /\ chainmu' = FALSE /\ target' = 0 /\ batch' = {}

\* Mutant: the state of the head block is not tried.
LoadLastStateUnchecked ==
    /\ pc = "load"
    /\ IF ~GetBlockByHash(headBlock)
       THEN Reset
       ELSE /\ currentBlock' = headBlock
            /\ currentHeader' = IF GetHeaderByHash(headHeader) THEN headHeader ELSE headBlock
            /\ headHeader' = currentHeader'
            /\ Return
            /\ UNCHANGED <<body, hashNumber, header, canon, headBlock, states>>
    /\ UNCHANGED inserts

LoadLastState ==
    /\ pc = "load"
    /\ IF ~GetBlockByHash(headBlock)
       THEN Reset
       ELSE IF ~StateAt(headBlock)
       THEN /\ pc' = "repair"
            /\ UNCHANGED <<disk, currentBlock, currentHeader, rewinding>>
       ELSE /\ currentBlock' = headBlock
            /\ currentHeader' = IF GetHeaderByHash(headHeader) THEN headHeader ELSE headBlock
            /\ headHeader' = currentHeader'
            /\ Return
            /\ UNCHANGED <<body, hashNumber, header, canon, headBlock, states>>
    /\ UNCHANGED inserts

\* One iteration of the loop of repair: it looks the parent up and never moves
\* *head to it, so it either gives up or comes back to the same state.  The error
\* ends NewBlockChain, whose currentBlock is nil; SetHead only returns it, and the
\* node runs on with what updateFn has stored.
Repair ==
    /\ pc = "repair"
    /\ IF GetBlock(Parent[headBlock], Number[headBlock] - 1)
       THEN UNCHANGED <<pc, rewinding>>
       ELSE IF currentBlock = NoHash
       THEN pc' = "failed" /\ UNCHANGED rewinding
       ELSE Return
    /\ UNCHANGED <<disk, currentBlock, currentHeader, inserts>>

-----------------------------------------------------------------------------
(* SetHead: the loop of HeaderChain.SetHead, then the batch *)

\* InsertChain does not take chainmu, so it is up to the caller that none runs.
SetHead(n) ==
    /\ Rewind /\ pc = "up" /\ Idle
    /\ pc' = "setHead"
    /\ chainmu' = TRUE /\ target' = n /\ batch' = {}
    /\ UNCHANGED <<disk, currentBlock, currentHeader, inserts>>

ParentHeader ==
    LET p == Parent[currentHeader]
    IN  IF GetHeader(p, Number[currentHeader] - 1) THEN p ELSE canon[0]

\* Mutant: a nil updateFn.
UpdateHeadBlockNil ==
    /\ pc = "setHead" /\ Number[currentHeader] > target
    /\ pc' = "setHeadHeader"
    /\ UNCHANGED <<disk, currentBlock, currentHeader, rewinding, inserts>>

\* updateFn: the head block follows the header chain down.  A block that cannot be
\* read, or without its state, is replaced by the genesis block, which is not tried.
UpdateHeadBlock ==
    LET p == ParentHeader
        newHeadBlock == IF GetBlock(p, Number[p]) /\ StateAt(p) THEN p ELSE canon[0]
    IN  /\ pc = "setHead" /\ Number[currentHeader] > target
        /\ IF currentBlock # NoHash /\ Number[p] < Number[currentBlock]
           THEN headBlock' = newHeadBlock /\ currentBlock' = newHeadBlock
           ELSE UNCHANGED <<headBlock, currentBlock>>
        /\ pc' = "setHeadHeader"
        /\ UNCHANGED <<body, hashNumber, header, canon, headHeader, states,
                       currentHeader, rewinding, inserts>>

\* Mutant: the loop does not store the parent as the current header.
RewindHeaderNotStored ==
    /\ pc = "setHeadHeader"
    /\ headHeader' = Parent[currentHeader]
    /\ batch' = batch \cup {currentHeader}
    /\ pc' = "setHead"
    /\ UNCHANGED <<body, hashNumber, header, canon, headBlock, states,
                   currentBlock, currentHeader, chainmu, target, inserts>>

\* WriteHeadHeaderHash at once, the deletions into the batch.
RewindHeader ==
    /\ pc = "setHeadHeader"
    /\ headHeader' = Parent[currentHeader]
    /\ batch' = batch \cup {currentHeader}
    /\ currentHeader' = ParentHeader
    /\ pc' = "setHead"
    /\ UNCHANGED <<body, hashNumber, header, canon, headBlock, states,
                   currentBlock, chainmu, target, inserts>>

\* Mutant: the canonical hash of the new head is deleted too.
WriteBatchOneMore ==
    /\ pc = "setHead" /\ Number[currentHeader] <= target
    /\ body' = body \ batch
    /\ header' = header \ batch
    /\ hashNumber' = hashNumber \ batch
    /\ canon' = [n \in Numbers |-> IF \E b \in batch : n \in {Number[b], Number[b] - 1}
                                   THEN NoHash ELSE canon[n]]
    /\ pc' = "load"
    /\ UNCHANGED <<headBlock, headHeader, states, currentBlock, currentHeader,
                   rewinding, inserts>>

\* batch.Write, atomically, or not at all (its error is dropped); then loadLastState,
\* with chainmu still held.
WriteBatch ==
    /\ pc = "setHead" /\ Number[currentHeader] <= target
    /\ \/ /\ body' = body \ batch
          /\ header' = header \ batch
          /\ hashNumber' = hashNumber \ batch
          /\ canon' = [n \in Numbers |-> IF \E b \in batch : Number[b] = n THEN NoHash ELSE canon[n]]
       \/ UNCHANGED <<body, header, hashNumber, canon>>
    /\ pc' = "load"
    /\ UNCHANGED <<headBlock, headHeader, states, currentBlock, currentHeader,
                   rewinding, inserts>>

-----------------------------------------------------------------------------
(* InsertChain *)

Contiguous(c) ==
    \A i \in 2..Len(c) : Number[c[i]] = Number[c[i - 1]] + 1 /\ Parent[c[i]] = c[i - 1]

\* Mutant: batches are taken at any height.
InsertChainAnywhere(t, c) ==
    /\ pc = "up" /\ ipc[t] = "idle" /\ Contiguous(c)
    /\ chain' = [chain EXCEPT ![t] = c]
    /\ ipc' = [ipc EXCEPT ![t] = "state"]
    /\ UNCHANGED <<disk, currentBlock, currentHeader, rewinding, pc, updateHeads>>

\* processBlocks hands over a batch that starts just above the current block.
\* A batch that is not contiguous ends the process (log.Fatalf).
InsertChain(t, c) ==
    /\ pc = "up" /\ ipc[t] = "idle"
    /\ Number[c[1]] = Number[currentBlock] + 1
    /\ IF Contiguous(c)
       THEN /\ chain' = [chain EXCEPT ![t] = c]
            /\ ipc' = [ipc EXCEPT ![t] = "state"]
            /\ UNCHANGED <<disk, currentBlock, currentHeader, rewinding, pc, updateHeads>>
       ELSE Exit

\* The inserter moves on inside insertChain, to step s.
Goto(t, s) == ipc' = [ipc EXCEPT ![t] = s] /\ UNCHANGED <<chain, updateHeads>>

\* insertChain: to the next block of the batch, or return.
NextBlock(t) ==
    /\ chain' = [chain EXCEPT ![t] = Tail(@)]
    /\ ipc' = [ipc EXCEPT ![t] = IF Len(chain[t]) = 1 THEN "idle" ELSE "state"]
    /\ UNCHANGED updateHeads

\* insertChain: on error it returns with the rest unwritten.
GiveUp(t) ==
    /\ chain' = [chain EXCEPT ![t] = <<>>]
    /\ ipc' = [ipc EXCEPT ![t] = "idle"]
    /\ UNCHANGED updateHeads

\* state.New(block.Root())
OpenState(t) ==
    /\ ipc[t] = "state"
    /\ IF StateAt(Head(chain[t])) THEN Goto(t, "body") ELSE GiveUp(t)
    /\ UNCHANGED <<disk, currentBlock, currentHeader>>

WriteBody(t) ==
    /\ ipc[t] = "body" /\ Goto(t, "number")
    /\ body' = body \cup {Head(chain[t])}
    /\ UNCHANGED <<hashNumber, header, canon, headBlock, headHeader, states,
                   currentBlock, currentHeader>>

WriteHeaderNumber(t) ==
    /\ ipc[t] = "number" /\ Goto(t, "header")
    /\ hashNumber' = hashNumber \cup {Head(chain[t])}
    /\ UNCHANGED <<body, header, canon, headBlock, headHeader, states,
                   currentBlock, currentHeader>>

WriteHeader(t) ==
    /\ ipc[t] = "header" /\ Goto(t, "commit")
    /\ header' = header \cup {Head(chain[t])}
    /\ UNCHANGED <<body, hashNumber, canon, headBlock, headHeader, states,
                   currentBlock, currentHeader>>

\* statedb.Commit and triedb.Commit; an error leaves the block stored but not inserted.
CommitState(t) ==
    /\ ipc[t] = "commit"
    /\ \/ Goto(t, "read") /\ states' = states \cup ({Root[Head(chain[t])]} \ EmptyRoots)
       \/ GiveUp(t) /\ UNCHANGED states
    /\ UNCHANGED <<body, hashNumber, header, canon, headBlock, headHeader,
                   currentBlock, currentHeader>>

\* insert: the header chain moves only when the canonical hash changes.
ReadCanonicalHash(t) ==
    LET b == Head(chain[t])
    IN  /\ ipc[t] = "read"
        /\ ipc' = [ipc EXCEPT ![t] = "canon"]
        /\ updateHeads' = [updateHeads EXCEPT ![t] = canon[Number[b]] # b]
        /\ UNCHANGED <<chain, disk, currentBlock, currentHeader>>

\* Mutant: the canonical hash is not written.
WriteCanonicalHashSkipped(t) ==
    /\ ipc[t] = "canon" /\ Goto(t, "head")
    /\ UNCHANGED <<disk, currentBlock, currentHeader>>

WriteCanonicalHash(t) ==
    /\ ipc[t] = "canon" /\ Goto(t, "head")
    /\ canon' = [canon EXCEPT ![Number[Head(chain[t])]] = Head(chain[t])]
    /\ UNCHANGED <<body, hashNumber, header, headBlock, headHeader, states,
                   currentBlock, currentHeader>>

WriteHeadBlockHash(t) ==
    /\ ipc[t] = "head" /\ Goto(t, "store")
    /\ headBlock' = Head(chain[t])
    /\ UNCHANGED <<body, hashNumber, header, canon, headHeader, states,
                   currentBlock, currentHeader>>

StoreCurrentBlock(t) ==
    /\ ipc[t] = "store"
    /\ currentBlock' = Head(chain[t])
    /\ IF updateHeads[t] THEN Goto(t, "headHeader") ELSE NextBlock(t)
    /\ UNCHANGED <<disk, currentHeader>>

\* SetCurrentHeader, first half
WriteHeadHeaderHash(t) ==
    /\ ipc[t] = "headHeader" /\ Goto(t, "storeHeader")
    /\ headHeader' = Head(chain[t])
    /\ UNCHANGED <<body, hashNumber, header, canon, headBlock, states,
                   currentBlock, currentHeader>>

\* SetCurrentHeader, second half
StoreCurrentHeader(t) ==
    /\ ipc[t] = "storeHeader" /\ NextBlock(t)
    /\ currentHeader' = Head(chain[t])
    /\ UNCHANGED <<disk, currentBlock>>

InsertStep(t) ==
    /\ \/ OpenState(t) \/ WriteBody(t) \/ WriteHeaderNumber(t) \/ WriteHeader(t)
       \/ CommitState(t) \/ ReadCanonicalHash(t) \/ WriteCanonicalHash(t)
       \/ WriteHeadBlockHash(t) \/ StoreCurrentBlock(t)
       \/ WriteHeadHeaderHash(t) \/ StoreCurrentHeader(t)
    /\ UNCHANGED <<pc, rewinding>>

-----------------------------------------------------------------------------
StartStep == LoadLastState \/ Repair

SetHeadStep == UpdateHeadBlock \/ RewindHeader \/ WriteBatch

Next ==
    \/ Crash
    \/ \E r \in states : LoseState(r)
    \/ SetupGenesisBlock \/ GenesisStep
    \/ NewBlockChain \/ StartStep
    \/ \E n \in Numbers : SetHead(n)
    \/ SetHeadStep
    \/ \E t \in Inserters : InsertStep(t) \/ \E c \in Batches : InsertChain(t, c)

Spec == Init /\ [][Next]_vars

\* Code that has been entered keeps running; nobody has to start a command, and
\* nothing has to crash.
FairSpec ==
    /\ Spec
    /\ WF_vars(GenesisStep) /\ WF_vars(StartStep) /\ WF_vars(SetHeadStep)
    /\ \A t \in Inserters : WF_vars(InsertStep(t))

-----------------------------------------------------------------------------
(* Properties *)

\* Type invariant of the store, of the fields of BlockChain and HeaderChain, and
\* of the goroutines inside InsertChain.
TypeOK ==
    /\ body \subseteq Blocks /\ hashNumber \subseteq Blocks /\ header \subseteq Blocks
    /\ canon \in [Numbers -> Hashes]
    /\ headBlock \in Hashes /\ headHeader \in Hashes
    /\ states \subseteq {Root[b] : b \in Blocks}
    /\ currentBlock \in Hashes /\ currentHeader \in Hashes
    /\ chainmu \in BOOLEAN /\ target \in Nat /\ batch \subseteq Blocks
    /\ pc \in PC
    /\ ipc \in [Inserters -> InsertPC]
    /\ chain \in [Inserters -> Seq(Blocks)]
    /\ updateHeads \in [Inserters -> BOOLEAN]

\* The order of the writes in writeBlockWithState, Genesis.Commit and SetHead:
\* whenever the process stops, the block LastBlock names can be read back.
HeadIsStored == headBlock # NoHash => GetBlockByHash(headBlock)

\* loadLastState, updateFn and insertChain try the state of a block before they make
\* it current, but for the genesis block that updateFn falls back to.  So a running
\* node can open the state of its current block, or it was rewound to a genesis block
\* whose state is lost; LastBlock says so too, and the next start reports the loss
\* (it ends with an error, not in the endless loop of repair).
CurrentStateOpens ==
    pc = "up" /\ ~StateAt(currentBlock) =>
        currentBlock = canon[0] /\ (Idle => headBlock = currentBlock)

\* GetBlockByNumber, which answers GetBlocksMsg, finds every block up to the
\* stored head, each on top of the one below it, also after a crash.
CanonicalChainIsComplete ==
    headBlock # NoHash =>
        /\ canon[Number[headBlock]] = headBlock
        /\ \A n \in 0..Number[headBlock] :
              /\ canon[n] # NoHash /\ GetBlock(canon[n], n)
              /\ n > 0 => Parent[canon[n]] = canon[n - 1]

\* Once the init command has written LastBlock, and its state is stored,
\* NewBlockChain neither fails nor blocks, wherever earlier runs were cut off.
OpensOnceInitialised ==
    headBlock # NoHash /\ StateAt(headBlock) => pc \notin {"hung", "failed", "repair"}

\* The header chain of an idle node stays on stored canonical headers, so the
\* CurrentHeader the downloader starts from has a successor to ask for.
HeaderIsCanonical ==
    pc = "up" /\ Idle =>
        canon[Number[currentHeader]] = currentHeader /\ GetHeaderByHash(currentHeader)

\* With one inserter the stored head of a running node only ever moves to a child
\* of itself: no block is skipped or given up but by SetHead.
HeadOnlyGrows ==
    [][headBlock' # headBlock /\ pc = "up"
         => /\ Number[headBlock'] = Number[headBlock] + 1
            /\ Parent[headBlock'] = headBlock]_vars

\* The stored canonical hashes and LastBlock implement the ledger: concurrent
\* inserters, crashes and restarts never take a canonical hash back, never open a
\* gap, and move the head to a canonical block only (insert does not compare
\* numbers, so it may be a lower one).
AsLedger == INSTANCE Ledger WITH ledger <- {canon[n] : n \in Numbers} \ {NoHash}, head <- headBlock
IsLedger == AsLedger!Spec

\* SetHead on a running chain comes to an end: its loop moves the header down.
SetHeadCompletes == (pc = "setHead" /\ currentBlock # NoHash) ~> (pc \in {"up", "down"})

=============================================================================
