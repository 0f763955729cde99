-------------------------- MODULE BlockChainProofs --------------------------
(***************************************************************************)
(* Proofs about BlockChain for any set of blocks and of inserters, with    *)
(* crashes anywhere and lost state roots: the stored head, the canonical   *)
(* chain, that an initialised database opens, that the chain implements    *)
(* Ledger, and the heads in memory.  The first theorems on the stored head *)
(* are about the calls the repository makes: SetHead only through Reset    *)
(* (Rewind = FALSE); those on the canonical chain are about blocks of one  *)
(* chain.  The last part allows SetHead on a running chain and has one     *)
(* inserting goroutine instead: the head grows by one block at a time, and *)
(* head, canonical chain and header stay whole while SetHead runs.         *)
(***************************************************************************)
EXTENDS BlockChain, TLAPS

-----------------------------------------------------------------------------
(* Type correctness *)

\* The process has passed NewHeaderChain.
Opened == {"load", "repair", "setHead", "setHeadHeader", "up", "hung"}

\* What the type of headHeader' in RewindHeader rests on: an open chain has a
\* genesis and a current header, and SetHead never deletes at height 0.  Only a node
\* that has been started has a current block.
OpenInv ==
    /\ pc \in Opened => currentHeader \in Blocks /\ canon[0] \in Blocks
    /\ pc \in GenesisPC \cup {"down"} => currentBlock = NoHash
    /\ \A b \in batch : Number[b] > 0
    /\ pc = "setHeadHeader" => Number[currentHeader] > target
    /\ \A t \in Inserters : ipc[t] # "idle" => pc = "up" /\ chain[t] # <<>>

TypeInv == TypeOK /\ OpenInv

\* The heights, and what a hash field may hold.
LEMMA NumbersAreHeights == 0 \in Numbers /\ Numbers \subseteq Nat /\ Hashes = Blocks \cup {NoHash}
BY BlockAssumption DEF Numbers, Hashes

\* A list of blocks with a first one is not the empty list.
LEMMA EmptyChain == /\ <<>> \in Seq(Blocks)
                    /\ \A q \in Seq(Blocks) : Len(q) > 0 => q # <<>>
OBVIOUS

\* A new database has the types.
LEMMA InitTypeInv == Init => TypeInv
BY NumbersAreHeights, EmptyChain, BlockAssumption, Zenon
DEF Init, TypeInv, TypeOK, OpenInv, PC, GenesisPC, InsertPC, Opened

\* A crash keeps the types.
LEMMA ExitTypeInv == TypeInv /\ Exit => TypeInv'
<1> SUFFICES ASSUME TypeInv, Exit PROVE TypeInv'
  BY Zenon
<1>1. /\ chain' \in [Inserters -> Seq(Blocks)]
      /\ ipc' \in [Inserters -> InsertPC]
      /\ updateHeads' \in [Inserters -> BOOLEAN]
      /\ \A t \in Inserters : ipc'[t] = "idle"
  BY EmptyChain, Zenon DEF Exit, InsertPC
<1>2. UNCHANGED <<body, hashNumber, header, canon, headBlock, headHeader, states>>
  BY Zenon DEF Exit, disk
<1>3. /\ pc' = "down" /\ currentBlock' = NoHash /\ currentHeader' = NoHash
      /\ chainmu' = FALSE /\ target' = 0 /\ batch' = {}
  BY Zenon DEF Exit
<1> QED
  BY <1>1, <1>2, <1>3, NumbersAreHeights, Zenon DEF TypeInv, TypeOK, OpenInv, PC, GenesisPC, Opened

\* The chain of an inserter that is not idle has a first block and a rest.
LEMMA ChainHead ==
    ASSUME TypeInv, NEW t \in Inserters, ipc[t] # "idle"
    PROVE  /\ Head(chain[t]) \in Blocks
           /\ Tail(chain[t]) \in Seq(Blocks)
           /\ Len(chain[t]) \in Nat /\ Len(chain[t]) > 0
           /\ Len(Tail(chain[t])) = Len(chain[t]) - 1
           /\ Number[Head(chain[t])] \in Numbers
BY DEF TypeInv, TypeOK, OpenInv, Numbers

\* The end of one turn of the loop of InsertChain keeps the types.
LEMMA NextBlockTypes ==
    ASSUME TypeInv, NEW t \in Inserters, ipc[t] # "idle", NextBlock(t)
    PROVE  /\ chain' \in [Inserters -> Seq(Blocks)]
           /\ ipc' \in [Inserters -> InsertPC]
           /\ updateHeads' = updateHeads
           /\ \A u \in Inserters : ipc'[u] # "idle" => ipc[u] # "idle" /\ chain'[u] # <<>>
<1>1. /\ chain \in [Inserters -> Seq(Blocks)] /\ ipc \in [Inserters -> InsertPC]
      /\ \A u \in Inserters : ipc[u] # "idle" => chain[u] # <<>>
  BY Zenon DEF TypeInv, TypeOK, OpenInv
<1>2. /\ Tail(chain[t]) \in Seq(Blocks) /\ Len(chain[t]) \in Nat /\ Len(chain[t]) > 0
      /\ Len(Tail(chain[t])) = Len(chain[t]) - 1
  BY ChainHead, Zenon
<1>3. chain' \in [Inserters -> Seq(Blocks)] /\ ipc' \in [Inserters -> InsertPC]
  BY <1>1, <1>2, Zenon DEF NextBlock, InsertPC
<1>4. ASSUME NEW u \in Inserters, ipc'[u] # "idle"
      PROVE  ipc[u] # "idle" /\ chain'[u] # <<>>
  <2>1. CASE u = t
    <3>1. Len(Tail(chain[t])) > 0 /\ chain'[t] = Tail(chain[t])
      BY <1>1, <1>2, <1>4, <2>1 DEF NextBlock
    <3> QED BY <1>2, <2>1, <3>1, EmptyChain, Zenon
  <2>2. CASE u # t
    BY <1>1, <1>4, <2>2, Zenon DEF NextBlock
  <2> QED BY <2>1, <2>2, Zenon
<1> QED BY <1>3, <1>4, Zenon DEF NextBlock

\* The writes of an inserting goroutine keep the types.
LEMMA InsertTypeInv ==
    ASSUME TypeInv, NEW t \in Inserters, InsertStep(t)
    PROVE  TypeInv'
<1> USE DEF TypeInv, TypeOK, OpenInv, Opened
<1>0. ipc[t] # "idle"
  BY Zenon DEF InsertStep, OpenState, WriteBody, WriteHeaderNumber, WriteHeader, CommitState, GiveUp,
         ReadCanonicalHash, WriteCanonicalHash, WriteHeadBlockHash, StoreCurrentBlock,
         WriteHeadHeaderHash, StoreCurrentHeader
<1>1. /\ Head(chain[t]) \in Blocks /\ Number[Head(chain[t])] \in Numbers
      /\ Tail(chain[t]) \in Seq(Blocks) /\ Len(chain[t]) > 0 /\ Len(chain[t]) \in Nat
      /\ Len(Tail(chain[t])) = Len(chain[t]) - 1
  BY <1>0, ChainHead, Zenon
<1>2. pc' = pc /\ UNCHANGED rewinding /\ pc = "up"
  BY <1>0, Zenon DEF InsertStep
<1>3. CASE OpenState(t)
  BY <1>0, <1>1, <1>2, <1>3, EmptyChain, Zenon
  DEF OpenState, GiveUp, Goto, disk, rewinding, InsertPC, GenesisPC
<1>4. CASE WriteBody(t)
  BY <1>0, <1>1, <1>2, <1>4, Zenon DEF WriteBody, Goto, rewinding, InsertPC, GenesisPC
<1>5. CASE WriteHeaderNumber(t)
  BY <1>0, <1>1, <1>2, <1>5, Zenon DEF WriteHeaderNumber, Goto, rewinding, InsertPC, GenesisPC
<1>6. CASE WriteHeader(t)
  BY <1>0, <1>1, <1>2, <1>6, Zenon DEF WriteHeader, Goto, rewinding, InsertPC, GenesisPC
<1>7. CASE CommitState(t)
  BY <1>0, <1>1, <1>2, <1>7, EmptyChain, Zenon
  DEF CommitState, GiveUp, Goto, rewinding, InsertPC, GenesisPC
<1>8. CASE ReadCanonicalHash(t)
  BY <1>0, <1>1, <1>2, <1>8, Zenon DEF ReadCanonicalHash, disk, rewinding, InsertPC, GenesisPC
<1>9. CASE WriteCanonicalHash(t)
  BY <1>0, <1>1, <1>2, <1>9, NumbersAreHeights, Zenon DEF WriteCanonicalHash, Goto, rewinding, InsertPC, GenesisPC
<1>10. CASE WriteHeadBlockHash(t)
  BY <1>0, <1>1, <1>2, <1>10, NumbersAreHeights, Zenon DEF WriteHeadBlockHash, Goto, rewinding, InsertPC, GenesisPC
<1>11. CASE StoreCurrentBlock(t)
  <2>1. CASE updateHeads[t]
    BY <1>0, <1>1, <1>2, <1>11, <2>1, NumbersAreHeights, Zenon
    DEF StoreCurrentBlock, Goto, disk, rewinding, InsertPC, GenesisPC
  <2>2. CASE ~updateHeads[t]
    BY <1>0, <1>1, <1>2, <1>11, <2>2, NumbersAreHeights, NextBlockTypes, Zenon
    DEF StoreCurrentBlock, disk, rewinding, GenesisPC
  <2> QED BY <2>1, <2>2, Zenon
<1>12. CASE WriteHeadHeaderHash(t)
  BY <1>0, <1>1, <1>2, <1>12, NumbersAreHeights, Zenon DEF WriteHeadHeaderHash, Goto, rewinding, InsertPC, GenesisPC
<1>13. CASE StoreCurrentHeader(t)
  BY <1>0, <1>1, <1>2, <1>13, NumbersAreHeights, NextBlockTypes, Zenon
  DEF StoreCurrentHeader, disk, rewinding
<1> QED
  BY <1>3, <1>4, <1>5, <1>6, <1>7, <1>8, <1>9, <1>10, <1>11, <1>12, <1>13, Zenon DEF InsertStep

\* NewBlockChain, loadLastState and repair keep the types.
LEMMA StartTypeInv ==
    ASSUME TypeInv, NewBlockChain \/ StartStep
    PROVE  TypeInv'
<1> USE NumbersAreHeights, BlockAssumption DEF TypeInv, TypeOK, OpenInv, Opened, PC, GenesisPC
<1>1. CASE NewBlockChain
  BY <1>1, Zenon DEF NewBlockChain, GetBlock, GetHeader, GetHeaderByHash, disk, rewinding, inserts
<1>2. CASE LoadLastState
  <2>1. CASE ~GetBlockByHash(headBlock)
    BY <1>2, <2>1, Zenon DEF LoadLastState, Return, Reset, disk, rewinding, inserts
  <2>2. CASE GetBlockByHash(headBlock) /\ ~StateAt(headBlock)
    BY <1>2, <2>2, Zenon DEF LoadLastState, disk, rewinding, inserts
  <2>3. CASE GetBlockByHash(headBlock) /\ StateAt(headBlock)
    BY <1>2, <2>3, Zenon DEF LoadLastState, Return, GetBlockByHash, GetHeaderByHash, inserts
  <2> QED BY <2>1, <2>2, <2>3, Zenon
<1>3. CASE Repair
  BY <1>3, Zenon DEF Repair, Return, disk, rewinding, inserts
<1> QED BY <1>1, <1>2, <1>3, Zenon DEF StartStep

\* The header SetHead goes to is a block, and lower ones of the batch stay above 0.
LEMMA ParentHeaderIsBlock == TypeInv /\ pc \in Opened => ParentHeader \in Blocks
BY Zenon DEF TypeInv, TypeOK, OpenInv, ParentHeader, GetHeader

\* The steps of SetHead keep the types.
LEMMA SetHeadTypeInv ==
    ASSUME TypeInv, SetHeadStep \/ (\E n \in Numbers : SetHead(n))
    PROVE  TypeInv'
<1> USE NumbersAreHeights, BlockAssumption DEF TypeInv, TypeOK, OpenInv, Opened, PC, GenesisPC
<1>1. CASE UpdateHeadBlock
  <2>1. ParentHeader \in Blocks
    BY <1>1, ParentHeaderIsBlock, Zenon DEF UpdateHeadBlock
  <2> QED BY <1>1, <2>1, Zenon DEF UpdateHeadBlock, rewinding, inserts
<1>2. CASE RewindHeader
  <2>1. ParentHeader \in Blocks
    BY <1>2, ParentHeaderIsBlock, Zenon DEF RewindHeader
  <2>2. Number[currentHeader] > 0
    BY <1>2 DEF RewindHeader
  <2> QED BY <1>2, <2>1, <2>2, Zenon DEF RewindHeader, inserts
<1>3. CASE WriteBatch
  <2>1. canon' \in [Numbers -> Hashes] /\ canon'[0] = canon[0]
    <3>1. CASE canon' = [n \in Numbers |-> IF \E b \in batch : Number[b] = n THEN NoHash ELSE canon[n]]
      BY <3>1
    <3>2. CASE canon' = canon
      BY <3>2, Zenon
    <3> QED BY <1>3, <3>1, <3>2, Zenon DEF WriteBatch
  <2> QED BY <1>3, <2>1, Zenon DEF WriteBatch, rewinding, inserts
<1>4. CASE \E n \in Numbers : SetHead(n)
  BY <1>4, Zenon DEF SetHead, Idle, disk, inserts
<1> QED BY <1>1, <1>2, <1>3, <1>4, Zenon DEF SetHeadStep

\* The writes of init keep the types.
LEMMA GenesisTypeInv ==
    ASSUME TypeInv, SetupGenesisBlock \/ GenesisStep
    PROVE  TypeInv'
<1> USE NumbersAreHeights, BlockAssumption DEF TypeInv, TypeOK, OpenInv, Opened, PC, GenesisPC
<1>1. CASE SetupGenesisBlock
  BY <1>1, Zenon DEF SetupGenesisBlock, disk, rewinding, inserts
<1>2. CASE GenesisStep /\ ToBlock
  BY <1>2, Zenon DEF GenesisStep, ToBlock, rewinding, inserts
<1>3. CASE GenesisStep /\ CommitGenesis
  <2>1. currentBlock' = NoHash /\ UNCHANGED <<currentHeader, rewinding, inserts, states>> /\ pc # "up" /\ pc' \notin Opened
    BY <1>3, Zenon DEF GenesisStep, CommitGenesis
  <2>2. /\ body' \subseteq Blocks /\ hashNumber' \subseteq Blocks /\ header' \subseteq Blocks
        /\ headBlock' \in Hashes /\ headHeader' \in Hashes /\ pc' \in PC
    BY <1>3, Zenon DEF CommitGenesis
  <2>3. canon' \in [Numbers -> Hashes]
    <3>1. CASE canon' = [canon EXCEPT ![0] = Genesis]
      BY <3>1
    <3> QED BY <1>3, <3>1, Zenon DEF CommitGenesis
  <2> QED BY <2>1, <2>2, <2>3, Zenon DEF rewinding, inserts
<1> QED BY <1>1, <1>2, <1>3, Zenon DEF GenesisStep

\* A call of InsertChain keeps the types.
LEMMA InsertChainTypeInv ==
    ASSUME TypeInv, NEW t \in Inserters, NEW c \in Batches, InsertChain(t, c)
    PROVE  TypeInv'
<1>1. c \in Seq(Blocks) /\ c # <<>>
  BY BlockAssumption, Zenon
<1>2. CASE Exit
  BY <1>2, ExitTypeInv, Zenon
<1>3. CASE ~Exit
  BY <1>1, <1>3, Zenon
  DEF InsertChain, TypeInv, TypeOK, OpenInv, Opened, InsertPC, disk, rewinding
<1> QED BY <1>2, <1>3, Zenon

\* Every step keeps the types.
LEMMA NextTypeInv == TypeInv /\ [Next]_vars => TypeInv'
<1> SUFFICES ASSUME TypeInv, [Next]_vars PROVE TypeInv'
  BY Zenon
<1>1. CASE UNCHANGED vars
  BY <1>1, Zenon DEF vars, disk, rewinding, inserts, TypeInv, TypeOK, OpenInv
<1>2. CASE Crash
  BY <1>2, ExitTypeInv, Zenon DEF Crash
<1>3. ASSUME NEW r \in states, LoseState(r) PROVE TypeInv'
  BY <1>3, Zenon DEF LoseState, rewinding, inserts, TypeInv, TypeOK, OpenInv
<1>4. CASE SetupGenesisBlock \/ GenesisStep
  BY <1>4, GenesisTypeInv, Zenon
<1>5. CASE NewBlockChain \/ StartStep
  BY <1>5, StartTypeInv, Zenon
<1>6. CASE SetHeadStep \/ (\E n \in Numbers : SetHead(n))
  BY <1>6, SetHeadTypeInv, Zenon
<1>7. ASSUME NEW t \in Inserters, InsertStep(t) \/ \E c \in Batches : InsertChain(t, c)
      PROVE  TypeInv'
  BY <1>7, InsertTypeInv, InsertChainTypeInv, Zenon
<1> QED BY <1>1, <1>2, <1>3, <1>4, <1>5, <1>6, <1>7, Zenon DEF Next

\* Every reachable state is well typed; in particular the process counters and
\* the heads take no other values than the ones the code gives them.
THEOREM TypeCorrect == Spec => []TypeOK
<1>1. Spec => []TypeInv
  BY InitTypeInv, NextTypeInv, PTL DEF Spec
<1>2. TypeInv => TypeOK
  BY Zenon DEF TypeInv
<1> QED BY <1>1, <1>2, PTL

-----------------------------------------------------------------------------
(* The stored head *)

\* How far Genesis.Commit and the inserters have come is on disk.
ProgressInv ==
    /\ pc \in {"gNumber", "gHeader", "gCanon", "gHead", "gHeadHeader"} => Genesis \in body
    /\ pc \in {"gHeader", "gCanon", "gHead", "gHeadHeader"} => Genesis \in hashNumber
    /\ pc \in {"gCanon", "gHead", "gHeadHeader"} => Genesis \in header
    /\ \A t \in Inserters :
         /\ ipc[t] \notin {"idle", "state", "body"} => Head(chain[t]) \in body
         /\ ipc[t] \notin {"idle", "state", "body", "number"} => Head(chain[t]) \in hashNumber
         /\ ipc[t] \notin {"idle", "state", "body", "number", "header"} => Head(chain[t]) \in header

\* Without a caller of SetHead on a running chain, Reset finds an empty
\* LastBlock and a header chain on genesis: nothing is ever deleted, and repair
\* is met on the way up only.
NoRewindInv ==
    /\ batch = {}
    /\ pc # "setHeadHeader"
    /\ pc # "up" => currentBlock = NoHash
    /\ pc = "setHead" => headBlock = NoHash
    /\ pc \in {"load", "setHead"} /\ headBlock = NoHash => Number[currentHeader] = 0

StoreInv == TypeInv /\ ProgressInv /\ NoRewindInv /\ HeadIsStored

\* StoreInv holds of a new database.
LEMMA InitStoreInv == Init => StoreInv
BY InitTypeInv, Zenon DEF Init, StoreInv, ProgressInv, NoRewindInv, HeadIsStored

\* A crash keeps StoreInv: it is about what is stored.
LEMMA ExitStoreInv == StoreInv /\ Exit => StoreInv'
<1> SUFFICES ASSUME StoreInv, Exit PROVE StoreInv'
  BY Zenon
<1>1. TypeInv'
  BY ExitTypeInv, Zenon DEF StoreInv
<1>2. /\ pc' = "down" /\ batch' = {} /\ currentBlock' = NoHash
      /\ UNCHANGED <<body, hashNumber, header, headBlock>>
      /\ \A t \in Inserters : ipc'[t] = "idle"
  BY Zenon DEF Exit, disk
<1> QED
  BY <1>1, <1>2, Zenon
  DEF StoreInv, ProgressInv, NoRewindInv, HeadIsStored, GetBlockByHash, GetBlock, GetHeader

\* An inserter's step never removes a record and, step by step, adds its own.
LEMMA InsertStoreInv ==
    ASSUME StoreInv, NEW t \in Inserters, InsertStep(t)
    PROVE  StoreInv'
<1> USE DEF StoreInv, ProgressInv, NoRewindInv, HeadIsStored, GetBlockByHash, GetBlock, GetHeader
<1>0. ipc[t] # "idle" /\ ipc \in [Inserters -> InsertPC] /\ chain \in [Inserters -> Seq(Blocks)]
  BY Zenon DEF TypeInv, TypeOK, InsertStep, OpenState, WriteBody, WriteHeaderNumber, WriteHeader,
         CommitState, GiveUp, ReadCanonicalHash, WriteCanonicalHash, WriteHeadBlockHash,
         StoreCurrentBlock, WriteHeadHeaderHash, StoreCurrentHeader
<1>1. TypeInv'
  BY InsertTypeInv, Zenon
<1>2. pc' = pc /\ batch' = batch /\ pc = "up"
  BY <1>0, Zenon DEF InsertStep, rewinding, TypeInv, OpenInv
<1>3. CASE OpenState(t)
  BY <1>0, <1>1, <1>2, <1>3, Zenon DEF OpenState, GiveUp, Goto, disk
<1>4. CASE WriteBody(t)
  BY <1>0, <1>1, <1>2, <1>4, Zenon DEF WriteBody, Goto
<1>5. CASE WriteHeaderNumber(t)
  BY <1>0, <1>1, <1>2, <1>5, Zenon DEF WriteHeaderNumber, Goto
<1>6. CASE WriteHeader(t)
  BY <1>0, <1>1, <1>2, <1>6, Zenon DEF WriteHeader, Goto
<1>7. CASE CommitState(t)
  BY <1>0, <1>1, <1>2, <1>7, Zenon DEF CommitState, GiveUp, Goto
<1>8. CASE ReadCanonicalHash(t)
  BY <1>0, <1>1, <1>2, <1>8, Zenon DEF ReadCanonicalHash, disk
<1>9. CASE WriteCanonicalHash(t)
  BY <1>0, <1>1, <1>2, <1>9, Zenon DEF WriteCanonicalHash, Goto
<1>10. CASE WriteHeadBlockHash(t)
  BY <1>0, <1>1, <1>2, <1>10, Zenon DEF WriteHeadBlockHash, Goto
<1>11. CASE StoreCurrentBlock(t)
  BY <1>0, <1>1, <1>2, <1>11, Zenon DEF StoreCurrentBlock, Goto, NextBlock, disk
<1>12. CASE WriteHeadHeaderHash(t)
  BY <1>0, <1>1, <1>2, <1>12, Zenon DEF WriteHeadHeaderHash, Goto
<1>13. CASE StoreCurrentHeader(t)
  BY <1>0, <1>1, <1>2, <1>13, Zenon DEF StoreCurrentHeader, NextBlock, disk
<1> QED
  BY <1>3, <1>4, <1>5, <1>6, <1>7, <1>8, <1>9, <1>10, <1>11, <1>12, <1>13, Zenon DEF InsertStep

\* Every step keeps StoreInv.
LEMMA NextStoreInv ==
    ASSUME ~Rewind, StoreInv, [Next]_vars
    PROVE  StoreInv'
<1> USE DEF StoreInv, ProgressInv, NoRewindInv, HeadIsStored, GetBlockByHash, GetBlock, GetHeader
<1>0. TypeInv'
  BY NextTypeInv, Zenon
<1>1. CASE UNCHANGED vars
  BY <1>0, <1>1, Zenon DEF vars, disk, rewinding, inserts
<1>2. CASE Crash
  BY <1>2, ExitStoreInv, Zenon DEF Crash
<1>3. ASSUME NEW r \in states, LoseState(r) PROVE StoreInv'
  BY <1>0, <1>3, Zenon DEF LoseState, rewinding, inserts
<1>4. CASE SetupGenesisBlock
  BY <1>0, <1>4, Zenon DEF SetupGenesisBlock, disk, rewinding, inserts
<1>5. CASE GenesisStep
  <2>1. \A t \in Inserters : ipc[t] = "idle"
    BY <1>5, Zenon DEF GenesisStep, ToBlock, CommitGenesis, TypeInv, OpenInv
  <2>2. CASE ToBlock
    BY <1>0, <1>5, <2>1, <2>2, Zenon DEF GenesisStep, ToBlock, rewinding, inserts
  <2>3. CASE CommitGenesis
    BY <1>0, <1>5, <2>1, <2>3, Zenon DEF GenesisStep, CommitGenesis, rewinding, inserts
  <2> QED BY <1>5, <2>2, <2>3, Zenon DEF GenesisStep
<1>6. CASE NewBlockChain
  \* An empty LastBlock puts the header chain on canon[0], whose number is 0.
  <2>1. NoHash \notin hashNumber /\ Idle
    BY <1>6, BlockAssumption, Zenon DEF NewBlockChain, Idle, TypeInv, TypeOK, OpenInv
  <2> QED BY <1>0, <1>6, <2>1, Zenon DEF NewBlockChain, GetHeaderByHash, Idle, disk, rewinding, inserts
<1>7. CASE LoadLastState
  BY <1>0, <1>7 DEF LoadLastState, Return, Reset, disk, rewinding, inserts, TypeInv, TypeOK, Hashes
<1>8. CASE Repair
  BY <1>0, <1>8, Zenon DEF Repair, Return, disk, rewinding, inserts
<1>9. CASE SetHeadStep
  \* The loop is not entered and the batch is empty.
  <2>1. pc = "setHead" => ~(Number[currentHeader] > target)
    BY DEF TypeInv, TypeOK
  <2> QED
    BY <1>0, <1>9, <2>1, Zenon
    DEF SetHeadStep, UpdateHeadBlock, RewindHeader, WriteBatch, rewinding, inserts
<1>10. ASSUME NEW n \in Numbers, SetHead(n) PROVE StoreInv'
  BY <1>10, Zenon DEF SetHead
<1>11. ASSUME NEW t \in Inserters, InsertStep(t) PROVE StoreInv'
  BY <1>11, InsertStoreInv, Zenon
<1>12. ASSUME NEW t \in Inserters, NEW c \in Batches, InsertChain(t, c) PROVE StoreInv'
  <2>1. CASE Exit
    BY <2>1, ExitStoreInv, Zenon
  <2>2. CASE ~Exit
    <3>1. /\ ipc \in [Inserters -> InsertPC] /\ chain \in [Inserters -> Seq(Blocks)]
          /\ pc' = pc /\ pc = "up" /\ batch' = batch
          /\ UNCHANGED <<body, hashNumber, header, headBlock>>
          /\ ipc' = [ipc EXCEPT ![t] = "state"] /\ chain' = [chain EXCEPT ![t] = c]
      BY <1>12, <2>2, Zenon DEF InsertChain, disk, rewinding, TypeInv, TypeOK
    <3> QED BY <1>0, <3>1, Zenon
  <2> QED BY <2>1, <2>2, Zenon
<1> QED
  BY <1>1, <1>2, <1>3, <1>4, <1>5, <1>6, <1>7, <1>8, <1>9, <1>10, <1>11, <1>12, Zenon
  DEF Next, StartStep

\* However many goroutines insert blocks, and wherever the process stops, the
\* block LastBlock names can be read back: the order of the writes in
\* writeBlockWithState and Genesis.Commit is safe.
THEOREM StoredHead == ~Rewind => (Spec => []HeadIsStored)
<1> SUFFICES ASSUME ~Rewind PROVE Spec => []HeadIsStored
  BY Zenon
<1>1. Spec => []StoreInv
  BY InitStoreInv, NextStoreInv, PTL DEF Spec
<1>2. StoreInv => HeadIsStored
  BY Zenon DEF StoreInv
<1> QED BY <1>1, <1>2, PTL


-----------------------------------------------------------------------------
(* The inductive invariant *)

\* All peers serve the same chain: one block per height, on top of the last.
SingleChain ==
    /\ \A b, c \in Blocks : Number[b] = Number[c] => b = c
    /\ \A b \in Blocks : Number[b] > 0 => Parent[b] \in Blocks /\ Number[Parent[b]] = Number[b] - 1

Canonical(b) == b \in Blocks /\ canon[Number[b]] = b

\* A canonical block is stored and so is the whole chain below it.  The closure
\* is stated for all heights at once, which spares an induction on the height.
CanonStore ==
    /\ \A n \in Numbers : canon[n] # NoHash => Number[canon[n]] = n /\ GetBlock(canon[n], n)
    /\ \A b \in Blocks : Canonical(b) =>
          /\ Number[b] > 0 => Canonical(Parent[b])
          /\ \A n \in 0..Number[b] : n \in Numbers /\ canon[n] # NoHash

\* An inserter works on top of a canonical block, and makes its own canonical.
InserterOnCanon(t) ==
    ipc[t] # "idle" =>
        /\ Contiguous(chain[t])
        /\ Number[Head(chain[t])] > 0
        /\ Canonical(Parent[Head(chain[t])])
        /\ ipc[t] \in {"head", "store", "headHeader", "storeHeader"} => Canonical(Head(chain[t]))

\* Both heads are canonical, and so is all the inserters build on.
CanonInv ==
    /\ CanonStore
    /\ headBlock # NoHash => Canonical(headBlock)
    /\ pc = "up" => Canonical(currentBlock)
    /\ pc \in {"gHead", "gHeadHeader"} => Canonical(Genesis)
    /\ \A t \in Inserters : InserterOnCanon(t)

ChainInv == StoreInv /\ CanonInv

\* ChainInv holds of a new database.
LEMMA InitChainInv == Init => ChainInv
<1> SUFFICES ASSUME Init PROVE ChainInv
  BY Zenon
<1>1. \A n \in Numbers : canon[n] = NoHash
  BY Zenon DEF Init
<1>2. \A b \in Blocks : ~Canonical(b)
  BY <1>1, BlockAssumption, Zenon DEF Canonical, Numbers
<1> QED BY <1>1, <1>2, InitStoreInv, Zenon DEF Init, ChainInv, CanonInv, CanonStore, InserterOnCanon

\* CanonStore survives every step that keeps the canonical hashes and deletes nothing.
LEMMA CanonStoreKept ==
    ASSUME CanonStore, canon' = canon, body \subseteq body', header \subseteq header'
    PROVE  CanonStore' /\ \A b : Canonical(b) => Canonical(b)'
BY Zenon DEF CanonStore, Canonical, GetBlock, GetHeader

\* It survives a new canonical hash at the height of a stored block whose parent
\* is canonical: with one block per height it fills a gap or repeats what is there.
LEMMA CanonStoreExtended ==
    ASSUME SingleChain, TypeOK, CanonStore, NEW b \in Blocks,
           canon' = [canon EXCEPT ![Number[b]] = b],
           b \in body, b \in header, UNCHANGED <<body, header>>,
           Number[b] > 0 => Canonical(Parent[b])
    PROVE  CanonStore' /\ Canonical(b)' /\ \A c : Canonical(c) => Canonical(c)'
<1> USE BlockAssumption
<1>1. Number[b] \in Numbers /\ Number[b] \in Nat /\ canon \in [Numbers -> Hashes]
  BY Zenon DEF Numbers, TypeOK
<1>2. canon'[Number[b]] = b /\ \A n \in Numbers : n # Number[b] => canon'[n] = canon[n]
  BY <1>1, Zenon
<1>3. \A c \in Blocks : Number[c] \in Numbers /\ (Number[c] = Number[b] => c = b)
  BY Zenon DEF SingleChain, Numbers
<1>4. \A c : Canonical(c) => Canonical(c)'
  BY <1>2, <1>3, Zenon DEF Canonical
<1>5. Canonical(b)'
  BY <1>2, Zenon DEF Canonical
<1>6. \A n \in Numbers : canon[n] # NoHash => canon'[n] # NoHash
  BY <1>2, Zenon
<1>7. ASSUME NEW n \in Numbers, canon'[n] # NoHash
      PROVE  Number[canon'[n]] = n /\ GetBlock(canon[n], n)'
  <2>1. CASE n = Number[b]
    BY <1>2, <2>1 DEF GetBlock, GetHeader
  <2>2. CASE n # Number[b]
    BY <1>2, <1>7, <2>2 DEF CanonStore, GetBlock, GetHeader
  <2> QED BY <2>1, <2>2, Zenon
<1>8. ASSUME NEW c \in Blocks, Canonical(c)'
      PROVE  /\ Number[c] > 0 => Canonical(Parent[c])'
             /\ \A n \in 0..Number[c] : n \in Numbers /\ canon'[n] # NoHash
  <2>1. CASE c # b
    <3>1. Canonical(c)
      BY <1>2, <1>3, <1>8, <2>1, Zenon DEF Canonical
    <3> QED BY <1>4, <1>6, <3>1, Zenon DEF CanonStore
  <2>2. CASE c = b /\ Number[b] = 0
    BY <1>1, <1>2, <2>2
  <2>3. CASE c = b /\ Number[b] > 0
    <3>1. Canonical(Parent[b]) /\ Parent[b] \in Blocks /\ Number[Parent[b]] = Number[b] - 1
      BY <2>3, Zenon DEF SingleChain
    <3>2. \A n \in 0..(Number[b] - 1) : n \in Numbers /\ canon[n] # NoHash
      BY <3>1, Zenon DEF CanonStore
    <3>3. \A n \in 0..Number[b] : n = Number[b] \/ n \in 0..(Number[b] - 1)
      BY <1>1
    <3>4. Canonical(Parent[b])'
      BY <1>4, <3>1, Zenon
    <3>5. \A n \in 0..Number[b] : n \in Numbers /\ canon'[n] # NoHash
      BY <1>1, <1>2, <1>6, <3>2, <3>3, Zenon
    <3> QED BY <2>3, <3>4, <3>5, Zenon
  <2> QED BY <1>1, <2>1, <2>2, <2>3
<1> QED BY <1>4, <1>5, <1>7, <1>8, Zenon DEF CanonStore

\* A contiguous chain of two blocks or more stays contiguous without its first
\* block, which is the parent of the second.
LEMMA ContiguousTail ==
    ASSUME NEW c \in Seq(Blocks), Len(c) > 1, Contiguous(c)
    PROVE  /\ Contiguous(Tail(c))
           /\ Head(Tail(c)) = c[2] /\ Head(c) = c[1]
           /\ Parent[c[2]] = c[1] /\ Number[c[2]] = Number[c[1]] + 1
<1>1. /\ Len(Tail(c)) = Len(c) - 1 /\ Len(c) \in Nat
      /\ \A i \in 1..Len(Tail(c)) : Tail(c)[i] = c[i + 1]
      /\ Head(Tail(c)) = c[2] /\ Head(c) = c[1]
  OBVIOUS
<1>2. ASSUME NEW i \in 2..Len(Tail(c))
      PROVE  /\ Number[Tail(c)[i]] = Number[Tail(c)[i - 1]] + 1
             /\ Parent[Tail(c)[i]] = Tail(c)[i - 1]
  <2>1. Tail(c)[i] = c[i + 1] /\ Tail(c)[i - 1] = c[i]
    BY <1>1
  <2>2. i + 1 \in 2..Len(c)
    BY <1>1
  <2> QED BY <2>1, <2>2 DEF Contiguous
<1> QED BY <1>1, <1>2 DEF Contiguous

\* A step of inserter t that keeps the canonical hashes it had keeps every other
\* inserter in place.
LEMMA OtherInserters ==
    ASSUME TypeInv, NEW t \in Inserters, \A u \in Inserters : InserterOnCanon(u),
           \A b : Canonical(b) => Canonical(b)',
           \A u \in Inserters : u # t => ipc'[u] = ipc[u] /\ chain'[u] = chain[u]
    PROVE  \A u \in Inserters : u # t => InserterOnCanon(u)'
<1> SUFFICES ASSUME NEW u \in Inserters, u # t, ipc[u] # "idle"
             PROVE  InserterOnCanon(u)'
  BY Zenon DEF InserterOnCanon
<1>1. Contiguous(chain[u])' 
  BY DEF InserterOnCanon, Contiguous
<1> QED BY <1>1, Zenon DEF InserterOnCanon

\* After the last write for a block the inserter is on top of that block.
LEMMA NextBlockOnCanon ==
    ASSUME TypeInv, NEW t \in Inserters, ipc[t] \in {"store", "storeHeader"},
           InserterOnCanon(t), NextBlock(t), canon' = canon
    PROVE  InserterOnCanon(t)'
<1>1. /\ chain[t] \in Seq(Blocks) /\ Len(chain[t]) > 0 /\ Len(chain[t]) \in Nat
      /\ chain \in [Inserters -> Seq(Blocks)] /\ ipc \in [Inserters -> InsertPC]
      /\ Head(chain[t]) \in Blocks
  BY ChainHead, Zenon DEF TypeInv, TypeOK
<1>2. Contiguous(chain[t]) /\ Canonical(Head(chain[t]))
  BY Zenon DEF InserterOnCanon
<1>3. CASE Len(chain[t]) = 1
  BY <1>1, <1>3, Zenon DEF NextBlock, InserterOnCanon
<1>4. CASE Len(chain[t]) > 1
  <2>1. chain'[t] = Tail(chain[t]) /\ ipc'[t] = "state"
    BY <1>1, <1>4 DEF NextBlock
  <2>2. /\ Contiguous(Tail(chain[t]))
        /\ Parent[Head(Tail(chain[t]))] = Head(chain[t])
        /\ Number[Head(Tail(chain[t]))] = Number[Head(chain[t])] + 1
    BY <1>1, <1>2, <1>4, ContiguousTail, Zenon
  <2>3. Number[Head(chain[t])] \in Nat
    BY <1>1, BlockAssumption, Zenon
  <2>4. Contiguous(chain[t])'
    BY <2>1, <2>2, Zenon DEF Contiguous
  <2>5. Canonical(Parent[Head(chain[t])])'
    BY <1>2, <2>1, <2>2, Zenon DEF Canonical
  <2>6. Number[Head(chain'[t])] > 0
    BY <2>1, <2>2, <2>3
  <2> QED BY <2>1, <2>4, <2>5, <2>6, Zenon DEF InserterOnCanon
<1>5. Len(chain[t]) = 1 \/ Len(chain[t]) > 1
  <2>1. Len(chain[t]) \in Nat /\ Len(chain[t]) > 0
    BY ChainHead, Zenon
  <2>2. \A k \in Nat : k > 0 => k = 1 \/ k > 1
    OBVIOUS
  <2> QED BY <2>1, <2>2, Zenon
<1> QED BY <1>3, <1>4, <1>5, Zenon

\* The writes of an inserting goroutine keep the canonical chain whole.
LEMMA InsertCanonInv ==
    ASSUME SingleChain, ChainInv, NEW t \in Inserters, InsertStep(t)
    PROVE  CanonInv'
<1>0. /\ TypeInv /\ TypeOK /\ ProgressInv /\ CanonStore /\ InserterOnCanon(t)
      /\ \A u \in Inserters : InserterOnCanon(u)
      /\ (headBlock # NoHash => Canonical(headBlock))
      /\ (pc = "up" => Canonical(currentBlock))
      /\ ipc \in [Inserters -> InsertPC] /\ chain \in [Inserters -> Seq(Blocks)]
  BY Zenon DEF ChainInv, StoreInv, CanonInv, TypeInv, TypeOK
<1>1. ipc[t] # "idle"
  BY Zenon DEF InsertStep, OpenState, WriteBody, WriteHeaderNumber, WriteHeader, CommitState, GiveUp,
         ReadCanonicalHash, WriteCanonicalHash, WriteHeadBlockHash, StoreCurrentBlock,
         WriteHeadHeaderHash, StoreCurrentHeader
<1>2. pc' = pc /\ pc = "up"
  BY <1>0, <1>1, Zenon DEF InsertStep, TypeInv, OpenInv
<1>b. PICK b \in Blocks : b = Head(chain[t])
  BY <1>0, <1>1, ChainHead, Zenon
<1>3. CanonStore' /\ (\A c : Canonical(c) => Canonical(c)')
      /\ (ipc[t] = "canon" => Canonical(b)')
  <2>1. CASE WriteCanonicalHash(t)
    <3>1. /\ canon' = [canon EXCEPT ![Number[b]] = b] /\ UNCHANGED <<body, header>>
          /\ ipc[t] = "canon"
      BY <1>b, <2>1, Zenon DEF WriteCanonicalHash
    <3>2. b \in body /\ b \in header /\ Canonical(Parent[b])
      BY <1>0, <1>1, <1>b, <3>1, Zenon DEF ProgressInv, InserterOnCanon
    <3> QED BY <1>0, <3>1, <3>2, CanonStoreExtended, Zenon
  <2>2. CASE ~WriteCanonicalHash(t)
    <3>1. canon' = canon /\ body \subseteq body' /\ header \subseteq header' /\ ipc[t] # "canon"
      BY <2>2, Zenon DEF InsertStep, OpenState, WriteBody, WriteHeaderNumber, WriteHeader, CommitState, GiveUp,
         ReadCanonicalHash, WriteHeadBlockHash, StoreCurrentBlock, WriteHeadHeaderHash,
         StoreCurrentHeader, disk
    <3> QED BY <1>0, <3>1, CanonStoreKept, Zenon
  <2> QED BY <2>1, <2>2, Zenon
<1>4. /\ headBlock' = headBlock \/ (ipc[t] = "head" /\ headBlock' = b)
      /\ currentBlock' = currentBlock \/ (ipc[t] = "store" /\ currentBlock' = b)
      /\ \A u \in Inserters : u # t => ipc'[u] = ipc[u] /\ chain'[u] = chain[u]
  BY <1>0, <1>b, Zenon DEF InsertStep, OpenState, WriteBody, WriteHeaderNumber, WriteHeader, CommitState, GiveUp,
     ReadCanonicalHash, WriteCanonicalHash, WriteHeadBlockHash, StoreCurrentBlock,
     WriteHeadHeaderHash, StoreCurrentHeader, Goto, NextBlock, disk
<1>5. InserterOnCanon(t)'
  <2>1. CASE (StoreCurrentBlock(t) \/ StoreCurrentHeader(t)) /\ NextBlock(t)
    BY <1>0, <2>1, NextBlockOnCanon, Zenon DEF StoreCurrentBlock, StoreCurrentHeader, disk
  <2>2. CASE ~((StoreCurrentBlock(t) \/ StoreCurrentHeader(t)) /\ NextBlock(t))
    <3>1. \/ ipc'[t] = "idle"
          \/ /\ chain'[t] = chain[t]
             /\ ipc'[t] \in {"head", "store", "headHeader", "storeHeader"} =>
                   ipc[t] \in {"canon", "head", "store", "headHeader", "storeHeader"}
      BY <1>0, <2>2, Zenon
      DEF InsertStep, OpenState, WriteBody, WriteHeaderNumber, WriteHeader, CommitState, GiveUp,
          ReadCanonicalHash, WriteCanonicalHash, WriteHeadBlockHash, StoreCurrentBlock,
          WriteHeadHeaderHash, StoreCurrentHeader, Goto
    <3>2. chain'[t] = chain[t] => (Contiguous(chain[t]) => Contiguous(chain[t])')
      BY Zenon DEF Contiguous
    <3>3. chain'[t] = chain[t] =>
            /\ Canonical(Parent[b]) => Canonical(Parent[Head(chain[t])])'
            /\ Canonical(b)' => Canonical(Head(chain[t]))'
      BY <1>3, <1>b, Zenon DEF Canonical
    <3> QED BY <1>0, <1>1, <1>3, <1>b, <3>1, <3>2, <3>3, Zenon DEF InserterOnCanon
  <2> QED BY <2>1, <2>2, Zenon
<1>6. \A u \in Inserters : u # t => InserterOnCanon(u)'
  BY <1>0, <1>3, <1>4, OtherInserters, Zenon
<1>7. (headBlock # NoHash => Canonical(headBlock))' /\ (pc = "up" => Canonical(currentBlock))'
  <2>1. ipc[t] \in {"head", "store"} => Canonical(b)
    BY <1>0, <1>b, Zenon DEF InserterOnCanon
  <2> QED BY <1>0, <1>2, <1>3, <1>4, <2>1, Zenon DEF Canonical
<1> QED BY <1>2, <1>3, <1>5, <1>6, <1>7, Zenon DEF CanonInv

\* A step outside the inserters that leaves the canonical chain alone.
LEMMA CanonInvKept ==
    ASSUME ChainInv, canon' = canon, body \subseteq body', header \subseteq header',
           headBlock' \in {headBlock, NoHash} \/ Canonical(headBlock'),
           pc' = "up" => Canonical(currentBlock'),
           pc' \in {"gHead", "gHeadHeader"} => Canonical(Genesis),
           UNCHANGED <<ipc, chain>> \/ \A t \in Inserters : ipc'[t] = "idle"
    PROVE  CanonInv'
<1>1. CanonStore' /\ \A c : Canonical(c) => Canonical(c)'
  BY CanonStoreKept, Zenon DEF ChainInv, CanonInv
<1>2. ASSUME NEW t \in Inserters PROVE InserterOnCanon(t)'
  <2>1. CASE ipc'[t] = "idle"
    BY <2>1, Zenon DEF InserterOnCanon
  <2>2. CASE ipc' = ipc /\ chain' = chain
    <3>1. InserterOnCanon(t) /\ (Contiguous(chain[t]) => Contiguous(chain[t])')
      BY <2>2, Zenon DEF ChainInv, CanonInv, Contiguous
    <3> QED BY <1>1, <2>2, <3>1, Zenon DEF InserterOnCanon
  <2> QED BY <2>1, <2>2, Zenon
<1>3. (headBlock # NoHash => Canonical(headBlock))' /\ (pc = "up" => Canonical(currentBlock))'
      /\ (pc \in {"gHead", "gHeadHeader"} => Canonical(Genesis))'
  BY Zenon DEF ChainInv, CanonInv, Canonical
<1> QED BY <1>1, <1>2, <1>3, Zenon DEF CanonInv

\* Every step keeps ChainInv.
LEMMA NextChainInv ==
    ASSUME ~Rewind, SingleChain, ChainInv, [Next]_vars
    PROVE  ChainInv'
<1> USE DEF ChainInv
<1>0. StoreInv' /\ TypeInv /\ TypeOK /\ (\A t \in Inserters : pc # "up" => ipc[t] = "idle")
  BY NextStoreInv, Zenon DEF StoreInv, TypeInv, OpenInv
<1>1. CASE UNCHANGED vars
  BY <1>0, <1>1, CanonInvKept, Zenon DEF vars, disk, inserts, CanonInv
<1>2. CASE Exit
  BY <1>0, <1>2, CanonInvKept, Zenon DEF Exit, disk
<1>3. ASSUME NEW r \in states, LoseState(r) PROVE ChainInv'
  BY <1>0, <1>3, CanonInvKept, Zenon DEF LoseState, inserts
<1>4. CASE SetupGenesisBlock
  BY <1>0, <1>4, CanonInvKept, Zenon DEF SetupGenesisBlock, disk, inserts
<1>5. CASE GenesisStep /\ pc = "gCanon"
  \* The canonical hash of genesis: nothing below it.
  <2>1. /\ canon' = [canon EXCEPT ![Number[Genesis]] = Genesis]
        /\ UNCHANGED <<body, header, headBlock, ipc, chain>> /\ pc' = "gHead"
    BY <1>5, BlockAssumption, Zenon DEF GenesisStep, ToBlock, CommitGenesis, inserts
  <2>2. Genesis \in body /\ Genesis \in header
    BY <1>5, Zenon DEF StoreInv, ProgressInv
  <2>3. CanonStore' /\ Canonical(Genesis)' /\ \A c : Canonical(c) => Canonical(c)'
    <3>1. CanonStore /\ Genesis \in Blocks /\ ~(Number[Genesis] > 0)
      BY BlockAssumption DEF CanonInv
    <3> QED BY <1>0, <2>1, <2>2, <3>1, CanonStoreExtended, Zenon
  <2>4. \A t \in Inserters : InserterOnCanon(t)'
    BY <1>0, <1>5, <2>1, Zenon DEF InserterOnCanon
  <2>5. (headBlock # NoHash => Canonical(headBlock))'
    BY <2>1, <2>3, Zenon DEF CanonInv, Canonical
  <2> QED BY <1>0, <2>1, <2>3, <2>4, <2>5, Zenon DEF CanonInv
<1>6. CASE GenesisStep /\ pc # "gCanon"
  BY <1>0, <1>6, CanonInvKept, Zenon
  DEF GenesisStep, ToBlock, CommitGenesis, inserts, CanonInv
<1>7. CASE NewBlockChain
  BY <1>0, <1>7, CanonInvKept, Zenon DEF NewBlockChain, disk, inserts
<1>8. CASE LoadLastState
  <2>1. GetBlockByHash(headBlock) => headBlock # NoHash
    BY <1>0, BlockAssumption, Zenon DEF GetBlockByHash, TypeOK
  <2> QED BY <1>0, <1>8, <2>1, CanonInvKept, Zenon DEF LoadLastState, Return, Reset, disk, inserts, CanonInv
<1>9. CASE Repair
  BY <1>0, <1>9, CanonInvKept, Zenon DEF Repair, Return, disk, inserts, StoreInv, NoRewindInv
<1>10. CASE SetHeadStep
  <2>1. pc # "setHeadHeader" /\ batch = {} /\ (pc = "setHead" => ~(Number[currentHeader] > target))
    BY <1>0, <1>10 DEF StoreInv, NoRewindInv, TypeOK, SetHeadStep, UpdateHeadBlock, RewindHeader,
       WriteBatch
  <2>2. WriteBatch /\ canon' = canon
    BY <1>0, <1>10, <2>1, Zenon DEF SetHeadStep, UpdateHeadBlock, RewindHeader, WriteBatch, TypeOK
  <2> QED BY <1>0, <2>1, <2>2, CanonInvKept, Zenon DEF WriteBatch, inserts
<1>11. ASSUME NEW n \in Numbers, SetHead(n) PROVE ChainInv'
  BY <1>11, Zenon DEF SetHead
<1>12. ASSUME NEW t \in Inserters, InsertStep(t) PROVE ChainInv'
  BY <1>0, <1>12, InsertCanonInv, Zenon
<1>13. ASSUME NEW t \in Inserters, NEW c \in Batches, InsertChain(t, c), ~Exit PROVE ChainInv'
  \* The batch starts one above the current block, which is the only block there.
  <2>1. /\ c \in Seq(Blocks) /\ Len(c) > 0 /\ c[1] \in Blocks /\ Head(c) = c[1]
    BY BlockAssumption
  <2>2. /\ Contiguous(c) /\ Number[c[1]] = Number[currentBlock] + 1 /\ Canonical(currentBlock)
        /\ chain' = [chain EXCEPT ![t] = c] /\ ipc' = [ipc EXCEPT ![t] = "state"]
        /\ UNCHANGED <<body, header, canon, headBlock, currentBlock, pc>> /\ pc = "up"
    BY <1>13, Zenon DEF InsertChain, disk, CanonInv
  <2>3. Number[c[1]] > 0 /\ Parent[c[1]] = currentBlock
    BY <2>1, <2>2, BlockAssumption DEF SingleChain, Canonical
  <2>4. CanonStore' /\ \A d : Canonical(d) => Canonical(d)'
    BY <2>2, CanonStoreKept, Zenon DEF CanonInv
  <2>5. ipc'[t] = "state" /\ chain'[t] = c
        /\ \A u \in Inserters : u # t => ipc'[u] = ipc[u] /\ chain'[u] = chain[u]
    BY <1>0, <2>2, Zenon DEF TypeOK
  <2>6. InserterOnCanon(t)'
    <3>1. Contiguous(chain[t])'
      BY <2>2, <2>5, Zenon DEF Contiguous
    <3>2. Canonical(Parent[Head(chain[t])])'
      BY <2>1, <2>2, <2>3, <2>5, Zenon DEF Canonical
    <3> QED BY <2>1, <2>3, <2>5, <3>1, <3>2, Zenon DEF InserterOnCanon
  <2>7. \A u \in Inserters : u # t => InserterOnCanon(u)'
    BY <1>0, <2>4, <2>5, OtherInserters, Zenon DEF CanonInv
  <2>8. (headBlock # NoHash => Canonical(headBlock))' /\ Canonical(currentBlock)'
    BY <2>2, <2>4, Zenon DEF CanonInv, Canonical
  <2> QED BY <1>0, <2>2, <2>4, <2>6, <2>7, <2>8, Zenon DEF CanonInv
<1> QED
  BY <1>1, <1>2, <1>3, <1>4, <1>5, <1>6, <1>7, <1>8, <1>9, <1>10, <1>11, <1>12, <1>13, Zenon
  DEF Next, StartStep, Crash

\* ChainInv implies that the canonical chain is complete.
LEMMA ChainInvGives ==
    ASSUME SingleChain, TypeOK, ChainInv
    PROVE  CanonicalChainIsComplete
<1> SUFFICES ASSUME headBlock # NoHash
             PROVE  /\ canon[Number[headBlock]] = headBlock
                    /\ \A n \in 0..Number[headBlock] :
                          /\ canon[n] # NoHash /\ GetBlock(canon[n], n)
                          /\ n > 0 => Parent[canon[n]] = canon[n - 1]
  BY Zenon DEF CanonicalChainIsComplete
<1>1. Canonical(headBlock) /\ CanonStore /\ headBlock \in Blocks
  BY Zenon DEF ChainInv, CanonInv, Canonical
<1>2. ASSUME NEW n \in 0..Number[headBlock]
      PROVE  /\ canon[n] # NoHash /\ GetBlock(canon[n], n)
             /\ n > 0 => Parent[canon[n]] = canon[n - 1]
  <2>1. n \in Numbers /\ canon[n] # NoHash
    BY <1>1, Zenon DEF CanonStore
  <2>2. Number[canon[n]] = n /\ GetBlock(canon[n], n) /\ canon[n] \in Blocks
    BY <1>1, <2>1, Zenon DEF CanonStore, TypeOK, Hashes
  <2>3. Canonical(canon[n])
    BY <2>2, Zenon DEF Canonical
  <2>4. ASSUME n > 0 PROVE Parent[canon[n]] = canon[n - 1]
    <3>1. Canonical(Parent[canon[n]])
      BY <1>1, <2>2, <2>3, <2>4, Zenon DEF CanonStore
    <3>2. Number[Parent[canon[n]]] = n - 1
      BY <2>2, <2>4, Zenon DEF SingleChain
    <3> QED BY <3>1, <3>2, Zenon DEF Canonical
  <2> QED BY <2>1, <2>2, <2>4, Zenon
<1> QED BY <1>1, <1>2, Zenon DEF Canonical

\* When all peers serve one chain, every block up to the stored head is canonical,
\* stored and on top of the one below it, however many goroutines insert
\* overlapping batches and wherever the process stops.
THEOREM CanonicalChain ==
    ~Rewind /\ SingleChain => (Spec => []CanonicalChainIsComplete)
<1> SUFFICES ASSUME ~Rewind, SingleChain PROVE Spec => []CanonicalChainIsComplete
  BY Zenon
<1>1. Spec => []ChainInv
  BY InitChainInv, NextChainInv, PTL DEF Spec
<1>2. ChainInv => CanonicalChainIsComplete
  BY ChainInvGives, Zenon DEF ChainInv, StoreInv, TypeInv
<1> QED BY <1>1, <1>2, PTL

\* OpensOnceInitialised is inductive relative to ChainInv: LastBlock is written
\* after everything NewBlockChain and loadLastState look for.
LEMMA NextOpens ==
    ASSUME ~Rewind, SingleChain, ChainInv, OpensOnceInitialised, [Next]_vars
    PROVE  OpensOnceInitialised'
<1> USE DEF OpensOnceInitialised
<1>0. TypeInv /\ HeadIsStored /\ (pc = "setHead" => headBlock = NoHash) /\ pc # "setHeadHeader"
  BY Zenon DEF ChainInv, StoreInv, NoRewindInv
<1>1. CASE UNCHANGED vars
  BY <1>1, Zenon DEF vars, disk, StateAt
<1>2. CASE Exit
  BY <1>2, Zenon DEF Exit
<1>3. ASSUME NEW r \in states, LoseState(r) PROVE OpensOnceInitialised'
  BY <1>3, Zenon DEF LoseState
<1>4. CASE SetupGenesisBlock \/ GenesisStep
  BY <1>4, Zenon DEF SetupGenesisBlock, GenesisStep, ToBlock, CommitGenesis
<1>5. CASE NewBlockChain
  <2>1. headBlock # NoHash => canon[0] # NoHash /\ GetBlock(canon[0], 0)
    <3>1. SUFFICES ASSUME headBlock # NoHash PROVE canon[0] # NoHash /\ GetBlock(canon[0], 0)
      BY Zenon
    <3>2. CanonicalChainIsComplete /\ Number[headBlock] \in Nat
      <4>1. TypeOK /\ headBlock \in Blocks
        BY <1>0, <3>1, Zenon DEF TypeInv, TypeOK, Hashes
      <4>2. CanonicalChainIsComplete
        BY <4>1, ChainInvGives, Zenon
      <4> QED BY <4>1, <4>2, BlockAssumption, Zenon
    <3>3. 0 \in 0..Number[headBlock]
      BY <3>2
    <3> QED BY <3>1, <3>2, <3>3, Zenon DEF CanonicalChainIsComplete
  <2> QED BY <1>5, <2>1, Zenon DEF NewBlockChain, disk
<1>6. CASE LoadLastState
  BY <1>0, <1>6 DEF LoadLastState, Return, Reset, HeadIsStored, StateAt, disk, rewinding
<1>7. CASE Repair
  BY <1>7, Zenon DEF Repair, Return, StateAt, disk
<1>8. CASE SetHeadStep
  BY <1>0, <1>8, Zenon DEF SetHeadStep, UpdateHeadBlock, RewindHeader, WriteBatch
<1>9. ASSUME NEW n \in Numbers, SetHead(n) PROVE OpensOnceInitialised'
  BY <1>9, Zenon DEF SetHead
<1>10. ASSUME NEW t \in Inserters, InsertStep(t) \/ \E c \in Batches : InsertChain(t, c)
       PROVE  OpensOnceInitialised'
  <2>1. pc = "up"
    BY <1>0, <1>10, Zenon DEF InsertChain, InsertStep, OpenState, WriteBody, WriteHeaderNumber,
       WriteHeader, CommitState, GiveUp, ReadCanonicalHash, WriteCanonicalHash, WriteHeadBlockHash,
       StoreCurrentBlock, WriteHeadHeaderHash, StoreCurrentHeader, TypeInv, OpenInv
  <2> QED BY <1>10, <2>1, Zenon DEF InsertChain, InsertStep, Exit
<1> QED
  BY <1>1, <1>2, <1>3, <1>4, <1>5, <1>6, <1>7, <1>8, <1>9, <1>10, Zenon DEF Next, StartStep, Crash

\* A database whose init command got as far as LastBlock, and whose head state is
\* stored, is never one on which NewBlockChain fails, loops in repair or blocks.
THEOREM InitialisedChainOpens ==
    ~Rewind /\ SingleChain => (Spec => []OpensOnceInitialised)
<1> SUFFICES ASSUME ~Rewind, SingleChain PROVE Spec => []OpensOnceInitialised
  BY Zenon
<1>1. Spec => []ChainInv
  BY InitChainInv, NextChainInv, PTL DEF Spec
<1>2. Init => OpensOnceInitialised
  BY Zenon DEF Init, OpensOnceInitialised
<1>3. ChainInv /\ OpensOnceInitialised /\ [Next]_vars => OpensOnceInitialised'
  BY NextOpens, Zenon
<1> QED BY <1>1, <1>2, <1>3, PTL DEF Spec


-----------------------------------------------------------------------------
(* The refinement: SetHead only through Reset, and blocks of one chain *)

\* The ledger that the canonical hashes of the store hold.
Stored == {canon[n] : n \in Numbers} \ {NoHash}

\* A block is in the ledger exactly when it is the canonical one of its height.
LEMMA StoredIsCanonical ==
    ASSUME TypeOK, CanonStore
    PROVE  \A b : b \in Stored <=> Canonical(b)
<1>1. ASSUME NEW n \in Numbers, canon[n] # NoHash PROVE Canonical(canon[n])
  BY <1>1, Zenon DEF TypeOK, Hashes, CanonStore, Canonical
<1>2. ASSUME NEW b, Canonical(b) PROVE b \in Stored
  BY <1>2, BlockAssumption, Zenon DEF Canonical, Stored, Numbers
<1> QED BY <1>1, <1>2, Zenon DEF Stored

\* One more canonical hash, on top of a canonical block, extends the ledger or
\* repeats what it holds.
LEMMA HashExtends ==
    ASSUME SingleChain, TypeOK, CanonStore, NEW b \in Blocks,
           b = Genesis \/ Canonical(Parent[b]),
           canon' = [canon EXCEPT ![Number[b]] = b], headBlock' = headBlock
    PROVE  [AsLedger!Extend]_<<Stored, headBlock>>
<1>1. Number[b] \in Numbers /\ canon \in [Numbers -> Hashes]
  BY BlockAssumption, Zenon DEF Numbers, TypeOK
<1>2. canon[Number[b]] \in {NoHash, b}
  <2>1. CASE canon[Number[b]] # NoHash
    <3>1. canon[Number[b]] \in Blocks /\ Number[canon[Number[b]]] = Number[b]
      BY <1>1, <2>1, Zenon DEF CanonStore, Hashes
    <3> QED BY <3>1, Zenon DEF SingleChain
  <2> QED BY <2>1, Zenon
<1>3. Stored' = Stored \cup {b}
  <2>1. ASSUME NEW n \in Numbers PROVE canon'[n] = IF n = Number[b] THEN b ELSE canon[n]
    BY <1>1, Zenon
  <2>2. ASSUME NEW c \in Stored PROVE c \in Stored'
    <3>1. PICK n \in Numbers : c = canon[n] /\ c # NoHash
      BY Zenon DEF Stored
    <3>2. canon'[n] = c
      BY <1>2, <2>1, <3>1, Zenon
    <3> QED BY <3>1, <3>2, Zenon DEF Stored
  <2>3. b \in Stored'
    BY <1>1, <2>1, BlockAssumption, Zenon DEF Stored
  <2>4. ASSUME NEW c \in Stored' PROVE c \in Stored \cup {b}
    <3>1. PICK n \in Numbers : c = canon'[n] /\ c # NoHash
      BY Zenon DEF Stored
    <3> QED BY <2>1, <3>1, Zenon DEF Stored
  <2> QED BY <2>2, <2>3, <2>4, Zenon
<1>4. b = Genesis \/ Parent[b] \in Stored
  BY StoredIsCanonical, Zenon
<1>5. CASE b \in Stored
  BY <1>3, <1>5, Zenon
<1>6. CASE b \notin Stored
  BY <1>3, <1>4, <1>6, Zenon DEF AsLedger!Extend, AsLedger!Fits, Stored
<1> QED BY <1>5, <1>6, Zenon

\* Every step of the chain is a step of the ledger or leaves it alone.
LEMMA NextIsLedger ==
    ASSUME ~Rewind, SingleChain, ChainInv, [Next]_vars
    PROVE  [AsLedger!Extend \/ AsLedger!MoveHead]_<<Stored, headBlock>>
<1> DEFINE Goal == [AsLedger!Extend \/ AsLedger!MoveHead]_<<Stored, headBlock>>
<1> SUFFICES Goal
  BY Zenon
<1>0. /\ TypeInv /\ TypeOK /\ CanonStore /\ ProgressInv
      /\ \A t \in Inserters : InserterOnCanon(t)
      /\ (pc = "gHead" => Canonical(Genesis))
  BY Zenon DEF ChainInv, CanonInv, StoreInv, TypeInv
<1>1. ASSUME UNCHANGED <<canon, headBlock>> PROVE Goal
  BY <1>1, Zenon DEF Stored
<1>2. ASSUME canon' = canon, Canonical(headBlock') PROVE Goal
  <2>1. headBlock' \in Stored /\ Stored' = Stored
    BY <1>0, <1>2, StoredIsCanonical, Zenon DEF Stored
  <2> QED BY <2>1, Zenon DEF AsLedger!MoveHead, Stored
<1>3. CASE UNCHANGED vars \/ Exit \/ SetupGenesisBlock \/ NewBlockChain \/ LoadLastState \/ Repair
  BY <1>1, <1>3, Zenon DEF vars, disk, Exit, SetupGenesisBlock, NewBlockChain, LoadLastState, Return, Reset, Repair
<1>4. ASSUME NEW r \in states, LoseState(r) PROVE Goal
  BY <1>1, <1>4, Zenon DEF LoseState
<1>5. CASE GenesisStep /\ pc = "gCanon"
  <2>1. /\ canon' = [canon EXCEPT ![Number[Genesis]] = Genesis] /\ headBlock' = headBlock
        /\ Genesis \in Blocks
    BY <1>5, BlockAssumption, Zenon DEF GenesisStep, ToBlock, CommitGenesis
  <2>2. [AsLedger!Extend]_<<Stored, headBlock>>
    BY <1>0, <2>1, HashExtends, Zenon
  <2> QED BY <2>2, Zenon
<1>6. CASE GenesisStep /\ pc = "gHead"
  BY <1>0, <1>2, <1>6, Zenon DEF GenesisStep, ToBlock, CommitGenesis
<1>7. CASE GenesisStep /\ pc \notin {"gCanon", "gHead"}
  BY <1>1, <1>7, Zenon DEF GenesisStep, ToBlock, CommitGenesis
<1>8. CASE SetHeadStep
  <2>1. pc # "setHeadHeader" /\ batch = {} /\ (pc = "setHead" => ~(Number[currentHeader] > target))
    BY <1>0, <1>8 DEF ChainInv, StoreInv, NoRewindInv, TypeOK, SetHeadStep, UpdateHeadBlock,
       RewindHeader, WriteBatch
  <2>2. canon' = canon /\ headBlock' = headBlock
    BY <1>0, <1>8, <2>1, Zenon DEF SetHeadStep, UpdateHeadBlock, RewindHeader, WriteBatch, TypeOK
  <2> QED BY <1>1, <2>2, Zenon
<1>9. ASSUME NEW n \in Numbers, SetHead(n) PROVE Goal
  BY <1>9, Zenon DEF SetHead
<1>10. ASSUME NEW t \in Inserters, InsertStep(t) PROVE Goal
  <2>1. CASE WriteCanonicalHash(t)
    <3>1. PICK b \in Blocks : b = Head(chain[t])
      BY <1>0, <2>1, ChainHead, Zenon DEF WriteCanonicalHash
    <3>2. Canonical(Parent[b])
      BY <1>0, <2>1, <3>1, Zenon DEF InserterOnCanon, WriteCanonicalHash
    <3>3. canon' = [canon EXCEPT ![Number[b]] = b] /\ headBlock' = headBlock
      BY <2>1, <3>1, Zenon DEF WriteCanonicalHash
    <3>4. [AsLedger!Extend]_<<Stored, headBlock>>
      BY <1>0, <3>2, <3>3, HashExtends, Zenon
    <3> QED BY <3>4, Zenon
  <2>2. CASE WriteHeadBlockHash(t)
    <3>1. Canonical(Head(chain[t]))
      BY <1>0, <2>2, Zenon DEF InserterOnCanon, WriteHeadBlockHash
    <3> QED BY <1>2, <2>2, <3>1, Zenon DEF WriteHeadBlockHash
  <2>3. CASE ~WriteCanonicalHash(t) /\ ~WriteHeadBlockHash(t)
    BY <1>1, <1>10, <2>3, Zenon DEF InsertStep, OpenState, WriteBody, WriteHeaderNumber, WriteHeader,
       CommitState, GiveUp, ReadCanonicalHash, StoreCurrentBlock, WriteHeadHeaderHash,
       StoreCurrentHeader, disk
  <2> QED BY <2>1, <2>2, <2>3, Zenon
<1>11. ASSUME NEW t \in Inserters, NEW c \in Batches, InsertChain(t, c) PROVE Goal
  BY <1>1, <1>11, Zenon DEF InsertChain, Exit, disk
<1> HIDE DEF Goal
<1> QED BY <1>3, <1>4, <1>5, <1>6, <1>7, <1>8, <1>9, <1>10, <1>11, Zenon DEF Next, StartStep, Crash

\* When all peers serve one chain and nobody rewinds it, the store implements the
\* ledger, however many goroutines insert overlapping batches and wherever the
\* process stops: no canonical hash is taken back, each new one is on top of an
\* older one, and LastBlock moves to canonical blocks only.
THEOREM ChainIsLedger ==
    ~Rewind /\ SingleChain => (Spec => IsLedger)
<1> SUFFICES ASSUME ~Rewind, SingleChain PROVE Spec => IsLedger
  BY Zenon
<1>1. Spec => []ChainInv
  BY InitChainInv, NextChainInv, PTL DEF Spec
<1>2. Init => AsLedger!Init
  BY Zenon DEF Init, AsLedger!Init
<1>3. ChainInv /\ [Next]_vars => [AsLedger!Extend \/ AsLedger!MoveHead]_<<Stored, headBlock>>
  BY NextIsLedger, Zenon
<1> QED BY <1>1, <1>2, <1>3, PTL DEF Spec, IsLedger, AsLedger!Spec, Stored

-----------------------------------------------------------------------------
(* The header chain *)

OnChain(h) == Canonical(h) /\ h \in hashNumber /\ h \in header

HeaderInv ==
    /\ headHeader # NoHash => OnChain(headHeader)
    /\ pc = "up" => OnChain(currentHeader)

\* Without SetHead on a running chain nothing leaves it.
LEMMA OnChainKept ==
    ASSUME ~Rewind, SingleChain, ChainInv, [Next]_vars
    PROVE  \A h : OnChain(h) => OnChain(h)'
<1>0. TypeInv /\ TypeOK /\ CanonStore /\ NoRewindInv /\ TypeOK' /\ CanonStore'
  BY NextChainInv, Zenon DEF ChainInv, CanonInv, StoreInv, TypeInv
<1>1. Stored \subseteq Stored'
  BY NextIsLedger, Zenon DEF AsLedger!Extend, AsLedger!MoveHead, Stored
<1>2. ASSUME NEW h, Canonical(h) PROVE Canonical(h)'
  <2>1. h \in Stored' /\ h \in Blocks
    BY <1>0, <1>1, <1>2, StoredIsCanonical, Zenon DEF Canonical
  <2>2. PICK n \in Numbers : h = canon'[n] /\ h # NoHash
    BY <2>1, Zenon DEF Stored
  <2>3. Number[canon'[n]] = n
    BY <1>0, <2>2, Zenon DEF CanonStore
  <2> QED BY <2>1, <2>2, <2>3, Zenon DEF Canonical
<1>3. hashNumber \subseteq hashNumber' /\ header \subseteq header'
  <2>1. ASSUME NEW t \in Inserters, InsertStep(t) \/ \E c \in Batches : InsertChain(t, c)
        PROVE  hashNumber \subseteq hashNumber' /\ header \subseteq header'
    BY <2>1, Zenon DEF InsertStep, OpenState, WriteBody, WriteHeaderNumber, WriteHeader, CommitState, GiveUp,
       ReadCanonicalHash, WriteCanonicalHash, WriteHeadBlockHash, StoreCurrentBlock,
       WriteHeadHeaderHash, StoreCurrentHeader, InsertChain, Exit, disk
  <2>2. CASE SetHeadStep
    BY <1>0, <2>2, Zenon DEF SetHeadStep, UpdateHeadBlock, RewindHeader, WriteBatch, NoRewindInv
  <2>3. CASE GenesisStep
    BY <2>3, Zenon DEF GenesisStep, ToBlock, CommitGenesis
  <2>4. ASSUME NEW n \in Numbers, SetHead(n) PROVE FALSE
    BY <2>4, Zenon DEF SetHead
  <2>5. CASE \/ UNCHANGED vars \/ Crash \/ SetupGenesisBlock \/ NewBlockChain \/ StartStep
            \/ \E r \in states : LoseState(r)
    BY <2>5, Zenon DEF vars, disk, Crash, Exit, SetupGenesisBlock, NewBlockChain, StartStep, LoadLastState,
       Reset, Repair, Return, LoseState
  <2> QED BY <2>1, <2>2, <2>3, <2>4, <2>5, Zenon DEF Next
<1> QED BY <1>2, <1>3, Zenon DEF OnChain

\* The header heads move to canonical headers: those of an inserter that has come
\* to its last writes, of genesis, or, on the way up, what the store names.
LEMMA NextHeaderInv ==
    ASSUME ~Rewind, SingleChain, ChainInv, HeaderInv, [Next]_vars
    PROVE  HeaderInv'
<1>0. /\ TypeInv /\ TypeOK /\ ProgressInv /\ NoRewindInv /\ HeadIsStored
      /\ (headBlock # NoHash => Canonical(headBlock))
      /\ (pc = "gHeadHeader" => Canonical(Genesis))
      /\ \A t \in Inserters : InserterOnCanon(t)
      /\ \A t \in Inserters : ipc[t] # "idle" => pc = "up"
  BY Zenon DEF ChainInv, CanonInv, StoreInv, TypeInv, OpenInv
<1>1. \A h : OnChain(h) => OnChain(h)'
  BY OnChainKept, Zenon
<1>2. ASSUME headHeader' = headHeader \/ OnChain(headHeader'),
             pc' = "up" => (pc = "up" /\ currentHeader' = currentHeader) \/ OnChain(currentHeader')
      PROVE  HeaderInv'
  <2>1. headHeader' # NoHash => OnChain(headHeader')
    BY <1>2, Zenon DEF HeaderInv
  <2>2. pc' = "up" => OnChain(currentHeader')
    BY <1>2, Zenon DEF HeaderInv
  <2>3. (headHeader' # NoHash => OnChain(headHeader)') /\ (pc' = "up" => OnChain(currentHeader)')
    BY <1>1, <2>1, <2>2, Zenon DEF OnChain, Canonical
  <2> QED BY <2>3, Zenon DEF HeaderInv
<1>3. ASSUME NEW t \in Inserters, ipc[t] \in {"headHeader", "storeHeader"}
      PROVE  OnChain(Head(chain[t]))
  BY <1>0, <1>3, Zenon DEF OnChain, InserterOnCanon, ProgressInv
<1>4. ASSUME NEW t \in Inserters, InsertStep(t) PROVE HeaderInv'
  <2>1. CASE WriteHeadHeaderHash(t)
    BY <1>2, <1>3, <1>4, <2>1, Zenon DEF WriteHeadHeaderHash, InsertStep
  <2>2. CASE StoreCurrentHeader(t)
    BY <1>2, <1>3, <1>4, <2>2, Zenon DEF StoreCurrentHeader, InsertStep, disk
  <2>3. CASE ~WriteHeadHeaderHash(t) /\ ~StoreCurrentHeader(t)
    BY <1>2, <1>4, <2>3, Zenon DEF InsertStep, OpenState, WriteBody, WriteHeaderNumber, WriteHeader,
       CommitState, GiveUp, ReadCanonicalHash, WriteCanonicalHash, WriteHeadBlockHash, StoreCurrentBlock, disk
  <2> QED BY <2>1, <2>2, <2>3, Zenon
<1>5. ASSUME NEW t \in Inserters, NEW c \in Batches, InsertChain(t, c) PROVE HeaderInv'
  BY <1>2, <1>5, Zenon DEF InsertChain, Exit, disk
<1>6. CASE GenesisStep
  <2>1. pc = "gHeadHeader" => OnChain(Genesis)
    BY <1>0, Zenon DEF OnChain, ProgressInv
  <2> QED BY <1>2, <1>6, <2>1, Zenon DEF GenesisStep, ToBlock, CommitGenesis
<1>7. CASE LoadLastState
  <2>1. CASE pc' = "up"
    <3>1. /\ GetBlockByHash(headBlock) /\ headHeader' = currentHeader'
          /\ currentHeader' = IF GetHeaderByHash(headHeader) THEN headHeader ELSE headBlock
      BY <1>7, <2>1, Zenon DEF LoadLastState, Return, Reset
    <3>2. OnChain(headBlock)
      <4>1. headBlock \in hashNumber /\ headBlock \in header
        BY <3>1, Zenon DEF GetBlockByHash, GetBlock, GetHeader
      <4>2. headBlock # NoHash
        BY <1>0, <4>1, BlockAssumption, Zenon DEF TypeOK
      <4> QED BY <1>0, <4>1, <4>2, Zenon DEF OnChain
    <3>3. GetHeaderByHash(headHeader) => headHeader # NoHash
      BY <1>0, BlockAssumption, Zenon DEF GetHeaderByHash, TypeOK
    <3>4. OnChain(currentHeader')
      BY <3>1, <3>2, <3>3, Zenon DEF HeaderInv
    <3> QED BY <1>2, <3>1, <3>4, Zenon
  <2>2. CASE pc' # "up"
    BY <1>2, <1>7, <2>2, Zenon DEF LoadLastState, Return, Reset, disk
  <2> QED BY <2>1, <2>2, Zenon
<1>8. CASE SetHeadStep
  <2>1. ~RewindHeader
    BY <1>0, Zenon DEF RewindHeader, NoRewindInv
  <2>2. ~UpdateHeadBlock
    <3>1. SUFFICES ASSUME pc = "setHead", Number[currentHeader] > target PROVE FALSE
      BY Zenon DEF UpdateHeadBlock
    <3>2. Number[currentHeader] = 0 /\ target \in Nat
      BY <1>0, <3>1, Zenon DEF NoRewindInv, TypeOK
    <3> QED BY <3>1, <3>2
  <2>3. WriteBatch
    BY <1>8, <2>1, <2>2, Zenon DEF SetHeadStep
  <2> QED BY <1>2, <2>3, Zenon DEF WriteBatch
<1>9. ASSUME NEW n \in Numbers, SetHead(n) PROVE FALSE
  BY <1>9, Zenon DEF SetHead
<1>10. CASE \/ UNCHANGED vars \/ Crash \/ SetupGenesisBlock \/ NewBlockChain \/ Repair
           \/ \E r \in states : LoseState(r)
  BY <1>0, <1>2, <1>10, Zenon
  DEF vars, disk, Crash, Exit, SetupGenesisBlock, NewBlockChain, Repair, Return, LoseState, NoRewindInv
<1> QED BY <1>4, <1>5, <1>6, <1>7, <1>8, <1>9, <1>10, Zenon DEF Next, StartStep

\* When all peers serve one chain and nobody rewinds it, CurrentHeader of a running
\* node is a canonical header that GetHeaderByHash finds, however many goroutines
\* insert and wherever earlier processes stopped.
THEOREM CanonicalHeader ==
    ~Rewind /\ SingleChain => (Spec => []HeaderIsCanonical)
<1> SUFFICES ASSUME ~Rewind, SingleChain PROVE Spec => []HeaderIsCanonical
  BY Zenon
<1>1. Spec => []ChainInv
  BY InitChainInv, NextChainInv, PTL DEF Spec
<1>2. Init => HeaderInv
  BY Zenon DEF Init, HeaderInv
<1>3. ChainInv /\ HeaderInv /\ [Next]_vars => HeaderInv'
  BY NextHeaderInv, Zenon
<1>4. HeaderInv => HeaderIsCanonical
  BY Zenon DEF HeaderInv, HeaderIsCanonical, OnChain, Canonical, GetHeaderByHash, GetHeader
<1> QED BY <1>1, <1>2, <1>3, <1>4, PTL DEF Spec

-----------------------------------------------------------------------------
(* The state of the current block, with SetHead and lost states *)

\* The state of the current block opens; or updateFn fell back to genesis, and only an
\* inserter that is about to store its block as the current one has LastBlock elsewhere.
CurrentKnown ==
    \/ StateAt(currentBlock)
    \/ /\ currentBlock = canon[0]
       /\ headBlock = currentBlock \/ \E t \in Inserters : ipc[t] = "store"

\* Every block an inserter works on beyond its first test has a state that opens, and
\* none of them is at height 0, so nothing takes the place of genesis.
StateInv ==
    /\ currentBlock # NoHash => CurrentKnown
    /\ pc = "up" => currentBlock \in Blocks
    /\ \A t \in Inserters : ipc[t] \notin {"idle", "state"} => StateAt(Head(chain[t]))
    /\ \A t \in Inserters : \A i \in 1..Len(chain[t]) : Number[chain[t][i]] > 0

\* A state that opens is not given up while the node runs.
LEMMA StatesKept ==
    ASSUME states \subseteq states' PROVE \A b : StateAt(b) => Root[b] \in states' \cup EmptyRoots
BY Zenon DEF StateAt

\* The rest of a batch above height 0 is above height 0.
LEMMA TailAboveGenesis ==
    ASSUME NEW c \in Seq(Blocks), \A i \in 1..Len(c) : Number[c[i]] > 0
    PROVE  \A i \in 1..Len(Tail(c)) : Number[Tail(c)[i]] > 0
<1> SUFFICES ASSUME NEW i \in 1..Len(Tail(c)) PROVE Number[Tail(c)[i]] > 0
  OBVIOUS
<1>1. i + 1 \in 1..Len(c) /\ Tail(c)[i] = c[i + 1]
  OBVIOUS
<1> QED BY <1>1, Zenon

\* The batch processBlocks hands over starts above the current block.
LEMMA BatchAboveGenesis ==
    ASSUME NEW c \in Seq(Blocks), c # <<>>, Contiguous(c), NEW b \in Blocks, Number[c[1]] = Number[b] + 1
    PROVE  \A i \in 1..Len(c) : Number[c[i]] > 0
<1> SUFFICES ASSUME NEW i \in 1..Len(c) PROVE Number[c[i]] > 0
  OBVIOUS
<1>1. CASE i = 1
  <2>1. Number[b] \in Nat
    BY BlockAssumption, Zenon
  <2> QED BY <1>1, <2>1
<1>2. CASE i # 1
  <2>1. i \in 2..Len(c) /\ i - 1 \in 1..Len(c)
    BY <1>2
  <2>2. Number[c[i]] = Number[c[i - 1]] + 1 /\ c[i - 1] \in Blocks
    BY <2>1 DEF Contiguous
  <2>3. Number[c[i - 1]] \in Nat
    BY <2>2, BlockAssumption, Zenon
  <2> QED BY <2>2, <2>3
<1> QED BY <1>1, <1>2, Zenon

\* Steps of the process itself: no inserter runs.
LEMMA StateInvIdle ==
    ASSUME TypeInv, StateInv, \A t \in Inserters : ipc'[t] = "idle",
           chain' = chain \/ \A t \in Inserters : chain'[t] = <<>>,
           currentBlock' # NoHash => CurrentKnown', pc' = "up" => currentBlock' \in Blocks
    PROVE  StateInv'
<1>1. ASSUME NEW t \in Inserters, NEW i \in 1..Len(chain'[t]) PROVE Number[chain'[t][i]] > 0
  <2>1. CASE chain' = chain
    BY <1>1, <2>1, Zenon DEF StateInv
  <2>2. CASE chain'[t] = <<>>
    BY <1>1, <2>2
  <2> QED BY <2>1, <2>2, Zenon
<1> QED BY <1>1, Zenon DEF StateInv

\* The writes of an inserting goroutine keep StateInv.
LEMMA InsertStateInv ==
    ASSUME TypeInv, StateInv, NEW t \in Inserters, InsertStep(t)
    PROVE  StateInv'
<1>0. /\ ipc \in [Inserters -> InsertPC] /\ chain \in [Inserters -> Seq(Blocks)] /\ pc' = pc
      /\ canon \in [Numbers -> Hashes]
  BY Zenon DEF TypeInv, TypeOK, InsertStep
<1>a. ipc[t] # "idle"
  BY Zenon DEF InsertStep, OpenState, WriteBody, WriteHeaderNumber, WriteHeader, CommitState,
     ReadCanonicalHash, WriteCanonicalHash, WriteHeadBlockHash, StoreCurrentBlock,
     WriteHeadHeaderHash, StoreCurrentHeader
<1>b. /\ pc = "up" /\ Head(chain[t]) \in Blocks /\ Number[Head(chain[t])] > 0
      /\ currentBlock \in Blocks /\ NoHash \notin Blocks /\ CurrentKnown
  <2>1. pc = "up" /\ chain[t] \in Seq(Blocks) /\ chain[t] # <<>>
    BY <1>0, <1>a, Zenon DEF TypeInv, OpenInv
  <2>2. 1 \in 1..Len(chain[t]) /\ Head(chain[t]) = chain[t][1] /\ Head(chain[t]) \in Blocks
    BY <2>1
  <2> QED BY <2>1, <2>2, BlockAssumption, Zenon DEF StateInv
<1>1. states \subseteq states'
  BY Zenon DEF InsertStep, OpenState, WriteBody, WriteHeaderNumber, WriteHeader, CommitState,
     ReadCanonicalHash, WriteCanonicalHash, WriteHeadBlockHash, StoreCurrentBlock,
     WriteHeadHeaderHash, StoreCurrentHeader, disk
<1>2. \A b : StateAt(b) => Root[b] \in states' \cup EmptyRoots
  BY <1>1, StatesKept, Zenon
<1>3. /\ \A u \in Inserters : u # t => ipc'[u] = ipc[u] /\ chain'[u] = chain[u]
      /\ \/ ipc'[t] \in {"idle", "state"}
         \/ chain'[t] = chain[t] /\ ipc[t] = "state" /\ StateAt(Head(chain[t]))
         \/ chain'[t] = chain[t] /\ ipc[t] \notin {"idle", "state"}
      /\ chain'[t] \in {chain[t], Tail(chain[t]), <<>>}
  BY <1>0, Zenon DEF InsertStep, OpenState, WriteBody, WriteHeaderNumber, WriteHeader, CommitState, GiveUp,
     ReadCanonicalHash, WriteCanonicalHash, WriteHeadBlockHash, StoreCurrentBlock,
     WriteHeadHeaderHash, StoreCurrentHeader, Goto, NextBlock
<1>4. /\ \/ currentBlock' = currentBlock
         \/ ipc[t] = "store" /\ currentBlock' = Head(chain[t])
      /\ ipc[t] # "store" \/ currentBlock' = Head(chain[t])
      /\ headBlock' = headBlock \/ ipc'[t] = "store"
  BY <1>0, Zenon DEF InsertStep, OpenState, WriteBody, WriteHeaderNumber, WriteHeader, CommitState, GiveUp,
     ReadCanonicalHash, WriteCanonicalHash, WriteHeadBlockHash, StoreCurrentBlock,
     WriteHeadHeaderHash, StoreCurrentHeader, Goto, disk
<1>5. canon'[0] = canon[0]
  <2>1. CASE WriteCanonicalHash(t)
    <3>1. canon' = [canon EXCEPT ![Number[Head(chain[t])]] = Head(chain[t])] /\ Number[Head(chain[t])] # 0
      BY <1>b, <2>1 DEF WriteCanonicalHash
    <3> QED BY <1>0, <3>1, NumbersAreHeights, Zenon
  <2>2. CASE ~WriteCanonicalHash(t)
    BY <2>2, Zenon DEF InsertStep, OpenState, WriteBody, WriteHeaderNumber, WriteHeader, CommitState,
       ReadCanonicalHash, WriteHeadBlockHash, StoreCurrentBlock, WriteHeadHeaderHash, StoreCurrentHeader, disk
  <2> QED BY <2>1, <2>2, Zenon
<1>6. ASSUME NEW u \in Inserters, ipc'[u] \notin {"idle", "state"} PROVE StateAt(Head(chain[u]))'
  <2>1. chain'[u] = chain[u] /\ StateAt(Head(chain[u]))
    BY <1>3, <1>6, Zenon DEF StateInv
  <2> QED BY <1>2, <2>1, Zenon DEF StateAt
<1>7. CurrentKnown' /\ currentBlock' \in Blocks
  <2>1. CASE ipc[t] = "store"
    <3>1. currentBlock' = Head(chain[t]) /\ StateAt(Head(chain[t]))
      BY <1>4, <2>1, Zenon DEF StateInv
    <3> QED BY <1>2, <1>b, <3>1, Zenon DEF CurrentKnown, StateAt
  <2>2. CASE ipc[t] # "store" /\ StateAt(currentBlock)
    BY <1>2, <1>4, <1>b, <2>2, Zenon DEF CurrentKnown, StateAt
  <2>3. CASE ipc[t] # "store" /\ ~StateAt(currentBlock)
    <3>1. /\ currentBlock' = currentBlock /\ currentBlock = canon'[0]
          /\ headBlock = currentBlock \/ \E u \in Inserters : ipc[u] = "store" /\ u # t
      BY <1>4, <1>5, <1>b, <2>3, Zenon DEF CurrentKnown
    <3>2. headBlock' = currentBlock' \/ \E u \in Inserters : ipc'[u] = "store"
      BY <1>3, <1>4, <3>1, Zenon
    <3> QED BY <1>b, <3>1, <3>2, Zenon DEF CurrentKnown
  <2> QED BY <2>1, <2>2, <2>3, Zenon
<1>8. ASSUME NEW u \in Inserters PROVE \A i \in 1..Len(chain'[u]) : Number[chain'[u][i]] > 0
  <2>1. chain[u] \in Seq(Blocks) /\ \A i \in 1..Len(chain[u]) : Number[chain[u][i]] > 0
    BY <1>0, Zenon DEF StateInv
  <2>2. CASE chain'[u] = chain[u]
    BY <2>1, <2>2, Zenon
  <2>3. CASE chain'[u] = Tail(chain[u])
    BY <2>1, <2>3, TailAboveGenesis, Zenon
  <2>4. CASE chain'[u] = <<>>
    BY <2>4
  <2> QED BY <1>3, <2>2, <2>3, <2>4, Zenon
<1> QED BY <1>6, <1>7, <1>8, Zenon DEF StateInv

\* The steps of SetHead on a running chain, loadLastState and repair keep StateInv: the block
\* that updateFn falls back to is genesis, which no batch deletes.
LEMMA RewindStateInv ==
    ASSUME TypeInv, StateInv, SetHeadStep \/ StartStep
    PROVE  StateInv'
<1>0. /\ pc # "up" /\ \A t \in Inserters : ipc'[t] = "idle" /\ ipc[t] = "idle"
      /\ chain' = chain /\ states' = states
  BY Zenon DEF TypeInv, OpenInv, inserts, SetHeadStep, StartStep, UpdateHeadBlock, RewindHeader, WriteBatch,
     LoadLastState, Reset, Repair, disk
<1>1. canon'[0] = canon[0]
  <2>1. CASE WriteBatch
    <3>1. 0 \in Numbers /\ \A b \in batch : Number[b] # 0
      BY NumbersAreHeights DEF TypeInv, OpenInv
    <3> QED BY <2>1, <3>1, Zenon DEF WriteBatch
  <2>2. CASE ~WriteBatch
    BY <2>2, Zenon DEF SetHeadStep, StartStep, UpdateHeadBlock, RewindHeader, LoadLastState, Reset, Repair, disk
  <2> QED BY <2>1, <2>2, Zenon
<1>2. ASSUME UNCHANGED <<headBlock, currentBlock>>, pc' = "up" => currentBlock # NoHash PROVE StateInv'
  <2>1. currentBlock' # NoHash => CurrentKnown'
    BY <1>0, <1>1, <1>2, Zenon DEF StateInv, CurrentKnown, StateAt
  <2>2. pc' = "up" => currentBlock' \in Blocks
    BY <1>2, NumbersAreHeights, Zenon DEF TypeInv, TypeOK
  <2> QED BY <1>0, <2>1, <2>2, StateInvIdle, Zenon
<1>3. CASE UpdateHeadBlock
  <2>1. \/ UNCHANGED <<headBlock, currentBlock>>
        \/ headBlock' = currentBlock' /\ (StateAt(currentBlock') \/ currentBlock' = canon[0])
    <3> DEFINE p == ParentHeader
    <3>1. CASE GetBlock(p, Number[p]) /\ StateAt(p)
      <4>1. UNCHANGED <<headBlock, currentBlock>> \/ (headBlock' = p /\ currentBlock' = p)
        BY <1>3, <3>1, Zenon DEF UpdateHeadBlock
      <4> QED BY <3>1, <4>1, Zenon
    <3>2. CASE ~(GetBlock(p, Number[p]) /\ StateAt(p))
      <4>1. UNCHANGED <<headBlock, currentBlock>> \/ (headBlock' = canon[0] /\ currentBlock' = canon[0])
        BY <1>3, <3>2, Zenon DEF UpdateHeadBlock
      <4> QED BY <4>1, Zenon
    <3> QED BY <3>1, <3>2, Zenon
  <2>2. ASSUME headBlock' = currentBlock', StateAt(currentBlock') \/ currentBlock' = canon[0]
        PROVE  CurrentKnown'
    BY <1>0, <1>1, <2>2, Zenon DEF CurrentKnown, StateAt
  <2>3. pc' # "up"
    BY <1>3, Zenon DEF UpdateHeadBlock
  <2> QED BY <1>0, <1>2, <2>1, <2>2, <2>3, StateInvIdle, Zenon
<1>4. CASE RewindHeader \/ WriteBatch \/ Repair
  BY <1>2, <1>4, Zenon DEF RewindHeader, WriteBatch, Repair, Return, disk
<1>5. CASE LoadLastState
  <2>1. \/ UNCHANGED <<headBlock, currentBlock>> /\ pc' # "up"
        \/ currentBlock' = headBlock /\ headBlock \in hashNumber /\ StateAt(headBlock)
    BY <1>5, Zenon DEF LoadLastState, Reset, GetBlockByHash, disk
  <2>2. ASSUME currentBlock' = headBlock, headBlock \in hashNumber, StateAt(headBlock)
        PROVE  CurrentKnown' /\ currentBlock' \in Blocks
    BY <1>0, <2>2, Zenon DEF CurrentKnown, StateAt, TypeInv, TypeOK
  <2> QED BY <1>0, <1>2, <2>1, <2>2, StateInvIdle, Zenon
<1> QED BY <1>3, <1>4, <1>5, Zenon DEF SetHeadStep, StartStep

\* Every step keeps StateInv.
LEMMA NextStateInv ==
    ASSUME TypeInv, StateInv, [Next]_vars
    PROVE  StateInv'
<1>0. \A t \in Inserters : pc # "up" => ipc[t] = "idle"
  BY Zenon DEF TypeInv, OpenInv
<1>1. ASSUME UNCHANGED <<pc, ipc, chain, states, currentBlock, headBlock, canon>> PROVE StateInv'
  BY <1>1, Zenon DEF StateInv, CurrentKnown, StateAt
<1>2. CASE UNCHANGED vars
  BY <1>1, <1>2, Zenon DEF vars, disk, inserts
<1>3. CASE Exit
  BY <1>3, StateInvIdle, Zenon DEF Exit
<1>4. CASE SetupGenesisBlock \/ GenesisStep \/ NewBlockChain \/ \E r \in states : LoseState(r)
  <2>1. /\ pc \in GenesisPC \cup {"down"} /\ pc' # "up" /\ currentBlock' = currentBlock
        /\ UNCHANGED <<ipc, chain>>
    BY <1>4, Zenon
    DEF SetupGenesisBlock, GenesisStep, ToBlock, CommitGenesis, NewBlockChain, LoseState, inserts, GenesisPC
  <2>2. pc # "up" /\ currentBlock = NoHash
    BY <2>1, Zenon DEF TypeInv, OpenInv, GenesisPC
  <2> QED BY <1>0, <2>1, <2>2, StateInvIdle, Zenon
<1>5. CASE SetHeadStep \/ StartStep
  BY <1>5, RewindStateInv, Zenon
<1>6. ASSUME NEW n \in Numbers, SetHead(n) PROVE StateInv'
  <2>1. /\ pc' # "up" /\ UNCHANGED <<ipc, chain, states, currentBlock, headBlock, canon>>
        /\ \A t \in Inserters : ipc[t] = "idle"
    BY <1>6, Zenon DEF SetHead, Idle, disk, inserts
  <2>2. currentBlock' # NoHash => CurrentKnown'
    BY <2>1, Zenon DEF StateInv, CurrentKnown, StateAt
  <2> QED BY <2>1, <2>2, StateInvIdle, Zenon
<1>7. ASSUME NEW t \in Inserters, InsertStep(t) PROVE StateInv'
  BY <1>7, InsertStateInv, Zenon
<1>8. ASSUME NEW t \in Inserters, NEW c \in Batches, InsertChain(t, c), ~Exit PROVE StateInv'
  <2>1. /\ pc = "up" /\ ipc[t] = "idle" /\ Number[c[1]] = Number[currentBlock] + 1 /\ Contiguous(c)
        /\ UNCHANGED <<pc, states, currentBlock, headBlock, canon>>
        /\ ipc' = [ipc EXCEPT ![t] = "state"] /\ chain' = [chain EXCEPT ![t] = c]
    BY <1>8, Zenon DEF InsertChain, disk
  <2>2. currentBlock \in Blocks /\ c \in Seq(Blocks) /\ c # <<>>
    BY <2>1, BlockAssumption, Zenon DEF StateInv
  <2>3. \A i \in 1..Len(c) : Number[c[i]] > 0
    BY <2>1, <2>2, BatchAboveGenesis, Zenon
  <2>4. ASSUME NEW u \in Inserters
        PROVE  \/ u = t /\ ipc'[u] = "state" /\ chain'[u] = c
               \/ u # t /\ ipc'[u] = ipc[u] /\ chain'[u] = chain[u]
    BY <2>1, Zenon DEF TypeInv, TypeOK
  <2>5. ASSUME NEW u \in Inserters PROVE \A i \in 1..Len(chain'[u]) : Number[chain'[u][i]] > 0
    BY <2>3, <2>4, Zenon DEF StateInv
  <2>6. ASSUME NEW u \in Inserters, ipc'[u] \notin {"idle", "state"} PROVE StateAt(Head(chain[u]))'
    BY <2>1, <2>4, <2>6, Zenon DEF StateInv, StateAt
  <2>7. currentBlock # NoHash => CurrentKnown'
    <3>1. ASSUME NEW u \in Inserters, ipc[u] = "store" PROVE ipc'[u] = "store"
      BY <2>1, <2>4, <3>1, Zenon
    <3> QED BY <2>1, <3>1, Zenon DEF StateInv, CurrentKnown, StateAt
  <2> QED BY <2>1, <2>2, <2>5, <2>6, <2>7, Zenon DEF StateInv
<1> QED
  BY <1>2, <1>3, <1>4, <1>5, <1>6, <1>7, <1>8, Zenon DEF Next, Crash

\* For any blocks and chains, with SetHead, crashes, roots lost while it was down, and any
\* number of inserting goroutines, a running node can open the state of its current block,
\* unless updateFn fell back to a genesis block whose state is lost; LastBlock then names it.
THEOREM CurrentStateKnown == Spec => []CurrentStateOpens
<1>1. Spec => []TypeInv
  BY InitTypeInv, NextTypeInv, PTL DEF Spec
<1>2. Init => StateInv
  <2>1. ASSUME Init, NEW t \in Inserters PROVE \A i \in 1..Len(chain[t]) : Number[chain[t][i]] > 0
    <3>1. chain[t] = <<>>
      BY <2>1, Zenon DEF Init
    <3> QED BY <3>1
  <2> QED BY <2>1, Zenon DEF Init, StateInv
<1>3. TypeInv /\ StateInv /\ [Next]_vars => StateInv'
  BY NextStateInv, Zenon
<1>4. StateInv => CurrentStateOpens
  BY BlockAssumption, Zenon DEF StateInv, CurrentKnown, CurrentStateOpens, Idle
<1> QED BY <1>1, <1>2, <1>3, <1>4, PTL DEF Spec

-----------------------------------------------------------------------------
(* The head of a running node, with one inserter and with SetHead *)

OneInserter == \A t, u \in Inserters : t = u

\* Before the write of LastBlock the inserter's block is the next one, after it the
\* head itself; CurrentBlock lags behind for the one step in between.
Above(t) ==
    ipc[t] # "idle" =>
        /\ Contiguous(chain[t])
        /\ IF ipc[t] \in {"store", "headHeader", "storeHeader"}
           THEN headBlock = Head(chain[t])
           ELSE Number[Head(chain[t])] = Number[headBlock] + 1

GrowInv ==
    /\ pc = "up" => headBlock \in Blocks
    /\ pc = "up" /\ (\A t \in Inserters : ipc[t] # "store") => currentBlock = headBlock
    /\ pc # "up" => currentBlock \in {NoHash, headBlock}
    /\ \A t \in Inserters : Above(t)

\* The inserter is done with a block: it is on the next one, or idle.
LEMMA NextBlockAbove ==
    ASSUME TypeInv, NEW t \in Inserters, ipc[t] \in {"store", "storeHeader"},
           Above(t), NextBlock(t), headBlock' = headBlock
    PROVE  Above(t)' /\ ipc'[t] # "store"
<1>1. /\ chain[t] \in Seq(Blocks) /\ Len(chain[t]) > 0 /\ Len(chain[t]) \in Nat
      /\ chain \in [Inserters -> Seq(Blocks)] /\ ipc \in [Inserters -> InsertPC]
  BY ChainHead, Zenon DEF TypeInv, TypeOK
<1>2. Contiguous(chain[t]) /\ headBlock = Head(chain[t])
  BY Zenon DEF Above
<1>3. CASE Len(chain[t]) = 1
  BY <1>1, <1>3, Zenon DEF NextBlock, Above
<1>4. CASE Len(chain[t]) > 1
  <2>1. chain'[t] = Tail(chain[t]) /\ ipc'[t] = "state"
    BY <1>1, <1>4 DEF NextBlock
  <2>2. /\ Contiguous(Tail(chain[t]))
        /\ Number[Head(Tail(chain[t]))] = Number[Head(chain[t])] + 1
    BY <1>1, <1>2, <1>4, ContiguousTail, Zenon
  <2>3. Contiguous(chain[t])'
    BY <2>1, <2>2, Zenon DEF Contiguous
  <2> QED BY <1>2, <2>1, <2>2, <2>3, Zenon DEF Above
<1>5. Len(chain[t]) = 1 \/ Len(chain[t]) > 1
  <2>1. \A k \in Nat : k > 0 => k = 1 \/ k > 1
    OBVIOUS
  <2> QED BY <1>1, <2>1, Zenon
<1> QED BY <1>3, <1>4, <1>5, Zenon

\* The writes of the one inserting goroutine keep GrowInv.
LEMMA InsertGrowInv ==
    ASSUME OneInserter, TypeInv, GrowInv, NEW t \in Inserters, InsertStep(t)
    PROVE  GrowInv'
<1>0. /\ ipc \in [Inserters -> InsertPC] /\ chain \in [Inserters -> Seq(Blocks)]
      /\ ipc[t] # "idle" /\ pc = "up" /\ pc' = pc /\ headBlock \in Blocks
      /\ Above(t) /\ Head(chain[t]) \in Blocks
  <2>1. ipc[t] # "idle"
    BY Zenon DEF InsertStep, OpenState, WriteBody, WriteHeaderNumber, WriteHeader, CommitState, GiveUp,
       ReadCanonicalHash, WriteCanonicalHash, WriteHeadBlockHash, StoreCurrentBlock,
       WriteHeadHeaderHash, StoreCurrentHeader
  <2> QED  BY <2>1, ChainHead, Zenon DEF TypeInv, TypeOK, OpenInv, GrowInv, InsertStep
<1>1. SUFFICES Above(t)' /\ headBlock' \in Blocks /\ (ipc'[t] = "store" \/ currentBlock' = headBlock')
  <2>1. \A u \in Inserters : u = t
    BY Zenon DEF OneInserter
  <2> QED  BY <1>0, <2>1, Zenon DEF GrowInv
<1>2. ipc[t] # "store" => currentBlock = headBlock
  BY <1>0, Zenon DEF GrowInv, OneInserter
<1>3. ASSUME UNCHANGED <<chain, headBlock, currentBlock>>,
             ipc[t] # "store", ipc'[t] \notin {"idle", "store"},
             ipc[t] \in {"store", "headHeader", "storeHeader"} <=> ipc'[t] \in {"store", "headHeader", "storeHeader"}
      PROVE  Above(t)' /\ headBlock' \in Blocks /\ currentBlock' = headBlock'
  BY <1>0, <1>2, <1>3, Zenon DEF Above, Contiguous
<1>4. CASE OpenState(t)
  BY <1>0, <1>2, <1>3, <1>4, Zenon DEF OpenState, GiveUp, Goto, Above, disk
<1>5. CASE WriteBody(t) \/ WriteHeaderNumber(t) \/ WriteHeader(t)
  BY <1>0, <1>3, <1>5, Zenon DEF WriteBody, WriteHeaderNumber, WriteHeader, Goto
<1>10. CASE CommitState(t)
  BY <1>0, <1>2, <1>3, <1>10, Zenon DEF CommitState, GiveUp, Goto, Above
<1>6. CASE ReadCanonicalHash(t) \/ WriteCanonicalHash(t) \/ WriteHeadHeaderHash(t)
  BY <1>0, <1>3, <1>6, Zenon DEF ReadCanonicalHash, WriteCanonicalHash, WriteHeadHeaderHash, Goto, disk
<1>7. CASE WriteHeadBlockHash(t)
  BY <1>0, <1>7, Zenon DEF WriteHeadBlockHash, Goto, Above, Contiguous
<1>8. CASE StoreCurrentBlock(t)
  <2>1. headBlock' = headBlock /\ currentBlock' = headBlock /\ ipc[t] = "store"
    BY <1>0, <1>8, Zenon DEF StoreCurrentBlock, disk, Above
  <2>2. CASE Goto(t, "headHeader")
    BY <1>0, <2>1, <2>2, Zenon DEF Goto, Above, Contiguous
  <2>3. CASE NextBlock(t)
    BY <1>0, <2>1, <2>3, NextBlockAbove, Zenon
  <2> QED  BY <1>0, <1>8, <2>1, <2>2, <2>3, Zenon DEF StoreCurrentBlock
<1>9. CASE StoreCurrentHeader(t)
  BY <1>0, <1>2, <1>9, NextBlockAbove, Zenon DEF StoreCurrentHeader, disk
<1> QED  BY <1>1, <1>4, <1>5, <1>6, <1>7, <1>8, <1>9, <1>10, Zenon DEF InsertStep

\* Every step keeps GrowInv.
LEMMA NextGrowInv ==
    ASSUME OneInserter, TypeInv, GrowInv, [Next]_vars
    PROVE  GrowInv'
<1>0. \A t \in Inserters : pc # "up" => ipc[t] = "idle"
  BY Zenon DEF TypeInv, OpenInv
<1>1. ASSUME UNCHANGED <<pc, ipc, chain, headBlock, currentBlock>> PROVE GrowInv'
  BY <1>1, Zenon DEF GrowInv, Above, Contiguous
<1>2. ASSUME \A t \in Inserters : ipc'[t] = "idle",
             pc' = "up" => headBlock' \in Blocks /\ currentBlock' = headBlock',
             pc' # "up" => currentBlock' \in {NoHash, headBlock'}
      PROVE  GrowInv'
  BY <1>2, Zenon DEF GrowInv, Above
<1>3. CASE UNCHANGED vars
  BY <1>1, <1>3, Zenon DEF vars, disk, inserts
<1>4. CASE Exit
  BY <1>2, <1>4, Zenon DEF Exit
<1>5. ASSUME NEW r \in states, LoseState(r) PROVE GrowInv'
  BY <1>1, <1>5, Zenon DEF LoseState, inserts
<1>6. CASE SetupGenesisBlock \/ GenesisStep \/ NewBlockChain
  <2>1. currentBlock = NoHash /\ currentBlock' = currentBlock /\ pc # "up" /\ pc' # "up" /\ UNCHANGED inserts
    BY <1>6, Zenon DEF SetupGenesisBlock, GenesisStep, ToBlock, CommitGenesis, NewBlockChain, TypeInv, OpenInv, GenesisPC
  <2> QED BY <1>0, <1>2, <2>1, Zenon DEF inserts
<1>7. CASE LoadLastState
  <2>1. pc' = "up" => headBlock' \in Blocks /\ currentBlock' = headBlock'
    BY <1>7, Zenon DEF LoadLastState, Return, Reset, GetBlockByHash, TypeInv, TypeOK
  <2>2. pc' # "up" => currentBlock' \in {NoHash, headBlock'}
    BY <1>7, Zenon DEF LoadLastState, Return, Reset, disk, GrowInv
  <2> QED BY <1>0, <1>2, <1>7, <2>1, <2>2, Zenon DEF LoadLastState, inserts
<1>12. CASE Repair
  <2>1. /\ pc = "repair" /\ UNCHANGED <<headBlock, currentBlock, ipc>> /\ currentBlock \in {NoHash, headBlock}
        /\ (pc' = "up" => currentBlock # NoHash)
    BY <1>12, Zenon DEF Repair, Return, disk, inserts, GrowInv
  <2>2. currentBlock # NoHash => headBlock \in Blocks
    BY <2>1, NumbersAreHeights, Zenon DEF TypeInv, TypeOK
  <2> QED BY <1>0, <1>2, <2>1, <2>2, Zenon
<1>8. ASSUME NEW n \in Numbers, SetHead(n) PROVE GrowInv'
  <2>1. /\ pc = "up" /\ pc' # "up" /\ UNCHANGED <<headBlock, currentBlock, ipc>>
        /\ \A t \in Inserters : ipc[t] = "idle"
    BY <1>8, Zenon DEF SetHead, Idle, disk, inserts
  <2> QED BY <1>2, <2>1, Zenon DEF GrowInv
<1>9. CASE SetHeadStep
  <2>1. /\ pc # "up" /\ pc' # "up" /\ UNCHANGED inserts
        /\ currentBlock' = headBlock' \/ UNCHANGED <<headBlock, currentBlock>>
    BY <1>9, Zenon DEF SetHeadStep, UpdateHeadBlock, RewindHeader, WriteBatch
  <2> QED BY <1>0, <1>2, <2>1, Zenon DEF GrowInv, inserts
<1>10. ASSUME NEW t \in Inserters, InsertStep(t) PROVE GrowInv'
  BY <1>10, InsertGrowInv, Zenon
<1>11. ASSUME NEW t \in Inserters, NEW c \in Batches, InsertChain(t, c), ~Exit PROVE GrowInv'
  <2>1. /\ pc = "up" /\ ipc[t] = "idle" /\ UNCHANGED <<pc, headBlock, currentBlock>>
        /\ Number[c[1]] = Number[currentBlock] + 1 /\ Contiguous(c)
        /\ ipc' = [ipc EXCEPT ![t] = "state"] /\ chain' = [chain EXCEPT ![t] = c]
    BY <1>11, Zenon DEF InsertChain, disk
  <2>2. /\ ipc'[t] = "state" /\ chain'[t] = c /\ c \in Seq(Blocks) /\ c # <<>>
    BY <2>1, BlockAssumption, Zenon DEF TypeInv, TypeOK
  <2>3. Head(c) = c[1]
    BY <2>2
  <2>4. currentBlock = headBlock /\ headBlock \in Blocks
    BY <2>1, Zenon DEF GrowInv, OneInserter
  <2>5. Above(t)'
    BY <2>1, <2>2, <2>3, <2>4, Zenon DEF Above, Contiguous
  <2> QED BY <2>1, <2>2, <2>4, <2>5, Zenon DEF GrowInv, OneInserter
<1> QED
  BY <1>3, <1>4, <1>5, <1>6, <1>7, <1>8, <1>9, <1>10, <1>11, <1>12, Zenon DEF Next, StartStep, Crash

\* The only write of LastBlock on a running node is the inserter's, and its block is the
\* child of the head.
LEMMA NextGrows ==
    ASSUME OneInserter, SingleChain, TypeInv, GrowInv, [Next]_vars, headBlock' # headBlock, pc = "up"
    PROVE  Number[headBlock'] = Number[headBlock] + 1 /\ Parent[headBlock'] = headBlock
<1>1. PICK t \in Inserters : WriteHeadBlockHash(t)
  <2>1. ~UNCHANGED vars
    BY Zenon DEF vars, disk
  <2>2. ~(SetupGenesisBlock \/ GenesisStep \/ NewBlockChain \/ StartStep \/ SetHeadStep \/ Exit)
    BY Zenon DEF SetupGenesisBlock, GenesisStep, ToBlock, CommitGenesis, NewBlockChain, StartStep, LoadLastState,
       Repair, Return, SetHeadStep, UpdateHeadBlock, RewindHeader, WriteBatch, Exit, disk
  <2>3. /\ \A r \in states : ~LoseState(r)
        /\ \A n \in Numbers : ~SetHead(n)
    BY Zenon DEF LoseState, SetHead, disk
  <2>4. \A t \in Inserters, c \in Batches : ~InsertChain(t, c)
    BY <2>2, Zenon DEF InsertChain, disk
  <2>5. PICK t \in Inserters : InsertStep(t)
    BY <2>1, <2>2, <2>3, <2>4, Zenon DEF Next, Crash
  <2> QED
    BY <2>5, Zenon DEF InsertStep, OpenState, WriteBody, WriteHeaderNumber, WriteHeader, CommitState, GiveUp,
       ReadCanonicalHash, WriteCanonicalHash, StoreCurrentBlock, WriteHeadHeaderHash, StoreCurrentHeader, disk
<1>2. /\ headBlock' = Head(chain[t]) /\ Number[Head(chain[t])] = Number[headBlock] + 1
      /\ headBlock \in Blocks /\ Head(chain[t]) \in Blocks
  BY <1>1, ChainHead, Zenon DEF WriteHeadBlockHash, GrowInv, Above
<1>3. Parent[Head(chain[t])] = headBlock
  <2>1. Number[headBlock] \in Nat
    BY <1>2, BlockAssumption, Zenon
  <2>2. Parent[Head(chain[t])] \in Blocks /\ Number[Parent[Head(chain[t])]] = Number[headBlock]
    BY <1>2, <2>1 DEF SingleChain
  <2> QED  BY <1>2, <2>2, Zenon DEF SingleChain
<1> QED  BY <1>2, <1>3, Zenon

\* When one goroutine inserts and all peers serve one chain, LastBlock of a running node
\* moves to a child of itself only, whatever SetHead, crashes and lost roots came before.
THEOREM HeadGrows == OneInserter /\ SingleChain => (Spec => HeadOnlyGrows)
<1> SUFFICES ASSUME OneInserter, SingleChain PROVE Spec => HeadOnlyGrows
  BY Zenon
<1>1. Spec => []TypeInv
  BY InitTypeInv, NextTypeInv, PTL DEF Spec
<1>2. Init => GrowInv
  BY Zenon DEF Init, GrowInv, Above
<1>3. TypeInv /\ GrowInv /\ [Next]_vars => GrowInv'
  BY NextGrowInv, Zenon
<1>4. TypeInv /\ GrowInv /\ [Next]_vars =>
        [headBlock' # headBlock /\ pc = "up"
           => /\ Number[headBlock'] = Number[headBlock] + 1
              /\ Parent[headBlock'] = headBlock]_vars
  BY NextGrows, Zenon DEF vars, disk
<1> QED BY <1>1, <1>2, <1>3, <1>4, PTL DEF Spec, HeadOnlyGrows

-----------------------------------------------------------------------------
(* The store with SetHead on a running chain and one inserter *)

\* Block h and every height below it have a canonical block with a header.
Below(h) ==
    /\ h \in Blocks
    /\ \A n \in 0..Number[h] :
          /\ n \in Numbers /\ canon[n] \in Blocks
          /\ Number[canon[n]] = n /\ canon[n] \in header

\* While SetHead runs, what its batch will delete is above all three heads.
SetHeadInv ==
    /\ headBlock # NoHash => currentBlock = headBlock
    /\ \A b \in batch :
          /\ Number[b] > Number[currentHeader]
          /\ headBlock # NoHash => Number[b] > Number[headBlock]
          /\ headHeader # NoHash => Number[b] > Number[headHeader]
    /\ pc = "setHeadHeader" /\ headBlock # NoHash => Number[headBlock] < Number[currentHeader]

\* Canonical hashes above the heads may be left over from before a rewind, with gaps
\* under them; at and below the heads the chain is whole.
RewindInv ==
    /\ \A b \in header : b \in body /\ b \in hashNumber
    /\ headBlock # NoHash => Below(headBlock)
    /\ headHeader # NoHash => Below(headHeader)
    /\ pc \in Opened => Below(currentHeader)
    /\ pc \in {"gHead", "gHeadHeader"} => Below(Genesis)
    /\ \A t \in Inserters : ipc[t] \in {"head", "store", "headHeader", "storeHeader"} =>
          canon[Number[Head(chain[t])]] = Head(chain[t])
    /\ pc \in {"setHead", "setHeadHeader"} => SetHeadInv

\* Genesis and the parent of a block above it are below that block.
LEMMA BelowGenesis ==
    ASSUME TypeInv, NEW h, Below(h)
    PROVE  Below(canon[0]) /\ canon[0] \in Blocks /\ Number[canon[0]] = 0 /\ canon[0] \in header
<1>1. h \in Blocks /\ Number[h] \in Nat /\ 0 \in 0..Number[h]
  BY BlockAssumption DEF Below
<1>2. canon[0] \in Blocks /\ Number[canon[0]] = 0 /\ canon[0] \in header /\ 0 \in Numbers
  BY <1>1, Zenon DEF Below
<1>3. ASSUME NEW n \in 0..Number[canon[0]] PROVE n = 0
  BY <1>2, <1>3
<1> QED  BY <1>2, <1>3, Zenon DEF Below

\* The parent of a block that is whole below is whole below.
LEMMA BelowParent ==
    ASSUME SingleChain, TypeInv, NEW h, Below(h), Number[h] > 0
    PROVE  /\ Below(Parent[h]) /\ Parent[h] \in Blocks /\ Parent[h] \in header
           /\ Number[Parent[h]] = Number[h] - 1
<1>1. /\ h \in Blocks /\ Number[h] \in Nat
      /\ Parent[h] \in Blocks /\ Number[Parent[h]] = Number[h] - 1
  BY BlockAssumption, Zenon DEF Below, SingleChain
<1>2. Number[h] - 1 \in 0..Number[h] /\ 0..Number[Parent[h]] \subseteq 0..Number[h]
  BY <1>1
<1>3. canon[Number[h] - 1] \in Blocks /\ Number[canon[Number[h] - 1]] = Number[Parent[h]] /\ canon[Number[h] - 1] \in header
  BY <1>1, <1>2, Zenon DEF Below
<1>4. canon[Number[h] - 1] = Parent[h]
  BY <1>1, <1>3, Zenon DEF SingleChain
<1> QED  BY <1>1, <1>2, <1>3, <1>4, Zenon DEF Below

\* The block above one that is whole below.
LEMMA BelowChild ==
    ASSUME TypeInv, NEW h, Below(h), NEW b \in Blocks, Number[b] = Number[h] + 1,
           canon[Number[b]] = b, b \in header
    PROVE  Below(b)
<1>1. Number[h] \in Nat /\ Number[b] \in Numbers
  BY BlockAssumption, Zenon DEF Below, Numbers
<1>2. ASSUME NEW n \in 0..Number[b] PROVE n = Number[b] \/ n \in 0..Number[h]
  BY <1>1, <1>2
<1> QED  BY <1>1, <1>2, Zenon DEF Below

\* A block that is whole below is the canonical one of its number.
LEMMA BelowIsCanonical ==
    ASSUME SingleChain, NEW h, Below(h)
    PROVE  canon[Number[h]] = h /\ h \in header
<1>1. Number[h] \in 0..Number[h] /\ h \in Blocks
  BY BlockAssumption DEF Below
<1> QED  BY <1>1, Zenon DEF Below, SingleChain

\* What a step must leave alone for a block to stay whole below.
LEMMA BelowKept ==
    ASSUME SingleChain, NEW h, Below(h),
           \A n \in 0..Number[h] : \/ canon'[n] = canon[n]
                                   \/ canon'[n] \in Blocks /\ Number[canon'[n]] = n,
           \A n \in 0..Number[h] : canon[n] \in header'
    PROVE  Below(h)'
<1>1. ASSUME NEW n \in 0..Number[h] PROVE canon'[n] = canon[n]
  BY DEF Below, SingleChain
<1> QED  BY <1>1, Zenon DEF Below

\* Every step but the batch of SetHead leaves the chain below a block alone.
LEMMA OnlyBatchDeletes ==
    ASSUME SingleChain, TypeInv, [Next]_vars, ~WriteBatch
    PROVE  /\ \A h : Below(h) => Below(h)'
           /\ header \subseteq header' /\ body \subseteq body' /\ hashNumber \subseteq hashNumber'
<1>0. canon \in [Numbers -> Hashes] /\ 0 \in Numbers
  BY NumbersAreHeights, Zenon DEF TypeInv, TypeOK
<1>1. /\ header \subseteq header' /\ body \subseteq body' /\ hashNumber \subseteq hashNumber'
      /\ \A n \in Numbers : canon'[n] = canon[n] \/ (canon'[n] \in Blocks /\ Number[canon'[n]] = n)
  <2>1. ASSUME NEW t \in Inserters, InsertStep(t) PROVE <1>1!:
    <3>1. CASE WriteCanonicalHash(t)
      <4>1. Head(chain[t]) \in Blocks
        BY <3>1, ChainHead, Zenon DEF WriteCanonicalHash
      <4> QED  BY <1>0, <3>1, <4>1, Zenon DEF WriteCanonicalHash
    <3>2. CASE ~WriteCanonicalHash(t)
      BY <2>1, <3>2, Zenon DEF InsertStep, OpenState, WriteBody, WriteHeaderNumber, WriteHeader, CommitState, GiveUp,
         ReadCanonicalHash, WriteHeadBlockHash, StoreCurrentBlock, WriteHeadHeaderHash, StoreCurrentHeader, disk
    <3> QED  BY <3>1, <3>2, Zenon
  <2>2. ASSUME NEW t \in Inserters, NEW c \in Batches, InsertChain(t, c) PROVE <1>1!:
    BY <2>2, Zenon DEF InsertChain, Exit, disk
  <2>3. CASE GenesisStep
    BY <1>0, <2>3, BlockAssumption, Zenon DEF GenesisStep, ToBlock, CommitGenesis
  <2>4. CASE SetHeadStep \/ (\E n \in Numbers : SetHead(n))
    BY <2>4, Zenon DEF SetHeadStep, UpdateHeadBlock, RewindHeader, SetHead, disk
  <2>5. CASE \/ UNCHANGED vars \/ Crash \/ SetupGenesisBlock \/ NewBlockChain \/ StartStep
             \/ \E r \in states : LoseState(r)
    BY <2>5, Zenon DEF vars, disk, Crash, Exit, SetupGenesisBlock, NewBlockChain, StartStep, LoadLastState,
       Reset, Repair, Return, LoseState
  <2> QED  BY <2>1, <2>2, <2>3, <2>4, <2>5, Zenon DEF Next
<1>2. ASSUME NEW h, Below(h) PROVE Below(h)'
  <2>1. \A n \in 0..Number[h] : n \in Numbers /\ canon[n] \in header'
    BY <1>1, <1>2, Zenon DEF Below
  <2> QED  BY <1>1, <1>2, <2>1, BelowKept, Zenon
<1> QED  BY <1>1, <1>2, Zenon

\* The writes of an inserting goroutine keep ProgressInv.
LEMMA InsertProgress ==
    ASSUME TypeInv, ProgressInv, NEW t \in Inserters, InsertStep(t)
    PROVE  ProgressInv'
<1>0. ipc[t] # "idle" /\ ipc \in [Inserters -> InsertPC] /\ chain \in [Inserters -> Seq(Blocks)]
  BY Zenon DEF TypeInv, TypeOK, InsertStep, OpenState, WriteBody, WriteHeaderNumber, WriteHeader,
         CommitState, GiveUp, ReadCanonicalHash, WriteCanonicalHash, WriteHeadBlockHash,
         StoreCurrentBlock, WriteHeadHeaderHash, StoreCurrentHeader
<1>1. pc' = pc /\ pc = "up"
  BY <1>0, Zenon DEF InsertStep, TypeInv, OpenInv
<1>2. CASE OpenState(t) \/ ReadCanonicalHash(t)
  BY <1>0, <1>1, <1>2, Zenon DEF OpenState, GiveUp, ReadCanonicalHash, Goto, disk, ProgressInv
<1>3. CASE WriteBody(t) \/ WriteHeaderNumber(t) \/ WriteHeader(t)
  BY <1>0, <1>1, <1>3, Zenon DEF WriteBody, WriteHeaderNumber, WriteHeader, Goto, ProgressInv
<1>4. CASE CommitState(t) \/ WriteCanonicalHash(t) \/ WriteHeadBlockHash(t) \/ WriteHeadHeaderHash(t)
  BY <1>0, <1>1, <1>4, Zenon DEF CommitState, GiveUp, WriteCanonicalHash, WriteHeadBlockHash, WriteHeadHeaderHash, Goto, ProgressInv
<1>5. CASE StoreCurrentBlock(t) \/ StoreCurrentHeader(t)
  BY <1>0, <1>1, <1>5, Zenon DEF StoreCurrentBlock, StoreCurrentHeader, Goto, NextBlock, disk, ProgressInv
<1> QED  BY <1>2, <1>3, <1>4, <1>5, Zenon DEF InsertStep

\* Every step keeps ProgressInv.
LEMMA NextProgress ==
    ASSUME SingleChain, TypeInv, ProgressInv, [Next]_vars
    PROVE  ProgressInv'
<1>1. ASSUME NEW t \in Inserters, InsertStep(t) PROVE ProgressInv'
  BY <1>1, InsertProgress, Zenon
<1>2. ASSUME \A t \in Inserters : ipc'[t] = "idle",
             pc' \notin {"gNumber", "gHeader", "gCanon", "gHead", "gHeadHeader"}
      PROVE  ProgressInv'
  BY <1>2, Zenon DEF ProgressInv
<1>3. pc # "up" => \A t \in Inserters : ipc[t] = "idle"
  BY Zenon DEF TypeInv, OpenInv
<1>4. ASSUME UNCHANGED <<pc, ipc, chain, body, header, hashNumber>> PROVE ProgressInv'
  BY <1>4, Zenon DEF ProgressInv
<1>5. CASE UNCHANGED vars
  BY <1>4, <1>5, Zenon DEF vars, disk, inserts
<1>6. CASE Crash
  BY <1>2, <1>6, Zenon DEF Crash, Exit
<1>7. CASE SetupGenesisBlock \/ NewBlockChain \/ StartStep
  BY <1>2, <1>3, <1>7, Zenon DEF SetupGenesisBlock, NewBlockChain, StartStep, LoadLastState, Return, Reset, Repair, inserts
<1>8. CASE GenesisStep
  BY <1>3, <1>8, Zenon DEF GenesisStep, ToBlock, CommitGenesis, inserts, ProgressInv
<1>9. CASE SetHeadStep
  BY <1>2, <1>3, <1>9, Zenon DEF SetHeadStep, UpdateHeadBlock, RewindHeader, WriteBatch, inserts
<1>10. ASSUME NEW n \in Numbers, SetHead(n) PROVE ProgressInv'
  BY <1>2, <1>10, Zenon DEF SetHead, Idle, inserts
<1>11. ASSUME NEW r \in states, LoseState(r) PROVE ProgressInv'
  BY <1>4, <1>11, Zenon DEF LoseState, inserts
<1>12. ASSUME NEW t \in Inserters, NEW c \in Batches, InsertChain(t, c) PROVE ProgressInv'
  <2>1. CASE Exit
    BY <1>2, <2>1, Zenon DEF Exit
  <2>2. CASE ~Exit
    <3>1. /\ ipc \in [Inserters -> InsertPC] /\ chain \in [Inserters -> Seq(Blocks)]
          /\ pc' = pc /\ pc = "up" /\ UNCHANGED <<body, hashNumber, header>>
          /\ ipc' = [ipc EXCEPT ![t] = "state"] /\ chain' = [chain EXCEPT ![t] = c]
      BY <1>12, <2>2, Zenon DEF InsertChain, disk, TypeInv, TypeOK
    <3> QED BY <3>1, Zenon DEF ProgressInv
  <2> QED BY <2>1, <2>2, Zenon
<1> QED
  BY <1>1, <1>5, <1>6, <1>7, <1>8, <1>9, <1>10, <1>11, <1>12, Zenon DEF Next

\* The heads of a step that deletes nothing move only to blocks that are whole below.
LEMMA HeadsMove ==
    ASSUME SingleChain, TypeInv, RewindInv, [Next]_vars, ~WriteBatch,
           \A b \in header' \ header : b \in body' /\ b \in hashNumber',
           headBlock' # headBlock => Below(headBlock)',
           headHeader' # headHeader => headHeader' = NoHash \/ Below(headHeader)',
           pc' \in Opened => (pc \in Opened /\ currentHeader' = currentHeader) \/ Below(currentHeader)',
           pc' \in {"gHead", "gHeadHeader"} => pc = "gHead" \/ Below(Genesis)',
           \A t \in Inserters : ipc'[t] \in {"head", "store", "headHeader", "storeHeader"} =>
              canon'[Number[Head(chain'[t])]] = Head(chain'[t]),
           pc' \in {"setHead", "setHeadHeader"} => SetHeadInv'
    PROVE  RewindInv'
<1>1. /\ \A h : Below(h) => Below(h)'
      /\ header \subseteq header' /\ body \subseteq body' /\ hashNumber \subseteq hashNumber'
  BY OnlyBatchDeletes, Zenon
<1>2. \A b \in header' : b \in body' /\ b \in hashNumber'
  BY <1>1, Zenon DEF RewindInv
<1>3. (headBlock' # NoHash => Below(headBlock)') /\ (headHeader' # NoHash => Below(headHeader)')
  <2>1. headBlock' = headBlock /\ headBlock # NoHash => Below(headBlock)'
    BY <1>1, Zenon DEF RewindInv, Below
  <2>2. headHeader' = headHeader /\ headHeader # NoHash => Below(headHeader)'
    BY <1>1, Zenon DEF RewindInv, Below
  <2> QED  BY <2>1, <2>2, Zenon
<1>4. (pc' \in Opened => Below(currentHeader)') /\ (pc' \in {"gHead", "gHeadHeader"} => Below(Genesis)')
  <2>1. pc \in Opened /\ currentHeader' = currentHeader => Below(currentHeader)'
    BY <1>1, Zenon DEF RewindInv, Below
  <2>2. pc = "gHead" => Below(Genesis)'
    BY <1>1, Zenon DEF RewindInv
  <2> QED  BY <2>1, <2>2, Zenon
<1> QED  BY <1>2, <1>3, <1>4, Zenon DEF RewindInv

\* An inserter's block is whole below once it is canonical: it is the child of the head.
LEMMA InsertRewindInv ==
    ASSUME SingleChain, TypeInv, ProgressInv, GrowInv, RewindInv,
           NEW t \in Inserters, OneInserter, InsertStep(t)
    PROVE  RewindInv'
<1>0. /\ ipc \in [Inserters -> InsertPC] /\ chain \in [Inserters -> Seq(Blocks)]
      /\ canon \in [Numbers -> Hashes]
      /\ ipc[t] # "idle" /\ pc = "up" /\ pc' = pc /\ Above(t)
      /\ Head(chain[t]) \in Blocks /\ Number[Head(chain[t])] \in Numbers
      /\ headBlock \in Blocks /\ Below(headBlock) /\ Below(currentHeader)
      /\ \A u \in Inserters : u = t
  <2>1. ipc[t] # "idle"
    BY Zenon DEF InsertStep, OpenState, WriteBody, WriteHeaderNumber, WriteHeader, CommitState, GiveUp,
       ReadCanonicalHash, WriteCanonicalHash, WriteHeadBlockHash, StoreCurrentBlock,
       WriteHeadHeaderHash, StoreCurrentHeader
  <2>2. pc = "up" /\ Head(chain[t]) \in Blocks
    BY <2>1, ChainHead, Zenon DEF TypeInv, OpenInv
  <2>3. headBlock \in Blocks /\ headBlock # NoHash
    BY <2>2, BlockAssumption, Zenon DEF GrowInv
  <2> QED
    BY <2>1, <2>2, <2>3, Zenon DEF TypeInv, TypeOK, GrowInv, InsertStep, RewindInv, Opened, OneInserter, Numbers
<1> DEFINE b == Head(chain[t])
           Late == {"head", "store", "headHeader", "storeHeader"}
<1>1. [Next]_vars /\ ~WriteBatch
  BY <1>0, Zenon DEF Next, WriteBatch
<1>2. pc' \notin {"gHead", "gHeadHeader", "setHead", "setHeadHeader"}
  BY <1>0, Zenon
<1>3. ASSUME \A c \in header' \ header : c \in body' /\ c \in hashNumber',
             headBlock' # headBlock => Below(headBlock)',
             headHeader' # headHeader => Below(headHeader)',
             currentHeader' # currentHeader => Below(currentHeader)',
             ipc'[t] \in Late => canon'[Number[Head(chain'[t])]] = Head(chain'[t])
      PROVE  RewindInv'
  BY <1>0, <1>1, <1>2, <1>3, HeadsMove, Zenon DEF Opened
<1>4. ASSUME UNCHANGED <<headBlock, headHeader, currentHeader, chain, canon>>,
             \A c \in header' \ header : c \in body' /\ c \in hashNumber',
             ipc'[t] \in Late => ipc[t] \in Late
      PROVE  RewindInv'
  BY <1>0, <1>3, <1>4, Zenon DEF RewindInv
<1>5. CASE OpenState(t)
  <2>1. ipc'[t] \notin Late /\ header' = header /\ UNCHANGED <<headBlock, headHeader, currentHeader>>
    BY <1>0, <1>5, Zenon DEF OpenState, GiveUp, Goto, disk
  <2> QED  BY <1>3, <2>1, Zenon
<1>6. CASE WriteBody(t) \/ WriteHeaderNumber(t) \/ ReadCanonicalHash(t)
  BY <1>0, <1>4, <1>6, Zenon DEF WriteBody, WriteHeaderNumber, ReadCanonicalHash, Goto, disk
<1>13. CASE CommitState(t)
  <2>1. ipc'[t] \notin Late /\ header' = header /\ UNCHANGED <<headBlock, headHeader, currentHeader>>
    BY <1>0, <1>13, Zenon DEF CommitState, GiveUp, Goto
  <2> QED  BY <1>3, <2>1, Zenon
<1>7. CASE WriteHeader(t)
  <2>1. b \in body /\ b \in hashNumber
    BY <1>0, <1>7, Zenon DEF WriteHeader, ProgressInv
  <2> QED  BY <1>0, <1>4, <1>7, <2>1, Zenon DEF WriteHeader, Goto
<1>8. CASE WriteCanonicalHash(t)
  <2>1. chain' = chain /\ canon' = [canon EXCEPT ![Number[b]] = b] /\ header' = header
        /\ UNCHANGED <<headBlock, headHeader, currentHeader>>
    BY <1>8, Zenon DEF WriteCanonicalHash, Goto
  <2>2. canon'[Number[b]] = b
    BY <1>0, <2>1, Zenon
  <2> QED  BY <1>3, <2>1, <2>2, Zenon
<1>9. CASE WriteHeadBlockHash(t)
  <2>1. /\ headBlock' = b /\ UNCHANGED <<chain, canon, header, headHeader, currentHeader>>
        /\ canon[Number[b]] = b /\ b \in header /\ Number[b] = Number[headBlock] + 1
    BY <1>0, <1>9, Zenon DEF WriteHeadBlockHash, Goto, RewindInv, ProgressInv, Above
  <2>2. Below(b)
    BY <1>0, <2>1, BelowChild, Zenon
  <2>3. Below(headBlock)'
    BY <2>1, <2>2, Zenon DEF Below
  <2> QED  BY <1>3, <2>1, <2>3, Zenon
<1>10. CASE StoreCurrentBlock(t)
  <2>1. UNCHANGED <<headBlock, headHeader, currentHeader, canon, header>> /\ ipc[t] = "store"
    BY <1>10, Zenon DEF StoreCurrentBlock, disk
  <2>2. CASE Goto(t, "headHeader")
    BY <1>0, <1>4, <2>1, <2>2, Zenon DEF Goto
  <2>3. CASE NextBlock(t)
    <3>1. ipc'[t] \notin Late
      BY <1>0, <2>3, Zenon DEF NextBlock
    <3> QED  BY <1>3, <2>1, <3>1, Zenon
  <2> QED  BY <1>10, <2>2, <2>3, Zenon DEF StoreCurrentBlock
<1>11. CASE WriteHeadHeaderHash(t)
  <2>1. /\ headHeader' = b /\ UNCHANGED <<chain, canon, header, headBlock, currentHeader>> /\ headBlock = b
        /\ ipc[t] \in Late
    BY <1>0, <1>11, Zenon DEF WriteHeadHeaderHash, Goto, Above
  <2>2. Below(headHeader)'
    BY <1>0, <2>1, Zenon DEF Below
  <2> QED  BY <1>0, <1>3, <2>1, <2>2, Zenon DEF RewindInv
<1>12. CASE StoreCurrentHeader(t)
  <2>1. /\ currentHeader' = b /\ UNCHANGED <<canon, header, headBlock, headHeader>> /\ headBlock = b
        /\ ipc'[t] \notin Late
    BY <1>0, <1>12, Zenon DEF StoreCurrentHeader, NextBlock, Above, disk
  <2>2. Below(currentHeader)'
    BY <1>0, <2>1, Zenon DEF Below
  <2> QED  BY <1>3, <2>1, <2>2, Zenon
<1> QED
  BY <1>5, <1>6, <1>7, <1>8, <1>9, <1>10, <1>11, <1>12, <1>13, Zenon DEF InsertStep

\* updateFn: the head block goes to the parent of the current header, or to genesis, or it
\* is below them already.
LEMMA UpdateRewindInv ==
    ASSUME SingleChain, TypeInv, RewindInv, UpdateHeadBlock
    PROVE  RewindInv'
<1>0. /\ pc = "setHead" /\ pc' = "setHeadHeader" /\ SetHeadInv /\ target \in Nat
      /\ Below(currentHeader) /\ Number[currentHeader] > target
      /\ UNCHANGED <<body, hashNumber, header, canon, headHeader, currentHeader, ipc, chain, batch>>
  BY Zenon DEF UpdateHeadBlock, RewindInv, Opened, inserts, rewinding, TypeInv, TypeOK
<1> DEFINE p == Parent[currentHeader]
<1>1. currentHeader \in Blocks /\ Number[currentHeader] \in Nat /\ Number[currentHeader] > 0
  BY <1>0, BlockAssumption DEF Below
<1>2. Below(p) /\ p \in Blocks /\ p \in header /\ Number[p] = Number[currentHeader] - 1
  BY <1>0, <1>1, BelowParent, Zenon
<1>3. Below(canon[0]) /\ canon[0] \in Blocks /\ Number[canon[0]] = 0
  BY <1>0, BelowGenesis, Zenon
<1>4. ParentHeader = p
  BY <1>2, Zenon DEF ParentHeader, GetHeader
<1>5. \/ headBlock' \in {p, canon[0]} /\ currentBlock' = headBlock'
      \/ /\ UNCHANGED <<headBlock, currentBlock>>
         /\ ~(currentBlock # NoHash /\ Number[p] < Number[currentBlock])
  BY <1>4, Zenon DEF UpdateHeadBlock
<1>6. headBlock' # NoHash =>
        Below(headBlock)' /\ currentBlock' = headBlock' /\ Number[headBlock'] < Number[currentHeader]
  <2>1. CASE headBlock' \in {p, canon[0]} /\ currentBlock' = headBlock'
    <3>1. Below(headBlock)'
      BY <1>0, <1>2, <1>3, <2>1, Zenon DEF Below
    <3>2. Number[headBlock'] < Number[currentHeader]
      BY <1>1, <1>2, <1>3, <2>1
    <3> QED  BY <2>1, <3>1, <3>2, Zenon
  <2>2. CASE UNCHANGED <<headBlock, currentBlock>> /\ ~(currentBlock # NoHash /\ Number[p] < Number[currentBlock])
    <3>1. SUFFICES ASSUME headBlock # NoHash PROVE Below(headBlock)' /\ currentBlock' = headBlock' /\ Number[headBlock'] < Number[currentHeader]
      BY <2>2, Zenon
    <3>2. Below(headBlock) /\ currentBlock = headBlock
      BY <1>0, <3>1, Zenon DEF RewindInv, SetHeadInv
    <3>3. Number[headBlock] \in Nat
      BY <3>2, BlockAssumption, Zenon DEF Below
    <3>4. Below(headBlock)'
      BY <1>0, <2>2, <3>2, Zenon DEF Below
    <3> QED  BY <1>1, <1>2, <2>2, <3>1, <3>2, <3>3, <3>4
  <2> QED  BY <1>5, <2>1, <2>2, Zenon
<1>7. SetHeadInv'
  <2>1. ASSUME NEW b \in batch, headBlock' # NoHash PROVE Number[b] > Number[headBlock']
    <3>1. Number[b] > Number[currentHeader] /\ Number[b] \in Nat
      BY <1>0, <2>1, BlockAssumption, Zenon DEF SetHeadInv, TypeInv, TypeOK
    <3>2. headBlock' \in Blocks /\ Number[headBlock'] < Number[currentHeader]
      BY <1>6, <2>1, Zenon DEF Below
    <3>3. Number[headBlock'] \in Nat
      BY <3>2, BlockAssumption, Zenon
    <3> QED  BY <1>1, <3>1, <3>2, <3>3
  <2> QED  BY <1>0, <1>6, <2>1, Zenon DEF SetHeadInv
<1>8. /\ (headHeader' # NoHash => Below(headHeader)') /\ Below(currentHeader)'
      /\ (\A b \in header' : b \in body' /\ b \in hashNumber')
      /\ \A t \in Inserters : ipc'[t] = "idle"
  BY <1>0, Zenon DEF RewindInv, Below, TypeInv, OpenInv
<1> QED  BY <1>0, <1>6, <1>7, <1>8, Zenon DEF RewindInv

\* One turn of the loop of HeaderChain.SetHead: the header it leaves goes into the batch.
LEMMA RewindHeaderInv ==
    ASSUME SingleChain, TypeInv, RewindInv, RewindHeader
    PROVE  RewindInv'
<1>0. /\ pc = "setHeadHeader" /\ pc' = "setHead" /\ SetHeadInv /\ target \in Nat
      /\ Below(currentHeader) /\ Number[currentHeader] > target
      /\ headHeader' = Parent[currentHeader] /\ batch' = batch \cup {currentHeader}
      /\ currentHeader' = ParentHeader
      /\ UNCHANGED <<body, hashNumber, header, canon, headBlock, currentBlock, ipc, chain>>
  BY Zenon DEF RewindHeader, RewindInv, Opened, inserts, TypeInv, TypeOK, OpenInv
<1> DEFINE p == Parent[currentHeader]
<1>1. currentHeader \in Blocks /\ Number[currentHeader] \in Nat /\ Number[currentHeader] > 0
  BY <1>0, BlockAssumption DEF Below
<1>2. Below(p) /\ p \in Blocks /\ p \in header /\ Number[p] = Number[currentHeader] - 1
  BY <1>0, <1>1, BelowParent, Zenon
<1>3. headHeader' = p /\ currentHeader' = p
  BY <1>0, <1>2, Zenon DEF ParentHeader, GetHeader
<1>4. Below(headHeader)' /\ Below(currentHeader)' /\ (headBlock' # NoHash => Below(headBlock)')
  BY <1>0, <1>2, <1>3, Zenon DEF Below, RewindInv
<1>5. SetHeadInv'
  <2>1. ASSUME NEW b \in batch'
        PROVE  Number[b] > Number[p] /\ (headBlock # NoHash => Number[b] > Number[headBlock])
    <3>1. CASE b = currentHeader
      BY <1>0, <1>1, <1>2, <3>1 DEF SetHeadInv
    <3>2. CASE b \in batch
      <4>1. Number[b] > Number[currentHeader] /\ Number[b] \in Nat /\ (headBlock # NoHash => Number[b] > Number[headBlock])
        BY <1>0, <3>2, BlockAssumption, Zenon DEF SetHeadInv, TypeInv, TypeOK
      <4> QED  BY <1>1, <1>2, <4>1
    <3> QED  BY <1>0, <2>1, <3>1, <3>2, Zenon
  <2> QED  BY <1>0, <1>3, <2>1, Zenon DEF SetHeadInv
<1>6. /\ (\A b \in header' : b \in body' /\ b \in hashNumber')
      /\ \A t \in Inserters : ipc'[t] = "idle"
  BY <1>0, Zenon DEF RewindInv, TypeInv, OpenInv
<1> QED  BY <1>0, <1>4, <1>5, <1>6, Zenon DEF RewindInv

\* The batch of SetHead is above everything the three heads rest on.
LEMMA WriteBatchInv ==
    ASSUME SingleChain, TypeInv, RewindInv, WriteBatch
    PROVE  RewindInv'
<1>0. /\ pc = "setHead" /\ pc' = "load" /\ SetHeadInv /\ Below(currentHeader)
      /\ \/ body' = body \ batch /\ header' = header \ batch /\ hashNumber' = hashNumber \ batch
         \/ UNCHANGED <<body, header, hashNumber>>
      /\ \A n \in Numbers : (\A b \in batch : Number[b] # n) => canon'[n] = canon[n]
      /\ UNCHANGED <<headBlock, headHeader, currentHeader, ipc, chain>>
      /\ batch \subseteq Blocks
  BY Zenon DEF WriteBatch, RewindInv, Opened, inserts, TypeInv, TypeOK
<1>1. ASSUME NEW h, Below(h), \A b \in batch : Number[b] > Number[h] PROVE Below(h)'
  <2>1. ASSUME NEW n \in 0..Number[h], NEW b \in batch PROVE Number[b] # n
    <3>1. Number[b] \in Nat /\ Number[h] \in Nat /\ Number[b] > Number[h]
      BY <1>0, <1>1, BlockAssumption, Zenon DEF Below
    <3> QED  BY <3>1
  <2>2. ASSUME NEW n \in 0..Number[h] PROVE canon'[n] = canon[n] /\ canon[n] \in header'
    BY <1>0, <1>1, <2>1, Zenon DEF Below
  <2> QED  BY <1>1, <2>2, BelowKept, Zenon
<1>2. Below(currentHeader)'
  BY <1>0, <1>1, Zenon DEF SetHeadInv, Below
<1>3. headBlock' # NoHash => Below(headBlock)'
  BY <1>0, <1>1, Zenon DEF SetHeadInv, Below, RewindInv
<1>4. headHeader' # NoHash => Below(headHeader)'
  BY <1>0, <1>1, Zenon DEF SetHeadInv, Below, RewindInv
<1>5. /\ (\A b \in header' : b \in body' /\ b \in hashNumber')
      /\ \A t \in Inserters : ipc'[t] = "idle"
  BY <1>0, Zenon DEF RewindInv, TypeInv, OpenInv
<1> QED  BY <1>0, <1>2, <1>3, <1>4, <1>5, Zenon DEF RewindInv

\* loadLastState keeps RewindInv.
LEMMA LoadRewindInv ==
    ASSUME SingleChain, TypeInv, RewindInv, LoadLastState
    PROVE  RewindInv'
<1>0. /\ [Next]_vars /\ ~WriteBatch /\ Below(currentHeader) /\ NoHash \notin Blocks
      /\ \A t \in Inserters : ipc'[t] = "idle"
      /\ UNCHANGED <<body, hashNumber, header, canon, headBlock>>
      /\ pc' \in {"hung", "setHead", "repair", "up"} /\ pc = "load"
  BY BlockAssumption, Zenon
  DEF LoadLastState, Return, Reset, Next, StartStep, WriteBatch, RewindInv, Opened, inserts, disk, TypeInv, OpenInv
<1>1. GetBlockByHash(headBlock) <=> headBlock # NoHash
  <2>1. headBlock # NoHash => headBlock \in header
    BY BelowIsCanonical, Zenon DEF RewindInv
  <2>2. headBlock \in hashNumber => headBlock # NoHash
    BY <1>0, Zenon DEF TypeInv, TypeOK
  <2> QED  BY <2>1, <2>2, Zenon DEF RewindInv, GetBlockByHash, GetBlock, GetHeader
<1>2. CASE ~GetBlockByHash(headBlock)
  <2>1. UNCHANGED <<currentHeader, headHeader>> /\ (pc' = "setHead" => batch' = {}) /\ pc' # "up"
    BY <1>2, Zenon DEF LoadLastState, Return, Reset, disk
  <2>2. pc' \in {"setHead", "setHeadHeader"} => SetHeadInv'
    BY <1>0, <1>1, <1>2, <2>1, Zenon DEF SetHeadInv
  <2> QED  BY <1>0, <2>1, <2>2, HeadsMove, Zenon DEF Opened
<1>3. CASE GetBlockByHash(headBlock) /\ pc' # "up"
  <2>1. UNCHANGED <<currentHeader, headHeader>> /\ pc' = "repair"
    BY <1>3, Zenon DEF LoadLastState, Return, disk
  <2> QED  BY <1>0, <2>1, HeadsMove, Zenon DEF Opened
<1>4. CASE GetBlockByHash(headBlock) /\ pc' = "up"
  <2>1. headHeader' = currentHeader' /\ currentHeader' \in {headHeader, headBlock}
        /\ (currentHeader' = headHeader => headHeader # NoHash \/ headHeader = headBlock)
    <3>1. headHeader' = currentHeader' /\ currentHeader' = IF GetHeaderByHash(headHeader) THEN headHeader ELSE headBlock
      BY <1>4, Zenon DEF LoadLastState
    <3>2. GetHeaderByHash(headHeader) => headHeader # NoHash
      BY <1>0, Zenon DEF GetHeaderByHash, TypeInv, TypeOK
    <3> QED  BY <3>1, <3>2, Zenon
  <2>2. Below(currentHeader)' /\ Below(headHeader)'
    BY <1>0, <1>1, <1>4, <2>1, Zenon DEF RewindInv, Below
  <2> QED  BY <1>0, <1>4, <2>2, HeadsMove, Zenon
<1> QED  BY <1>2, <1>3, <1>4, Zenon

\* Every step keeps RewindInv.
LEMMA NextRewindInv ==
    ASSUME OneInserter, SingleChain, TypeInv, ProgressInv, GrowInv, RewindInv, [Next]_vars
    PROVE  RewindInv'
<1>0. pc # "up" => \A t \in Inserters : ipc[t] = "idle"
  BY Zenon DEF TypeInv, OpenInv
<1>1. ASSUME NEW t \in Inserters, InsertStep(t) PROVE RewindInv'
  BY <1>1, InsertRewindInv, Zenon
<1>2. CASE SetHeadStep
  BY <1>2, UpdateRewindInv, RewindHeaderInv, WriteBatchInv, Zenon DEF SetHeadStep
<1>3. CASE LoadLastState
  BY <1>3, LoadRewindInv, Zenon
<1>4. ASSUME ~WriteBatch, header' = header, UNCHANGED <<headBlock, headHeader>>,
             \A t \in Inserters : ipc'[t] = "idle",
             pc' \in Opened => (pc \in Opened /\ currentHeader' = currentHeader) \/ Below(currentHeader)',
             pc' \in {"gHead", "gHeadHeader"} => pc = "gHead" \/ Below(Genesis)',
             pc' \in {"setHead", "setHeadHeader"} => SetHeadInv'
      PROVE  RewindInv'
  BY <1>4, HeadsMove, Zenon
<1>5. CASE Exit
  BY <1>4, <1>5, Zenon DEF Exit, disk, Opened, WriteBatch
<1>6. CASE SetupGenesisBlock
  BY <1>0, <1>4, <1>6, Zenon DEF SetupGenesisBlock, disk, inserts, Opened, WriteBatch
<1>7. CASE Repair
  BY <1>0, <1>4, <1>7, Zenon DEF Repair, Return, disk, inserts, Opened, WriteBatch
<1>8. CASE NewBlockChain
  <2>1. pc' = "load" => Below(currentHeader)'
    <3>1. SUFFICES ASSUME pc' = "load" PROVE Below(currentHeader)'
      BY Zenon
    <3>2. /\ canon[0] # NoHash /\ GetBlock(canon[0], 0)
          /\ currentHeader' = IF GetHeaderByHash(headBlock) THEN headBlock ELSE canon[0]
          /\ UNCHANGED <<canon, header>>
      BY <1>8, <3>1, Zenon DEF NewBlockChain, disk
    <3>3. Below(canon[0])
      <4>1. canon[0] \in Blocks /\ Number[canon[0]] = 0 /\ canon[0] \in header /\ 0 \in Numbers
        BY <3>2, NumbersAreHeights, Zenon DEF GetBlock, GetHeader, TypeInv, TypeOK
      <4>2. \A n \in 0..Number[canon[0]] : n = 0
        BY <4>1
      <4> QED  BY <4>1, <4>2, Zenon DEF Below
    <3>4. GetHeaderByHash(headBlock) => Below(headBlock)
      BY BlockAssumption, Zenon DEF GetHeaderByHash, RewindInv, TypeInv, TypeOK
    <3> QED  BY <3>2, <3>3, <3>4, Zenon DEF Below
  <2> QED  BY <1>0, <1>4, <1>8, <2>1, Zenon DEF NewBlockChain, disk, inserts, Opened, WriteBatch
<1>9. CASE GenesisStep
  <2>1. /\ \A t \in Inserters : ipc'[t] = "idle"
        /\ pc' \notin Opened /\ ~WriteBatch /\ pc' \notin {"setHead", "setHeadHeader"}
    BY <1>0, <1>9, Zenon DEF GenesisStep, ToBlock, CommitGenesis, inserts, Opened, WriteBatch
  <2>2. CASE pc \in {"gState", "gBody", "gNumber"}
    BY <1>4, <1>9, <2>1, <2>2, Zenon DEF GenesisStep, ToBlock, CommitGenesis
  <2>3. CASE pc = "gHeader"
    <3>1. Genesis \in body /\ Genesis \in hashNumber
      BY <2>3, Zenon DEF ProgressInv
    <3>2. header' = header \cup {Genesis} /\ UNCHANGED <<body, hashNumber, headBlock, headHeader>> /\ pc' = "gCanon"
      BY <1>9, <2>3, Zenon DEF GenesisStep, ToBlock, CommitGenesis
    <3> QED  BY <2>1, <3>1, <3>2, HeadsMove, Zenon
  <2>4. CASE pc = "gCanon"
    <3>1. /\ canon' = [canon EXCEPT ![0] = Genesis] /\ header' = header /\ pc' = "gHead"
          /\ UNCHANGED <<headBlock, headHeader>> /\ Genesis \in header
      BY <1>9, <2>4, Zenon DEF GenesisStep, ToBlock, CommitGenesis, ProgressInv
    <3>2. canon'[0] = Genesis /\ 0 \in Numbers /\ Number[Genesis] = 0 /\ Genesis \in Blocks
      BY <3>1, NumbersAreHeights, BlockAssumption, Zenon DEF TypeInv, TypeOK
    <3>3. \A n \in 0..Number[Genesis] : n = 0
      BY <3>2
    <3>4. Below(Genesis)'
      BY <3>1, <3>2, <3>3 DEF Below
    <3> QED  BY <1>4, <2>1, <3>1, <3>4, Zenon
  <2>5. CASE pc \in {"gHead", "gHeadHeader"}
    <3>1. /\ UNCHANGED <<canon, header>>
          /\ \/ pc = "gHead" /\ pc' = "gHeadHeader" /\ headBlock' = Genesis /\ headHeader' = headHeader
             \/ pc' = "down" /\ headHeader' = Genesis /\ headBlock' = headBlock
      BY <1>9, <2>5, Zenon DEF GenesisStep, ToBlock, CommitGenesis
    <3>2. Below(Genesis)
      BY <2>5, Zenon DEF RewindInv
    <3>3. (headBlock' # headBlock => Below(headBlock)') /\ (headHeader' # headHeader => Below(headHeader)')
      BY <3>1, <3>2, Zenon DEF Below
    <3> QED  BY <2>1, <3>1, <3>3, HeadsMove, Zenon
  <2> QED  BY <1>9, <2>2, <2>3, <2>4, <2>5, Zenon DEF GenesisStep, ToBlock, CommitGenesis
<1>10. ASSUME NEW n \in Numbers, SetHead(n) PROVE RewindInv'
  <2>1. pc = "up" /\ (\A t \in Inserters : ipc[t] = "idle") /\ batch' = {} /\ UNCHANGED <<headBlock, currentBlock>>
    BY <1>10, Zenon DEF SetHead, Idle, disk
  <2>2. SetHeadInv'
    BY <1>10, <2>1, Zenon DEF SetHeadInv, GrowInv, SetHead
  <2> QED  BY <1>4, <1>10, <2>1, <2>2, Zenon DEF SetHead, disk, inserts, Opened, WriteBatch
<1>11. ASSUME NEW r \in states, LoseState(r) PROVE RewindInv'
  BY <1>0, <1>4, <1>11, Zenon DEF LoseState, inserts, Opened, WriteBatch
<1>12. ASSUME NEW t \in Inserters, NEW c \in Batches, InsertChain(t, c), ~Exit PROVE RewindInv'
  <2>1. /\ pc = "up" /\ UNCHANGED <<pc, canon, header, headBlock, headHeader, currentHeader>>
        /\ ipc' = [ipc EXCEPT ![t] = "state"] /\ \A u \in Inserters : u = t
    BY <1>12, Zenon DEF InsertChain, disk, OneInserter
  <2>2. ipc'[t] = "state"
    BY <2>1, Zenon DEF TypeInv, TypeOK
  <2> QED  BY <2>1, <2>2, HeadsMove, Zenon DEF Opened, WriteBatch
<1>13. CASE UNCHANGED vars
  <2>1. UNCHANGED <<canon, header, body, hashNumber, headBlock, headHeader, currentHeader, currentBlock,
                    batch, pc, ipc, chain>>
    BY <1>13, Zenon DEF vars, disk, inserts, rewinding
  <2> QED  BY <2>1, Zenon DEF RewindInv, Below, SetHeadInv
<1> QED
  BY <1>1, <1>2, <1>3, <1>5, <1>6, <1>7, <1>8, <1>9, <1>10, <1>11, <1>12, <1>13, Zenon DEF Next, StartStep, Crash

RewoundInv == TypeInv /\ ProgressInv /\ GrowInv /\ RewindInv

\* The invariant of the store with SetHead holds in every state.
LEMMA RewoundStore == OneInserter /\ SingleChain => (Spec => []RewoundInv)
<1> SUFFICES ASSUME OneInserter, SingleChain PROVE Spec => []RewoundInv
  BY Zenon
<1>1. Init => RewoundInv
  BY InitTypeInv, Zenon DEF Init, RewoundInv, ProgressInv, GrowInv, Above, RewindInv, Opened
<1>2. RewoundInv /\ [Next]_vars => RewoundInv'
  BY NextTypeInv, NextProgress, NextGrowInv, NextRewindInv, Zenon DEF RewoundInv
<1> QED  BY <1>1, <1>2, PTL DEF Spec

\* With SetHead on a running chain too, one inserting goroutine and peers that serve one
\* chain, the block LastBlock names can be read back wherever the process stops.
THEOREM RewoundHeadStored == OneInserter /\ SingleChain => (Spec => []HeadIsStored)
<1> SUFFICES ASSUME OneInserter, SingleChain PROVE Spec => []HeadIsStored
  BY Zenon
<1>1. RewoundInv => HeadIsStored
  BY BelowIsCanonical, Zenon DEF RewoundInv, RewindInv, HeadIsStored, GetBlockByHash, GetBlock, GetHeader
<1> QED  BY <1>1, RewoundStore, PTL

\* Under the same conditions SetHead, interrupted or not, leaves every block up to the
\* stored head canonical, stored and on top of the one below it.
THEOREM RewoundChain == OneInserter /\ SingleChain => (Spec => []CanonicalChainIsComplete)
<1> SUFFICES ASSUME OneInserter, SingleChain PROVE Spec => []CanonicalChainIsComplete
  BY Zenon
<1>1. ASSUME RewoundInv, headBlock # NoHash
      PROVE  /\ canon[Number[headBlock]] = headBlock
             /\ \A n \in 0..Number[headBlock] :
                   /\ canon[n] # NoHash /\ GetBlock(canon[n], n)
                   /\ n > 0 => Parent[canon[n]] = canon[n - 1]
  <2>1. Below(headBlock) /\ canon[Number[headBlock]] = headBlock
    BY <1>1, BelowIsCanonical, Zenon DEF RewoundInv, RewindInv
  <2>2. Number[headBlock] \in Nat
    BY <2>1, BlockAssumption, Zenon DEF Below
  <2>3. ASSUME NEW n \in 0..Number[headBlock]
        PROVE  /\ canon[n] # NoHash /\ GetBlock(canon[n], n)
               /\ n > 0 => Parent[canon[n]] = canon[n - 1]
    <3>1. canon[n] \in Blocks /\ Number[canon[n]] = n /\ canon[n] \in header
      BY <2>1, Zenon DEF Below
    <3>2. canon[n] # NoHash /\ GetBlock(canon[n], n)
      BY <1>1, <3>1, BlockAssumption, Zenon DEF RewoundInv, RewindInv, GetBlock, GetHeader
    <3>3. ASSUME n > 0 PROVE Parent[canon[n]] = canon[n - 1]
      <4>1. n - 1 \in 0..Number[headBlock]
        BY <2>2, <3>3
      <4>2. canon[n - 1] \in Blocks /\ Number[canon[n - 1]] = n - 1
        BY <2>1, <4>1, Zenon DEF Below
      <4> QED  BY <3>1, <3>3, <4>2, Zenon DEF SingleChain
    <3> QED  BY <3>2, <3>3, Zenon
  <2> QED  BY <2>1, <2>3, Zenon
<1>2. RewoundInv => CanonicalChainIsComplete
  BY <1>1, Zenon DEF CanonicalChainIsComplete
<1> QED  BY <1>2, RewoundStore, PTL

\* Under the same conditions CurrentHeader of a running node is a canonical header that
\* GetHeaderByHash finds: SetHead never deletes a header at or below the one it ends on.
THEOREM RewoundHeader == OneInserter /\ SingleChain => (Spec => []HeaderIsCanonical)
<1> SUFFICES ASSUME OneInserter, SingleChain PROVE Spec => []HeaderIsCanonical
  BY Zenon
<1>1. RewoundInv => HeaderIsCanonical
  BY BelowIsCanonical, Zenon
  DEF RewoundInv, RewindInv, HeaderIsCanonical, Opened, GetHeaderByHash, GetHeader
<1> QED  BY <1>1, RewoundStore, PTL

=============================================================================
