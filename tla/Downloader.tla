----------------------------- MODULE Downloader -----------------------------
(***************************************************************************)
(* Block synchronisation: ProtocolManager.syncer, synchronise and the      *)
(* BlocksMsg handler (proton/handler.go), and the Downloader               *)
(* (proton/downloader).                                                    *)
(*                                                                         *)
(* The ticker starts `go pm.synchronise(bestPeer)` every ten seconds and   *)
(* does not wait for the last one, so several goroutines (Syncs) share     *)
(* cancelCh, cancelWg and blockCh.  Each has one fetchBlocks goroutine.    *)
(* The handler goroutine of a peer delivers the blocks that peer sends.    *)
(*                                                                         *)
(* All nodes hold one chain, so a block is its number, and a peer has the  *)
(* blocks up to the number it announced.  InsertChain is reduced to its    *)
(* effects in memory and on the canonical hashes, one write at a time, for *)
(* blocks whose state is on disk; BlockChain.tla has all of its writes.    *)
(* The queue of future blocks is left out: sortedBlocks.insert has a value *)
(* receiver, so d.queue stays empty and peekContinuousBlocks finds none.   *)
(***************************************************************************)
EXTENDS Naturals, FiniteSets, Bags

CONSTANTS
    Peers,           \* remote nodes
    RemoteHead,      \* the block number each announces in its handshake
    LocalBlock, LocalHeader,  \* numbers of the two heads the node starts with
    Syncs,           \* bound: goroutines inside pm.synchronise at once
    MaxBlockFetch,   \* most blocks in one request
    Lossy,           \* TRUE when requests and answers may be lost
    MaxOutstanding,  \* bound: no new sync while this many requests are open
    Chans,           \* names for cancel channels; 0 is nil
    NoPeer

ASSUME SyncAssumption ==
    /\ NoPeer \notin Peers
    /\ RemoteHead \in [Peers -> Nat]
    /\ LocalBlock \in Nat /\ LocalHeader \in 0..LocalBlock
    /\ Lossy \in BOOLEAN
    /\ MaxBlockFetch \in Nat \ {0} /\ MaxOutstanding \in Nat \ {0}
    /\ Chans \subseteq Nat \ {0}

\* Enough channel names for a fresh one to exist in every state.
ASSUME ChanAssumption ==
    /\ IsFiniteSet(Syncs) /\ IsFiniteSet(Peers)
    /\ Cardinality(Chans) > 1 + Cardinality(Syncs) + Cardinality(Peers)

VARIABLES
    head, hdr,   \* numbers of CurrentBlock and CurrentHeader
    top,         \* highest number with a canonical hash
    peers,       \* ids registered in the downloader's peerSet
    cancelCh,    \* the field d.cancelCh
    closed,      \* cancel channels that have been closed
    blockCh,     \* the packet in blockCh (capacity one), as a set
    reqs,        \* bag of requests sent and not answered yet
    spc, speer,         \* per sync: control and peer
    fpc, from, fch,     \* per fetch: control, next to ask for, channel of its select
    ins,                \* per fetch: blocks in InsertChain, [next, last, n, new]
    hpc, hch, hpk       \* per handler: control, channel and packet of deliver

chainVars == <<head, hdr, top>>
syncVars == <<spc, speer>>
fetchVars == <<fpc, from, fch, ins>>
handlerVars == <<peers, hpc, hch, hpk>>
vars == <<chainVars, cancelCh, closed, blockCh, reqs, syncVars, fetchVars, handlerVars>>

Packets == [peer : Peers, first : Nat, n : Nat]
NoPacket == [peer |-> NoPeer, first |-> 0, n |-> 0]
NoInsert == [next |-> 0, last |-> 0, n |-> 0, new |-> FALSE]

InsertSteps == {"insert", "canon", "block", "header"}
Fetching(s) == fpc[s] \in {"start", "select"} \cup InsertSteps

\* The cancel channels some goroutine can see.
InUse ==
    {cancelCh} \cup {fch[s] : s \in Syncs} \cup {hch[p] : p \in Peers}

\* What make(chan struct{}) returns.
FreshChan == CHOOSE c \in Chans \ InUse : TRUE

Init ==
    /\ head = LocalBlock /\ hdr = LocalHeader /\ top = LocalBlock
    /\ peers = {} /\ cancelCh = 0 /\ closed = {} /\ blockCh = {} /\ reqs = EmptyBag
    /\ spc = [s \in Syncs |-> "idle"] /\ speer = [s \in Syncs |-> NoPeer]
    /\ fpc = [s \in Syncs |-> "none"] /\ from = [s \in Syncs |-> 0]
    /\ fch = [s \in Syncs |-> 0] /\ ins = [s \in Syncs |-> NoInsert]
    /\ hpc = [p \in Peers |-> "handshake"] /\ hch = [p \in Peers |-> 0]
    /\ hpk = [p \in Peers |-> NoPacket]

-----------------------------------------------------------------------------
(* pm.synchronise and Downloader.synchronise *)

\* bestPeer over pm.peers: of the highest announced numbers the map's order picks.
BestPeers ==
    LET known == {p \in Peers : hpc[p] # "handshake"}
    IN  {p \in known : \A q \in known : RemoteHead[q] <= RemoteHead[p]}

Outstanding ==
    BagCardinality(reqs) + Cardinality(blockCh)
      + Cardinality({p \in Peers : hpc[p] = "deliver"})
      + Cardinality({s \in Syncs : spc[s] \in {"begin", "lookup"} \/ fpc[s] = "start"})

\* The ticker's new goroutine; it returns at once unless the peer is ahead.
Tick(s) ==
    \E p \in BestPeers :
    /\ spc[s] = "idle" /\ head < RemoteHead[p] /\ Outstanding < MaxOutstanding
    /\ spc' = [spc EXCEPT ![s] = "begin"]
    /\ speer' = [speer EXCEPT ![s] = p]
    /\ UNCHANGED <<chainVars, cancelCh, closed, blockCh, reqs, fetchVars, handlerVars>>

\* A new cancel channel replaces the field, whoever still waits on the old one.
Begin(s) ==
    /\ spc[s] = "begin"
    /\ spc' = [spc EXCEPT ![s] = "lookup"]
    /\ cancelCh' = FreshChan
    /\ closed' = closed \cap InUse
    /\ UNCHANGED <<chainVars, blockCh, reqs, speer, fetchVars, handlerVars>>

\* Mutant: origin is the local head itself.
SyncWithPeerAtHead(s) ==
    /\ spc[s] = "lookup"
    /\ IF speer[s] \in peers /\ hdr <= RemoteHead[speer[s]]
       THEN /\ spc' = [spc EXCEPT ![s] = "wait"]
            /\ fpc' = [fpc EXCEPT ![s] = "start"]
            /\ from' = [from EXCEPT ![s] = hdr]
       ELSE /\ spc' = [spc EXCEPT ![s] = "cancel2"]
            /\ UNCHANGED <<fpc, from>>
    /\ UNCHANGED <<chainVars, cancelCh, closed, blockCh, reqs, speer, fch, ins, handlerVars>>

\* errUnknownPeer, nothing to do, or a fetch from CurrentHeader + 1.
SyncWithPeer(s) ==
    /\ spc[s] = "lookup"
    /\ IF speer[s] \in peers /\ hdr <= RemoteHead[speer[s]]
       THEN /\ spc' = [spc EXCEPT ![s] = "wait"]
            /\ fpc' = [fpc EXCEPT ![s] = "start"]
            /\ from' = [from EXCEPT ![s] = hdr + 1]
       ELSE /\ spc' = [spc EXCEPT ![s] = "cancel2"]
            /\ UNCHANGED <<fpc, from>>
    /\ UNCHANGED <<chainVars, cancelCh, closed, blockCh, reqs, speer, fch, ins, handlerVars>>

\* spawnSync: <-errc
FetchReturned(s) ==
    /\ spc[s] = "wait" /\ fpc[s] \in {"done", "cancelled"}
    /\ spc' = [spc EXCEPT ![s] = "cancel"]
    /\ fpc' = [fpc EXCEPT ![s] = "none"]
    /\ UNCHANGED <<chainVars, cancelCh, closed, blockCh, reqs, speer,
                   from, fch, ins, handlerVars>>

\* cancel(): close the channel that the field holds now.  spawnSync calls it,
\* and the deferred Cancel of synchronise calls it again.
Cancel(s) ==
    /\ \/ spc[s] = "cancel" /\ spc' = [spc EXCEPT ![s] = "join"]
       \/ spc[s] = "cancel2" /\ spc' = [spc EXCEPT ![s] = "join2"]
    /\ closed' = closed \cup {cancelCh}
    /\ UNCHANGED <<chainVars, cancelCh, blockCh, reqs, speer, fetchVars, handlerVars>>

\* cancelWg.Wait(): the group counts the fetchers of every sync.
Join(s) ==
    /\ \A u \in Syncs : ~Fetching(u)
    /\ \/ /\ spc[s] = "join" /\ spc' = [spc EXCEPT ![s] = "cancel2"]
          /\ UNCHANGED speer
       \/ /\ spc[s] = "join2" /\ spc' = [spc EXCEPT ![s] = "idle"]
          /\ speer' = [speer EXCEPT ![s] = NoPeer]
    /\ UNCHANGED <<chainVars, cancelCh, closed, blockCh, reqs, fetchVars, handlerVars>>

-----------------------------------------------------------------------------
(* fetchBlocks *)

\* Mutant: the request is sent twice.
GetBlocksTwice(s, f) ==
    LET left == (RemoteHead[speer[s]] + 1) - f
        total == IF left > MaxBlockFetch THEN MaxBlockFetch ELSE left
        r == SetToBag({[peer |-> speer[s], first |-> f, n |-> total]})
    IN  reqs' = reqs (+) r (+) r

\* getBlocks: a goroutine of its own sends the request, at some later time.
GetBlocks(s, f) ==
    LET left == (RemoteHead[speer[s]] + 1) - f
        total == IF left > MaxBlockFetch THEN MaxBlockFetch ELSE left
    IN  reqs' = reqs (+) SetToBag({[peer |-> speer[s], first |-> f, n |-> total]})

\* The loop comes (back) to its select, which reads d.cancelCh anew.
Select(s) ==
    /\ fpc' = [fpc EXCEPT ![s] = "select"]
    /\ fch' = [fch EXCEPT ![s] = cancelCh]

Return(s, result) ==
    /\ fpc' = [fpc EXCEPT ![s] = result]
    /\ fch' = [fch EXCEPT ![s] = 0]
    /\ from' = [from EXCEPT ![s] = 0]

FetchStart(s) ==
    /\ fpc[s] = "start"
    /\ GetBlocks(s, from[s]) /\ Select(s)
    /\ UNCHANGED <<chainVars, cancelCh, closed, blockCh, syncVars, from, ins, handlerVars>>

FetchCancelled(s) ==
    /\ fpc[s] = "select" /\ fch[s] \in closed
    /\ Return(s, "cancelled")
    /\ UNCHANGED <<chainVars, cancelCh, closed, blockCh, reqs, syncVars, ins, handlerVars>>

\* After processBlocks: the next request while from < end.
Advance(s, n) ==
    IF from[s] + n < RemoteHead[speer[s]]
    THEN /\ from' = [from EXCEPT ![s] = @ + n]
         /\ GetBlocks(s, from[s] + n) /\ Select(s)
    ELSE Return(s, "done") /\ UNCHANGED reqs

\* Mutant: processBlocks without the test against CurrentBlock + 1.
FetchReceiveUnchecked(s) ==
    \E packet \in blockCh :
    /\ fpc[s] = "select"
    /\ blockCh' = {}
    /\ IF packet.peer # speer[s]
       THEN Select(s) /\ UNCHANGED <<from, reqs, ins>>
       ELSE /\ fpc' = [fpc EXCEPT ![s] = "insert"]
            /\ ins' = [ins EXCEPT ![s] = [next |-> packet.first, n |-> packet.n, new |-> FALSE,
                                          last |-> packet.first + packet.n - 1]]
            /\ UNCHANGED <<from, fch, reqs>>
    /\ UNCHANGED <<chainVars, cancelCh, closed, syncVars, handlerVars>>

\* A packet of another peer is thrown away; one that does not start right above
\* CurrentBlock is not inserted, but from moves on all the same.
FetchReceive(s) ==
    \E packet \in blockCh :
    /\ fpc[s] = "select"
    /\ blockCh' = {}
    /\ IF packet.peer # speer[s]
       THEN Select(s) /\ UNCHANGED <<from, reqs, ins>>
       ELSE IF packet.first = head + 1
       THEN /\ fpc' = [fpc EXCEPT ![s] = "insert"]
            /\ ins' = [ins EXCEPT ![s] = [next |-> packet.first, n |-> packet.n, new |-> FALSE,
                                          last |-> packet.first + packet.n - 1]]
            /\ UNCHANGED <<from, fch, reqs>>
       ELSE Advance(s, packet.n) /\ UNCHANGED ins
    /\ UNCHANGED <<chainVars, cancelCh, closed, syncVars, handlerVars>>

\* InsertChain's loop; at its end processBlocks returns to fetchBlocks.
NextBlock(s) ==
    IF ins[s].next < ins[s].last
    THEN /\ ins' = [ins EXCEPT ![s] = [next |-> @.next + 1, last |-> @.last, n |-> @.n, new |-> FALSE]]
         /\ fpc' = [fpc EXCEPT ![s] = "insert"]
         /\ UNCHANGED <<from, fch, reqs>>
    ELSE /\ ins' = [ins EXCEPT ![s] = NoInsert]
         /\ Advance(s, ins[s].n)

\* insert: updateHeads is decided by the canonical hash the database has now.
ReadCanonical(s) ==
    /\ fpc[s] = "insert"
    /\ ins' = [ins EXCEPT ![s].new = ins[s].next > top]
    /\ fpc' = [fpc EXCEPT ![s] = "canon"]
    /\ UNCHANGED <<chainVars, cancelCh, closed, blockCh, reqs, syncVars, from, fch, handlerVars>>

\* Mutant: insert leaves the canonical hash unwritten.
WriteCanonicalSkipped(s) ==
    /\ fpc[s] = "canon"
    /\ fpc' = [fpc EXCEPT ![s] = "block"]
    /\ UNCHANGED <<chainVars, cancelCh, closed, blockCh, reqs, syncVars, from, fch, ins, handlerVars>>

WriteCanonical(s) ==
    /\ fpc[s] = "canon"
    /\ top' = IF ins[s].next > top THEN ins[s].next ELSE top
    /\ fpc' = [fpc EXCEPT ![s] = "block"]
    /\ UNCHANGED <<head, hdr, cancelCh, closed, blockCh, reqs, syncVars, from, fch, ins, handlerVars>>

\* The block becomes current; unless it is new, it is done with.
StoreBlock(s) ==
    /\ fpc[s] = "block"
    /\ head' = ins[s].next
    /\ IF ins[s].new
       THEN fpc' = [fpc EXCEPT ![s] = "header"] /\ UNCHANGED <<reqs, from, fch, ins>>
       ELSE NextBlock(s)
    /\ UNCHANGED <<hdr, top, cancelCh, closed, blockCh, syncVars, handlerVars>>

StoreHeader(s) ==
    /\ fpc[s] = "header"
    /\ hdr' = ins[s].next
    /\ NextBlock(s)
    /\ UNCHANGED <<head, top, cancelCh, closed, blockCh, syncVars, handlerVars>>

-----------------------------------------------------------------------------
(* ProtocolManager.handle, one goroutine per peer *)

\* The handshake is over and pm.peers has the peer ...
HandshakeDone(p) ==
    /\ hpc[p] = "handshake"
    /\ hpc' = [hpc EXCEPT ![p] = "register"]
    /\ UNCHANGED <<chainVars, cancelCh, closed, blockCh, reqs, syncVars, fetchVars, peers, hch, hpk>>

\* ... and then the downloader.
RegisterPeer(p) ==
    /\ hpc[p] = "register"
    /\ hpc' = [hpc EXCEPT ![p] = "read"]
    /\ peers' = peers \cup {p}
    /\ UNCHANGED <<chainVars, cancelCh, closed, blockCh, reqs, syncVars, fetchVars, hch, hpk>>

\* The peer answers a request and the handler reads the BlocksMsg.  One without
\* blocks is ignored; for the others deliver reads d.cancelCh once.
ReadBlocks(p) ==
    \E r \in BagToSet(reqs) :
    /\ hpc[p] = "read" /\ r.peer = p
    /\ reqs' = reqs (-) SetToBag({r})
    /\ IF r.n = 0
       THEN UNCHANGED <<hpc, hch, hpk>>
       ELSE /\ hpc' = [hpc EXCEPT ![p] = "deliver"]
            /\ hch' = [hch EXCEPT ![p] = cancelCh]
            /\ hpk' = [hpk EXCEPT ![p] = r]
    /\ UNCHANGED <<chainVars, cancelCh, closed, blockCh, syncVars, fetchVars, peers>>

\* A request that could not be sent (the goroutine drops the error) or that the
\* peer does not answer: nothing asks again.
LoseRequest(p) ==
    \E r \in BagToSet(reqs) :
    /\ Lossy /\ r.peer = p
    /\ reqs' = reqs (-) SetToBag({r})
    /\ UNCHANGED <<chainVars, cancelCh, closed, blockCh, syncVars, fetchVars, handlerVars>>

\* deliver: the channel takes the packet, or errNoSyncActive once cancelled.
Deliver(p) ==
    /\ hpc[p] = "deliver"
    /\ \/ blockCh = {} /\ blockCh' = {hpk[p]}
       \/ hch[p] \in closed /\ UNCHANGED blockCh
    /\ hpc' = [hpc EXCEPT ![p] = "read"]
    /\ hch' = [hch EXCEPT ![p] = 0]
    /\ hpk' = [hpk EXCEPT ![p] = NoPacket]
    /\ UNCHANGED <<chainVars, cancelCh, closed, reqs, syncVars, fetchVars, peers>>

-----------------------------------------------------------------------------
SyncStep(s) == Begin(s) \/ SyncWithPeer(s) \/ FetchReturned(s) \/ Cancel(s) \/ Join(s)
FetchStep(s) ==
    \/ FetchStart(s) \/ FetchCancelled(s) \/ FetchReceive(s)
    \/ ReadCanonical(s) \/ WriteCanonical(s) \/ StoreBlock(s) \/ StoreHeader(s)
HandlerStep(p) == HandshakeDone(p) \/ RegisterPeer(p) \/ ReadBlocks(p) \/ Deliver(p)

Next ==
    \/ \E s \in Syncs : Tick(s) \/ SyncStep(s) \/ FetchStep(s)
    \/ \E p \in Peers : HandlerStep(p) \/ LoseRequest(p)

Spec == Init /\ [][Next]_vars

\* The ticker keeps ticking, every goroutine that can go on does, and every peer
\* completes its handshake and answers.
FairSpec ==
    /\ Spec
    /\ \A s \in Syncs : WF_vars(Tick(s)) /\ WF_vars(SyncStep(s)) /\ WF_vars(FetchStep(s))
    /\ \A p \in Peers : WF_vars(HandlerStep(p))

-----------------------------------------------------------------------------
ChainTypeOK == head \in Nat /\ hdr \in Nat /\ top \in Nat

WireTypeOK ==
    /\ cancelCh \in Chans \cup {0} /\ closed \subseteq Chans
    /\ blockCh \subseteq Packets /\ Cardinality(blockCh) <= 1
    /\ IsABag(reqs) /\ BagToSet(reqs) \subseteq Packets

SyncTypeOK ==
    /\ spc \in [Syncs -> {"idle", "begin", "lookup", "wait", "cancel", "join", "cancel2", "join2"}]
    /\ speer \in [Syncs -> Peers \cup {NoPeer}]

FetchTypeOK ==
    /\ fpc \in [Syncs -> {"none", "start", "select", "done", "cancelled"} \cup InsertSteps]
    /\ from \in [Syncs -> Nat] /\ fch \in [Syncs -> Chans \cup {0}]
    /\ ins \in [Syncs -> [next : Nat, last : Nat, n : Nat, new : BOOLEAN]]

HandlerTypeOK ==
    /\ peers \subseteq Peers
    /\ hpc \in [Peers -> {"handshake", "register", "read", "deliver"}]
    /\ hch \in [Peers -> Chans \cup {0}]
    /\ hpk \in [Peers -> Packets \cup {NoPacket}]

\* Type invariant of the downloader's fields and of its goroutines; blockCh
\* never holds more than the one packet it has room for.
TypeOK == ChainTypeOK /\ WireTypeOK /\ SyncTypeOK /\ FetchTypeOK /\ HandlerTypeOK

\* CurrentBlock and CurrentHeader always have a canonical hash, whichever
\* fetchers are inside InsertChain at the same time: insert writes the hash
\* before it stores either head, and nothing takes a hash back.
HeadsAreCanonical == head <= top /\ hdr <= top

\* processBlocks never opens a gap in the canonical chain: the test against
\* CurrentBlock + 1 is enough even though another sync may move CurrentBlock
\* between the test and the writes of InsertChain.
NoGaps == [][top' \in {top, top + 1}]_vars

\* The download implements the same ledger as the store: however the fetchers
\* overlap, blocks are only added on top, and CurrentBlock is one of them.
AsLedger == INSTANCE Ledger WITH ledger <- 0..top, Genesis <- 0, Parent <- [n \in Nat |-> n - 1]
IsLedger == AsLedger!Spec

\* When no sync runs, none left anything behind that the next would meet: no
\* open request, no packet in blockCh, no handler inside deliver, and both
\* heads at the end of the canonical chain.
NothingLeftOver ==
    (\A s \in Syncs : spc[s] = "idle") =>
        /\ reqs = EmptyBag /\ blockCh = {}
        /\ \A p \in Peers : hpc[p] # "deliver"
        /\ head = top /\ hdr = top

\* A chain shorter than what the best peer announced is downloaded to that
\* length, also when one sync stops a block short (from < end) and the next
\* tick of syncer has to fetch the rest.
CatchesUp == <>[](\A p \in Peers : head >= RemoteHead[p])

=============================================================================
