-------------------------- MODULE DownloaderProofs --------------------------
(***************************************************************************)
(* Proofs about Downloader, for any number of peers and of overlapping     *)
(* syncs: the types, HeadsAreCanonical, NoGaps, and that the download      *)
(* implements Ledger.  First the lemmas on bags, channels and fetchers and *)
(* the inductive invariant, then that the steps of a sync, of fetchers and *)
(* of handlers preserve it.  Last, for syncs that do not overlap, that     *)
(* none leaves anything behind (NothingLeftOver).                          *)
(***************************************************************************)
EXTENDS Downloader, TLAPS, FiniteSetTheorems

-----------------------------------------------------------------------------
(* Bags of requests *)

\* One more request: the goroutine of getBlocks.
LEMMA BagAdd ==
    ASSUME NEW S, NEW B, IsABag(B), BagToSet(B) \subseteq S, NEW r \in S
    PROVE  IsABag(B (+) SetToBag({r})) /\ BagToSet(B (+) SetToBag({r})) \subseteq S
<1> DEFINE C == SetToBag({r})
<1>1. C = [e \in {r} |-> 1]
  BY Zenon DEF SetToBag
<1>2. B (+) C = [e \in (DOMAIN B) \cup {r} |-> (IF e \in DOMAIN B THEN B[e] ELSE 0)
                                              + (IF e \in {r} THEN 1 ELSE 0)]
  BY <1>1, Zenon DEF (+)
<1>3. DOMAIN (B (+) C) = (DOMAIN B) \cup {r}
  BY <1>2, Zenon
<1>4. \A e \in DOMAIN (B (+) C) : (B (+) C)[e] \in Nat /\ (B (+) C)[e] > 0
  BY <1>2, <1>3 DEF IsABag
<1> QED
  BY <1>2, <1>3, <1>4, Zenon DEF IsABag, BagToSet

\* One request less: the peer has answered it.
LEMMA BagRemove ==
    ASSUME NEW S, NEW B, IsABag(B), BagToSet(B) \subseteq S, NEW r
    PROVE  IsABag(B (-) SetToBag({r})) /\ BagToSet(B (-) SetToBag({r})) \subseteq S
<1> DEFINE C == SetToBag({r})
           D == [e \in DOMAIN B |-> IF e \in {r} THEN B[e] - 1 ELSE B[e]]
           K == {d \in DOMAIN D : D[d] > 0}
<1>1. C = [e \in {r} |-> 1]
  BY Zenon DEF SetToBag
<1>2. B (-) C = [e \in K |-> D[e]]
  BY <1>1, Zenon DEF (-)
<1>3. K \subseteq DOMAIN B
  BY Zenon
<1>4. \A e \in K : D[e] \in {n \in Nat : n > 0}
  BY DEF IsABag
<1> HIDE DEF D, K
<1>5. DOMAIN (B (-) C) = K
  BY <1>2, Zenon
<1>6. B (-) C \in [K -> {n \in Nat : n > 0}]
  BY <1>2, <1>4, Zenon
<1> QED
  BY <1>3, <1>5, <1>6, Zenon DEF IsABag, BagToSet

\* The image of a finite set under a function is no larger than the set.
LEMMA ImageBound ==
    ASSUME NEW S, IsFiniteSet(S), NEW f, f = [x \in S |-> f[x]]
    PROVE  LET T == {f[x] : x \in S}
           IN  IsFiniteSet(T) /\ Cardinality(T) <= Cardinality(S)
<1> DEFINE T == {f[x] : x \in S}
<1>1. f \in Surjection(S, T)
  BY Zenon DEF Surjection
<1> QED
  BY <1>1, FS_Surjection, Zenon

\* There is always a channel that no goroutine can see.
LEMMA FreshChanExists ==
    ASSUME TypeOK
    PROVE  FreshChan \in Chans /\ FreshChan \notin InUse
<1> DEFINE F == {fch[s] : s \in Syncs}
           H == {hch[p] : p \in Peers}
           k == Cardinality(Syncs)
           m == Cardinality(Peers)
<1>0. IsFiniteSet(Syncs) /\ IsFiniteSet(Peers) /\ k \in Nat /\ m \in Nat
  BY ChanAssumption, FS_CardinalityType, Zenon
<1>1. IsFiniteSet(F) /\ Cardinality(F) <= k
  <2>1. fch = [s \in Syncs |-> fch[s]]
    BY Zenon DEF TypeOK, FetchTypeOK
  <2> QED
    BY <1>0, <2>1, ImageBound, Zenon
<1>2. IsFiniteSet(H) /\ Cardinality(H) <= m
  <2>1. hch = [p \in Peers |-> hch[p]]
    BY Zenon DEF TypeOK, HandlerTypeOK
  <2> QED
    BY <1>0, <2>1, ImageBound, Zenon
<1> HIDE DEF F, H
<1>3. ASSUME NEW S, NEW T, IsFiniteSet(S), IsFiniteSet(T)
      PROVE  /\ IsFiniteSet(S \cup T)
             /\ Cardinality(S \cup T) \in Nat /\ Cardinality(S) \in Nat /\ Cardinality(T) \in Nat
             /\ Cardinality(S \cup T) <= Cardinality(S) + Cardinality(T)
  <2>1. IsFiniteSet(S \cap T)
    BY <1>3, FS_Intersection, Zenon
  <2>2. Cardinality(S \cap T) \in Nat /\ Cardinality(S) \in Nat /\ Cardinality(T) \in Nat
    BY <1>3, <2>1, FS_CardinalityType, Zenon
  <2>3. /\ IsFiniteSet(S \cup T)
        /\ Cardinality(S \cup T) = Cardinality(S) + Cardinality(T) - Cardinality(S \cap T)
    BY <1>3, FS_Union, Zenon
  <2>4. Cardinality(S \cup T) \in Nat
    BY <2>3, FS_CardinalityType, Zenon
  <2> QED
    BY <2>2, <2>3, <2>4
<1>4. IsFiniteSet({cancelCh}) /\ Cardinality({cancelCh}) = 1
  BY FS_Singleton, Zenon
<1>5. IsFiniteSet({cancelCh} \cup F) /\ Cardinality({cancelCh} \cup F) \in Nat
        /\ Cardinality({cancelCh} \cup F) <= 1 + k
  BY <1>0, <1>1, <1>3, <1>4
<1>6. IsFiniteSet(InUse) /\ Cardinality(InUse) \in Nat /\ Cardinality(InUse) <= 1 + k + m
  <2>1. InUse = {cancelCh} \cup F \cup H
    BY Zenon DEF InUse, F, H
  <2> QED
    BY <1>0, <1>2, <1>3, <1>5, <2>1, SMTT(30)
<1>7. ~(Chans \subseteq InUse)
  <2>1. SUFFICES ASSUME Chans \subseteq InUse PROVE FALSE
    BY Zenon
  <2>2. IsFiniteSet(Chans) /\ Cardinality(Chans) <= Cardinality(InUse)
    BY <1>6, <2>1, FS_Subset, Zenon
  <2>3. Cardinality(Chans) \in Nat
    BY <2>2, FS_CardinalityType, Zenon
  <2> QED
    BY <1>0, <1>6, <2>2, <2>3, ChanAssumption, SMTT(30)
<1> QED
  BY <1>7, Zenon DEF FreshChan

-----------------------------------------------------------------------------
(* The inductive invariant *)

\* What a synchronise goroutine and its fetcher know: the peer they serve, that
\* the field d.cancelCh is not nil, that a first request is not negative, and
\* how far the block inside InsertChain is from the canonical chain.
SyncInv(s) ==
    /\ spc[s] # "idle" => speer[s] \in Peers
    /\ spc[s] \notin {"idle", "begin"} => cancelCh # 0
    /\ fpc[s] # "none" => spc[s] = "wait"
    /\ fpc[s] = "start" => from[s] <= RemoteHead[speer[s]] + 1

InsertInv(s) ==
    /\ fpc[s] \in {"insert", "canon"} => ins[s].next <= top + 1
    /\ fpc[s] \in {"block", "header"} => ins[s].next <= top

Inv ==
    /\ TypeOK
    /\ \A s \in Syncs : SyncInv(s)
    /\ \A p \in Peers : hpc[p] = "deliver" => hpk[p] \in Packets
    /\ HeadsAreCanonical
    /\ \A s \in Syncs : InsertInv(s)

\* The invariant holds at the start.
LEMMA InitInv == Init => Inv
<1> SUFFICES ASSUME Init PROVE Inv
  BY Zenon
<1> USE SyncAssumption DEF Init
<1>1. ChainTypeOK /\ HeadsAreCanonical
  BY DEF ChainTypeOK, HeadsAreCanonical
<1>2. WireTypeOK
  <2>1. IsABag(reqs) /\ BagToSet(reqs) = {}
    BY Zenon DEF EmptyBag, SetToBag, IsABag, BagToSet
  <2>2. Cardinality(blockCh) <= 1
    BY FS_EmptySet
  <2> QED
    BY <2>1, <2>2, Zenon DEF WireTypeOK
<1>3. SyncTypeOK /\ FetchTypeOK /\ HandlerTypeOK
  BY Zenon DEF SyncTypeOK, FetchTypeOK, HandlerTypeOK, NoInsert
<1> QED
  BY <1>1, <1>2, <1>3, Zenon DEF Inv, TypeOK, SyncInv, InsertInv

\* The blocks of a request are those of a packet.
LEMMA GetBlocksType ==
    ASSUME NEW p \in Peers, NEW f \in Nat, f <= RemoteHead[p] + 1
    PROVE  LET left == (RemoteHead[p] + 1) - f
               total == IF left > MaxBlockFetch THEN MaxBlockFetch ELSE left
           IN  [peer |-> p, first |-> f, n |-> total] \in Packets
BY SyncAssumption DEF Packets

ReqsOK == IsABag(reqs) /\ BagToSet(reqs) \subseteq Packets

\* getBlocks adds a well-formed request.
LEMMA GetBlocksInv ==
    ASSUME Inv, NEW s \in Syncs, NEW f \in Nat, speer[s] \in Peers,
           f <= RemoteHead[speer[s]] + 1, GetBlocks(s, f)
    PROVE  ReqsOK'
<1> DEFINE left == (RemoteHead[speer[s]] + 1) - f
           total == IF left > MaxBlockFetch THEN MaxBlockFetch ELSE left
           r == [peer |-> speer[s], first |-> f, n |-> total]
<1>1. r \in Packets
  BY GetBlocksType, Zenon
<1>2. reqs' = reqs (+) SetToBag({r})
  BY Zenon DEF GetBlocks
<1>3. IsABag(reqs) /\ BagToSet(reqs) \subseteq Packets
  BY Zenon DEF Inv, TypeOK, WireTypeOK
<1> HIDE DEF r
<1> QED
  BY <1>1, <1>2, <1>3, BagAdd, Zenon DEF ReqsOK

\* What a fetcher may change of its own: it is in fetchBlocks and stays there,
\* or it ends; the fetchers of other syncs are left alone.
FetcherMoves(s, pcs) ==
    /\ \E pc \in pcs : fpc' = [fpc EXCEPT ![s] = pc]
    /\ from' \in [Syncs -> Nat] /\ fch' \in [Syncs -> Chans \cup {0}]
    /\ \A u \in Syncs \ {s} : from'[u] = from[u]

\* Advance asks for more blocks or ends the fetch.
LEMMA AdvanceInv ==
    ASSUME Inv, NEW s \in Syncs, NEW n \in Nat, speer[s] \in Peers, Advance(s, n)
    PROVE  ReqsOK' /\ FetcherMoves(s, {"select", "done"})
<1>0. /\ from \in [Syncs -> Nat] /\ fch \in [Syncs -> Chans \cup {0}] /\ cancelCh \in Chans \cup {0}
      /\ ReqsOK /\ RemoteHead[speer[s]] \in Nat /\ from[s] \in Nat /\ from[s] + n \in Nat
  BY SyncAssumption DEF Inv, TypeOK, FetchTypeOK, WireTypeOK, ReqsOK
<1>1. CASE from[s] + n < RemoteHead[speer[s]]
  <2>1. GetBlocks(s, from[s] + n) /\ Select(s) /\ from' = [from EXCEPT ![s] = @ + n]
    BY <1>1, Zenon DEF Advance
  <2>2. ReqsOK'
    BY <1>0, <1>1, <2>1, GetBlocksInv, SMTT(30)
  <2>3. FetcherMoves(s, {"select", "done"})
    BY <1>0, <2>1, Zenon DEF FetcherMoves, Select
  <2> QED
    BY <2>2, <2>3, Zenon
<1>2. CASE ~(from[s] + n < RemoteHead[speer[s]])
  <2>1. Return(s, "done") /\ UNCHANGED reqs
    BY <1>2, Zenon DEF Advance
  <2> QED
    BY <1>0, <2>1, Zenon DEF ReqsOK, FetcherMoves, Return
<1> QED
  BY <1>1, <1>2, Zenon

\* The end of one iteration of InsertChain.
LEMMA NextBlockInv ==
    ASSUME Inv, NEW s \in Syncs, speer[s] \in Peers, NextBlock(s)
    PROVE  /\ ReqsOK' /\ FetcherMoves(s, {"select", "done", "insert"})
           /\ ins' \in [Syncs -> [next : Nat, last : Nat, n : Nat, new : BOOLEAN]]
           /\ \A u \in Syncs \ {s} : ins'[u] = ins[u]
           /\ fpc'[s] = "insert" => ins'[s].next = ins[s].next + 1
<1>0. /\ from \in [Syncs -> Nat] /\ fch \in [Syncs -> Chans \cup {0}] /\ ReqsOK
      /\ ins \in [Syncs -> [next : Nat, last : Nat, n : Nat, new : BOOLEAN]]
      /\ ins[s].n \in Nat /\ ins[s].next \in Nat
      /\ fpc = [u \in Syncs |-> fpc[u]]
  BY Zenon DEF Inv, TypeOK, FetchTypeOK, WireTypeOK, ReqsOK
<1>1. CASE ins[s].next < ins[s].last
  <2> DEFINE new == [next |-> ins[s].next + 1, last |-> ins[s].last, n |-> ins[s].n, new |-> FALSE]
  <2>1. /\ ins' = [ins EXCEPT ![s] = new] /\ fpc' = [fpc EXCEPT ![s] = "insert"]
        /\ UNCHANGED <<from, fch, reqs>>
    BY <1>0, <1>1, Zenon DEF NextBlock
  <2>2. new \in [next : Nat, last : Nat, n : Nat, new : BOOLEAN] /\ new.next = ins[s].next + 1
    BY <1>0
  <2> HIDE DEF new
  <2>3. ReqsOK' /\ FetcherMoves(s, {"select", "done", "insert"})
    BY <1>0, <2>1, Zenon DEF ReqsOK, FetcherMoves
  <2> QED
    BY <1>0, <2>1, <2>2, <2>3, Zenon
<1>2. CASE ~(ins[s].next < ins[s].last)
  <2>1. ins' = [ins EXCEPT ![s] = NoInsert] /\ Advance(s, ins[s].n)
    BY <1>2, Zenon DEF NextBlock
  <2>2. ReqsOK' /\ FetcherMoves(s, {"select", "done"})
    BY <1>0, <2>1, AdvanceInv, Zenon
  <2>3. fpc'[s] # "insert"
    BY <1>0, <2>2, Zenon DEF FetcherMoves
  <2>4. FetcherMoves(s, {"select", "done", "insert"})
    <3>1. PICK pc \in {"select", "done"} : fpc' = [fpc EXCEPT ![s] = pc]
      BY <2>2, Zenon DEF FetcherMoves
    <3>2. \E c \in {"select", "done", "insert"} : fpc' = [fpc EXCEPT ![s] = c]
      BY <3>1, Zenon
    <3> QED
      BY <2>2, <3>2, Zenon DEF FetcherMoves
  <2> QED
    BY <1>0, <2>1, <2>2, <2>3, <2>4, Zenon DEF NoInsert
<1> QED
  BY <1>1, <1>2, Zenon

\* A step of a fetcher leaves what its sync knows as it was.
LEMMA FetcherKeepsSyncInv ==
    ASSUME Inv, NEW s \in Syncs, Fetching(s),
           FetcherMoves(s, {"select", "done", "cancelled"} \cup InsertSteps),
           UNCHANGED <<syncVars, cancelCh>>
    PROVE  (\A u \in Syncs : SyncInv(u))'
<1> SUFFICES ASSUME NEW u \in Syncs PROVE SyncInv(u)'
  BY Zenon
<1>1. fpc = [v \in Syncs |-> fpc[v]] /\ SyncInv(u) /\ SyncInv(s)
  BY Zenon DEF Inv, TypeOK, FetchTypeOK
<1>2. CASE u = s
  BY <1>1, <1>2, Zenon DEF SyncInv, FetcherMoves, Fetching, InsertSteps, syncVars
<1>3. CASE u # s
  BY <1>1, <1>3, Zenon DEF SyncInv, FetcherMoves, syncVars
<1> QED
  BY <1>2, <1>3, Zenon

\* ... and the other parts of the invariant too, when the heads are in order.
LEMMA NextBlockKeepsInv ==
    ASSUME Inv, NEW s \in Syncs, speer[s] \in Peers, fpc[s] \in {"block", "header"}, NextBlock(s),
           ChainTypeOK', HeadsAreCanonical',
           UNCHANGED <<top, cancelCh, closed, blockCh, syncVars, handlerVars>>
    PROVE  Inv'
<1> USE DEF Inv, TypeOK, syncVars, handlerVars
<1>1. /\ ReqsOK' /\ FetcherMoves(s, {"select", "done", "insert"})
      /\ ins' \in [Syncs -> [next : Nat, last : Nat, n : Nat, new : BOOLEAN]]
      /\ \A u \in Syncs \ {s} : ins'[u] = ins[u]
      /\ fpc'[s] = "insert" => ins'[s].next = ins[s].next + 1
  BY NextBlockInv, Zenon
<1>2. PICK pc \in {"select", "done", "insert"} : fpc' = [fpc EXCEPT ![s] = pc]
  BY <1>1, Zenon DEF FetcherMoves
<1>3. FetcherMoves(s, {"select", "done", "cancelled"} \cup InsertSteps)
  BY <1>1, <1>2, Zenon DEF FetcherMoves, InsertSteps
<1>4. (\A u \in Syncs : SyncInv(u))'
  BY <1>3, FetcherKeepsSyncInv, Zenon DEF Fetching, InsertSteps
<1>5. FetchTypeOK'
  BY <1>1, <1>2, Zenon DEF FetchTypeOK, FetcherMoves, InsertSteps
<1>6. WireTypeOK'
  BY <1>1, Zenon DEF WireTypeOK, ReqsOK
<1>7. ASSUME NEW u \in Syncs PROVE InsertInv(u)'
  <2>1. ins[s].next \in Nat /\ top \in Nat /\ ins[s].next <= top
    BY Zenon DEF FetchTypeOK, ChainTypeOK, InsertInv
  <2>2. CASE u = s
    BY <1>1, <1>2, <2>1, <2>2, SMTT(30) DEF InsertInv, FetchTypeOK
  <2>3. CASE u # s
    BY <1>1, <1>2, <2>3, Zenon DEF InsertInv, FetchTypeOK
  <2> QED
    BY <2>2, <2>3, Zenon
<1> QED
  BY <1>4, <1>5, <1>6, <1>7, Zenon DEF SyncTypeOK, HandlerTypeOK

-----------------------------------------------------------------------------
(* The steps of a synchronise goroutine preserve the invariant *)

\* A tick of syncer.
LEMMA TickInv ==
    ASSUME Inv, NEW s \in Syncs, Tick(s)
    PROVE  Inv'
<1> USE DEF Inv, TypeOK, chainVars, syncVars, fetchVars, handlerVars
<1>1. PICK p \in Peers : /\ spc' = [spc EXCEPT ![s] = "begin"]
                         /\ speer' = [speer EXCEPT ![s] = p]
  BY Zenon DEF Tick, BestPeers
<1>2. UNCHANGED <<chainVars, cancelCh, closed, blockCh, reqs, fetchVars, handlerVars>>
      /\ spc[s] = "idle"
  BY Zenon DEF Tick
<1>3. SyncTypeOK'
  BY <1>1, <1>2, Zenon DEF SyncTypeOK
<1>4. ASSUME NEW u \in Syncs PROVE SyncInv(u)'
  BY <1>1, <1>2, Zenon DEF SyncInv, SyncTypeOK
<1> QED
  BY <1>2, <1>3, <1>4, Zenon DEF ChainTypeOK, WireTypeOK, FetchTypeOK, HandlerTypeOK, InsertInv, HeadsAreCanonical

\* A new cancel channel.
LEMMA BeginInv ==
    ASSUME Inv, NEW s \in Syncs, Begin(s)
    PROVE  Inv'
<1> USE DEF Inv, TypeOK, chainVars, syncVars, fetchVars, handlerVars
<1>1. FreshChan \in Chans /\ FreshChan # 0
  BY FreshChanExists, SyncAssumption, Zenon
<1>2. /\ spc[s] = "begin" /\ spc' = [spc EXCEPT ![s] = "lookup"]
      /\ cancelCh' = FreshChan
      /\ closed' \subseteq closed
      /\ UNCHANGED <<chainVars, blockCh, reqs, speer, fetchVars, handlerVars>>
  BY Zenon DEF Begin
<1>3. WireTypeOK'
  BY <1>1, <1>2, Zenon DEF WireTypeOK
<1>4. SyncTypeOK'
  BY <1>1, <1>2, Zenon DEF SyncTypeOK
<1>5. ASSUME NEW u \in Syncs PROVE SyncInv(u)'
  BY <1>1, <1>2, Zenon DEF SyncInv, SyncTypeOK
<1> QED
  BY <1>2, <1>3, <1>4, <1>5, Zenon DEF ChainTypeOK, FetchTypeOK, HandlerTypeOK, InsertInv, HeadsAreCanonical

\* syncWithPeer: the peer is looked up and a fetch begins, or not.
LEMMA SyncWithPeerInv ==
    ASSUME Inv, NEW s \in Syncs, SyncWithPeer(s)
    PROVE  Inv'
<1> USE DEF Inv, TypeOK, chainVars, syncVars, fetchVars, handlerVars
<1>1. UNCHANGED <<chainVars, cancelCh, closed, blockCh, reqs, speer, fch, ins, handlerVars>>
      /\ spc[s] = "lookup"
  BY Zenon DEF SyncWithPeer
<1>2. fpc[s] = "none" /\ cancelCh # 0
  BY <1>1, Zenon DEF SyncInv
<1>3. CASE speer[s] \in peers /\ hdr <= RemoteHead[speer[s]]
  <2>1. /\ spc' = [spc EXCEPT ![s] = "wait"] /\ fpc' = [fpc EXCEPT ![s] = "start"]
        /\ from' = [from EXCEPT ![s] = hdr + 1]
    BY <1>3, Zenon DEF SyncWithPeer
  <2>2. speer[s] \in Peers /\ RemoteHead[speer[s]] \in Nat /\ hdr \in Nat
    BY <1>3, SyncAssumption, Zenon DEF HandlerTypeOK, ChainTypeOK
  <2>3. hdr + 1 \in Nat /\ hdr + 1 <= RemoteHead[speer[s]] + 1
    BY <1>3, <2>2
  <2>4. SyncTypeOK' /\ FetchTypeOK'
    BY <1>1, <2>1, <2>3, Zenon DEF SyncTypeOK, FetchTypeOK
  <2>5. ASSUME NEW u \in Syncs PROVE SyncInv(u)' /\ InsertInv(u)'
    <3>1. CASE u = s
      BY <1>1, <1>2, <2>1, <2>2, <2>3, <3>1, Zenon DEF SyncInv, InsertInv, SyncTypeOK, FetchTypeOK
    <3>2. CASE u # s
      BY <1>1, <2>1, <3>2, Zenon DEF SyncInv, InsertInv, SyncTypeOK, FetchTypeOK
    <3> QED
      BY <3>1, <3>2, Zenon
  <2> QED
    BY <1>1, <2>4, <2>5, Zenon DEF ChainTypeOK, WireTypeOK, HandlerTypeOK, HeadsAreCanonical
<1>4. CASE ~(speer[s] \in peers /\ hdr <= RemoteHead[speer[s]])
  <2>1. spc' = [spc EXCEPT ![s] = "cancel2"] /\ UNCHANGED <<fpc, from>>
    BY <1>4, Zenon DEF SyncWithPeer
  <2> QED
    BY <1>1, <1>2, <2>1, Zenon DEF SyncInv, InsertInv, ChainTypeOK, WireTypeOK, SyncTypeOK, FetchTypeOK,
       HandlerTypeOK, HeadsAreCanonical
<1> QED
  BY <1>3, <1>4, Zenon

\* spawnSync gets the result of its fetch.
LEMMA FetchReturnedInv ==
    ASSUME Inv, NEW s \in Syncs, FetchReturned(s)
    PROVE  Inv'
<1> USE DEF Inv, TypeOK, chainVars, syncVars, fetchVars, handlerVars
<1>1. SyncTypeOK' /\ FetchTypeOK' /\ ChainTypeOK' /\ WireTypeOK' /\ HandlerTypeOK' /\ HeadsAreCanonical'
  BY Zenon DEF FetchReturned, SyncTypeOK, FetchTypeOK, ChainTypeOK, WireTypeOK, HandlerTypeOK, HeadsAreCanonical
<1>2. ASSUME NEW u \in Syncs PROVE SyncInv(u)' /\ InsertInv(u)'
  BY Zenon DEF FetchReturned, SyncInv, InsertInv, SyncTypeOK, FetchTypeOK
<1> QED
  BY <1>1, <1>2, Zenon DEF FetchReturned

\* The channel of the field is closed, and it is not nil.
LEMMA CancelInv ==
    ASSUME Inv, NEW s \in Syncs, Cancel(s)
    PROVE  Inv'
<1> USE DEF Inv, TypeOK, chainVars, syncVars, fetchVars, handlerVars
<1>1. spc[s] \in {"cancel", "cancel2"} /\ closed' = closed \cup {cancelCh}
      /\ UNCHANGED <<chainVars, cancelCh, blockCh, reqs, speer, fetchVars, handlerVars>>
  BY Zenon DEF Cancel
<1>2. PICK pc \in {"join", "join2"} : spc' = [spc EXCEPT ![s] = pc]
  BY Zenon DEF Cancel
<1>3. WireTypeOK'
  BY <1>1, Zenon DEF WireTypeOK, SyncInv
<1>4. ASSUME NEW u \in Syncs PROVE SyncInv(u)'
  BY <1>1, <1>2, Zenon DEF SyncInv, SyncTypeOK
<1> QED
  BY <1>1, <1>2, <1>3, <1>4, Zenon DEF ChainTypeOK, SyncTypeOK, FetchTypeOK, HandlerTypeOK, InsertInv, HeadsAreCanonical

\* cancelWg.Wait returns.
LEMMA JoinInv ==
    ASSUME Inv, NEW s \in Syncs, Join(s)
    PROVE  Inv'
<1> USE DEF Inv, TypeOK, chainVars, syncVars, fetchVars, handlerVars
<1>1. SyncTypeOK' /\ FetchTypeOK' /\ ChainTypeOK' /\ WireTypeOK' /\ HandlerTypeOK' /\ HeadsAreCanonical'
  BY Zenon DEF Join, SyncTypeOK, FetchTypeOK, ChainTypeOK, WireTypeOK, HandlerTypeOK, HeadsAreCanonical
<1>2. ASSUME NEW u \in Syncs PROVE SyncInv(u)' /\ InsertInv(u)'
  BY Zenon DEF Join, SyncInv, InsertInv, SyncTypeOK, FetchTypeOK
<1> QED
  BY <1>1, <1>2, Zenon DEF Join


-----------------------------------------------------------------------------
(* The steps of fetchers and handlers preserve the invariant *)

\* The first request of a fetch.
LEMMA FetchStartInv ==
    ASSUME Inv, NEW s \in Syncs, FetchStart(s)
    PROVE  Inv'
<1> USE DEF Inv, TypeOK, chainVars, syncVars, fetchVars, handlerVars
<1>1. /\ fpc[s] = "start" /\ GetBlocks(s, from[s]) /\ Select(s)
      /\ UNCHANGED <<chainVars, cancelCh, closed, blockCh, syncVars, from, ins, handlerVars>>
  BY Zenon DEF FetchStart
<1>2. speer[s] \in Peers /\ from[s] \in Nat /\ from[s] <= RemoteHead[speer[s]] + 1
  BY <1>1, Zenon DEF SyncInv, FetchTypeOK
<1>3. ReqsOK'
  BY <1>1, <1>2, GetBlocksInv, Zenon
<1>4. WireTypeOK'
  BY <1>1, <1>3, Zenon DEF WireTypeOK, ReqsOK
<1>5. FetcherMoves(s, {"select", "done", "cancelled"} \cup InsertSteps)
  BY <1>1, Zenon DEF FetcherMoves, Select, FetchTypeOK, WireTypeOK
<1>6. (\A u \in Syncs : SyncInv(u))'
  BY <1>1, <1>5, FetcherKeepsSyncInv, Zenon DEF Fetching
<1>7. FetchTypeOK' /\ (\A u \in Syncs : InsertInv(u))'
  BY <1>1, Zenon DEF Select, FetchTypeOK, WireTypeOK, InsertInv
<1> QED
  BY <1>1, <1>4, <1>6, <1>7, Zenon DEF ChainTypeOK, SyncTypeOK, HandlerTypeOK, HeadsAreCanonical

\* A fetch that is cancelled.
LEMMA FetchCancelledInv ==
    ASSUME Inv, NEW s \in Syncs, FetchCancelled(s)
    PROVE  Inv'
<1> USE DEF Inv, TypeOK, chainVars, syncVars, fetchVars, handlerVars
<1>1. /\ fpc[s] = "select" /\ Return(s, "cancelled")
      /\ UNCHANGED <<chainVars, cancelCh, closed, blockCh, reqs, syncVars, ins, handlerVars>>
  BY Zenon DEF FetchCancelled
<1>2. FetcherMoves(s, {"select", "done", "cancelled"} \cup InsertSteps)
  BY <1>1, Zenon DEF FetcherMoves, Return, FetchTypeOK
<1>3. (\A u \in Syncs : SyncInv(u))'
  BY <1>1, <1>2, FetcherKeepsSyncInv, Zenon DEF Fetching
<1>4. FetchTypeOK' /\ (\A u \in Syncs : InsertInv(u))'
  BY <1>1, Zenon DEF Return, FetchTypeOK, InsertInv
<1> QED
  BY <1>1, <1>3, <1>4, Zenon DEF ChainTypeOK, WireTypeOK, SyncTypeOK, HandlerTypeOK, HeadsAreCanonical

\* A packet from blockCh: it is thrown away, passed over, or inserted.
LEMMA FetchReceiveInv ==
    ASSUME Inv, NEW s \in Syncs, FetchReceive(s)
    PROVE  Inv'
<1> USE DEF Inv, TypeOK, chainVars, syncVars, fetchVars, handlerVars
<1>1. PICK packet \in blockCh :
        /\ fpc[s] = "select" /\ blockCh' = {}
        /\ IF packet.peer # speer[s]
           THEN Select(s) /\ UNCHANGED <<from, reqs, ins>>
           ELSE IF packet.first = head + 1
           THEN /\ fpc' = [fpc EXCEPT ![s] = "insert"]
                /\ ins' = [ins EXCEPT ![s] = [next |-> packet.first, n |-> packet.n, new |-> FALSE,
                                              last |-> packet.first + packet.n - 1]]
                /\ UNCHANGED <<from, fch, reqs>>
           ELSE Advance(s, packet.n) /\ UNCHANGED ins
        /\ UNCHANGED <<chainVars, cancelCh, closed, syncVars, handlerVars>>
  BY Zenon DEF FetchReceive
<1>2. speer[s] \in Peers /\ packet.n \in Nat /\ packet.first \in Nat /\ head \in Nat /\ top \in Nat
  BY <1>1, Zenon DEF SyncInv, WireTypeOK, Packets, ChainTypeOK
<1>3. SUFFICES /\ ReqsOK' /\ FetcherMoves(s, {"select", "done", "cancelled"} \cup InsertSteps)
               /\ ins' \in [Syncs -> [next : Nat, last : Nat, n : Nat, new : BOOLEAN]]
               /\ \A u \in Syncs : InsertInv(u)'
  <2>1. (\A u \in Syncs : SyncInv(u))'
    BY <1>1, <1>3, FetcherKeepsSyncInv, Zenon DEF Fetching
  <2>2. Cardinality(blockCh') <= 1
    <3>1. blockCh' = {}
      BY <1>1, Zenon
    <3>2. Cardinality({}) = 0
      BY FS_EmptySet, Zenon
    <3> QED
      BY <3>1, <3>2
  <2>3. WireTypeOK'
    BY <1>1, <1>3, <2>2, Zenon DEF WireTypeOK, ReqsOK
  <2>4. FetchTypeOK'
    BY <1>3, Zenon DEF FetchTypeOK, FetcherMoves
  <2> QED
    BY <1>1, <1>3, <2>1, <2>3, <2>4, Zenon DEF ChainTypeOK, SyncTypeOK, HandlerTypeOK, HeadsAreCanonical
<1>4. CASE packet.peer # speer[s]
  <2>1. Select(s) /\ UNCHANGED <<from, reqs, ins>>
    BY <1>1, <1>4, Zenon
  <2>2. FetcherMoves(s, {"select", "done", "cancelled"} \cup InsertSteps)
    BY <2>1, Zenon DEF FetcherMoves, Select, FetchTypeOK, WireTypeOK
  <2> QED
    BY <1>1, <2>1, <2>2, Zenon DEF Select, InsertInv, FetchTypeOK, WireTypeOK, ReqsOK
<1>5. CASE packet.peer = speer[s] /\ packet.first = head + 1
  <2> DEFINE new == [next |-> packet.first, n |-> packet.n, new |-> FALSE,
                     last |-> packet.first + packet.n - 1]
  <2>1. /\ fpc' = [fpc EXCEPT ![s] = "insert"] /\ ins' = [ins EXCEPT ![s] = new]
        /\ UNCHANGED <<from, fch, reqs>>
    BY <1>1, <1>5, Zenon
  <2>2. new \in [next : Nat, last : Nat, n : Nat, new : BOOLEAN] /\ new.next = packet.first
    <3>1. packet.first \in Nat /\ packet.n \in Nat /\ packet.first >= 1
      BY ONLY <1>2, <1>5
    <3>2. packet.first + packet.n - 1 \in Nat
      BY <3>1
    <3> QED
      BY <3>1, <3>2, Zenon
  <2> HIDE DEF new
  <2>3. FetcherMoves(s, {"select", "done", "cancelled"} \cup InsertSteps)
    BY <2>1, Zenon DEF FetcherMoves, FetchTypeOK, InsertSteps
  <2>4. new.next <= top + 1
    BY <1>2, <1>5, <2>2, SMTT(30) DEF HeadsAreCanonical
  <2>5. \A u \in Syncs : InsertInv(u)'
    BY <1>1, <2>1, <2>4, Zenon DEF InsertInv, FetchTypeOK
  <2> QED
    BY <2>1, <2>2, <2>3, <2>5, Zenon DEF FetchTypeOK, WireTypeOK, ReqsOK
<1>6. CASE packet.peer = speer[s] /\ packet.first # head + 1
  <2>1. Advance(s, packet.n) /\ UNCHANGED ins
    BY <1>1, <1>6, Zenon
  <2>2. ReqsOK' /\ FetcherMoves(s, {"select", "done"})
    BY <1>2, <2>1, AdvanceInv, Zenon
  <2>3. PICK pc \in {"select", "done"} : fpc' = [fpc EXCEPT ![s] = pc]
    BY <2>2, Zenon DEF FetcherMoves
  <2>4. FetcherMoves(s, {"select", "done", "cancelled"} \cup InsertSteps)
    BY <2>2, <2>3, Zenon DEF FetcherMoves
  <2>5. \A u \in Syncs : InsertInv(u)'
    BY <1>1, <2>1, <2>3, Zenon DEF InsertInv, FetchTypeOK
  <2> QED
    BY <2>1, <2>2, <2>4, <2>5, Zenon DEF FetchTypeOK
<1> QED
  BY <1>4, <1>5, <1>6, Zenon

\* insert reads the canonical hash of its number.
LEMMA ReadCanonicalInv ==
    ASSUME Inv, NEW s \in Syncs, ReadCanonical(s)
    PROVE  Inv'
<1> USE DEF Inv, TypeOK, chainVars, syncVars, fetchVars, handlerVars
<1>1. /\ fpc[s] = "insert" /\ fpc' = [fpc EXCEPT ![s] = "canon"]
      /\ ins' = [ins EXCEPT ![s].new = ins[s].next > top]
      /\ UNCHANGED <<chainVars, cancelCh, closed, blockCh, reqs, syncVars, from, fch, handlerVars>>
  BY Zenon DEF ReadCanonical
<1>2. \E b \in BOOLEAN : ins' = [ins EXCEPT ![s].new = b]
  <2>1. CASE ins[s].next > top
    BY <1>1, <2>1, Zenon
  <2>2. CASE ~(ins[s].next > top)
    <3>1. ins[s].next \in Nat /\ top \in Nat
      BY Zenon DEF FetchTypeOK, ChainTypeOK
    <3>2. (ins[s].next > top) = FALSE
      BY <2>2, <3>1, SMTT(30)
    <3> QED
      BY <1>1, <3>2, Zenon
  <2> QED
    BY <2>1, <2>2, Zenon
<1>3. ins' \in [Syncs -> [next : Nat, last : Nat, n : Nat, new : BOOLEAN]]
  BY <1>2, SMTT(30) DEF FetchTypeOK
<1>4. FetcherMoves(s, {"select", "done", "cancelled"} \cup InsertSteps)
  BY <1>1, Zenon DEF FetcherMoves, FetchTypeOK, InsertSteps
<1>5. (\A u \in Syncs : SyncInv(u))'
  BY <1>1, <1>4, FetcherKeepsSyncInv, Zenon DEF Fetching, InsertSteps
<1>6. FetchTypeOK'
  BY <1>1, <1>3, Zenon DEF FetchTypeOK, InsertSteps
<1>7. \A u \in Syncs : ins'[u].next = ins[u].next
  BY <1>1, Zenon DEF FetchTypeOK
<1>8. (\A u \in Syncs : InsertInv(u))'
  BY <1>1, <1>7, Zenon DEF InsertInv, FetchTypeOK
<1> QED
  BY <1>1, <1>5, <1>6, <1>8, Zenon DEF ChainTypeOK, WireTypeOK, SyncTypeOK, HandlerTypeOK, HeadsAreCanonical

\* insert writes the canonical hash: the only step that moves top.
LEMMA WriteCanonicalInv ==
    ASSUME Inv, NEW s \in Syncs, WriteCanonical(s)
    PROVE  Inv'
<1> USE DEF Inv, TypeOK, chainVars, syncVars, fetchVars, handlerVars
<1>1. /\ fpc[s] = "canon" /\ fpc' = [fpc EXCEPT ![s] = "block"]
      /\ top' = IF ins[s].next > top THEN ins[s].next ELSE top
      /\ UNCHANGED <<head, hdr, cancelCh, closed, blockCh, reqs, syncVars, from, fch, ins, handlerVars>>
  BY Zenon DEF WriteCanonical
<1>2. /\ ins[s].next \in Nat /\ top \in Nat /\ head \in Nat /\ hdr \in Nat
      /\ \A u \in Syncs : ins[u].next \in Nat
  BY Zenon DEF FetchTypeOK, ChainTypeOK
<1>3. top' \in Nat /\ top' >= top /\ top' >= ins[s].next
  <2>1. top' = IF ins[s].next > top THEN ins[s].next ELSE top
    BY <1>1, Zenon
  <2>2. ins[s].next \in Nat /\ top \in Nat
    BY <1>2, Zenon
  <2> QED
    BY ONLY <2>1, <2>2, SMTT(30)
<1>4. FetcherMoves(s, {"select", "done", "cancelled"} \cup InsertSteps)
  BY <1>1, Zenon DEF FetcherMoves, FetchTypeOK, InsertSteps
<1>5. (\A u \in Syncs : SyncInv(u))'
  BY <1>1, <1>4, FetcherKeepsSyncInv, Zenon DEF Fetching, InsertSteps
<1>6. FetchTypeOK'
  BY <1>1, Zenon DEF FetchTypeOK, InsertSteps
<1>7. ASSUME NEW u \in Syncs PROVE InsertInv(u)'
  <2>1. CASE u = s
    BY <1>1, <1>2, <1>3, <2>1, Zenon DEF InsertInv, FetchTypeOK
  <2>2. CASE u # s
    <3>1. fpc'[u] = fpc[u] /\ ins'[u] = ins[u] /\ InsertInv(u)
      BY <1>1, <2>2, Zenon DEF FetchTypeOK
    <3> QED
      BY <1>2, <1>3, <3>1, SMTT(30) DEF InsertInv
  <2> QED
    BY <2>1, <2>2, Zenon
<1>8. ChainTypeOK' /\ HeadsAreCanonical'
  BY <1>1, <1>2, <1>3, SMTT(30) DEF ChainTypeOK, HeadsAreCanonical
<1> QED
  BY <1>1, <1>5, <1>6, <1>7, <1>8, Zenon DEF WireTypeOK, SyncTypeOK, HandlerTypeOK

\* The block becomes current: it has a canonical hash by then.
LEMMA StoreBlockInv ==
    ASSUME Inv, NEW s \in Syncs, StoreBlock(s)
    PROVE  Inv'
<1> USE DEF Inv, TypeOK, chainVars, syncVars, fetchVars, handlerVars
<1>1. /\ fpc[s] = "block" /\ head' = ins[s].next
      /\ UNCHANGED <<hdr, top, cancelCh, closed, blockCh, syncVars, handlerVars>>
  BY Zenon DEF StoreBlock
<1>2. ins[s].next \in Nat /\ ins[s].next <= top /\ speer[s] \in Peers
  BY <1>1, Zenon DEF FetchTypeOK, InsertInv, SyncInv
<1>3. ChainTypeOK' /\ HeadsAreCanonical'
  BY <1>1, <1>2, Zenon DEF ChainTypeOK, HeadsAreCanonical
<1>4. CASE ins[s].new
  <2>1. fpc' = [fpc EXCEPT ![s] = "header"] /\ UNCHANGED <<reqs, from, fch, ins>>
    BY <1>4, Zenon DEF StoreBlock
  <2>2. FetcherMoves(s, {"select", "done", "cancelled"} \cup InsertSteps)
    BY <2>1, Zenon DEF FetcherMoves, FetchTypeOK, InsertSteps
  <2>3. (\A u \in Syncs : SyncInv(u))'
    BY <1>1, <2>2, FetcherKeepsSyncInv, Zenon DEF Fetching, InsertSteps
  <2>4. FetchTypeOK' /\ (\A u \in Syncs : InsertInv(u))'
    BY <1>1, <1>2, <2>1, Zenon DEF FetchTypeOK, InsertSteps, InsertInv
  <2> QED
    BY <1>1, <1>3, <2>1, <2>3, <2>4, Zenon DEF WireTypeOK, SyncTypeOK, HandlerTypeOK
<1>5. CASE ~ins[s].new
  <2>1. NextBlock(s)
    BY <1>5, Zenon DEF StoreBlock
  <2> QED
    BY <1>1, <1>2, <1>3, <2>1, NextBlockKeepsInv, Zenon
<1> QED
  BY <1>4, <1>5, Zenon

\* The header becomes current: it has a canonical hash by then.
LEMMA StoreHeaderInv ==
    ASSUME Inv, NEW s \in Syncs, StoreHeader(s)
    PROVE  Inv'
<1> USE DEF Inv, TypeOK, chainVars, syncVars, fetchVars, handlerVars
<1>1. /\ fpc[s] = "header" /\ hdr' = ins[s].next /\ NextBlock(s)
      /\ UNCHANGED <<head, top, cancelCh, closed, blockCh, syncVars, handlerVars>>
  BY Zenon DEF StoreHeader
<1>2. ins[s].next \in Nat /\ ins[s].next <= top /\ speer[s] \in Peers
  BY <1>1, Zenon DEF FetchTypeOK, InsertInv, SyncInv
<1>3. ChainTypeOK' /\ HeadsAreCanonical'
  BY <1>1, <1>2, Zenon DEF ChainTypeOK, HeadsAreCanonical
<1> QED
  BY <1>1, <1>2, <1>3, NextBlockKeepsInv, Zenon

\* A peer in pm.peers.
LEMMA HandshakeDoneInv ==
    ASSUME Inv, NEW p \in Peers, HandshakeDone(p)
    PROVE  Inv'
BY Zenon DEF Inv, TypeOK, chainVars, syncVars, fetchVars, handlerVars, HandshakeDone, ChainTypeOK, WireTypeOK, SyncTypeOK, FetchTypeOK, HandlerTypeOK,
   SyncInv, InsertInv, HeadsAreCanonical

\* A peer in the downloader.
LEMMA RegisterPeerInv ==
    ASSUME Inv, NEW p \in Peers, RegisterPeer(p)
    PROVE  Inv'
BY Zenon DEF Inv, TypeOK, chainVars, syncVars, fetchVars, handlerVars, RegisterPeer, ChainTypeOK, WireTypeOK, SyncTypeOK, FetchTypeOK, HandlerTypeOK,
   SyncInv, InsertInv, HeadsAreCanonical

\* A handler reads an answer.
LEMMA ReadBlocksInv ==
    ASSUME Inv, NEW p \in Peers, ReadBlocks(p)
    PROVE  Inv'
<1> USE DEF Inv, TypeOK, chainVars, syncVars, fetchVars, handlerVars
<1>1. UNCHANGED <<chainVars, cancelCh, closed, blockCh, syncVars, fetchVars, peers>>
  BY Zenon DEF ReadBlocks
<1>2. PICK r \in BagToSet(reqs) :
        /\ reqs' = reqs (-) SetToBag({r})
        /\ IF r.n = 0
           THEN UNCHANGED <<hpc, hch, hpk>>
           ELSE /\ hpc' = [hpc EXCEPT ![p] = "deliver"]
                /\ hch' = [hch EXCEPT ![p] = cancelCh]
                /\ hpk' = [hpk EXCEPT ![p] = r]
  BY Zenon DEF ReadBlocks
<1>3. r \in Packets
  BY Zenon DEF WireTypeOK
<1>4. WireTypeOK'
  BY <1>1, <1>2, BagRemove, Zenon DEF WireTypeOK
<1>5. HandlerTypeOK' /\ \A q \in Peers : hpc'[q] = "deliver" => hpk'[q] \in Packets
  BY <1>1, <1>2, <1>3, Zenon DEF HandlerTypeOK, WireTypeOK
<1> QED
  BY <1>1, <1>4, <1>5, Zenon DEF ChainTypeOK, SyncTypeOK, FetchTypeOK, SyncInv, InsertInv, HeadsAreCanonical

\* A request is lost.
LEMMA LoseRequestInv ==
    ASSUME Inv, NEW p \in Peers, LoseRequest(p)
    PROVE  Inv'
<1> USE DEF Inv, TypeOK, chainVars, syncVars, fetchVars, handlerVars
<1>1. UNCHANGED <<chainVars, cancelCh, closed, blockCh, syncVars, fetchVars, handlerVars>>
  BY Zenon DEF LoseRequest
<1>2. PICK r \in BagToSet(reqs) : reqs' = reqs (-) SetToBag({r})
  BY Zenon DEF LoseRequest
<1>3. WireTypeOK'
  BY <1>1, <1>2, BagRemove, Zenon DEF WireTypeOK
<1> QED
  BY <1>1, <1>3, Zenon DEF ChainTypeOK, SyncTypeOK, FetchTypeOK, HandlerTypeOK, SyncInv, InsertInv, HeadsAreCanonical

\* deliver puts its packet into blockCh, or gives up.
LEMMA DeliverInv ==
    ASSUME Inv, NEW p \in Peers, Deliver(p)
    PROVE  Inv'
<1> USE DEF Inv, TypeOK, chainVars, syncVars, fetchVars, handlerVars
<1>1. /\ hpc[p] = "deliver" /\ hpc' = [hpc EXCEPT ![p] = "read"]
      /\ hch' = [hch EXCEPT ![p] = 0] /\ hpk' = [hpk EXCEPT ![p] = NoPacket]
      /\ UNCHANGED <<chainVars, cancelCh, closed, reqs, syncVars, fetchVars, peers>>
  BY Zenon DEF Deliver
<1>2. blockCh' \subseteq Packets /\ Cardinality(blockCh') <= 1
  <2>1. CASE blockCh' = {hpk[p]}
    <3>1. Cardinality({hpk[p]}) = 1
      BY FS_Singleton, Zenon
    <3>2. hpk[p] \in Packets
      BY <1>1, Zenon
    <3> QED
      BY <2>1, <3>1, <3>2, SMTT(30)
  <2>2. CASE UNCHANGED blockCh
    BY <2>2, Zenon DEF WireTypeOK
  <2> QED
    BY <2>1, <2>2, Zenon DEF Deliver
<1>3. WireTypeOK'
  BY <1>1, <1>2, Zenon DEF WireTypeOK
<1>4. HandlerTypeOK' /\ \A q \in Peers : hpc'[q] = "deliver" => hpk'[q] \in Packets
  BY <1>1, Zenon DEF HandlerTypeOK
<1> QED
  BY <1>1, <1>3, <1>4, Zenon DEF ChainTypeOK, SyncTypeOK, FetchTypeOK, SyncInv, InsertInv, HeadsAreCanonical

\* Every step keeps the invariant.
LEMMA NextInv == Inv /\ [Next]_vars => Inv'
<1>1. ASSUME Inv, UNCHANGED vars PROVE Inv'
  BY <1>1, Zenon DEF vars, Inv, TypeOK, chainVars, syncVars, fetchVars, handlerVars, ChainTypeOK, WireTypeOK, SyncTypeOK,
     FetchTypeOK, HandlerTypeOK, SyncInv, InsertInv, HeadsAreCanonical
<1>2. ASSUME Inv, NEW s \in Syncs, Tick(s) \/ SyncStep(s) PROVE Inv'
  BY <1>2, TickInv, BeginInv, SyncWithPeerInv, FetchReturnedInv, CancelInv, JoinInv, Zenon DEF SyncStep
<1>3. ASSUME Inv, NEW s \in Syncs, FetchStep(s) PROVE Inv'
  BY <1>3, FetchStartInv, FetchCancelledInv, FetchReceiveInv, ReadCanonicalInv, WriteCanonicalInv,
     StoreBlockInv, StoreHeaderInv, Zenon DEF FetchStep
<1>4. ASSUME Inv, NEW p \in Peers, HandlerStep(p) \/ LoseRequest(p) PROVE Inv'
  BY <1>4, HandshakeDoneInv, RegisterPeerInv, ReadBlocksInv, DeliverInv, LoseRequestInv, Zenon DEF HandlerStep
<1> QED
  BY <1>1, <1>2, <1>3, <1>4, Zenon DEF Next

\* The invariant holds in every state.
LEMMA SpecInv == Spec => []Inv
BY InitInv, NextInv, PTL DEF Spec

\* The fields of the downloader and its goroutines keep their types: blockCh
\* holds at most the one packet it has room for, no nil channel is closed, and
\* getBlocks never asks for a negative number of blocks.
THEOREM TypeCorrect == Spec => []TypeOK
BY SpecInv, PTL DEF Inv

\* CurrentBlock and CurrentHeader always have a canonical hash, for any number
\* of synchronise goroutines inside InsertChain at once.
THEOREM CanonicalHeads == Spec => []HeadsAreCanonical
BY SpecInv, PTL DEF Inv

\* The canonical chain grows by one number at a time, for any number of
\* synchronise goroutines: processBlocks never opens a gap.
THEOREM NoGapsOpen == Spec => NoGaps
<1>1. Inv /\ [Next]_vars => [top' \in {top, top + 1}]_vars
  <2> SUFFICES ASSUME Inv, Next PROVE top' \in {top, top + 1}
    BY Zenon DEF vars
  <2> USE DEF chainVars
  <2>1. ASSUME NEW s \in Syncs, WriteCanonical(s) PROVE top' \in {top, top + 1}
    BY <2>1 DEF WriteCanonical, Inv, InsertInv, TypeOK, ChainTypeOK, FetchTypeOK
  <2>2. ASSUME NEW s \in Syncs, Tick(s) \/ SyncStep(s) PROVE top' = top
    BY <2>2, Zenon DEF Tick, SyncStep, Begin, SyncWithPeer, FetchReturned, Cancel, Join
  <2>3. ASSUME NEW s \in Syncs, FetchStep(s), ~WriteCanonical(s) PROVE top' = top
    BY <2>3, Zenon DEF FetchStep, FetchStart, FetchCancelled, FetchReceive, ReadCanonical, StoreBlock, StoreHeader
  <2>4. ASSUME NEW p \in Peers, HandlerStep(p) \/ LoseRequest(p) PROVE top' = top
    BY <2>4, Zenon DEF HandlerStep, HandshakeDone, RegisterPeer, ReadBlocks, Deliver, LoseRequest
  <2> QED
    BY <2>1, <2>2, <2>3, <2>4, Zenon DEF Next
<1> QED
  BY <1>1, SpecInv, PTL DEF Spec, NoGaps

\* Every step of the downloader is a step of the ledger or leaves it alone.
LEMMA NextIsLedger ==
    ASSUME Inv, [Next]_vars
    PROVE  [AsLedger!Extend \/ AsLedger!MoveHead]_<<0..top, head>>
<1> DEFINE Goal == [AsLedger!Extend \/ AsLedger!MoveHead]_<<0..top, head>>
<1> SUFFICES Goal
  BY Zenon
<1>0. top \in Nat /\ head \in Nat
  BY Zenon DEF Inv, TypeOK, ChainTypeOK
<1>1. ASSUME UNCHANGED <<top, head>> PROVE Goal
  BY <1>1, Zenon
<1>2. ASSUME NEW s \in Syncs, WriteCanonical(s) PROVE Goal
  <2>1. top' \in {top, top + 1} /\ head' = head
    BY <1>0, <1>2, SMTT(30) DEF WriteCanonical, Inv, InsertInv, TypeOK, FetchTypeOK
  <2>2. CASE top' = top + 1
    <3>1. /\ top + 1 \in (0..top') \ (0..top) /\ 0..top' = (0..top) \cup {top + 1}
          /\ [n \in Nat |-> n - 1][top + 1] \in 0..top
      BY <1>0, <2>2
    <3> QED BY <2>1, <3>1, Zenon DEF AsLedger!Extend, AsLedger!Fits
  <2> QED BY <1>1, <2>1, <2>2, Zenon
<1>3. ASSUME NEW s \in Syncs, StoreBlock(s) PROVE Goal
  <2>1. head' \in 0..top /\ top' = top
    BY <1>0, <1>3, SMTT(30) DEF StoreBlock, Inv, InsertInv, TypeOK, FetchTypeOK
  <2> QED BY <2>1, Zenon DEF AsLedger!MoveHead
<1>4. ASSUME NEW s \in Syncs, Tick(s) \/ SyncStep(s) PROVE Goal
  BY <1>1, <1>4, Zenon DEF Tick, SyncStep, Begin, SyncWithPeer, FetchReturned, Cancel, Join, chainVars
<1>5. ASSUME NEW s \in Syncs, FetchStep(s), ~WriteCanonical(s), ~StoreBlock(s) PROVE Goal
  BY <1>1, <1>5, Zenon DEF FetchStep, FetchStart, FetchCancelled, FetchReceive, ReadCanonical, StoreHeader,
     chainVars
<1>6. ASSUME NEW p \in Peers, HandlerStep(p) \/ LoseRequest(p) PROVE Goal
  <2>1. UNCHANGED <<top, head>>
    BY <1>6, Zenon DEF HandlerStep, HandshakeDone, RegisterPeer, ReadBlocks, Deliver, LoseRequest,
       chainVars
  <2> QED BY <1>1, <2>1, Zenon
<1>7. CASE UNCHANGED vars
  BY <1>1, <1>7, Zenon DEF vars, chainVars
<1> HIDE DEF Goal
<1> QED BY <1>2, <1>3, <1>4, <1>5, <1>6, <1>7, Zenon DEF Next

\* For any number of overlapping syncs, what the fetchers do to the chain is what
\* a ledger allows: blocks are added on top one at a time, none is taken back, and
\* CurrentBlock moves to canonical blocks only.
THEOREM DownloadIsLedger == Spec => IsLedger
<1>1. Init => AsLedger!Init
  BY SyncAssumption DEF Init, AsLedger!Init, AsLedger!Fits
<1>2. Inv /\ [Next]_vars => [AsLedger!Extend \/ AsLedger!MoveHead]_<<0..top, head>>
  BY NextIsLedger, Zenon
<1> QED BY <1>1, <1>2, SpecInv, PTL DEF Spec, IsLedger, AsLedger!Spec

-----------------------------------------------------------------------------
(* One sync at a time: what it leaves behind *)

\* One goroutine of syncer at a time, on a node whose heads agree at the start
SingleSync == \E s : Syncs = {s}
HeadsAgree == LocalHeader = LocalBlock

\* The request or packet r is for the blocks that the fetcher waits for.
Asks(s, r) == r \in Packets /\ r.peer = speer[s] /\ r.first = from[s]
NoDeliver == \A p \in Peers : hpc[p] # "deliver"
Delivers(p) == \A q \in Peers : hpc[q] = "deliver" <=> q = p
Quiet == reqs = EmptyBag /\ blockCh = {} /\ NoDeliver

\* Where the answer to the one open request is: with the peer, with its handler, or in blockCh.
Requested(s) == \E r : Asks(s, r) /\ reqs = SetToBag({r}) /\ blockCh = {} /\ NoDeliver
Answered(s) ==
    \E p \in Peers : Asks(s, hpk[p]) /\ hpk[p].n # 0 /\ reqs = EmptyBag /\ blockCh = {} /\ Delivers(p)
Delivered(s) ==
    \E r : Asks(s, r) /\ r.n # 0 /\ reqs = EmptyBag /\ blockCh = {r} /\ NoDeliver

\* Only a fetcher in its select has something open, and one thing at most.
WireInv(s) == Quiet \/ (fpc[s] = "select" /\ (Requested(s) \/ Answered(s) \/ Delivered(s)))

\* Nobody cancels the channel of a sync that fetches.
ChanInv(s) ==
    /\ spc[s] \in {"lookup", "wait"} => cancelCh \notin closed
    /\ fpc[s] = "select" => fch[s] = cancelCh

\* The heads are the end of the canonical chain but for the block inside insert, which is
\* the next one; the fetcher asks for what is above them.
Together == head = top /\ hdr = top
HeadInv(s) ==
    /\ fpc[s] \notin {"block", "header"} => Together
    /\ fpc[s] \in {"start", "select"} => from[s] = top + 1
    /\ fpc[s] \in InsertSteps => ins[s].next <= ins[s].last /\ from[s] + ins[s].n = ins[s].last + 1
    /\ fpc[s] \in {"insert", "canon"} => ins[s].next = top + 1
    /\ fpc[s] = "canon" => ins[s].new
    /\ fpc[s] = "block" => ins[s].new /\ ins[s].next = top /\ head + 1 = top /\ hdr + 1 = top
    /\ fpc[s] = "header" => ins[s].new /\ ins[s].next = top /\ head = top /\ hdr + 1 = top

AloneInv == \A s \in Syncs : WireInv(s) /\ ChanInv(s) /\ HeadInv(s)

\* A bag of one request: how it comes about and what is left of it.
LEMMA OneRequest ==
    ASSUME NEW r
    PROVE  /\ EmptyBag (+) SetToBag({r}) = SetToBag({r}) /\ SetToBag({r}) (-) SetToBag({r}) = EmptyBag
           /\ BagToSet(SetToBag({r})) = {r} /\ BagToSet(EmptyBag) = {}
<1>1. SetToBag({r}) = [e \in {r} |-> 1] /\ EmptyBag = [e \in {} |-> 1]
  BY Zenon DEF SetToBag, EmptyBag
<1>2. BagToSet(SetToBag({r})) = {r} /\ BagToSet(EmptyBag) = {}
  BY <1>1, Zenon DEF BagToSet
<1>3. EmptyBag (+) SetToBag({r}) = SetToBag({r})
  <2>1. EmptyBag (+) SetToBag({r}) = [e \in {} \cup {r} |-> (IF e \in {} THEN EmptyBag[e] ELSE 0)
                                                           + (IF e \in {r} THEN 1 ELSE 0)]
    BY <1>1, Zenon DEF (+)
  <2> QED  BY <1>1, <2>1, SMTT(30)
<1>4. SetToBag({r}) (-) SetToBag({r}) = EmptyBag
  <2> DEFINE D == [e \in {r} |-> IF e \in {r} THEN 1 - 1 ELSE 1]
             K == {d \in DOMAIN D : D[d] > 0}
  <2>1. SetToBag({r}) (-) SetToBag({r}) = [e \in K |-> D[e]]
    BY <1>1, Zenon DEF (-)
  <2>2. K = {}
    OBVIOUS
  <2> HIDE DEF K, D
  <2> QED  BY <1>1, <2>1, <2>2, Zenon
<1> QED  BY <1>2, <1>3, <1>4, Zenon

\* A fetcher that is not in its select has nothing open.
LEMMA QuietOutside ==
    ASSUME NEW s, WireInv(s), fpc[s] # "select" PROVE Quiet
BY Zenon DEF WireInv

\* What a synchronise goroutine does before and after its fetch touches no request or packet.
LEMMA QuietStays ==
    ASSUME Quiet, UNCHANGED <<reqs, blockCh, hpc>> PROVE Quiet'
BY Zenon DEF Quiet, NoDeliver

\* The variables of the one sync
LEMMA AloneFacts ==
    ASSUME Inv, AloneInv, NEW s, Syncs = {s}
    PROVE  /\ WireInv(s) /\ ChanInv(s) /\ HeadInv(s) /\ SyncInv(s)
           /\ spc = [u \in {s} |-> spc[s]] /\ fpc = [u \in {s} |-> fpc[s]] /\ from = [u \in {s} |-> from[s]]
           /\ fch = [u \in {s} |-> fch[s]] /\ ins = [u \in {s} |-> ins[s]] /\ speer = [u \in {s} |-> speer[s]]
           /\ top \in Nat /\ head \in Nat /\ hdr \in Nat /\ from[s] \in Nat
           /\ ins[s] \in [next : Nat, last : Nat, n : Nat, new : BOOLEAN]
BY Zenon DEF AloneInv, Inv, TypeOK, SyncTypeOK, FetchTypeOK, ChainTypeOK

\* The steps of a synchronise goroutine outside its fetch
LEMMA SyncAlone ==
    ASSUME Inv, AloneInv, NEW s, Syncs = {s}, Tick(s) \/ SyncStep(s)
    PROVE  AloneInv'
<1>0. /\ WireInv(s) /\ ChanInv(s) /\ HeadInv(s) /\ SyncInv(s)
      /\ spc = [u \in {s} |-> spc[s]] /\ fpc = [u \in {s} |-> fpc[s]] /\ from = [u \in {s} |-> from[s]]
      /\ top \in Nat /\ head \in Nat /\ hdr \in Nat
  BY AloneFacts, Zenon
<1> SUFFICES WireInv(s)' /\ ChanInv(s)' /\ HeadInv(s)'
  BY Zenon DEF AloneInv
<1>1. fpc[s] # "select" /\ fpc'[s] # "select" /\ UNCHANGED <<reqs, blockCh, hpc>>
  BY <1>0, Zenon DEF Tick, SyncStep, Begin, SyncWithPeer, FetchReturned, Cancel, Join, SyncInv, handlerVars, fetchVars
<1>2. WireInv(s)'
  <2>1. Quiet'
    BY <1>0, <1>1, QuietOutside, QuietStays, Zenon
  <2> QED  BY <2>1, Zenon DEF WireInv
<1>3. ChanInv(s)'
  <2>1. CASE Begin(s)
    <3>1. FreshChan \notin InUse
      BY FreshChanExists, Zenon DEF Inv
    <3> QED  BY <1>1, <2>1, <3>1, Zenon DEF Begin, ChanInv
  <2>2. CASE Tick(s) \/ SyncWithPeer(s) \/ FetchReturned(s) \/ Cancel(s) \/ Join(s)
    BY <1>0, <1>1, <2>2, Zenon DEF ChanInv, Tick, SyncWithPeer, FetchReturned, Cancel, Join
  <2> QED  BY <2>1, <2>2, Zenon DEF SyncStep
<1>4. HeadInv(s)'
  <2>1. CASE SyncWithPeer(s)
    <3>1. fpc[s] = "none" /\ UNCHANGED chainVars
      BY <1>0, <2>1, Zenon DEF SyncInv, SyncWithPeer
    <3>2. Together
      BY <1>0, <3>1, Zenon DEF HeadInv
    <3>3. fpc'[s] = "none" \/ (fpc'[s] = "start" /\ from'[s] = hdr + 1)
      BY <1>0, <2>1, <3>1, Zenon DEF SyncWithPeer
    <3> QED  BY <3>1, <3>2, <3>3, Zenon DEF HeadInv, Together, chainVars, InsertSteps
  <2>2. CASE FetchReturned(s)
    BY <1>0, <2>2, Zenon DEF FetchReturned, HeadInv, Together, chainVars, InsertSteps
  <2>3. CASE Tick(s) \/ Begin(s) \/ Cancel(s) \/ Join(s)
    <3>1. UNCHANGED <<chainVars, fetchVars>>
      BY <2>3, Zenon DEF Tick, Begin, Cancel, Join
    <3> QED  BY <1>0, <3>1, Zenon DEF HeadInv, Together, chainVars, fetchVars
  <2> QED  BY <2>1, <2>2, <2>3, Zenon DEF SyncStep
<1> QED  BY <1>2, <1>3, <1>4, Zenon

\* getBlocks with nothing open: its request is the only one.
LEMMA GetBlocksAlone ==
    ASSUME NEW s, Quiet, NEW f \in Nat, speer[s] \in Peers, f <= RemoteHead[speer[s]] + 1, GetBlocks(s, f),
           from'[s] = f, UNCHANGED <<blockCh, hpc, speer>>
    PROVE  Requested(s)'
<1> DEFINE left == (RemoteHead[speer[s]] + 1) - f
           total == IF left > MaxBlockFetch THEN MaxBlockFetch ELSE left
           r == [peer |-> speer[s], first |-> f, n |-> total]
<1>1. r \in Packets /\ r.peer = speer[s] /\ r.first = f
  BY GetBlocksType, Zenon
<1>2. reqs' = reqs (+) SetToBag({r})
  BY Zenon DEF GetBlocks
<1> HIDE DEF r
<1>3. reqs' = SetToBag({r}) /\ blockCh' = {} /\ NoDeliver'
  <2>1. reqs = EmptyBag /\ blockCh = {} /\ NoDeliver
    BY Zenon DEF Quiet
  <2>2. reqs' = SetToBag({r})
    BY <1>2, <2>1, OneRequest, Zenon
  <2> QED  BY <2>1, <2>2, Zenon DEF NoDeliver
<1>4. r \in Packets /\ r.peer = speer'[s] /\ r.first = from'[s]
  BY <1>1, Zenon
<1> QED  BY <1>3, <1>4, Zenon DEF Requested, Asks

\* Advance above the end of the chain
LEMMA AdvanceAlone ==
    ASSUME Inv, NEW s, Syncs = {s}, Quiet, NEW n \in Nat, speer[s] \in Peers, Advance(s, n), from[s] + n = top + 1,
           UNCHANGED <<blockCh, hpc, syncVars, top, cancelCh>>
    PROVE  /\ WireInv(s)' /\ fpc'[s] \in {"select", "done"}
           /\ fpc'[s] = "select" => fch'[s] = cancelCh'
           /\ fpc'[s] = "select" => from'[s] = top' + 1
<1>0. /\ fpc = [u \in {s} |-> fpc[s]] /\ from = [u \in {s} |-> from[s]] /\ fch = [u \in {s} |-> fch[s]]
      /\ from[s] \in Nat /\ RemoteHead[speer[s]] \in Nat /\ top \in Nat
  BY SyncAssumption, Zenon DEF Inv, TypeOK, FetchTypeOK, ChainTypeOK
<1>1. CASE from[s] + n < RemoteHead[speer[s]]
  <2>1. GetBlocks(s, from[s] + n) /\ Select(s) /\ from'[s] = from[s] + n
    BY <1>0, <1>1, Zenon DEF Advance
  <2>2. fpc'[s] = "select" /\ fch'[s] = cancelCh
    BY <1>0, <2>1, Zenon DEF Select
  <2>3. from[s] + n \in Nat /\ from[s] + n <= RemoteHead[speer[s]] + 1 /\ UNCHANGED speer
    BY <1>0, <1>1, SMTT(30) DEF syncVars
  <2>4. Requested(s)'
    BY <2>1, <2>3, GetBlocksAlone, Zenon
  <2>5. WireInv(s)'
    BY <2>2, <2>4, Zenon DEF WireInv
  <2> QED  BY <2>1, <2>2, <2>5, Zenon
<1>2. CASE ~(from[s] + n < RemoteHead[speer[s]])
  <2>1. Return(s, "done") /\ UNCHANGED reqs
    BY <1>2, Zenon DEF Advance
  <2>2. fpc'[s] = "done"
    BY <1>0, <2>1, Zenon DEF Return
  <2>3. Quiet'
    BY <2>1, QuietStays, Zenon
  <2> QED  BY <2>2, <2>3, Zenon DEF WireInv
<1> QED  BY <1>1, <1>2, Zenon

\* fetchBlocks up to the packet: the request is the only one, the answer is what was asked for,
\* and no other sync closes the channel.
LEMMA FetchAlone ==
    ASSUME Inv, AloneInv, NEW s, Syncs = {s}, FetchStart(s) \/ FetchCancelled(s) \/ FetchReceive(s)
    PROVE  AloneInv'
<1>0. /\ WireInv(s) /\ ChanInv(s) /\ HeadInv(s) /\ SyncInv(s)
      /\ fpc = [u \in {s} |-> fpc[s]] /\ fch = [u \in {s} |-> fch[s]] /\ ins = [u \in {s} |-> ins[s]]
      /\ top \in Nat /\ head \in Nat /\ hdr \in Nat /\ from[s] \in Nat
  BY AloneFacts, Zenon
<1> SUFFICES WireInv(s)' /\ ChanInv(s)' /\ HeadInv(s)'
  BY Zenon DEF AloneInv
<1>1. CASE FetchStart(s)
  <2>1. /\ fpc[s] = "start" /\ GetBlocks(s, from[s]) /\ fpc'[s] = "select" /\ fch'[s] = cancelCh
        /\ UNCHANGED <<chainVars, cancelCh, closed, blockCh, syncVars, from, ins, handlerVars>>
    BY <1>0, <1>1, Zenon DEF FetchStart, Select
  <2>2. speer[s] \in Peers /\ from[s] <= RemoteHead[speer[s]] + 1
    BY <1>0, <2>1, Zenon DEF SyncInv
  <2>3. Quiet /\ UNCHANGED <<blockCh, hpc, speer>> /\ from'[s] = from[s]
    BY <1>0, <2>1, QuietOutside, Zenon DEF syncVars, handlerVars
  <2>4. Requested(s)'
    BY <1>0, <2>1, <2>2, <2>3, GetBlocksAlone, Zenon
  <2>5. WireInv(s)'
    BY <2>1, <2>4, Zenon DEF WireInv
  <2>6. ChanInv(s)'
    BY <1>0, <2>1, Zenon DEF ChanInv, syncVars
  <2>7. HeadInv(s)'
    BY <1>0, <2>1, Zenon DEF HeadInv, Together, chainVars, InsertSteps
  <2> QED  BY <2>5, <2>6, <2>7, Zenon
<1>2. CASE FetchCancelled(s)
  <2>1. fpc[s] = "select" /\ fch[s] \in closed
    BY <1>2, Zenon DEF FetchCancelled
  <2>2. spc[s] = "wait" /\ fch[s] = cancelCh
    BY <1>0, <2>1, Zenon DEF SyncInv, ChanInv
  <2> QED  BY <1>0, <2>1, <2>2, Zenon DEF ChanInv
<1>3. CASE FetchReceive(s)
  <2>1. PICK packet \in blockCh :
            /\ fpc[s] = "select" /\ blockCh' = {}
            /\ IF packet.peer # speer[s]
               THEN Select(s) /\ UNCHANGED <<from, reqs, ins>>
               ELSE IF packet.first = head + 1
               THEN /\ fpc' = [fpc EXCEPT ![s] = "insert"]
                    /\ ins' = [ins EXCEPT ![s] = [next |-> packet.first, n |-> packet.n, new |-> FALSE,
                                                  last |-> packet.first + packet.n - 1]]
                    /\ UNCHANGED <<from, fch, reqs>>
               ELSE Advance(s, packet.n) /\ UNCHANGED ins
            /\ UNCHANGED <<chainVars, cancelCh, closed, syncVars, handlerVars>>
    BY <1>3, Zenon DEF FetchReceive
  <2>2. Delivered(s)
    BY <1>0, <2>1, Zenon DEF WireInv, Quiet, Requested, Answered
  <2>3. Asks(s, packet) /\ packet.n # 0 /\ reqs = EmptyBag /\ NoDeliver
    BY <2>1, <2>2, Zenon DEF Delivered
  <2>4. packet.n \in Nat \ {0} /\ packet.peer = speer[s] /\ packet.first = top + 1 /\ Together /\ from[s] = top + 1
    BY <1>0, <2>1, <2>3, Zenon DEF Asks, HeadInv, Packets
  <2>5. packet.first = head + 1
    BY <2>4, Zenon DEF Together
  <2>6. /\ fpc'[s] = "insert" /\ UNCHANGED <<from, reqs, hpc, top, head, hdr, cancelCh, closed, spc>>
        /\ ins'[s] = [next |-> packet.first, n |-> packet.n, new |-> FALSE, last |-> packet.first + packet.n - 1]
    <3>1. /\ fpc' = [fpc EXCEPT ![s] = "insert"] /\ UNCHANGED <<from, reqs>>
          /\ ins' = [ins EXCEPT ![s] = [next |-> packet.first, n |-> packet.n, new |-> FALSE,
                                        last |-> packet.first + packet.n - 1]]
      BY <2>1, <2>4, <2>5, Zenon
    <3>2. UNCHANGED <<hpc, top, head, hdr, cancelCh, closed, spc>>
      BY <2>1, Zenon DEF handlerVars, chainVars, syncVars
    <3> QED  BY <1>0, <3>1, <3>2, Zenon
  <2>7. WireInv(s)'
    BY <2>1, <2>3, <2>6, Zenon DEF WireInv, Quiet, NoDeliver
  <2>8. ChanInv(s)'
    BY <1>0, <2>6, Zenon DEF ChanInv
  <2>9. ins'[s].next = top + 1 /\ ins'[s].n = packet.n /\ ins'[s].last = top + 1 + packet.n - 1
    BY ONLY <2>4, <2>6, SMTT(30)
  <2>10. HeadInv(s)'
    BY <1>0, <2>4, <2>6, <2>9, SMTT(30) DEF HeadInv, Together, InsertSteps
  <2> QED  BY <2>7, <2>8, <2>10, Zenon
<1> QED  BY <1>1, <1>2, <1>3, Zenon

\* InsertChain alone: the block is new, so both heads follow it.
LEMMA InsertAlone ==
    ASSUME Inv, AloneInv, NEW s, Syncs = {s},
           ReadCanonical(s) \/ WriteCanonical(s) \/ StoreBlock(s) \/ StoreHeader(s)
    PROVE  AloneInv'
<1>0. /\ WireInv(s) /\ ChanInv(s) /\ HeadInv(s) /\ SyncInv(s)
      /\ fpc = [u \in {s} |-> fpc[s]] /\ fch = [u \in {s} |-> fch[s]] /\ ins = [u \in {s} |-> ins[s]]
      /\ top \in Nat /\ head \in Nat /\ hdr \in Nat /\ from[s] \in Nat
      /\ ins[s] \in [next : Nat, last : Nat, n : Nat, new : BOOLEAN]
  BY AloneFacts, Zenon
<1> SUFFICES WireInv(s)' /\ ChanInv(s)' /\ HeadInv(s)'
  BY Zenon DEF AloneInv
<1>1. CASE ReadCanonical(s) \/ WriteCanonical(s) \/ (StoreBlock(s) /\ ins[s].new)
  <2>1. /\ fpc[s] # "select" /\ fpc'[s] \in InsertSteps
        /\ UNCHANGED <<reqs, blockCh, hpc, from, cancelCh, closed, spc>>
    BY <1>0, <1>1, Zenon DEF ReadCanonical, WriteCanonical, StoreBlock, handlerVars, syncVars, InsertSteps
  <2>2. Quiet'
    BY <1>0, <2>1, QuietOutside, QuietStays, Zenon
  <2>3. WireInv(s)'
    BY <2>2, Zenon DEF WireInv
  <2>4. ChanInv(s)'
    BY <1>0, <2>1, Zenon DEF ChanInv, InsertSteps
  <2>5. HeadInv(s)'
    <3>1. CASE ReadCanonical(s)
      <4>1. fpc[s] = "insert" /\ fpc'[s] = "canon" /\ UNCHANGED <<top, head, hdr, from>>
        BY <1>0, <3>1, Zenon DEF ReadCanonical, chainVars
      <4>2. /\ ins'[s].next = ins[s].next /\ ins'[s].last = ins[s].last /\ ins'[s].n = ins[s].n
        BY <1>0, <3>1, Zenon DEF ReadCanonical
      <4>3. /\ Together /\ ins[s].next = top + 1
            /\ ins[s].next <= ins[s].last /\ from[s] + ins[s].n = ins[s].last + 1
        BY <1>0, <4>1, Zenon DEF HeadInv, InsertSteps
      <4>4. ins'[s].new
        <5>1. (ins[s].next > top) = TRUE
          BY <1>0, <4>3, SMTT(30)
        <5>2. ins' = [ins EXCEPT ![s].new = TRUE]
          BY <3>1, <5>1, Zenon DEF ReadCanonical
        <5> QED  BY <1>0, <5>2, Zenon
      <4> QED  BY <4>1, <4>2, <4>3, <4>4, Zenon DEF HeadInv, Together
    <3>2. CASE WriteCanonical(s)
      BY <1>0, <3>2, SMTT(30) DEF WriteCanonical, HeadInv, Together, InsertSteps
    <3>3. CASE StoreBlock(s) /\ ins[s].new
      BY <1>0, <3>3, Zenon DEF StoreBlock, HeadInv, Together, InsertSteps
    <3> QED  BY <1>1, <3>1, <3>2, <3>3, Zenon
  <2> QED  BY <2>3, <2>4, <2>5, Zenon
<1>2. CASE StoreBlock(s) /\ ~ins[s].new
  BY <1>0, <1>2, Zenon DEF StoreBlock, HeadInv
<1>3. CASE StoreHeader(s)
  <2>1. /\ fpc[s] = "header" /\ hdr' = ins[s].next /\ NextBlock(s)
        /\ UNCHANGED <<head, top, cancelCh, closed, blockCh, syncVars, hpc>>
    BY <1>3, Zenon DEF StoreHeader, handlerVars
  <2>2. /\ ins[s].next = top /\ head = top /\ ins[s].next <= ins[s].last /\ from[s] + ins[s].n = ins[s].last + 1
        /\ spc[s] = "wait" /\ speer[s] \in Peers
    BY <1>0, <2>1, Zenon DEF HeadInv, SyncInv, InsertSteps
  <2>3. Quiet /\ Together' /\ cancelCh' \notin closed'
    BY <1>0, <2>1, <2>2, QuietOutside, Zenon DEF Together, ChanInv
  <2>4. CASE ins[s].next < ins[s].last
    <3>1. /\ fpc'[s] = "insert" /\ UNCHANGED <<from, reqs>> /\ ins'[s].next = ins[s].next + 1
          /\ ins'[s].last = ins[s].last /\ ins'[s].n = ins[s].n
      BY <1>0, <2>1, <2>4, SMTT(30) DEF NextBlock
    <3>2. Quiet'
      BY <2>1, <2>3, <3>1, QuietStays, Zenon
    <3>3. WireInv(s)' /\ ChanInv(s)'
      BY <2>3, <3>1, <3>2, Zenon DEF WireInv, ChanInv
    <3>4. HeadInv(s)'
      BY <1>0, <2>1, <2>2, <2>3, <2>4, <3>1, SMTT(30) DEF HeadInv, InsertSteps
    <3> QED  BY <3>3, <3>4, Zenon
  <2>5. CASE ~(ins[s].next < ins[s].last)
    <3>1. Advance(s, ins[s].n) /\ ins[s].n \in Nat /\ from[s] + ins[s].n = top + 1
      BY <1>0, <2>1, <2>2, <2>5, SMTT(30) DEF NextBlock
    <3>2. /\ WireInv(s)' /\ fpc'[s] \in {"select", "done"}
          /\ fpc'[s] = "select" => fch'[s] = cancelCh'
          /\ fpc'[s] = "select" => from'[s] = top' + 1
      BY <2>1, <2>2, <2>3, <3>1, AdvanceAlone, Zenon
    <3>3. ChanInv(s)' /\ HeadInv(s)'
      BY <2>3, <3>2, Zenon DEF ChanInv, HeadInv, InsertSteps
    <3> QED  BY <3>2, <3>3, Zenon
  <2> QED  BY <2>4, <2>5, Zenon
<1> QED  BY <1>1, <1>2, <1>3, Zenon

\* The handlers: an answer goes from the peer to deliver and into blockCh, or is lost.
LEMMA HandlerAlone ==
    ASSUME Inv, AloneInv, NEW s, Syncs = {s}, NEW p \in Peers, HandlerStep(p) \/ LoseRequest(p)
    PROVE  AloneInv'
<1>0. /\ WireInv(s) /\ ChanInv(s) /\ HeadInv(s)
      /\ hpc \in [Peers -> {"handshake", "register", "read", "deliver"}]
      /\ hpk = [q \in Peers |-> hpk[q]]
  BY AloneFacts, Zenon DEF Inv, TypeOK, HandlerTypeOK
<1> SUFFICES WireInv(s)' /\ ChanInv(s)' /\ HeadInv(s)'
  BY Zenon DEF AloneInv
<1>1. UNCHANGED <<chainVars, cancelCh, closed, syncVars, fetchVars>>
  BY Zenon DEF HandlerStep, HandshakeDone, RegisterPeer, ReadBlocks, Deliver, LoseRequest
<1>2. ChanInv(s)' /\ HeadInv(s)'
  BY <1>0, <1>1, Zenon DEF ChanInv, HeadInv, Together, chainVars, syncVars, fetchVars
<1>3. UNCHANGED <<speer, from, fpc>>
  BY <1>1, Zenon DEF syncVars, fetchVars
<1>4. CASE HandshakeDone(p) \/ RegisterPeer(p)
  <2>1. UNCHANGED <<reqs, blockCh, hpk>> /\ \A q \in Peers : hpc'[q] = "deliver" <=> hpc[q] = "deliver"
    BY <1>0, <1>4, Zenon DEF HandshakeDone, RegisterPeer
  <2>2. NoDeliver' <=> NoDeliver
    BY <2>1, Zenon DEF NoDeliver
  <2>3. \A q \in Peers : Delivers(q)' <=> Delivers(q)
    BY <2>1, Zenon DEF Delivers
  <2>4. Quiet => Quiet'
    BY <2>1, <2>2, Zenon DEF Quiet
  <2>5. Requested(s) => Requested(s)'
    BY <1>3, <2>1, <2>2, Zenon DEF Requested, Asks
  <2>6. Delivered(s) => Delivered(s)'
    BY <1>3, <2>1, <2>2, Zenon DEF Delivered, Asks
  <2>7. Answered(s) => Answered(s)'
    BY <1>3, <2>1, <2>3, Zenon DEF Answered, Asks
  <2> QED  BY <1>0, <1>2, <1>3, <2>4, <2>5, <2>6, <2>7, Zenon DEF WireInv
<1>5. CASE ReadBlocks(p) \/ LoseRequest(p)
  <2>1. PICK r \in BagToSet(reqs) :
            /\ reqs' = reqs (-) SetToBag({r}) /\ UNCHANGED blockCh
            /\ \/ UNCHANGED <<hpc, hpk>>
               \/ /\ r.n # 0 /\ hpc' = [hpc EXCEPT ![p] = "deliver"] /\ hpk' = [hpk EXCEPT ![p] = r]
    BY <1>5, Zenon DEF ReadBlocks, LoseRequest, handlerVars
  <2>2. reqs # EmptyBag
    BY OneRequest, Zenon
  <2>3. fpc[s] = "select" /\ Requested(s)
    BY <1>0, <2>2, Zenon DEF WireInv, Quiet, Answered, Delivered
  <2>4. PICK q : Asks(s, q) /\ reqs = SetToBag({q}) /\ blockCh = {} /\ NoDeliver
    BY <2>3, Zenon DEF Requested
  <2>5. r = q /\ reqs' = EmptyBag
    <3>1. BagToSet(reqs) = {q}
      BY <2>4, OneRequest, Zenon
    <3>2. r = q
      BY <2>1, <3>1, Zenon
    <3> QED  BY <2>1, <2>4, <3>2, OneRequest, Zenon
  <2>6. CASE UNCHANGED <<hpc, hpk>>
    <3>1. Quiet'
      BY <2>1, <2>4, <2>5, <2>6, Zenon DEF Quiet, NoDeliver
    <3> QED  BY <1>2, <3>1, Zenon DEF WireInv
  <2>7. CASE r.n # 0 /\ hpc' = [hpc EXCEPT ![p] = "deliver"] /\ hpk' = [hpk EXCEPT ![p] = r]
    <3>1. hpk'[p] = r /\ Delivers(p)'
      BY <1>0, <2>4, <2>7, Zenon DEF NoDeliver, Delivers
    <3>2. hpk'[p] \in Packets /\ hpk'[p].peer = speer'[s] /\ hpk'[p].first = from'[s] /\ hpk'[p].n # 0
      BY <1>3, <2>4, <2>5, <2>7, <3>1, Zenon DEF Asks
    <3>3. Answered(s)'
      BY <2>1, <2>4, <2>5, <3>1, <3>2, Zenon DEF Answered, Asks
    <3> QED  BY <1>2, <1>3, <2>3, <3>3, Zenon DEF WireInv
  <2> QED  BY <2>1, <2>6, <2>7, Zenon
<1>6. CASE Deliver(p)
  <2>1. /\ hpc[p] = "deliver" /\ hpc' = [hpc EXCEPT ![p] = "read"] /\ UNCHANGED reqs
        /\ (blockCh = {} /\ blockCh' = {hpk[p]}) \/ UNCHANGED blockCh
    BY <1>6, Zenon DEF Deliver
  <2>2. fpc[s] = "select" /\ Answered(s)
    BY <1>0, <2>1, Zenon DEF WireInv, Quiet, Requested, Delivered, NoDeliver
  <2>3. PICK q \in Peers : Asks(s, hpk[q]) /\ hpk[q].n # 0 /\ reqs = EmptyBag /\ blockCh = {} /\ Delivers(q)
    BY <2>2, Zenon DEF Answered
  <2>4. q = p
    BY <2>1, <2>3, Zenon DEF Delivers
  <2>5. NoDeliver'
    BY <1>0, <2>1, <2>3, <2>4, Zenon DEF NoDeliver, Delivers
  <2>6. CASE UNCHANGED blockCh
    <3>1. Quiet'
      BY <2>1, <2>3, <2>5, <2>6, Zenon DEF Quiet
    <3> QED  BY <1>2, <3>1, Zenon DEF WireInv
  <2>7. CASE blockCh' = {hpk[p]}
    <3>1. hpk[p] \in Packets /\ hpk[p].peer = speer'[s] /\ hpk[p].first = from'[s] /\ hpk[p].n # 0
      BY <1>3, <2>3, <2>4, Zenon DEF Asks
    <3>2. Delivered(s)'
      BY <2>1, <2>3, <2>5, <2>7, <3>1, Zenon DEF Delivered, Asks
    <3> QED  BY <1>2, <1>3, <2>2, <3>2, Zenon DEF WireInv
  <2> QED  BY <2>1, <2>6, <2>7, Zenon
<1> QED  BY <1>4, <1>5, <1>6, Zenon DEF HandlerStep

\* AloneInv holds at the start.
LEMMA InitAlone == HeadsAgree /\ Init => AloneInv
<1> SUFFICES ASSUME HeadsAgree, Init, NEW s \in Syncs PROVE WireInv(s) /\ ChanInv(s) /\ HeadInv(s)
  BY Zenon DEF AloneInv
<1>1. Quiet
  BY Zenon DEF Init, Quiet, NoDeliver
<1>2. ChanInv(s) /\ HeadInv(s)
  BY Zenon DEF Init, ChanInv, HeadInv, Together, HeadsAgree, InsertSteps
<1> QED  BY <1>1, <1>2, Zenon DEF WireInv

\* Every step keeps AloneInv.
LEMMA NextAlone ==
    ASSUME SingleSync, Inv, AloneInv, [Next]_vars
    PROVE  AloneInv'
<1>1. PICK s : Syncs = {s}
  BY Zenon DEF SingleSync
<1>2. CASE Tick(s) \/ SyncStep(s)
  BY <1>1, <1>2, SyncAlone, Zenon
<1>3. CASE FetchStep(s)
  BY <1>1, <1>3, FetchAlone, InsertAlone, Zenon DEF FetchStep
<1>4. ASSUME NEW p \in Peers, HandlerStep(p) \/ LoseRequest(p) PROVE AloneInv'
  BY <1>1, <1>4, HandlerAlone, Zenon
<1>5. CASE UNCHANGED vars
  <2>1. /\ UNCHANGED <<chainVars, cancelCh, closed, blockCh, reqs, syncVars, fetchVars, handlerVars>>
    BY <1>5, Zenon DEF vars
  <2>2. UNCHANGED <<top, head, hdr, cancelCh, closed, blockCh, reqs, spc, speer, fpc, from, fch, ins, hpc, hpk>>
    BY <2>1, Zenon DEF chainVars, syncVars, fetchVars, handlerVars
  <2>3. WireInv(s) /\ ChanInv(s) /\ HeadInv(s)
    BY <1>1, Zenon DEF AloneInv
  <2>4. WireInv(s)'
    BY <2>2, <2>3, Zenon DEF WireInv, Quiet, NoDeliver, Requested, Answered, Delivered, Delivers, Asks
  <2>5. ChanInv(s)' /\ HeadInv(s)'
    BY <2>2, <2>3, Zenon DEF ChanInv, HeadInv, Together
  <2> QED  BY <1>1, <2>4, <2>5, Zenon DEF AloneInv
<1> QED  BY <1>1, <1>2, <1>3, <1>4, <1>5, Zenon DEF Next

\* NothingLeftOver for any peers, announced heads and request sizes, lost requests included: as
\* long as the ticks of syncer do not overlap, every call of synchronise that returns leaves no
\* open request, no packet in blockCh, no handler inside deliver, and both heads on the last
\* canonical block.
THEOREM NothingLeft == SingleSync /\ HeadsAgree => (Spec => []NothingLeftOver)
<1> SUFFICES ASSUME SingleSync /\ HeadsAgree PROVE Spec => []NothingLeftOver
  BY Zenon
<1>1. Init => AloneInv
  BY InitAlone, Zenon
<1>2. Inv /\ AloneInv /\ [Next]_vars => AloneInv'
  BY NextAlone, Zenon
<1>3. Inv /\ AloneInv => NothingLeftOver
  <2> SUFFICES ASSUME Inv, AloneInv, \A s \in Syncs : spc[s] = "idle"
               PROVE  Quiet /\ Together
    BY Zenon DEF NothingLeftOver, Quiet, NoDeliver, Together
  <2>1. PICK s : Syncs = {s}
    BY Zenon DEF SingleSync
  <2>2. spc[s] = "idle" /\ WireInv(s) /\ HeadInv(s) /\ SyncInv(s)
    BY <2>1, Zenon DEF AloneInv, Inv
  <2>3. fpc[s] = "none"
    BY <2>2, Zenon DEF SyncInv
  <2> QED  BY <2>2, <2>3, Zenon DEF WireInv, HeadInv
<1> QED  BY <1>1, <1>2, <1>3, SpecInv, PTL DEF Spec

=============================================================================
