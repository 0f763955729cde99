------------------------------ MODULE Peering ------------------------------
(***************************************************************************)
(* Who is connected to whom, as one node records it: Server.Peers          *)
(* (p2p/server.go), ProtocolManager.peers (proton/handler.go) and the      *)
(* downloader's peerSet (proton/downloader/peer.go).                       *)
(*                                                                         *)
(* A conn is one p2p.Peer: a stream that the dial loop of Server.Start     *)
(* opened (initial) or that streamHandler accepted.  A handler is one call *)
(* of ProtocolManager.handle, for a proton stream that Protocol.Run opened *)
(* or that streamHandlerV1 accepted.  Both nodes of a pair may dial, and   *)
(* any stream may break at any time.  Server.Peers and pm.peers are maps   *)
(* that goroutines read and write without a lock; each access is a step.   *)
(***************************************************************************)
EXTENDS FiniteSets, Naturals

CONSTANTS
    Remotes,
    Conns,      \* bound: p2p streams at once
    Handlers,   \* bound: proton streams at once
    None

ASSUME PeeringAssumption == None \notin Remotes \cup Conns \cup Handlers

VARIABLES
    table,      \* Server.Peers: remote -> conn, None when absent
    dial,       \* the conn whose handshake the dial loop is in, or None
    cpc, crem, initial,   \* per conn: control, remote, argument of run
    proto,      \* per conn: control of the goroutine of startProtocols
    pmPeers,    \* ids in ProtocolManager.peers
    dlPeers,    \* ids in the downloader's peerSet
    hpc, hrem   \* per handler: control, remote

connVars == <<table, dial, cpc, crem, initial>>
managerVars == <<pmPeers, dlPeers, hpc, hrem>>
peeringVars == <<connVars, proto, managerVars>>

PeeringInit ==
    /\ table = [r \in Remotes |-> None] /\ dial = None
    /\ cpc = [c \in Conns |-> "free"] /\ crem = [c \in Conns |-> None]
    /\ initial = [c \in Conns |-> FALSE] /\ proto = [c \in Conns |-> "none"]
    /\ pmPeers = {} /\ dlPeers = {}
    /\ hpc = [h \in Handlers |-> "free"] /\ hrem = [h \in Handlers |-> None]

-----------------------------------------------------------------------------
(* p2p.Server *)

\* A slot holds the next stream once nothing of the last one is left.
FreeConn(c) == cpc[c] = "free" /\ proto[c] = "none"

Open(c, r, i) ==
    /\ cpc' = [cpc EXCEPT ![c] = "handshake"]
    /\ crem' = [crem EXCEPT ![c] = r]
    /\ initial' = [initial EXCEPT ![c] = i]

CloseConn(c) ==
    /\ cpc' = [cpc EXCEPT ![c] = "free"]
    /\ UNCHANGED <<crem, initial>>

\* The dial loop takes a discovered address that is not in Peers and opens a
\* stream; it stays in createPeer until the handshake is over.
Discover(r) ==
    \E c \in Conns :
    /\ dial = None /\ table[r] = None /\ FreeConn(c)
    /\ dial' = c
    /\ Open(c, r, TRUE)
    /\ UNCHANGED <<table, proto, managerVars>>

\* libp2p calls streamHandler for a stream the remote opened.
Accept(r) ==
    \E c \in Conns :
    /\ FreeConn(c)
    /\ Open(c, r, FALSE)
    /\ UNCHANGED <<table, dial, proto, managerVars>>

\* createPeer returned a peer: Peers gets it, and then run starts with the
\* protocols.
AddPeer(c) ==
    /\ cpc[c] = "handshake"
    /\ table' = [table EXCEPT ![crem[c]] = c]
    /\ cpc' = [cpc EXCEPT ![c] = "run"]
    /\ proto' = [proto EXCEPT ![c] = "start"]
    /\ dial' = IF dial = c THEN None ELSE dial
    /\ UNCHANGED <<crem, initial, managerVars>>

HandshakeFails(c) ==
    /\ cpc[c] = "handshake"
    /\ CloseConn(c)
    /\ dial' = IF dial = c THEN None ELSE dial
    /\ UNCHANGED <<table, proto, managerVars>>

\* Peer.run returns, because of an error of the stream on either side.
RunReturns(c) ==
    /\ cpc[c] = "run"
    /\ cpc' = [cpc EXCEPT ![c] = "delete"]
    /\ UNCHANGED <<table, dial, crem, initial, proto, managerVars>>

\* Mutant: runPeer leaves the entry in Peers.
DeletePeerSkipped(c) ==
    /\ cpc[c] = "delete"
    /\ CloseConn(c)
    /\ UNCHANGED <<table, dial, proto, managerVars>>

\* runPeer: delete(srv.Peers, p.ID), whichever stream the entry is for.
DeletePeer(c) ==
    /\ cpc[c] = "delete"
    /\ table' = [table EXCEPT ![crem[c]] = None]
    /\ CloseConn(c)
    /\ UNCHANGED <<dial, proto, managerVars>>

-----------------------------------------------------------------------------
(* proton: Protocol.Run, streamHandlerV1 and ProtocolManager.handle *)

EndProto(c) == proto' = [proto EXCEPT ![c] = "none"]

\* Run goes on only for a peer not in pm.peers, on the side that dialled.
ProtocolRun(c) ==
    /\ proto[c] = "start"
    /\ IF crem[c] \notin pmPeers /\ initial[c]
       THEN proto' = [proto EXCEPT ![c] = "stream"]
       ELSE EndProto(c)
    /\ UNCHANGED <<connVars, managerVars>>

NewHandler(h, r) ==
    /\ hpc[h] = "free"
    /\ hpc' = [hpc EXCEPT ![h] = "handshake"]
    /\ hrem' = [hrem EXCEPT ![h] = r]

\* host.NewStream, and handle in the same goroutine; or the stream fails.
OpenStream(c) ==
    /\ proto[c] = "stream"
    /\ EndProto(c)
    /\ \/ \E h \in Handlers : NewHandler(h, crem[c])
       \/ UNCHANGED <<hpc, hrem>>
    /\ UNCHANGED <<connVars, pmPeers, dlPeers>>

\* streamHandlerV1: go handle, whatever pm.peers holds.
AcceptStream(r) ==
    /\ \E h \in Handlers : NewHandler(h, r)
    /\ UNCHANGED <<connVars, proto, pmPeers, dlPeers>>

\* handle returns.
HandlerReturns(h) ==
    /\ hpc' = [hpc EXCEPT ![h] = "free"]
    /\ hrem' = [hrem EXCEPT ![h] = None]

\* peer.Handshake; any error of readStatus ends the handler.
Handshake(h) ==
    /\ hpc[h] = "handshake"
    /\ \/ hpc' = [hpc EXCEPT ![h] = "check"] /\ UNCHANGED hrem
       \/ HandlerReturns(h)
    /\ UNCHANGED <<connVars, proto, pmPeers, dlPeers>>

CheckPeer(h) ==
    /\ hpc[h] = "check"
    /\ IF hrem[h] \in pmPeers
       THEN HandlerReturns(h)
       ELSE hpc' = [hpc EXCEPT ![h] = "insert"] /\ UNCHANGED hrem
    /\ UNCHANGED <<connVars, proto, pmPeers, dlPeers>>

InsertPeer(h) ==
    /\ hpc[h] = "insert"
    /\ pmPeers' = pmPeers \cup {hrem[h]}
    /\ hpc' = [hpc EXCEPT ![h] = "register"]
    /\ UNCHANGED <<connVars, proto, dlPeers, hrem>>

\* Mutant: peerSet.Register without its test for a registered id.
RegisterPeerUnchecked(h) ==
    /\ hpc[h] = "register"
    /\ dlPeers' = dlPeers \cup {hrem[h]}
    /\ hpc' = [hpc EXCEPT ![h] = "loop"]
    /\ UNCHANGED <<connVars, proto, pmPeers, hrem>>

\* Mutant: a handler that is refused takes its peer out of pm.peers again.
RegisterPeerUndone(h) ==
    /\ hpc[h] = "register"
    /\ IF hrem[h] \in dlPeers
       THEN HandlerReturns(h) /\ pmPeers' = pmPeers \ {hrem[h]} /\ UNCHANGED dlPeers
       ELSE /\ dlPeers' = dlPeers \cup {hrem[h]}
            /\ hpc' = [hpc EXCEPT ![h] = "loop"]
            /\ UNCHANGED <<hrem, pmPeers>>
    /\ UNCHANGED <<connVars, proto>>

\* peerSet.Register tests and inserts under its lock.
RegisterPeer(h) ==
    /\ hpc[h] = "register"
    /\ IF hrem[h] \in dlPeers
       THEN HandlerReturns(h) /\ UNCHANGED dlPeers
       ELSE /\ dlPeers' = dlPeers \cup {hrem[h]}
            /\ hpc' = [hpc EXCEPT ![h] = "loop"]
            /\ UNCHANGED hrem
    /\ UNCHANGED <<connVars, proto, pmPeers>>

\* handleMsg returned an error: handle returns it and removes nothing.
HandleReturns(h) ==
    /\ hpc[h] = "loop"
    /\ HandlerReturns(h)
    /\ UNCHANGED <<connVars, proto, pmPeers, dlPeers>>

-----------------------------------------------------------------------------
PeeringNext ==
    \/ \E r \in Remotes : Discover(r) \/ Accept(r) \/ AcceptStream(r)
    \/ \E c \in Conns :
          AddPeer(c) \/ HandshakeFails(c) \/ RunReturns(c) \/ DeletePeer(c)
            \/ ProtocolRun(c) \/ OpenStream(c)
    \/ \E h \in Handlers :
          Handshake(h) \/ CheckPeer(h) \/ InsertPeer(h) \/ RegisterPeer(h) \/ HandleReturns(h)

PeeringSpec == PeeringInit /\ [][PeeringNext]_peeringVars

-----------------------------------------------------------------------------
\* Type invariant of the three peer tables and of the goroutines.
PeeringTypeOK ==
    /\ table \in [Remotes -> Conns \cup {None}] /\ dial \in Conns \cup {None}
    /\ cpc \in [Conns -> {"free", "handshake", "run", "delete"}]
    /\ crem \in [Conns -> Remotes \cup {None}] /\ initial \in [Conns -> BOOLEAN]
    /\ proto \in [Conns -> {"none", "start", "stream"}]
    /\ pmPeers \subseteq Remotes /\ dlPeers \subseteq Remotes
    /\ hpc \in [Handlers -> {"free", "handshake", "check", "insert", "register", "loop"}]
    /\ hrem \in [Handlers -> Remotes \cup {None}]

\* Server.Peers holds no peer whose runPeer is over, although streams overwrite
\* each other's entries and delete them by id: the dial loop, which skips every
\* id that has an entry, can always reach a remote again.
NoStaleEntry ==
    \A r \in Remotes, c \in Conns :
        table[r] = c => cpc[c] \in {"run", "delete"} /\ crem[c] = r

\* At most one handler serves a remote, although handle tests and sets pm.peers
\* in two unlocked steps: the downloader's peerSet refuses the second.
OneHandlerPerRemote ==
    \A g, h \in Handlers :
        hpc[g] = "loop" /\ hpc[h] = "loop" /\ hrem[g] = hrem[h] => g = h

\* Every peer that bestPeer can choose is known to the downloader, or its handler
\* is about to register it; and no other peer is.
ManagerAgreesWithDownloader ==
    pmPeers = dlPeers \cup {hrem[h] : h \in {g \in Handlers : hpc[g] = "register"}}

=============================================================================
