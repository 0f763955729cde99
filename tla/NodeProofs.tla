------------------------------ MODULE NodeProofs ------------------------------
(***************************************************************************)
(* Proofs about the parts of a node that run beside each other, each of    *)
(* them a system of its own: NodeLifecycle, for any number of callers and  *)
(* of Starts; PeerConn, for any protocols of the two ends, any messages    *)
(* and any number of them on the way; Peering, for any number of remotes   *)
(* and of streams.                                                         *)
(***************************************************************************)
EXTENDS PeerConn, Peering, NodeLifecycle, FiniteSetTheorems, TLAPS

-----------------------------------------------------------------------------
(* NodeLifecycle *)

\* A caller in the middle of Start or Stop owns the lock.  Until Start sets the
\* fields its server is open and its channel is not closed; until Stop closes
\* n.stop, n.server is nil already and the channel is open.
LockInv ==
    \A c \in Callers :
        /\ pc[c] \in {"services", "close"} => writer = c
        /\ pc[c] = "services" => starts > 0 /\ starts \in live /\ starts \notin closed
        /\ pc[c] = "close" => server = 0 /\ stop # 0 /\ stop \notin closed

LifeInv == NodeTypeOK /\ NoPanic /\ RunningIsStoppable /\ LockInv

\* The invariant of the node holds at the start.
LEMMA LifeInit == NodeInit => LifeInv
<1> SUFFICES ASSUME NodeInit PROVE LifeInv
  BY Zenon
<1>1. NodeTypeOK
  <2>1. panicked \in BOOLEAN
    BY Zenon DEF NodeInit
  <2> QED
    BY <2>1 DEF NodeInit, NodeTypeOK
<1>2. NoPanic /\ RunningIsStoppable /\ LockInv
  BY Zenon DEF NodeInit, NoPanic, RunningIsStoppable, LockInv
<1> QED
  BY <1>1, <1>2, Zenon DEF LifeInv

\* Steps that change nothing but the lock and the control of callers outside
\* the critical part of Start and Stop.
LEMMA LockStep ==
    ASSUME LifeInv, UNCHANGED nodeVars, NEW c \in Callers,
           writer' \in Callers \cup {Free}, readers' \subseteq Callers, waiting' \subseteq Callers,
           \A d \in Callers : pc[d] \in {"services", "close"} => writer' = writer,
           NEW k \in {"idle", "Register", "Start", "Stop", "Wait"},
           pc' = [pc EXCEPT ![c] = k], ch' \in [Callers -> 0..starts]
    PROVE  LifeInv'
<1>1. NodeTypeOK'
  BY Zenon DEF LifeInv, NodeTypeOK, nodeVars
<1>2. LockInv'
  BY Zenon DEF LifeInv, NodeTypeOK, LockInv, nodeVars
<1>3. NoPanic' /\ RunningIsStoppable'
  BY Zenon DEF LifeInv, NoPanic, RunningIsStoppable, nodeVars
<1> QED
  BY <1>1, <1>2, <1>3, Zenon DEF LifeInv

\* Every step of the node keeps it.
LEMMA LifeNext == LifeInv /\ [NodeNext]_lifecycleVars => LifeInv'
<1> SUFFICES ASSUME LifeInv, [NodeNext]_lifecycleVars PROVE LifeInv'
  BY Zenon
<1> USE NodeAssumption
<1>1. ASSUME NEW c \in Callers, NEW op \in Calls[c], Call(c, op) PROVE LifeInv'
  <2>1. op \in {"Register", "Start", "Stop"}
    BY <1>1, Zenon DEF Call
  <2>2. /\ UNCHANGED nodeVars /\ writer' = writer /\ pc' = [pc EXCEPT ![c] = op]
        /\ readers' = readers /\ waiting' = waiting \cup {c} /\ ch' = ch
    BY <1>1, Zenon DEF Call
  <2>3. /\ writer \in Callers \cup {Free} /\ readers \subseteq Callers /\ waiting \subseteq Callers
        /\ ch \in [Callers -> 0..starts]
    BY Zenon DEF LifeInv, NodeTypeOK
  <2>4. /\ writer' \in Callers \cup {Free} /\ readers' \subseteq Callers /\ waiting' \subseteq Callers
        /\ ch' \in [Callers -> 0..starts]
    BY <2>2, <2>3, Zenon
  <2> QED
    BY <2>1, <2>2, <2>4, LockStep, Zenon
<1>2. ASSUME NEW c \in Callers, Wait(c) PROVE LifeInv'
  <2>1. ch' \in [Callers -> 0..starts]
    BY <1>2, Zenon DEF Wait, LifeInv, NodeTypeOK
  <2> QED
    BY <1>2, <2>1, LockStep, Zenon DEF Wait, LifeInv, NodeTypeOK
<1>3. ASSUME NEW c \in Callers, Acquire(c) PROVE LifeInv'
  BY <1>3, Zenon DEF Acquire, nodeVars, LifeInv, NodeTypeOK, NoPanic, RunningIsStoppable, LockInv
<1>4. ASSUME NEW c \in Callers, Register(c) PROVE LifeInv'
  BY <1>4 DEF Register, Leave, Release, LifeInv, NodeTypeOK, NoPanic, RunningIsStoppable, LockInv
<1>5. ASSUME NEW c \in Callers, StartFails(c) \/ StopFails(c) PROVE LifeInv'
  <2>1. /\ writer = c /\ pc[c] \in {"Start", "Stop"} /\ writer' = Free /\ pc' = [pc EXCEPT ![c] = "idle"]
        /\ UNCHANGED <<nodeVars, readers, waiting, ch>>
    BY <1>5, Zenon DEF StartFails, StopFails, Leave, Release
  <2>2. \A d \in Callers : pc[d] \notin {"services", "close"}
    BY <2>1, Zenon DEF LifeInv, LockInv
  <2> QED
    BY <2>1, <2>2, LockStep, Zenon DEF LifeInv, NodeTypeOK
<1>6. ASSUME NEW c \in Callers, StartServer(c) PROVE LifeInv'
  <2>1. NodeTypeOK'
    BY <1>6 DEF StartServer, lockVars, LifeInv, NodeTypeOK
  <2>2. LockInv'
    BY <1>6 DEF StartServer, lockVars, LifeInv, NodeTypeOK, LockInv
  <2>3. NoPanic' /\ RunningIsStoppable'
    BY <1>6, Zenon DEF StartServer, LifeInv, NoPanic, RunningIsStoppable
  <2> QED
    BY <2>1, <2>2, <2>3, Zenon DEF LifeInv
<1>7. ASSUME NEW c \in Callers, StartServices(c) PROVE LifeInv'
  <2>1. NodeTypeOK'
    BY <1>7 DEF StartServices, Leave, Release, LifeInv, NodeTypeOK
  <2>2. LockInv'
    BY <1>7, Zenon DEF StartServices, Leave, Release, LifeInv, NodeTypeOK, LockInv
  <2>3. NoPanic' /\ RunningIsStoppable'
    BY <1>7, Zenon DEF StartServices, LifeInv, NoPanic, RunningIsStoppable, LockInv
  <2> QED
    BY <2>1, <2>2, <2>3, Zenon DEF LifeInv
<1>8. ASSUME NEW c \in Callers, StopServer(c) PROVE LifeInv'
  <2>1. NodeTypeOK'
    BY <1>8 DEF StopServer, lockVars, LifeInv, NodeTypeOK
  <2>2. LockInv'
    BY <1>8, Zenon DEF StopServer, lockVars, LifeInv, NodeTypeOK, LockInv, RunningIsStoppable
  <2>3. NoPanic' /\ RunningIsStoppable'
    BY <1>8, Zenon DEF StopServer, LifeInv, NoPanic, RunningIsStoppable
  <2> QED
    BY <2>1, <2>2, <2>3, Zenon DEF LifeInv
<1>9. ASSUME NEW c \in Callers, CloseStop(c) PROVE LifeInv'
  <2>1. /\ stop \in 1..starts /\ stop \notin closed /\ server = 0
        /\ pc[c] = "close" /\ writer = c
    BY <1>9 DEF CloseStop, LifeInv, NodeTypeOK, LockInv
  <2>2. panicked' = FALSE
    <3>1. panicked' = (stop \in closed \cup {0})
      BY <1>9, Zenon DEF CloseStop
    <3>2. stop # 0
      BY <2>1
    <3>3. (stop \in closed \cup {0}) = FALSE
      BY <2>1, <3>2
    <3> QED
      BY <3>1, <3>3, Zenon
  <2>3. NodeTypeOK'
    BY <1>9, <2>1, <2>2, Zenon DEF CloseStop, Leave, Release, LifeInv, NodeTypeOK
  <2>4. LockInv'
    BY <1>9, <2>1, Zenon DEF CloseStop, Leave, Release, LifeInv, NodeTypeOK, LockInv
  <2>5. NoPanic' /\ RunningIsStoppable'
    BY <1>9, <2>1, <2>2, Zenon DEF CloseStop, NoPanic, RunningIsStoppable
  <2> QED
    BY <2>3, <2>4, <2>5, Zenon DEF LifeInv
<1>10. ASSUME NEW c \in Callers, WaitReturns(c) PROVE LifeInv'
  <2>1. ch' \in [Callers -> 0..starts]
    BY <1>10 DEF WaitReturns, LifeInv, NodeTypeOK
  <2> QED
    BY <1>10, <2>1, LockStep, Zenon DEF WaitReturns, LifeInv, NodeTypeOK
<1>11. CASE UNCHANGED lifecycleVars
  BY <1>11, Zenon DEF lifecycleVars, LifeInv, NodeTypeOK, NoPanic, RunningIsStoppable, LockInv
<1> QED
  BY <1>1, <1>2, <1>3, <1>4, <1>5, <1>6, <1>7, <1>8, <1>9, <1>10, <1>11, Zenon DEF NodeNext, Step

\* It holds in every state.
LEMMA LifeSpec == NodeSpec => []LifeInv
BY LifeInit, LifeNext, PTL DEF NodeSpec

\* The fields of the node, its lock and its callers keep their types: n.server,
\* n.stop and every channel a Wait has read are nil or of some earlier Start.
THEOREM LifeTypeCorrect == NodeSpec => []NodeTypeOK
BY LifeSpec, PTL DEF LifeInv

\* However many goroutines call Start and Stop, in any order and with failures,
\* Stop never closes a nil channel or one that is closed already.
THEOREM StopNeverPanics == NodeSpec => []NoPanic
BY LifeSpec, PTL DEF LifeInv

\* n.server, when it is not nil, is an open server, and n.stop the open channel
\* of the same Start.
THEOREM RunningNodeIsStoppable == NodeSpec => []RunningIsStoppable
BY LifeSpec, PTL DEF LifeInv

-----------------------------------------------------------------------------
(* PeerConn *)

Errors == {"none", "error", "disc"}

\* Every error in protoErr is the last act of readLoop or of pingLoop.
ErrInv ==
    /\ reader \in [Ends -> {"read", "send", "done"}]
    /\ pinger \in [Ends -> {"tick", "send", "done"}]
    /\ rerr \in [Ends -> Errors] /\ protoErr \in [Ends -> Seq(Errors)]
    /\ \A e \in Ends :
          Len(protoErr[e]) <= (IF reader[e] = "done" THEN 1 ELSE 0) + (IF pinger[e] = "done" THEN 1 ELSE 0)

\* The invariant of the errors holds at the start.
LEMMA ErrInit == ConnInit => ErrInv
BY DEF ConnInit, ErrInv, Errors

\* The two ways protoErr changes, and the steps that leave it alone.
LEMMA Untouched ==
    ASSUME ErrInv, UNCHANGED <<reader, pinger, rerr, protoErr>> PROVE ErrInv'
BY Zenon DEF ErrInv

\* A goroutine that puts its error into protoErr and ends keeps ErrInv.
LEMMA Sent ==
    ASSUME ErrInv, NEW e \in Ends, NEW err \in Errors,
           protoErr' = [protoErr EXCEPT ![e] = Append(@, err)], rerr' = rerr,
           \/ /\ reader[e] # "done" /\ reader' = [reader EXCEPT ![e] = "done"] /\ pinger' = pinger
           \/ /\ pinger[e] # "done" /\ pinger' = [pinger EXCEPT ![e] = "done"] /\ reader' = reader
    PROVE  ErrInv'
<1>1. protoErr[e] \in Seq(Errors) /\ Len(protoErr[e]) \in Nat
  BY DEF ErrInv
<1>2. Append(protoErr[e], err) \in Seq(Errors) /\ Len(Append(protoErr[e], err)) = Len(protoErr[e]) + 1
  BY <1>1
<1>3. protoErr' \in [Ends -> Seq(Errors)]
  BY <1>2, Zenon DEF ErrInv
<1>4. ASSUME NEW f \in Ends
      PROVE  Len(protoErr'[f]) <= (IF reader'[f] = "done" THEN 1 ELSE 0)
                                    + (IF pinger'[f] = "done" THEN 1 ELSE 0)
  <2>1. CASE f = e
    BY <1>1, <1>2, <2>1 DEF ErrInv
  <2>2. CASE f # e
    BY <2>2, Zenon DEF ErrInv
  <2> QED BY <2>1, <2>2, Zenon
<1> QED BY <1>3, <1>4, Zenon DEF ErrInv

\* run taking an error out of protoErr keeps ErrInv.
LEMMA Taken ==
    ASSUME ErrInv, NEW e \in Ends, RunError(e) PROVE ErrInv'
<1>1. protoErr[e] \in Seq(Errors) /\ protoErr[e] # <<>> /\ Len(protoErr[e]) \in Nat
  BY DEF ErrInv, RunError
<1>2. Tail(protoErr[e]) \in Seq(Errors) /\ Len(Tail(protoErr[e])) = Len(protoErr[e]) - 1
  BY <1>1
<1>3. /\ protoErr' = [protoErr EXCEPT ![e] = Tail(protoErr[e])]
      /\ reader' = reader /\ pinger' = pinger /\ rerr' = rerr
  BY Zenon DEF RunError
<1>4. ASSUME NEW f \in Ends
      PROVE  Len(protoErr'[f]) <= (IF reader[f] = "done" THEN 1 ELSE 0)
                                    + (IF pinger[f] = "done" THEN 1 ELSE 0)
  <2>1. CASE f = e
    BY <1>1, <1>2, <1>3, <2>1 DEF ErrInv
  <2>2. CASE f # e
    BY <1>3, <2>2, Zenon DEF ErrInv
  <2> QED BY <2>1, <2>2, Zenon
<1> QED BY <1>2, <1>3, <1>4, Zenon DEF ErrInv

\* readLoop gets to its error, and pingLoop leaves without one or gets to it.
LEMMA ReaderFails ==
    ASSUME ErrInv, NEW e \in Ends, reader[e] = "read",
           reader' = [reader EXCEPT ![e] = "send"], rerr' \in [Ends -> Errors],
           UNCHANGED <<pinger, protoErr>>
    PROVE  ErrInv'
BY Zenon DEF ErrInv

\* A step of pingLoop that sends no error keeps ErrInv.
LEMMA PingerMoves ==
    ASSUME ErrInv, NEW e \in Ends, pinger[e] = "tick", NEW k \in {"tick", "send", "done"},
           pinger' = [pinger EXCEPT ![e] = k], UNCHANGED <<reader, rerr, protoErr>>
    PROVE  ErrInv'
<1>1. ASSUME NEW f \in Ends
      PROVE  Len(protoErr[f]) <= (IF reader[f] = "done" THEN 1 ELSE 0)
                                    + (IF pinger'[f] = "done" THEN 1 ELSE 0)
  BY DEF ErrInv
<1> QED BY <1>1, Zenon DEF ErrInv

\* Every step of the two ends keeps it.
LEMMA ErrNext == ErrInv /\ [ConnNext]_endVars => ErrInv'
<1> SUFFICES ASSUME ErrInv, [ConnNext]_endVars PROVE ErrInv'
  BY Zenon
<1>1. ASSUME NEW e \in Ends, RunStep(e) \/ Disconnect(e) \/ Pong(e) PROVE ErrInv'
  <2>1. CASE RunError(e)
    BY <2>1, Taken, Zenon
  <2>2. CASE ~RunError(e)
    BY <1>1, <2>2, Untouched, Zenon DEF RunStep, Close, RunEnds, Disconnect, Pong
  <2> QED BY <2>1, <2>2, Zenon
<1>2. ASSUME NEW e \in Ends, ReadFails(e) PROVE ErrInv'
  <2>1. rerr' \in [Ends -> Errors]
    BY <1>2, Zenon DEF ReadFails, ErrInv, Errors
  <2> QED BY <1>2, <2>1, ReaderFails, Zenon DEF ReadFails
<1>3. ASSUME NEW e \in Ends, Handle(e) PROVE ErrInv'
  <2>1. CASE UNCHANGED <<reader, rerr>>
    BY <1>3, <2>1, Untouched, Zenon DEF Handle
  <2>2. CASE ~UNCHANGED <<reader, rerr>>
    <3>1. /\ reader[e] = "read" /\ reader' = [reader EXCEPT ![e] = "send"]
          /\ \E err \in {"disc", "error"} : rerr' = [rerr EXCEPT ![e] = err]
          /\ UNCHANGED <<pinger, protoErr>>
      BY <1>3, <2>2, Zenon DEF Handle
    <3>2. rerr' \in [Ends -> Errors]
      BY <3>1, Zenon DEF ErrInv, Errors
    <3> QED BY <3>1, <3>2, ReaderFails, Zenon
  <2> QED BY <2>1, <2>2, Zenon
<1>4. ASSUME NEW e \in Ends, ReaderSends(e) PROVE ErrInv'
  <2>1. rerr[e] \in Errors
    BY Zenon DEF ErrInv
  <2> QED BY <1>4, <2>1, Sent, Zenon DEF ReaderSends
<1>5. ASSUME NEW e \in Ends, PingerSends(e) PROVE ErrInv'
  <2>1. "error" \in Errors
    BY Zenon DEF Errors
  <2> QED BY <1>5, <2>1, Sent, Zenon DEF PingerSends
<1>6. ASSUME NEW e \in Ends, PingerReturns(e) \/ Ping(e) PROVE ErrInv'
  BY <1>6, PingerMoves, Zenon DEF PingerReturns, Ping
<1>7. CASE Break \/ UNCHANGED endVars \/ \E m \in Foreign : SendForeign(m)
  BY <1>7, Untouched, Zenon DEF Break, SendForeign, endVars
<1> QED
  BY <1>1, <1>2, <1>3, <1>4, <1>5, <1>6, <1>7, Zenon DEF ConnNext, RunStep, ReadStep, PingStep

\* An end that runs a protocol has room for two errors.
LEMMA RoomForTwo ==
    ASSUME NEW e, running(e) # {} PROVE Capacity(e) = 2
<1>1. running(e) = {Head(Protocols[e])}
  BY Zenon DEF running, matchProtocols
<1>2. Cardinality(running(e)) = 1
  BY <1>1, FS_Singleton, Zenon
<1> QED BY <1>2 DEF Capacity

\* The goroutines of an end that may still send an error are at most two.
LEMMA SendersCounted ==
    ASSUME NEW e \in Ends
    PROVE  \E n \in 0..2 :
             /\ Cardinality({g \in {"reader", "pinger"} : Sending(g, e)}) = n
             /\ reader[e] = "done" \/ pinger[e] = "done" => n <= 1
             /\ reader[e] = "done" /\ pinger[e] = "done" => n = 0
<1> DEFINE S == {g \in {"reader", "pinger"} : Sending(g, e)}
<1>1. /\ "reader" \in S <=> reader[e] = "send"
      /\ "pinger" \in S <=> pinger[e] = "send"
      /\ S \subseteq {"reader", "pinger"}
  BY Zenon DEF Sending
<1> HIDE DEF S
<1>2. Cardinality({}) = 0 /\ Cardinality({"reader"}) = 1 /\ Cardinality({"pinger"}) = 1
  BY FS_EmptySet, FS_Singleton, Zenon
<1>3. Cardinality({"reader", "pinger"}) = 2
  <2>1. IsFiniteSet({"reader"}) /\ "pinger" \notin {"reader"}
    BY FS_Singleton, Zenon
  <2>2. Cardinality({"reader"} \cup {"pinger"}) = Cardinality({"reader"}) + 1
    BY <2>1, FS_AddElement, Zenon
  <2>3. {"reader"} \cup {"pinger"} = {"reader", "pinger"}
    BY Zenon
  <2> QED BY <1>2, <2>2, <2>3
<1>4. S \in {{}, {"reader"}, {"pinger"}, {"reader", "pinger"}}
  BY <1>1, Zenon
<1>5. \E n \in 0..2 : /\ Cardinality(S) = n
                      /\ reader[e] = "done" \/ pinger[e] = "done" => n <= 1
                      /\ reader[e] = "done" /\ pinger[e] = "done" => n = 0
  <2>1. CASE S = {}
    BY <1>1, <1>2, <2>1
  <2>2. CASE S = {"reader"}
    BY <1>1, <1>2, <2>2
  <2>3. CASE S = {"pinger"}
    BY <1>1, <1>2, <2>3
  <2>4. CASE S = {"reader", "pinger"}
    BY <1>1, <1>3, <2>4
  <2> QED BY <1>4, <2>1, <2>2, <2>3, <2>4, Zenon
<1> QED BY <1>5, Zenon DEF S

\* readLoop and pingLoop never block on protoErr once run has stopped reading it,
\* whatever the ends send, whichever end disconnects and wherever the stream
\* breaks, at every end that runs a protocol with the other.
THEOREM RoomForErrors == ConnSpec => []ErrorsHaveRoom
<1>1. ErrInv => ErrorsHaveRoom
  <2> SUFFICES ASSUME ErrInv, NEW e \in Ends, running(e) # {}
               PROVE  Len(protoErr[e]) + Cardinality({g \in {"reader", "pinger"} : Sending(g, e)})
                        <= Capacity(e)
    BY Zenon DEF ErrorsHaveRoom
  <2> DEFINE k == Len(protoErr[e])
  <2>0. k \in Nat
    BY DEF ErrInv
  <2>1. k <= (IF reader[e] = "done" THEN 1 ELSE 0) + (IF pinger[e] = "done" THEN 1 ELSE 0)
    BY Zenon DEF ErrInv
  <2> HIDE DEF k
  <2>2. PICK n \in 0..2 :
          /\ Cardinality({g \in {"reader", "pinger"} : Sending(g, e)}) = n
          /\ reader[e] = "done" \/ pinger[e] = "done" => n <= 1
          /\ reader[e] = "done" /\ pinger[e] = "done" => n = 0
    BY SendersCounted, Zenon
  <2>3. k + n <= 2
    <3>1. CASE reader[e] = "done" /\ pinger[e] = "done"
      BY <2>0, <2>1, <2>2, <3>1
    <3>2. CASE reader[e] # "done" /\ pinger[e] # "done"
      BY <2>0, <2>1, <2>2, <3>2
    <3>3. CASE reader[e] = "done" /\ pinger[e] # "done"
      BY <2>0, <2>1, <2>2, <3>3
    <3>4. CASE reader[e] # "done" /\ pinger[e] = "done"
      BY <2>0, <2>1, <2>2, <3>4
    <3> QED BY <3>1, <3>2, <3>3, <3>4, Zenon
  <2>4. Capacity(e) = 2
    BY RoomForTwo, Zenon
  <2> QED BY <2>2, <2>3, <2>4, Zenon DEF k
<1> QED BY <1>1, ErrInit, ErrNext, PTL DEF ConnSpec

-----------------------------------------------------------------------------
(* Peering *)

\* A stream that is open, or whose Protocol.Run is not over, has a remote.
RemoteInv ==
    /\ \A c \in Conns : cpc[c] # "free" \/ proto[c] # "none" => crem[c] \in Remotes
    /\ \A h \in Handlers : hpc[h] # "free" => hrem[h] \in Remotes

\* A handler in its loop has registered its remote with the downloader.
LoopIsRegistered == \A h \in Handlers : hpc[h] = "loop" => hrem[h] \in dlPeers

\* ManagerAgreesWithDownloader, one remote at a time.
Agreement ==
    \A r \in Remotes :
        r \in pmPeers <=> r \in dlPeers \/ \E h \in Handlers : hpc[h] = "register" /\ hrem[h] = r

ConnInv == PeeringTypeOK /\ RemoteInv /\ NoStaleEntry
HandlerInv == LoopIsRegistered /\ OneHandlerPerRemote /\ Agreement
PeersInv == ConnInv /\ HandlerInv

\* The invariant of the peer tables holds at the start.
LEMMA PeersInit == PeeringInit => PeersInv
BY PeeringAssumption DEF PeeringInit, PeersInv, ConnInv, HandlerInv, PeeringTypeOK, RemoteInv, NoStaleEntry,
   LoopIsRegistered, OneHandlerPerRemote, Agreement

\* A step that leaves the handlers and their two tables alone.
LEMMA HandlersUntouched ==
    ASSUME HandlerInv, UNCHANGED managerVars PROVE HandlerInv'
BY Zenon DEF HandlerInv, managerVars, LoopIsRegistered, OneHandlerPerRemote, Agreement

\* A step that leaves the streams and Server.Peers alone.
LEMMA ConnsUntouched ==
    ASSUME UNCHANGED connVars, NoStaleEntry PROVE NoStaleEntry'
BY Zenon DEF connVars, NoStaleEntry

\* Steps of the server.
LEMMA ServerStep ==
    ASSUME PeersInv, NEW r \in Remotes, NEW c \in Conns,
           Discover(r) \/ Accept(r) \/ AddPeer(c) \/ HandshakeFails(c) \/ RunReturns(c) \/ DeletePeer(c)
    PROVE  PeersInv'
<1> USE PeeringAssumption DEF PeersInv, ConnInv, PeeringTypeOK, RemoteInv, NoStaleEntry, managerVars
<1>1. CASE Discover(r) \/ Accept(r)
  <2>1. PICK d \in Conns, i \in BOOLEAN :
            FreeConn(d) /\ Open(d, r, i) /\ UNCHANGED <<table, proto, managerVars>> /\ dial' \in {d, dial}
    BY <1>1, Zenon DEF Discover, Accept
  <2>2. PeeringTypeOK' /\ RemoteInv'
    BY <2>1 DEF FreeConn, Open
  <2>3. NoStaleEntry'
    BY <2>1 DEF FreeConn, Open
  <2> QED
    BY <2>1, <2>2, <2>3, HandlersUntouched, Zenon
<1>2. CASE AddPeer(c)
  <2>1. PeeringTypeOK' /\ RemoteInv' /\ NoStaleEntry'
    BY <1>2 DEF AddPeer
  <2> QED
    BY <1>2, <2>1, HandlersUntouched, Zenon DEF AddPeer
<1>3. CASE HandshakeFails(c)
  <2>1. PeeringTypeOK' /\ RemoteInv' /\ NoStaleEntry'
    BY <1>3 DEF HandshakeFails, CloseConn
  <2> QED
    BY <1>3, <2>1, HandlersUntouched, Zenon DEF HandshakeFails
<1>4. CASE RunReturns(c)
  <2>1. PeeringTypeOK' /\ RemoteInv' /\ NoStaleEntry'
    BY <1>4 DEF RunReturns
  <2> QED
    BY <1>4, <2>1, HandlersUntouched, Zenon DEF RunReturns
<1>5. CASE DeletePeer(c)
  <2>1. PeeringTypeOK' /\ RemoteInv'
    BY <1>5, Zenon DEF DeletePeer, CloseConn
  <2>2. NoStaleEntry'
    BY <1>5 DEF DeletePeer, CloseConn
  <2> QED
    BY <1>5, <2>1, <2>2, HandlersUntouched, Zenon DEF DeletePeer
<1> QED
  BY <1>1, <1>2, <1>3, <1>4, <1>5, Zenon

\* A new proton stream, opened by Protocol.Run or by the remote.
LEMMA NewHandlerStep ==
    ASSUME PeersInv, NEW h \in Handlers, NEW r \in Remotes, NewHandler(h, r),
           UNCHANGED <<connVars, pmPeers, dlPeers>>,
           proto' \in [Conns -> {"none", "start", "stream"}],
           \A d \in Conns : proto'[d] # "none" => proto[d] # "none"
    PROVE  PeersInv'
<1> USE DEF PeersInv, ConnInv, PeeringTypeOK, RemoteInv
<1>1. PeeringTypeOK' /\ RemoteInv'
  BY Zenon DEF NewHandler, connVars
<1>2. HandlerInv'
  BY DEF NewHandler, HandlerInv, LoopIsRegistered, OneHandlerPerRemote, Agreement
<1> QED
  BY <1>1, <1>2, ConnsUntouched, Zenon

\* Steps of Protocol.Run.
LEMMA ProtocolStep ==
    ASSUME PeersInv, NEW c \in Conns, ProtocolRun(c) \/ OpenStream(c)
    PROVE  PeersInv'
<1> USE DEF PeersInv, ConnInv, PeeringTypeOK, RemoteInv
<1>1. CASE ProtocolRun(c)
  <2>1. PeeringTypeOK' /\ RemoteInv'
    BY <1>1, Zenon DEF ProtocolRun, EndProto, connVars, managerVars
  <2> QED
    BY <1>1, <2>1, HandlersUntouched, ConnsUntouched, Zenon DEF ProtocolRun
<1>2. CASE OpenStream(c)
  <2>1. /\ proto' \in [Conns -> {"none", "start", "stream"}] /\ crem[c] \in Remotes
        /\ \A d \in Conns : proto'[d] # "none" => proto[d] # "none"
        /\ UNCHANGED <<connVars, pmPeers, dlPeers>>
    BY <1>2, Zenon DEF OpenStream, EndProto
  <2>2. CASE \E h \in Handlers : NewHandler(h, crem[c])
    BY <2>1, <2>2, NewHandlerStep, Zenon
  <2>3. CASE UNCHANGED <<hpc, hrem>>
    <3>1. PeeringTypeOK' /\ RemoteInv'
      BY <2>1, <2>3, Zenon DEF connVars
    <3> QED
      BY <2>1, <2>3, <3>1, HandlersUntouched, ConnsUntouched, Zenon DEF managerVars
  <2> QED
    BY <1>2, <2>2, <2>3, Zenon DEF OpenStream
<1> QED
  BY <1>1, <1>2, Zenon

\* Steps of ProtocolManager.handle.
LEMMA HandleStep ==
    ASSUME PeersInv, NEW h \in Handlers,
           Handshake(h) \/ CheckPeer(h) \/ InsertPeer(h) \/ RegisterPeer(h) \/ HandleReturns(h)
    PROVE  PeersInv'
<1> USE DEF PeersInv, ConnInv, HandlerInv, PeeringTypeOK, RemoteInv
<1>1. ASSUME UNCHANGED <<connVars, proto, pmPeers, dlPeers>>,
             \/ /\ hpc' = [hpc EXCEPT ![h] = "free"] /\ hrem' = [hrem EXCEPT ![h] = None]
             \/ (\E k \in {"check", "insert"} : hpc' = [hpc EXCEPT ![h] = k]) /\ UNCHANGED hrem,
             hpc[h] # "free", hpc[h] = "register" => hrem[h] \in dlPeers
      PROVE  PeersInv'
  <2>1. PeeringTypeOK' /\ RemoteInv'
    BY <1>1, Zenon DEF connVars
  <2>2. LoopIsRegistered' /\ OneHandlerPerRemote'
    BY <1>1 DEF LoopIsRegistered, OneHandlerPerRemote
  <2>3. Agreement'
    BY <1>1 DEF Agreement
  <2> QED
    BY <1>1, <2>1, <2>2, <2>3, ConnsUntouched, Zenon
<1>2. CASE Handshake(h)
  BY <1>1, <1>2, Zenon DEF Handshake, HandlerReturns
<1>3. CASE CheckPeer(h)
  BY <1>1, <1>3, Zenon DEF CheckPeer, HandlerReturns
<1>4. CASE InsertPeer(h)
  <2>1. PeeringTypeOK' /\ RemoteInv'
    BY <1>4, Zenon DEF InsertPeer, connVars
  <2>2. LoopIsRegistered' /\ OneHandlerPerRemote'
    BY <1>4, Zenon DEF InsertPeer, LoopIsRegistered, OneHandlerPerRemote
  <2>3. Agreement'
    BY <1>4 DEF InsertPeer, Agreement
  <2> QED
    BY <1>4, <2>1, <2>2, <2>3, ConnsUntouched, Zenon DEF InsertPeer
<1>5. CASE RegisterPeer(h) /\ hrem[h] \in dlPeers
  BY <1>1, <1>5, Zenon DEF RegisterPeer, HandlerReturns
<1>6. CASE RegisterPeer(h) /\ hrem[h] \notin dlPeers
  <2>1. /\ hpc[h] = "register" /\ dlPeers' = dlPeers \cup {hrem[h]}
        /\ hpc' = [hpc EXCEPT ![h] = "loop"] /\ UNCHANGED <<connVars, proto, pmPeers, hrem>>
    BY <1>6, Zenon DEF RegisterPeer
  <2>2. PeeringTypeOK' /\ RemoteInv'
    BY <2>1, Zenon DEF connVars
  <2>3. LoopIsRegistered' /\ OneHandlerPerRemote'
    BY <1>6, <2>1, Zenon DEF LoopIsRegistered, OneHandlerPerRemote
  <2>4. Agreement'
    BY <2>1 DEF Agreement
  <2> QED
    BY <2>1, <2>2, <2>3, <2>4, ConnsUntouched, Zenon
<1>7. CASE HandleReturns(h)
  BY <1>1, <1>7, Zenon DEF HandleReturns, HandlerReturns
<1> QED
  BY <1>2, <1>3, <1>4, <1>5, <1>6, <1>7, Zenon

\* Every step on the peer tables keeps it.
LEMMA PeersNext == PeersInv /\ [PeeringNext]_peeringVars => PeersInv'
<1> SUFFICES ASSUME PeersInv, [PeeringNext]_peeringVars PROVE PeersInv'
  BY Zenon
<1>1. ASSUME NEW r \in Remotes, Discover(r) \/ Accept(r) PROVE PeersInv'
  <2>1. PICK c \in Conns : TRUE
    BY <1>1, Zenon DEF Discover, Accept
  <2> QED
    BY <1>1, ServerStep, Zenon
<1>2. ASSUME NEW c \in Conns, AddPeer(c) \/ HandshakeFails(c) \/ RunReturns(c) \/ DeletePeer(c) PROVE PeersInv'
  <2>1. PICK r \in Remotes : TRUE
    BY <1>2, Zenon DEF PeersInv, ConnInv, RemoteInv, AddPeer, HandshakeFails, RunReturns, DeletePeer
  <2> QED
    BY <1>2, ServerStep, Zenon
<1>3. ASSUME NEW c \in Conns, ProtocolRun(c) \/ OpenStream(c) PROVE PeersInv'
  BY <1>3, ProtocolStep, Zenon
<1>4. ASSUME NEW r \in Remotes, AcceptStream(r) PROVE PeersInv'
  <2>1. PICK h \in Handlers : NewHandler(h, r)
    BY <1>4, Zenon DEF AcceptStream
  <2>2. UNCHANGED <<connVars, proto, pmPeers, dlPeers>> /\ proto \in [Conns -> {"none", "start", "stream"}]
    BY <1>4, Zenon DEF AcceptStream, PeersInv, ConnInv, PeeringTypeOK
  <2> QED
    BY <2>1, <2>2, NewHandlerStep, Zenon
<1>5. CASE UNCHANGED peeringVars
  BY <1>5, HandlersUntouched, Zenon DEF peeringVars, connVars, managerVars, PeersInv, ConnInv, PeeringTypeOK, RemoteInv, NoStaleEntry
<1> QED
  BY <1>1, <1>2, <1>3, <1>4, <1>5, HandleStep, Zenon DEF PeeringNext

\* It holds in every state.
LEMMA PeersSpec == PeeringSpec => []PeersInv
BY PeersInit, PeersNext, PTL DEF PeeringSpec

\* The three tables and the goroutines keep their types.
THEOREM PeersTypeCorrect == PeeringSpec => []PeeringTypeOK
BY PeersSpec, PTL DEF PeersInv, ConnInv

\* Server.Peers never keeps an entry for a stream whose runPeer is over, for any
\* number of streams to the same remote.
THEOREM EntriesAreLive == PeeringSpec => []NoStaleEntry
BY PeersSpec, PTL DEF PeersInv, ConnInv

\* However many streams a remote opens, one handler at most serves it.
THEOREM SingleHandler == PeeringSpec => []OneHandlerPerRemote
BY PeersSpec, PTL DEF PeersInv, HandlerInv

\* pm.peers is what the downloader knows and what is about to be registered.
THEOREM TablesAgree == PeeringSpec => []ManagerAgreesWithDownloader
<1>1. PeersInv => ManagerAgreesWithDownloader
  BY DEF PeersInv, ConnInv, HandlerInv, PeeringTypeOK, RemoteInv, Agreement, ManagerAgreesWithDownloader
<1> QED
  BY <1>1, PeersSpec, PTL

=============================================================================
