------------------------------ MODULE PeerConn ------------------------------
(***************************************************************************)
(* The life of one p2p connection, at both of its ends: Peer.run, readLoop *)
(* and pingLoop (p2p/peer.go) over a ProtoRW (p2p/conn.go).                *)
(*                                                                         *)
(* libp2p's stream.Close closes the writing side only, so the readLoop of  *)
(* an end that has closed goes on until the other end closes too.  WriteMsg*)
(* ignores the error of Flush; the bufio.Writer keeps it, and the next     *)
(* write returns it.                                                       *)
(***************************************************************************)
EXTENDS Naturals, Sequences, FiniteSets, Functions

CONSTANTS
    Protocols,      \* the protocols of each end, in its order; a name stands for name and version
    Disconnecting,  \* ends on which some goroutine may call Disconnect
    Foreign,        \* messages that this code never sends but handles
    MaxInFlight     \* bound on the messages in one direction, and on pending pongs

Ends == {"A", "B"}
Other(e) == CHOOSE o \in Ends : o # e

ASSUME ConnAssumption ==
    /\ DOMAIN Protocols = Ends /\ Disconnecting \subseteq Ends
    /\ Foreign \subseteq {"disc", "unknown"} /\ MaxInFlight \in Nat \ {0}

VARIABLES
    run,        \* control of Peer.run; p.closed is closed once it left "loop"
    reason,     \* why it left: an ordinary error or a DiscReason
    reader, rerr,   \* control of readLoop and the error it sends
    pinger,     \* control of pingLoop
    protoErr,   \* buffered errors
    pongs,      \* goroutines about to send a pong
    wmuHeld,    \* ProtoRW.wmu is held for good
    werr,       \* the sticky error of the bufio.Writer
    out, eof,   \* messages on their way from an end; its writing side is closed
    broken,     \* the connection is lost
    foreign     \* foreign messages still to come

endVars == <<run, reason, reader, rerr, pinger, protoErr, pongs, wmuHeld, werr, out, eof,
             broken, foreign>>
wire == <<out, eof, werr, wmuHeld, broken, foreign>>

ConnInit ==
    /\ run = [e \in Ends |-> "loop"] /\ reason = [e \in Ends |-> "none"]
    /\ reader = [e \in Ends |-> "read"] /\ rerr = [e \in Ends |-> "none"]
    /\ pinger = [e \in Ends |-> "tick"]
    /\ protoErr = [e \in Ends |-> <<>>] /\ pongs = [e \in Ends |-> 0]
    /\ wmuHeld = [e \in Ends |-> FALSE] /\ werr = [e \in Ends |-> FALSE]
    /\ out = [e \in Ends |-> <<>>] /\ eof = [e \in Ends |-> FALSE]
    /\ broken = FALSE /\ foreign = Foreign

\* matchProtocols: `continue outer` stands outside the if, so every capability of
\* the remote is compared with the first local protocol only.
matchProtocols(protocols, caps) ==
    {cap \in Range(caps) : protocols # <<>> /\ cap = Head(protocols)}

\* p.running: the protocols this end runs with the other.
running(e) == matchProtocols(Protocols[e], Protocols[Other(e)])

\* Mutant: room for the protocols only.
CapacityForProtocols(e) == Cardinality(running(e))

\* protoErr: make(chan error, len(matches)+1)
Capacity(e) == Cardinality(running(e)) + 1

-----------------------------------------------------------------------------
(* ProtoRW *)

\* WriteMsg when the lock is free and no earlier error sticks.
WriteMsg(e, m) ==
    /\ ~wmuHeld[e] /\ ~werr[e]
    /\ IF eof[e] \/ broken
       THEN werr' = [werr EXCEPT ![e] = TRUE] /\ UNCHANGED out
       ELSE /\ Len(out[e]) < MaxInFlight
            /\ out' = [out EXCEPT ![e] = Append(@, m)] /\ UNCHANGED werr
    /\ UNCHANGED <<eof, wmuHeld, broken, foreign>>

\* Mutant: Close forgets to close the stream.
CloseForgets(e) ==
    /\ run[e] = "close" /\ ~wmuHeld[e]
    /\ run' = [run EXCEPT ![e] = "wait"]
    /\ UNCHANGED <<reason, reader, rerr, pinger, protoErr, pongs, wire>>

\* Close(reason): it takes wmu, and for a DiscReason it calls SendItems, whose
\* WriteMsg takes wmu again.
Close(e) ==
    /\ run[e] = "close" /\ ~wmuHeld[e]
    /\ IF reason[e] = "disc"
       THEN /\ wmuHeld' = [wmuHeld EXCEPT ![e] = TRUE]
            /\ run' = [run EXCEPT ![e] = "stuck"] /\ UNCHANGED eof
       ELSE /\ eof' = [eof EXCEPT ![e] = TRUE]
            /\ run' = [run EXCEPT ![e] = "wait"] /\ UNCHANGED wmuHeld
    /\ UNCHANGED <<reason, reader, rerr, pinger, protoErr, pongs, werr, out, broken, foreign>>

-----------------------------------------------------------------------------
(* Peer.run *)

\* An error from protoErr: leave the loop and close p.closed.
RunError(e) ==
    /\ run[e] = "loop" /\ protoErr[e] # <<>>
    /\ reason' = [reason EXCEPT ![e] = Head(protoErr[e])]
    /\ protoErr' = [protoErr EXCEPT ![e] = Tail(@)]
    /\ run' = [run EXCEPT ![e] = "close"]
    /\ UNCHANGED <<reader, rerr, pinger, pongs, wire>>

\* Disconnect hands its reason over; run wraps it in an ordinary error.
Disconnect(e) ==
    /\ run[e] = "loop" /\ e \in Disconnecting
    /\ reason' = [reason EXCEPT ![e] = "error"]
    /\ run' = [run EXCEPT ![e] = "close"]
    /\ UNCHANGED <<reader, rerr, pinger, protoErr, pongs, wire>>

\* p.wg.Wait()
RunEnds(e) ==
    /\ run[e] = "wait" /\ reader[e] = "done" /\ pinger[e] = "done"
    /\ run' = [run EXCEPT ![e] = "ended"]
    /\ UNCHANGED <<reason, reader, rerr, pinger, protoErr, pongs, wire>>

-----------------------------------------------------------------------------
(* readLoop, handle and pingLoop *)

\* ReadMsg fails when the connection is lost, and at the end of the stream.
ReadFails(e) ==
    /\ reader[e] = "read"
    /\ broken \/ (out[Other(e)] = <<>> /\ eof[Other(e)])
    /\ reader' = [reader EXCEPT ![e] = "send"]
    /\ rerr' = [rerr EXCEPT ![e] = "error"]
    /\ UNCHANGED <<run, reason, pinger, protoErr, pongs, wire>>

\* A message: a ping starts a goroutine, a discMsg and an unknown one are errors.
Handle(e) ==
    /\ reader[e] = "read" /\ ~broken /\ out[Other(e)] # <<>>
    /\ out' = [out EXCEPT ![Other(e)] = Tail(@)]
    /\ LET m == Head(out[Other(e)])
       IN  CASE m = "ping" -> /\ pongs' = [pongs EXCEPT ![e] = @ + 1]
                              /\ UNCHANGED <<reader, rerr>>
             [] m = "pong" -> UNCHANGED <<pongs, reader, rerr>>
             [] OTHER -> /\ reader' = [reader EXCEPT ![e] = "send"]
                         /\ rerr' = [rerr EXCEPT ![e] = IF m = "disc" THEN "disc" ELSE "error"]
                         /\ UNCHANGED pongs
    /\ UNCHANGED <<run, reason, pinger, protoErr, wmuHeld, werr, eof, broken, foreign>>

\* p.protoErr <- err
ReaderSends(e) ==
    /\ reader[e] = "send" /\ Len(protoErr[e]) < Capacity(e)
    /\ protoErr' = [protoErr EXCEPT ![e] = Append(@, rerr[e])]
    /\ reader' = [reader EXCEPT ![e] = "done"]
    /\ UNCHANGED <<run, reason, rerr, pinger, pongs, wire>>

\* go SendItems(p.protoRW, pongMsg); its error is dropped.
Pong(e) ==
    /\ pongs[e] > 0
    /\ pongs' = [pongs EXCEPT ![e] = @ - 1]
    /\ \/ WriteMsg(e, "pong")
       \/ ~wmuHeld[e] /\ werr[e] /\ UNCHANGED wire
    /\ UNCHANGED <<run, reason, reader, rerr, pinger, protoErr>>

\* The timer fires.  It cannot have fired again when the loop comes back to its
\* select, so the loop ends there if p.closed is closed.
Ping(e) ==
    /\ pinger[e] = "tick" /\ pongs[Other(e)] < MaxInFlight
    /\ \/ /\ WriteMsg(e, "ping")
          /\ pinger' = [pinger EXCEPT ![e] = IF run[e] = "loop" THEN "tick" ELSE "done"]
       \/ /\ ~wmuHeld[e] /\ werr[e]
          /\ pinger' = [pinger EXCEPT ![e] = "send"] /\ UNCHANGED wire
    /\ UNCHANGED <<run, reason, reader, rerr, protoErr, pongs>>

PingerSends(e) ==
    /\ pinger[e] = "send" /\ Len(protoErr[e]) < Capacity(e)
    /\ protoErr' = [protoErr EXCEPT ![e] = Append(@, "error")]
    /\ pinger' = [pinger EXCEPT ![e] = "done"]
    /\ UNCHANGED <<run, reason, reader, rerr, pongs, wire>>

\* <-p.closed
PingerReturns(e) ==
    /\ pinger[e] = "tick" /\ run[e] # "loop"
    /\ pinger' = [pinger EXCEPT ![e] = "done"]
    /\ UNCHANGED <<run, reason, reader, rerr, protoErr, pongs, wire>>

-----------------------------------------------------------------------------
(* The network, and an end that runs another version of the program *)

Break ==
    /\ ~broken /\ broken' = TRUE
    /\ UNCHANGED <<run, reason, reader, rerr, pinger, protoErr, pongs, wmuHeld, werr, out, eof,
                   foreign>>

SendForeign(m) ==
    /\ m \in foreign /\ ~broken /\ ~eof["B"] /\ Len(out["B"]) < MaxInFlight
    /\ out' = [out EXCEPT !["B"] = Append(@, m)]
    /\ foreign' = foreign \ {m}
    /\ UNCHANGED <<run, reason, reader, rerr, pinger, protoErr, pongs, wmuHeld, werr, eof, broken>>

-----------------------------------------------------------------------------
RunStep(e) == RunError(e) \/ Close(e) \/ RunEnds(e)
ReadStep(e) == ReadFails(e) \/ Handle(e) \/ ReaderSends(e)
PingStep(e) == PingerSends(e) \/ PingerReturns(e)

ConnNext ==
    \/ \E e \in Ends :
          RunStep(e) \/ ReadStep(e) \/ PingStep(e) \/ Ping(e) \/ Pong(e) \/ Disconnect(e)
    \/ Break
    \/ \E m \in Foreign : SendForeign(m)

ConnSpec == ConnInit /\ [][ConnNext]_endVars

\* Every goroutine that can go on does.  No timer needs to fire, nobody needs to
\* disconnect and nothing needs to break.
ConnFairSpec ==
    /\ ConnSpec
    /\ \A e \in Ends : /\ WF_endVars(RunStep(e)) /\ WF_endVars(ReadStep(e))
                       /\ WF_endVars(PingStep(e)) /\ WF_endVars(Pong(e))

-----------------------------------------------------------------------------
\* The goroutine is at p.protoErr <- err.
Sending(g, e) == IF g = "reader" THEN reader[e] = "send" ELSE pinger[e] = "send"

\* Once run has left its loop nobody takes errors from protoErr any more; the
\* buffer has room for every goroutine that still sends one, at every end that
\* runs a protocol.
ErrorsHaveRoom ==
    \A e \in Ends : run[e] # "loop" /\ running(e) # {} =>
        Len(protoErr[e]) + Cardinality({g \in {"reader", "pinger"} : Sending(g, e)}) <= Capacity(e)

\* When one end gives the connection up, run comes to its end on both sides: the
\* two half-closed streams end each other's readLoop.  The one exception is an end
\* that gave up because of a discMsg, whose Close waits for the lock it holds.
BothRunsEnd ==
    (\E e \in Ends : run[e] # "loop") ~>
        (\A e \in Ends : run[e] = "ended") \/ (\E e \in Ends : reason[e] = "disc")

=============================================================================
