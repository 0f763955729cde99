----------------------------- MODULE MCPeerConn -----------------------------
(* An instance of PeerConn for TLC. *)
EXTENDS PeerConn

CONSTANTS proton, chat

BothEnds == {"A", "B"}
AnyForeign == {"unknown", "disc"}

\* Both have the protocol of this node; one has another besides.
MCProtocols == [e \in BothEnds |-> IF e = "A" THEN <<proton>> ELSE <<proton, chat>>]
=============================================================================
