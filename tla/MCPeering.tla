----------------------------- MODULE MCPeering -----------------------------
(* An instance of Peering for TLC. *)
EXTENDS Peering, TLC

CONSTANTS r1, r2, c1, c2, h1, h2

TwoRemotes == {r1, r2}
TwoConns == {c1, c2}
TwoHandlers == {h1, h2}

\* Remotes, conns and handlers are interchangeable.
Symmetry == Permutations(TwoRemotes) \cup Permutations(TwoConns) \cup Permutations(TwoHandlers)
=============================================================================
