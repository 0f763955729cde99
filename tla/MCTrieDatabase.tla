--------------------------- MODULE MCTrieDatabase ---------------------------
(***************************************************************************)
(* Two state tries that share a node: r1 is an account leaf whose storage  *)
(* root s has the node b twice, r2 has b inside it.  Sizes are those of a  *)
(* program with integers of two bits in place of 16: adding s overflows,   *)
(* and the size of r2 is truncated.                                        *)
(***************************************************************************)
EXTENDS TrieDatabase

CONSTANTS b, s, r1, r2

MCNodes == {b, s, r1, r2}
MCRoots == {r1, r2}
MCHeight == [h \in MCNodes |-> CASE h = b -> 0 [] h = r1 -> 2 [] OTHER -> 1]
MCKids == [h \in MCNodes |-> CASE h = s -> <<b, b>> [] h = r2 -> <<b>> [] OTHER -> << >>]
MCRefs == [h \in MCNodes |-> IF h = r1 THEN {s} ELSE {}]
MCBlobSize == [h \in MCNodes |-> CASE h = b -> 1 [] h = s -> 3 [] h = r1 -> 2 [] h = r2 -> 6]
MCKeysOf == [r \in MCRoots |-> IF r = r1 THEN {"key"} ELSE {}]
MCLimits == {0, 7}

=============================================================================
