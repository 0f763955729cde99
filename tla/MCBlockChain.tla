---------------------------- MODULE MCBlockChain ----------------------------
(* A small instance of BlockChain: one chain that all peers share. *)
EXTENDS BlockChain

CONSTANTS g, a1, a2, a3, r0, r1, e

\* The trie of a2 is empty; the root of a3 is not known to this node.
LinearBlocks == {g, a1, a2, a3}
LinearBatches == {<<a1>>, <<a1, a2>>, <<a2>>, <<a2, a3>>, <<a1, a3>>}

MCNumber == [b \in Blocks |-> CASE b = g -> 0 [] b = a1 -> 1 [] b = a2 -> 2 [] b = a3 -> 3]
MCParent == [b \in Blocks |-> CASE b = g -> NoHash [] b = a1 -> g [] b = a2 -> a1 [] b = a3 -> a2]
MCRoot == [b \in Blocks |-> CASE b = a2 -> e [] b = a3 -> r1 [] OTHER -> r0]

=============================================================================
