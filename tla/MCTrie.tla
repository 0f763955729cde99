------------------------------- MODULE MCTrie -------------------------------
(* A small instance of Trie: nibbles in base 4, four keys, one a prefix of another. *)
EXTENDS Trie

CONSTANTS small, small2, large

\* Nibbles 1 2, 1 2 0 1, 1 3 and 2 1
MCKeys == {<<6>>, <<6, 1>>, <<7>>, <<9>>}
MCValuesOf == [k \in Keys |-> CASE k = <<6>> -> {small} [] k = <<6, 1>> -> {small, large}
                                [] k = <<7>> -> {small2} [] k = <<9>> -> {large}]
MCValueSize == [v \in {small, small2, large} |-> IF v = large THEN 8 ELSE 1]

=============================================================================
