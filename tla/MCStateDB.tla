----------------------------- MODULE MCStateDB ------------------------------
(* One account with one storage slot. *)
EXTENDS StateDB

CONSTANTS a1, k1, zero, one, code1, none

MCAmounts == {0, 1}
MCNonces == {0, 1}

=============================================================================
