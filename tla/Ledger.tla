------------------------------- MODULE Ledger -------------------------------
(***************************************************************************)
(* What the chain promises to the rest of the node while nobody rewinds    *)
(* it: the canonical blocks form a ledger that only grows, each new block  *)
(* on top of one that is there, and the head moves only to blocks of the   *)
(* ledger.  BlockChain implements it with its writes to the store, and     *)
(* Downloader with the reduced InsertChain that its fetchers run.          *)
(***************************************************************************)
CONSTANTS
    Genesis,   \* the block that needs no other
    Parent     \* the block each one builds on

VARIABLES
    ledger,    \* the canonical blocks
    head       \* the block the chain calls its head

Fits(b) == b = Genesis \/ Parent[b] \in ledger

\* Any ledger a database may hold; an empty one has no head yet.
Init ==
    /\ \A b \in ledger : Fits(b)
    /\ ledger # {} => head \in ledger

Extend ==
    /\ \E b \in ledger' \ ledger : Fits(b) /\ ledger' = ledger \cup {b}
    /\ UNCHANGED head

\* Overlapping inserts may also move it back.
MoveHead ==
    /\ head' \in ledger
    /\ UNCHANGED ledger

Spec == Init /\ [][Extend \/ MoveHead]_<<ledger, head>>

=============================================================================
