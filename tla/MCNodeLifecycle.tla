--------------------------- MODULE MCNodeLifecycle ---------------------------
(* Instances of NodeLifecycle for TLC. *)
EXTENDS NodeLifecycle

CONSTANTS main, sig, other

\* Three goroutines that use the whole interface.
AnyCallers == {main, sig, other}
AnyCalls == [c \in AnyCallers |-> {"Register", "Start", "Stop", "Wait"}]
=============================================================================
