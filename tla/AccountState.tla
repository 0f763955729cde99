---------------------------- MODULE AccountState ----------------------------
(***************************************************************************)
(* What a StateDB promises to its callers, without caches, tries, journal  *)
(* entries or a database: a map of accounts that can be written, undone,   *)
(* committed and opened again.                                             *)
(***************************************************************************)
EXTENDS Naturals, Sequences

CONSTANTS
    Addresses,
    Accounts,    \* the accounts there can be
    Blank,       \* the account an address has that was never written
    Empty        \* the accounts that may be dropped: no nonce, balance or code

VARIABLES
    now,         \* what the accounts read as
    undo,        \* what they read as at each journal entry
    base         \* what they read as when the committed root is opened again

vars == <<now, undo, base>>

Init ==
    /\ now = [a \in Addresses |-> Blank]
    /\ undo = << >>
    /\ base = now

\* One account is written; creating the object may take an entry of its own.
Write(a) ==
    /\ now'[a] \in Accounts /\ now' = [now EXCEPT ![a] = now'[a]]
    /\ \/ undo' = undo /\ now' = now
       \/ undo' = undo \o <<now>>
       \/ undo' = undo \o <<now, now>>
    /\ UNCHANGED base

\* Writes can no longer be undone, and empty accounts may lose their storage.
Settle(gone) ==
    /\ now' = [a \in Addresses |-> IF a \in gone THEN Blank ELSE now[a]]
    /\ undo' = << >>

Finalise == /\ \E gone \in SUBSET {a \in Addresses : now[a] \in Empty} : Settle(gone)
            /\ UNCHANGED base

Commit == /\ \E gone \in SUBSET {a \in Addresses : now[a] \in Empty} : Settle(gone)
          /\ base' = now'

Revert(i) ==
    /\ now' = undo[i] /\ undo' = SubSeq(undo, 1, i - 1)
    /\ UNCHANGED base

Open == now' = base /\ undo' = << >> /\ UNCHANGED base

Next ==
    \/ \E a \in Addresses : Write(a)
    \/ Finalise
    \/ Commit
    \/ \E i \in DOMAIN undo : Revert(i)
    \/ Open

Spec == Init /\ [][Next]_vars

=============================================================================
