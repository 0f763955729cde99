------------------------------- MODULE StateDB -------------------------------
(***************************************************************************)
(* The account state above the tries: proton/core/state/statedb.go,        *)
(* state_object.go and journal.go.                                         *)
(*                                                                         *)
(* One goroutine opens a state at a root, changes accounts, undoes         *)
(* changes, and moves them through the layers: an object's dirty storage   *)
(* to pending storage (Finalise), from there into its storage trie and     *)
(* the object into the state trie (IntermediateRoot), and both tries into  *)
(* the trie database (Commit).  A trie is the map it holds and its root    *)
(* hash is that map, which is what module Trie shows of it; reads of nodes *)
(* below a committed root do not fail, which is what module TrieDatabase   *)
(* shows.  A zero storage value is the absence of the key.                 *)
(***************************************************************************)
EXTENDS Integers, Sequences

CONSTANTS
    Addresses,
    Keys,        \* storage keys
    Values,      \* storage values
    Zero,        \* common.Hash{}
    Codes,       \* contract codes
    NoCode,      \* the code of an account without any, and nil
    Amounts,     \* what is added, subtracted or set
    Nonces,
    MaxBalance,  \* bound: balances
    MaxChanges   \* bound: calls that change an account, in a behaviour

ASSUME StateAssumption ==
    /\ Zero \in Values /\ NoCode \in Codes
    /\ MaxBalance \in Nat /\ MaxChanges \in Nat
    /\ Amounts \subseteq 0 .. MaxBalance /\ Nonces \subseteq Nat

VARIABLES
    trie,         \* StateDB.trie: address -> account data, or NoAccount
    objects,      \* stateObjects
    pending,      \* stateObjectsPending
    dirty,        \* stateObjectsDirty
    journal,      \* journal.entries; its dirties are the addresses they name
    db,           \* what the trie database can resolve: storage tries and codes
    root,         \* the last committed root
    changes       \* calls that changed an account, so far

vars == <<trie, objects, pending, dirty, journal, db, root, changes>>

NoAccount == [nonce |-> -1]
emptyRoot == [k \in Keys |-> Zero]
EmptyMap == [k \in {} |-> Zero]
Account(nonce, balance, storage, code) ==
    [nonce |-> nonce, balance |-> balance, root |-> storage, codeHash |-> code]

Put(f, x, v) == [y \in DOMAIN f \cup {x} |-> IF y = x THEN v ELSE f[y]]
\* f where it is defined, else g
Over(f, g) == [x \in DOMAIN f \cup DOMAIN g |-> IF x \in DOMAIN f THEN f[x] ELSE g[x]]

-----------------------------------------------------------------------------
(* state_object.go *)

\* hasTrie: the storage trie was opened; storage is what it holds.
newObject(data) ==
    [data |-> data, storage |-> data.root, hasTrie |-> FALSE, code |-> NoCode, dirtyCode |-> FALSE,
     origin |-> EmptyMap, pending |-> EmptyMap, dirty |-> EmptyMap, deleted |-> FALSE]

empty(o) == o.data.nonce = 0 /\ o.data.balance = 0 /\ o.data.codeHash = NoCode

\* getTrie: opened at the root the object has by then
getTrie(o) == IF o.hasTrie THEN o ELSE [o EXCEPT !.hasTrie = TRUE, !.storage = o.data.root]

\* GetState and GetCommittedState: the layers in the order they are asked
GetState(o, key) ==
    CASE key \in DOMAIN o.dirty -> o.dirty[key]
      [] key \in DOMAIN o.pending \ DOMAIN o.dirty -> o.pending[key]
      [] key \in DOMAIN o.origin \ (DOMAIN o.pending \cup DOMAIN o.dirty) -> o.origin[key]
      [] OTHER -> getTrie(o).storage[key]

\* A read that reaches the trie leaves its result in originStorage.
loaded(o, key) ==
    IF key \in DOMAIN o.dirty \cup DOMAIN o.pending \cup DOMAIN o.origin THEN o
    ELSE [getTrie(o) EXCEPT !.origin = Put(@, key, getTrie(o).storage[key])]

\* Code: loaded from the database on first use
withCode(o) ==
    IF o.code = NoCode /\ o.data.codeHash \in db.codes THEN [o EXCEPT !.code = o.data.codeHash] ELSE o

\* Mutant: a value that is pending already is kept.
finaliseOnce(o) == [o EXCEPT !.pending = Over(@, o.dirty), !.dirty = EmptyMap]

finalise(o) == [o EXCEPT !.pending = Over(o.dirty, @), !.dirty = EmptyMap]

\* Mutant: the original value is not replaced.
updateTrieOldOrigin(obj) ==
    LET o == getTrie(finalise(obj))
        original(k) == IF k \in DOMAIN o.origin THEN o.origin[k] ELSE Zero
        moved == {k \in DOMAIN o.pending : o.pending[k] # original(k)}
    IN  [o EXCEPT !.storage = [k \in Keys |-> IF k \in moved THEN o.pending[k] ELSE @[k]],
                  !.pending = EmptyMap]

\* updateTrie: pending values that differ from the original ones go to the trie.
updateTrie(obj) ==
    LET o == getTrie(finalise(obj))
        original(k) == IF k \in DOMAIN o.origin THEN o.origin[k] ELSE Zero
        moved == {k \in DOMAIN o.pending : o.pending[k] # original(k)}
    IN  [o EXCEPT !.storage = [k \in Keys |-> IF k \in moved THEN o.pending[k] ELSE @[k]],
                  !.origin = Over([k \in moved |-> o.pending[k]], @),
                  !.pending = EmptyMap]

updateRoot(o) == LET u == updateTrie(o) IN [u EXCEPT !.data.root = u.storage]

-----------------------------------------------------------------------------
(* statedb.go: objects *)

\* getDeletedStateObject, for what it leaves in stateObjects
fetch(a) ==
    IF a \in DOMAIN objects \/ trie[a] = NoAccount THEN objects
    ELSE Put(objects, a, newObject(trie[a]))

createObjectChange(a) == [kind |-> "create", account |-> a]
resetObjectChange(a, prev) == [kind |-> "reset", account |-> a, prev |-> prev]
change(kind, a, prev) == [kind |-> kind, account |-> a, prev |-> prev]

\* GetOrNewStateObject and createObject: the objects and the journal after it
getOrNew(a) ==
    LET objs == fetch(a)
        entry == IF a \in DOMAIN objs THEN resetObjectChange(a, objs[a]) ELSE createObjectChange(a)
    IN  IF a \in DOMAIN objs /\ ~objs[a].deleted THEN [objects |-> objs, journal |-> journal]
        ELSE [objects |-> Put(objs, a, newObject(Account(0, 0, emptyRoot, NoCode))),
              journal |-> Append(journal, entry)]

\* The addresses in journal.dirties: resetObjectChange.dirtied is nil.
dirtied == {journal[i].account : i \in {j \in DOMAIN journal : journal[j].kind # "reset"}}

-----------------------------------------------------------------------------
(* statedb.go: changes *)

\* The object of a becomes o, with a journal entry for what it was.
Modify(a, s, o, entry) ==
    /\ changes < MaxChanges /\ changes' = changes + 1
    /\ objects' = [s.objects EXCEPT ![a] = o] /\ journal' = Append(s.journal, entry)
    /\ UNCHANGED <<trie, pending, dirty, db, root>>

\* Nothing is changed beyond what GetOrNewStateObject did.
Touch(s) ==
    /\ changes < MaxChanges /\ changes' = changes + 1
    /\ objects' = s.objects /\ journal' = s.journal
    /\ UNCHANGED <<trie, pending, dirty, db, root>>

SetBalance(a, amount) ==
    LET s == getOrNew(a)
        o == s.objects[a]
    IN  Modify(a, s, [o EXCEPT !.data.balance = amount], change("balance", a, o.data.balance))

\* AddBalance and SubBalance; callers subtract what there is.
AddBalance(a, amount) ==
    LET s == getOrNew(a)
        o == s.objects[a]
        sum == o.data.balance + amount
    IN  /\ sum \in 0 .. MaxBalance
        /\ IF amount = 0 THEN Touch(s)
           ELSE Modify(a, s, [o EXCEPT !.data.balance = sum], change("balance", a, o.data.balance))

SetNonce(a, nonce) ==
    LET s == getOrNew(a)
        o == s.objects[a]
    IN  Modify(a, s, [o EXCEPT !.data.nonce = nonce], change("nonce", a, o.data.nonce))

SetCode(a, code) ==
    LET s == getOrNew(a)
        o == withCode(s.objects[a])
    IN  Modify(a, s, [o EXCEPT !.code = code, !.data.codeHash = code, !.dirtyCode = TRUE],
               [kind |-> "code", account |-> a, prev |-> o.code, prevhash |-> o.data.codeHash])

SetState(a, key, value) ==
    LET s == getOrNew(a)
        o == loaded(s.objects[a], key)
        prev == GetState(o, key)
    IN  IF prev = value THEN Touch([s EXCEPT !.objects[a] = o])
        ELSE Modify(a, s, [o EXCEPT !.dirty = Put(@, key, value)],
                    [kind |-> "storage", account |-> a, prev |-> prev, key |-> key])

\* GetBalance leaves the object it read in stateObjects.
GetBalance(a) ==
    /\ objects' = fetch(a)
    /\ UNCHANGED <<trie, pending, dirty, journal, db, root, changes>>

\* journalEntry.revert.  The object of a change is there and not deleted: there is no case
\* for the nil pointer that getStateObject would return, and TLC would report it.
revertEntry(s, e) ==
    LET live == e.account \in DOMAIN s.objects /\ ~s.objects[e.account].deleted
    IN  CASE e.kind = "create" -> [objects |-> [x \in DOMAIN s.objects \ {e.account} |-> s.objects[x]],
                                   dirty |-> s.dirty \ {e.account}]
          [] e.kind = "reset" -> [s EXCEPT !.objects = Put(@, e.account, e.prev)]
          [] e.kind = "balance" /\ live -> [s EXCEPT !.objects[e.account].data.balance = e.prev]
          [] e.kind = "nonce" /\ live -> [s EXCEPT !.objects[e.account].data.nonce = e.prev]
          [] e.kind = "code" /\ live -> [s EXCEPT !.objects[e.account] =
                                       [@ EXCEPT !.code = e.prev, !.data.codeHash = e.prevhash, !.dirtyCode = TRUE]]
          [] e.kind = "storage" /\ live -> [s EXCEPT !.objects[e.account].dirty = Put(@, e.key, e.prev)]

\* journal.revert: the newest entry first, down to the snapshot
undone(s, entries) ==
    LET to[snapshot \in 0 .. Len(entries)] ==
            IF snapshot = Len(entries) THEN s
            ELSE revertEntry(to[snapshot + 1], entries[snapshot + 1])
    IN  to
reverted == undone([objects |-> objects, dirty |-> dirty], journal)

\* The entry point of the journal; no code of the repository calls it yet.
Revert(snapshot) ==
    /\ objects' = reverted[snapshot].objects /\ dirty' = reverted[snapshot].dirty
    /\ journal' = SubSeq(journal, 1, snapshot)
    /\ UNCHANGED <<trie, pending, db, root, changes>>

-----------------------------------------------------------------------------
(* statedb.go: from the objects to the tries *)

\* Finalise: the objects after it; the journal is cleared.
finalised(deleteEmptyObjects) ==
    [a \in DOMAIN objects |->
        IF a \notin dirtied THEN objects[a]
        ELSE IF deleteEmptyObjects /\ empty(objects[a]) THEN [objects[a] EXCEPT !.deleted = TRUE]
        ELSE finalise(objects[a])]
finalisedAddresses == dirtied \cap DOMAIN objects

Finalise(deleteEmptyObjects) ==
    /\ objects' = finalised(deleteEmptyObjects)
    /\ pending' = pending \cup finalisedAddresses
    /\ dirty' = dirty \cup finalisedAddresses
    /\ journal' = << >>
    /\ UNCHANGED <<trie, db, root, changes>>

\* IntermediateRoot: the objects and the state trie after it
rooted(deleteEmptyObjects) ==
    LET objs == finalised(deleteEmptyObjects)
        todo == pending \cup finalisedAddresses
        updated == [a \in DOMAIN objs |-> IF a \in todo /\ ~objs[a].deleted THEN updateRoot(objs[a]) ELSE objs[a]]
    IN  [objects |-> updated,
         trie |-> [a \in Addresses |-> IF a \notin todo THEN trie[a]
                                       ELSE IF updated[a].deleted THEN NoAccount ELSE updated[a].data]]

IntermediateRoot(deleteEmptyObjects) ==
    LET r == rooted(deleteEmptyObjects)
    IN  /\ objects' = r.objects /\ trie' = r.trie
        /\ pending' = {} /\ dirty' = dirty \cup finalisedAddresses /\ journal' = << >>
        /\ UNCHANGED <<db, root, changes>>

\* Mutant: objects that an earlier IntermediateRoot took up are forgotten.
CommitLatest(deleteEmptyObjects) ==
    LET r == rooted(deleteEmptyObjects)
        alive == {a \in finalisedAddresses : ~r.objects[a].deleted}
        withNewCode == {a \in alive : r.objects[a].code # NoCode /\ r.objects[a].dirtyCode}
        \* CommitTrie
        committed(o) == updateRoot(o)
    IN  /\ objects' = [a \in DOMAIN r.objects |->
                          IF a \notin alive THEN r.objects[a]
                          ELSE [committed(r.objects[a]) EXCEPT !.dirtyCode = @ /\ a \notin withNewCode]]
        /\ db' = [codes |-> db.codes \cup {r.objects[a].code : a \in withNewCode},
                  tries |-> db.tries \cup {committed(r.objects[a]).storage : a \in alive}]
        /\ trie' = r.trie /\ root' = r.trie
        /\ pending' = {} /\ dirty' = {} /\ journal' = << >> /\ UNCHANGED changes

\* Commit: codes and storage tries of the dirty objects, then the state trie
Commit(deleteEmptyObjects) ==
    LET r == rooted(deleteEmptyObjects)
        alive == {a \in dirty \cup finalisedAddresses : ~r.objects[a].deleted}
        withNewCode == {a \in alive : r.objects[a].code # NoCode /\ r.objects[a].dirtyCode}
        \* CommitTrie
        committed(o) == updateRoot(o)
    IN  /\ objects' = [a \in DOMAIN r.objects |->
                          IF a \notin alive THEN r.objects[a]
                          ELSE [committed(r.objects[a]) EXCEPT !.dirtyCode = @ /\ a \notin withNewCode]]
        /\ db' = [codes |-> db.codes \cup {r.objects[a].code : a \in withNewCode},
                  tries |-> db.tries \cup {committed(r.objects[a]).storage : a \in alive}]
        /\ trie' = r.trie /\ root' = r.trie
        /\ pending' = {} /\ dirty' = {} /\ journal' = << >> /\ UNCHANGED changes

\* New: a state is opened at the committed root; whatever was not committed is dropped.
New ==
    /\ trie' = root /\ objects' = [a \in {} |-> newObject(NoAccount)]
    /\ pending' = {} /\ dirty' = {} /\ journal' = << >>
    /\ UNCHANGED <<db, root, changes>>

Init ==
    /\ trie = [a \in Addresses |-> NoAccount] /\ root = trie
    /\ objects = [a \in {} |-> NoAccount]
    /\ pending = {} /\ dirty = {} /\ journal = << >>
    /\ db = [codes |-> {}, tries |-> {emptyRoot}] /\ changes = 0

Next ==
    \/ \E a \in Addresses :
        \/ \E n \in Amounts : SetBalance(a, n) \/ AddBalance(a, n) \/ (n > 0 /\ AddBalance(a, -n))
        \/ \E n \in Nonces : SetNonce(a, n)
        \/ \E c \in Codes : SetCode(a, c)
        \/ \E k \in Keys, v \in Values : SetState(a, k, v)
        \/ GetBalance(a)
    \/ \E i \in 0 .. Len(journal) - 1 : Revert(i)
    \/ \E d \in BOOLEAN : Finalise(d) \/ IntermediateRoot(d) \/ Commit(d)
    \/ New

Spec == Init /\ [][Next]_vars

-----------------------------------------------------------------------------
(* Properties *)

Blank == Account(0, 0, emptyRoot, NoCode)

\* What an account reads as, given the objects and the state trie
View(objs, tr, a) ==
    IF a \in DOMAIN objs
    THEN IF objs[a].deleted THEN Blank
         ELSE [objs[a].data EXCEPT !.root = [k \in Keys |-> GetState(objs[a], k)]]
    ELSE IF tr[a] = NoAccount THEN Blank ELSE tr[a]
Views(objs, tr) == [a \in Addresses |-> View(objs, tr, a)]
Closed(tr) == Views([a \in {} |-> NoAccount], tr)

Abstract == INSTANCE AccountState WITH
    Accounts <- [nonce : Nonces \cup {0}, balance : 0 .. MaxBalance, root : [Keys -> Values], codeHash : Codes],
    Empty <- {Account(0, 0, storage, NoCode) : storage \in [Keys -> Values]},
    now <- Views(objects, trie),
    undo <- [i \in 1 .. Len(journal) |-> Views(reverted[i - 1].objects, trie)],
    base <- Closed(root)

\* Through all its caches, layers and tries a StateDB is the map of accounts AccountState
\* describes: a read gives the last value written, undoing gives what was there at the entry,
\* and a state opened at the committed root reads as the one that was committed.
IsAccountState == Abstract!Spec

\* Once nothing is pending the state trie, whose hash a block header carries, is what the
\* accounts read as.
TrieIsCurrent ==
    pending = {} /\ journal = << >> => Closed(trie) = Views(objects, trie)

\* Everything the committed root refers to was handed to the trie database: the storage trie
\* and the code of every account.
CommittedIsComplete ==
    \A a \in Addresses : root[a] # NoAccount =>
        /\ root[a].root \in db.tries
        /\ root[a].codeHash \in db.codes \cup {NoCode}

=============================================================================
