---------------------------- MODULE StateDBProofs ----------------------------
\* The invariant of StateDB, that its root is current and what it commits complete, and that it
\* implements AccountState, for any accounts, keys, values, codes and amounts.  The argument is
\* about the trail of states that the journal leads back to: each is sound and each entry can be
\* reverted when it is its turn, whatever objects were read in the meantime.
EXTENDS StateDB, WellFoundedInduction, TLAPS

-----------------------------------------------------------------------------
\* Induction: the least element, and the function undone.

\* Every set of naturals that is not empty has a least element: what the inductions below use.
LEMMA Least ==
    ASSUME NEW S \in SUBSET Nat, S # {}
    PROVE  \E n \in S : \A m \in S : n <= m
PROOF
  <1> DEFINE R == OpToRel(<, Nat)
  <1>1. IsWellFoundedOn(R, Nat)  BY NatLessThanWellFounded, Zenon
  <1>2. PICK x \in S : \A y \in S : ~(<<y, x>> \in R)
    BY <1>1, WFMin, Zenon
  <1>3. \A y \in S : ~(y < x)  BY <1>2, Zenon DEF OpToRel
  <1> QED  BY <1>3

\* g undoes the entries above m
Undoes(g, s, entries, m) ==
    g = [n \in m .. Len(entries) |-> IF n = Len(entries) THEN s ELSE revertEntry(g[n + 1], entries[n + 1])]

\* journal.revert walks the journal from its end: the function that records the state after every
\* step exists.
LEMMA UndoneExists ==
    ASSUME NEW s, NEW entries, Len(entries) \in Nat
    PROVE  \E g : Undoes(g, s, entries, 0)
PROOF
  <1> DEFINE L == Len(entries)
             Bad == {k \in Nat : k <= L /\ ~\E g : Undoes(g, s, entries, L - k)}
  <1>1. SUFFICES Bad = {}
    BY DEF Bad
  <1>2. SUFFICES ASSUME Bad # {} PROVE FALSE
    BY Zenon
  <1>3. PICK k \in Bad : \A j \in Bad : k <= j
    BY <1>2, Least, Zenon
  <1>4. k \in Nat /\ k <= L /\ ~\E g : Undoes(g, s, entries, L - k)
    BY Zenon
  <1>5. CASE k = 0
    <2> DEFINE g == [n \in L .. L |-> s]
    <2>1. g = [n \in L .. L |-> IF n = L THEN s ELSE revertEntry(g[n + 1], entries[n + 1])]
      OBVIOUS
    <2>2. L - k = L
      BY <1>5
    <2> QED  BY <1>4, <2>1, <2>2, Zenon DEF Undoes
  <1>6. CASE k > 0
    <2>1. PICK f : Undoes(f, s, entries, L - (k - 1))
      <3>1. k - 1 \notin Bad /\ k - 1 \in Nat /\ k - 1 <= L
        BY <1>3, <1>4, <1>6, SMTT(30)
      <3> QED  BY <3>1, Zenon
    <2> DEFINE m == L - k
               g == [n \in m .. L |-> IF n = m THEN revertEntry(f[m + 1], entries[m + 1]) ELSE f[n]]
    <2>2. m \in Nat /\ m < L /\ L - (k - 1) = m + 1
      BY <1>4, <1>6
    <2>3. f = [n \in (m + 1) .. L |-> IF n = L THEN s ELSE revertEntry(f[n + 1], entries[n + 1])]
      BY <2>1, <2>2, Zenon DEF Undoes
    <2>4. ASSUME NEW n \in m .. L
          PROVE  g[n] = IF n = L THEN s ELSE revertEntry(g[n + 1], entries[n + 1])
      <3>1. CASE n = m
        BY <2>2, <3>1
      <3>2. CASE n # m
        <4>1. n \in (m + 1) .. L /\ g[n] = f[n]
          BY <2>2, <3>2
        <4>2. f[n] = IF n = L THEN s ELSE revertEntry(f[n + 1], entries[n + 1])
          BY <2>3, <4>1, Zenon
        <4>3. n # L => n + 1 \in m .. L /\ n + 1 # m
          BY <2>2, <4>1
        <4> QED  BY <4>1, <4>2, <4>3, Zenon
      <3> QED  BY <3>1, <3>2, Zenon
    <2>5. Undoes(g, s, entries, m)
      BY <2>4, Zenon DEF Undoes
    <2> QED  BY <1>4, <2>5, Zenon
  <1> QED  BY <1>4, <1>5, <1>6

\* undone is that function.
LEMMA UndoneUnfolds ==
    ASSUME NEW s, NEW entries, Len(entries) \in Nat
    PROVE  Undoes(undone(s, entries), s, entries, 0)
PROOF
  <1>1. \E g : Undoes(g, s, entries, 0)
    BY UndoneExists, Zenon
  <1> QED  BY <1>1, Zenon DEF undone, Undoes

-----------------------------------------------------------------------------
\* State objects.

\* The types of storage, of the storage maps of an object, of accounts and of state objects
Storage == [Keys -> Values]
Maps == UNION {[K -> Values] : K \in SUBSET Keys}
AllNonces == Nonces \cup {0}
Balances == 0 .. MaxBalance
Accounts == [nonce : AllNonces, balance : Balances, root : Storage, codeHash : Codes]
Objects ==
    [data : Accounts, storage : Storage, hasTrie : BOOLEAN, code : Codes, dirtyCode : BOOLEAN,
     origin : Maps, pending : Maps, dirty : Maps, deleted : BOOLEAN]

\* The storage trie is at the root the account has, what was read from it is cached as it is,
\* only keys that were read first are written, and the code that is not in the database is at hand.
Coherent(o, codes) ==
    /\ o.storage = o.data.root
    /\ DOMAIN o.dirty \subseteq DOMAIN o.origin /\ DOMAIN o.pending \subseteq DOMAIN o.origin
    /\ \A k \in DOMAIN o.origin : o.origin[k] = o.data.root[k]
    /\ o.code # NoCode => o.code = o.data.codeHash
    /\ IF o.dirtyCode THEN o.code = o.data.codeHash ELSE o.data.codeHash \in codes \cup {NoCode}

Good(o, codes) == o \in Objects /\ Coherent(o, codes)

\* A map of dirtyStorage, pendingStorage or originStorage with one key more, and two maps in one.
LEMMA MapFacts ==
    /\ EmptyMap \in Maps /\ DOMAIN EmptyMap = {}
    /\ \A m \in Maps : DOMAIN m \subseteq Keys /\ m \in [DOMAIN m -> Values]
    /\ \A m \in Maps, k \in Keys, v \in Values : Put(m, k, v) \in Maps
    /\ \A m, n \in Maps : Over(m, n) \in Maps
PROOF
  <1>1. EmptyMap \in [{} -> Values] /\ DOMAIN EmptyMap = {}  BY Zenon DEF EmptyMap
  <1>2. \A m \in Maps : DOMAIN m \subseteq Keys /\ m \in [DOMAIN m -> Values]  BY Zenon DEF Maps
  <1>3. ASSUME NEW m \in Maps, NEW k \in Keys, NEW v \in Values PROVE Put(m, k, v) \in Maps
    <2>1. Put(m, k, v) \in [DOMAIN m \cup {k} -> Values]  BY <1>2, Zenon DEF Put
    <2>2. DOMAIN m \cup {k} \in SUBSET Keys  BY <1>2, Zenon
    <2> QED  BY <2>1, <2>2, Zenon DEF Maps
  <1>4. ASSUME NEW m \in Maps, NEW n \in Maps PROVE Over(m, n) \in Maps
    <2>1. Over(m, n) \in [DOMAIN m \cup DOMAIN n -> Values]  BY <1>2, Zenon DEF Over
    <2>2. DOMAIN m \cup DOMAIN n \in SUBSET Keys  BY <1>2, Zenon
    <2> QED  BY <2>1, <2>2, Zenon DEF Maps
  <1> QED  BY <1>1, <1>2, <1>3, <1>4, Zenon DEF Maps

\* newObject: an object made from an account of the state trie is good.
LEMMA NewObjectGood ==
    ASSUME NEW data \in Accounts, NEW codes, data.codeHash \in codes \cup {NoCode}
    PROVE  Good(newObject(data), codes)
BY MapFacts, StateAssumption, Zenon DEF newObject, Good, Objects, Coherent, Accounts

\* What a coherent object reads as.
Reading(o, k) ==
    IF k \in DOMAIN o.dirty THEN o.dirty[k]
    ELSE IF k \in DOMAIN o.pending THEN o.pending[k] ELSE o.data.root[k]

\* GetState returns the reading of an object.
LEMMA GetStateReads ==
    ASSUME NEW o \in Objects, NEW codes, Coherent(o, codes), NEW k \in Keys
    PROVE  GetState(o, k) = Reading(o, k)
PROOF
  <1>1. getTrie(o).storage = o.data.root
    BY Zenon DEF getTrie, Coherent, Objects
  <1> QED  BY <1>1, Zenon DEF GetState, Reading, Coherent

\* stateObject.finalise, which moves dirtyStorage to pendingStorage, keeps an object good and its
\* readings.
LEMMA FinaliseGood ==
    ASSUME NEW codes, NEW o, Good(o, codes)
    PROVE  /\ Good(finalise(o), codes) /\ finalise(o).deleted = o.deleted /\ finalise(o).data = o.data
           /\ finalise(o).dirty = EmptyMap
           /\ \A k \in Keys : Reading(finalise(o), k) = Reading(o, k)
PROOF
  <1> DEFINE f == finalise(o)
  <1>1. /\ f.data = o.data /\ f.storage = o.storage /\ f.hasTrie = o.hasTrie /\ f.code = o.code
        /\ f.dirtyCode = o.dirtyCode /\ f.origin = o.origin /\ f.deleted = o.deleted
        /\ f.pending = Over(o.dirty, o.pending) /\ f.dirty = EmptyMap
    BY Zenon DEF finalise, Good, Objects
  <1>2. f \in Objects
    BY MapFacts, Zenon DEF finalise, Good, Objects
  <1>3. DOMAIN f.pending = DOMAIN o.dirty \cup DOMAIN o.pending /\ DOMAIN f.dirty = {}
    BY <1>1, MapFacts, Zenon DEF Over
  <1>4. Coherent(f, codes)
    BY <1>1, <1>3, Zenon DEF Coherent, Good
  <1>5. \A k \in Keys : Reading(f, k) = Reading(o, k)
    BY <1>1, <1>3, Zenon DEF Reading, Over
  <1> QED  BY <1>1, <1>2, <1>4, <1>5, Zenon DEF Good

\* The account an object reads as
Reads(o) == [o.data EXCEPT !.root = [k \in Keys |-> Reading(o, k)]]

\* A reading is a value.
LEMMA ReadingTyped ==
    ASSUME NEW codes, NEW o, Good(o, codes), NEW k \in Keys
    PROVE  Reading(o, k) \in Values
PROOF
  <1>1. o.data.root \in Storage /\ o.dirty \in Maps /\ o.pending \in Maps
    BY Zenon DEF Good, Objects, Accounts
  <1> QED  BY <1>1, MapFacts, Zenon DEF Reading, Storage

\* What an object reads as is an account.
LEMMA ReadsTyped ==
    ASSUME NEW codes, NEW o, Good(o, codes)
    PROVE  /\ Reads(o) \in Accounts
           /\ Reads(o).nonce = o.data.nonce /\ Reads(o).balance = o.data.balance
           /\ Reads(o).codeHash = o.data.codeHash /\ Reads(o).root = [k \in Keys |-> Reading(o, k)]
PROOF
  <1>1. [k \in Keys |-> Reading(o, k)] \in Storage
    BY ReadingTyped, Zenon DEF Storage
  <1> HIDE DEF Reading
  <1> QED  BY <1>1, Zenon DEF Reads, Good, Objects, Accounts

\* finalise, updateTrie and updateRoot: the object stays good, reads as it did, and what it reads as
\* is its account data.
LEMMA UpdateRootGood ==
    ASSUME NEW codes, NEW o, Good(o, codes)
    PROVE  /\ Good(updateRoot(o), codes) /\ updateRoot(o).deleted = o.deleted
           /\ updateRoot(o).code = o.code /\ updateRoot(o).dirtyCode = o.dirtyCode
           /\ updateRoot(o).data = Reads(o) /\ updateRoot(o).storage = Reads(o).root
           /\ Reads(updateRoot(o)) = Reads(o)
PROOF
  <1> DEFINE f == finalise(o)
             g == getTrie(f)
             moved == {k \in DOMAIN g.pending : g.pending[k] # g.data.root[k]}
             held == [k \in Keys |-> Reading(o, k)]
             origin == Over([k \in moved |-> g.pending[k]], g.origin)
             u == updateTrie(o)
             r == updateRoot(o)
  <1>1. Good(f, codes) /\ f.deleted = o.deleted /\ f.data = o.data /\ f.dirty = EmptyMap
        /\ \A k \in Keys : Reading(f, k) = Reading(o, k)
    BY FinaliseGood, Zenon
  <1>2. f.code = o.code /\ f.dirtyCode = o.dirtyCode
    BY Zenon DEF finalise, Good, Objects
  <1> HIDE DEF f
  <1>3. /\ g.data = f.data /\ g.storage = f.data.root /\ g.hasTrie = TRUE /\ g.code = f.code
        /\ g.dirtyCode = f.dirtyCode /\ g.origin = f.origin /\ g.deleted = f.deleted
        /\ g.pending = f.pending /\ g.dirty = f.dirty /\ g \in Objects
    BY <1>1, Zenon DEF getTrie, Good, Objects, Coherent, Accounts
  <1>4. g.pending \in Maps /\ g.origin \in Maps /\ g.data.root \in Storage /\ DOMAIN g.pending \subseteq DOMAIN g.origin
        /\ \A k \in DOMAIN g.origin : g.origin[k] = g.data.root[k]
    BY <1>1, <1>3 DEF Good, Objects, Coherent, Accounts
  <1> HIDE DEF g
  <1>5. held = [k \in Keys |-> IF k \in moved THEN g.pending[k] ELSE g.data.root[k]]
    <2>1. \A k \in Keys : Reading(o, k) = IF k \in DOMAIN g.pending THEN g.pending[k] ELSE g.data.root[k]
      BY <1>1, <1>3, MapFacts, Zenon DEF Reading
    <2> HIDE DEF Reading
    <2> QED  BY <2>1, Zenon
  <1>6. held \in Storage
    BY ReadingTyped, Zenon DEF Storage
  <1>7. origin \in Maps /\ DOMAIN origin = DOMAIN g.origin
        /\ \A k \in DOMAIN origin : origin[k] = held[k]
    <2>1. [k \in moved |-> g.pending[k]] \in Maps
      <3>1. moved \in SUBSET Keys /\ \A k \in moved : g.pending[k] \in Values
        BY <1>4, MapFacts, Zenon
      <3> HIDE DEF moved
      <3> QED  BY <3>1 DEF Maps
    <2>2. origin \in Maps
      BY <2>1, <1>4, MapFacts, Zenon
    <2>3. DOMAIN origin = DOMAIN g.origin
      BY <1>4, Zenon DEF Over
    <2>4. \A k \in DOMAIN origin : k \in Keys /\ origin[k] = IF k \in moved THEN g.pending[k] ELSE g.data.root[k]
      BY <1>4, <2>2, <2>3, MapFacts, Zenon DEF Over
    <2> HIDE DEF origin, moved
    <2> QED  BY <1>5, <2>2, <2>3, <2>4, Zenon
  <1>8. u = [g EXCEPT !.storage = held, !.origin = origin, !.pending = EmptyMap]
    <2> DEFINE original(k) == IF k \in DOMAIN g.origin THEN g.origin[k] ELSE Zero
               differ == {k \in DOMAIN g.pending : g.pending[k] # original(k)}
    <2>1. u = [g EXCEPT !.storage = [k \in Keys |-> IF k \in differ THEN g.pending[k] ELSE @[k]],
                        !.origin = Over([k \in differ |-> g.pending[k]], @),
                        !.pending = EmptyMap]
      BY Zenon DEF updateTrie, f, g
    <2>2. differ = moved
      BY <1>4, Zenon
    <2> HIDE DEF differ, moved
    <2>3. u = [g EXCEPT !.storage = [k \in Keys |-> IF k \in moved THEN g.pending[k] ELSE g.storage[k]],
                        !.origin = origin, !.pending = EmptyMap]
      BY <2>1, <2>2, <1>3 DEF Objects
    <2>4. [k \in Keys |-> IF k \in moved THEN g.pending[k] ELSE g.storage[k]] = held
      BY <1>3, <1>5, Zenon
    <2> HIDE DEF held, origin
    <2> QED  BY <2>3, <2>4, Zenon
  <1> HIDE DEF moved, origin, held
  <1>9. /\ u.data = f.data /\ u.storage = held /\ u.hasTrie = TRUE /\ u.code = f.code
        /\ u.dirtyCode = f.dirtyCode /\ u.origin = origin /\ u.deleted = f.deleted
        /\ u.pending = EmptyMap /\ u.dirty = EmptyMap /\ u \in Objects
    BY <1>1, <1>3, <1>6, <1>7, <1>8, MapFacts, Zenon DEF Objects
  <1> HIDE DEF u
  <1>10. r = [u EXCEPT !.data.root = u.storage]
    BY Zenon DEF updateRoot, u
  <1>11. Reads(o) = [o.data EXCEPT !.root = held]
    BY Zenon DEF Reads, held
  <1>12. /\ r.data = Reads(o) /\ r.storage = held /\ r.code = o.code /\ r.dirtyCode = o.dirtyCode
         /\ r.origin = origin /\ r.deleted = o.deleted /\ r.pending = EmptyMap /\ r.dirty = EmptyMap
    BY <1>1, <1>2, <1>9, <1>10, <1>11 DEF Objects
  <1>13. Reads(o) \in Accounts /\ Reads(o).root = held /\ Reads(o).codeHash = o.data.codeHash
    BY ReadsTyped, Zenon DEF held
  <1>14. r \in Objects
    <2>1. r = [u EXCEPT !.data = Reads(o)]
      BY <1>1, <1>9, <1>10, <1>11, Zenon DEF Objects
    <2> QED  BY <1>9, <1>13, <2>1, Zenon DEF Objects
  <1> HIDE DEF r
  <1>15. Coherent(r, codes)
    BY <1>7, <1>12, <1>13, MapFacts, Zenon DEF Coherent, Good
  <1>16. \A k \in Keys : Reading(r, k) = held[k]
    BY <1>12, <1>13, MapFacts, Zenon DEF Reading
  <1>17. Reads(r) = Reads(o)
    <2>1. [k \in Keys |-> Reading(r, k)] = held
      BY <1>16, <1>6, Zenon DEF Storage
    <2>2. Reads(r) = [Reads(o) EXCEPT !.root = held]
      BY <2>1, <1>12, Zenon DEF Reads
    <2> QED  BY <2>2, <1>13, Zenon DEF Accounts
  <1> QED  BY <1>12, <1>13, <1>14, <1>15, <1>17, Zenon DEF Good, r

\* p stands for o: it reads the same and has read no less.
Like(o, p) ==
    /\ p.deleted = o.deleted /\ p.data = o.data
    /\ DOMAIN o.origin \subseteq DOMAIN p.origin
    /\ \A k \in Keys : Reading(p, k) = Reading(o, k)

\* GetCommittedState caches a key it reads: the object stays good and reads the same.
LEMMA LoadedGood ==
    ASSUME NEW codes, NEW o, Good(o, codes), NEW k \in Keys
    PROVE  Good(loaded(o, k), codes) /\ Like(o, loaded(o, k)) /\ k \in DOMAIN loaded(o, k).origin
PROOF
  <1> DEFINE l == loaded(o, k)
  <1>1. CASE k \in DOMAIN o.dirty \cup DOMAIN o.pending \cup DOMAIN o.origin
    BY <1>1, Zenon DEF loaded, Like, Good, Coherent
  <1>2. CASE k \notin DOMAIN o.dirty \cup DOMAIN o.pending \cup DOMAIN o.origin
    <2> DEFINE g == getTrie(o)
    <2>1. g \in Objects /\ g.storage = o.data.root /\ g = [o EXCEPT !.hasTrie = TRUE]
      BY Zenon DEF getTrie, Good, Objects, Coherent, Accounts
    <2>2. l = [g EXCEPT !.origin = Put(o.origin, k, o.data.root[k])]
      BY <1>2, <2>1, Zenon DEF loaded, Good, Objects
    <2> HIDE DEF g
    <2>3. o.origin \in Maps /\ o.data.root[k] \in Values
      BY Zenon DEF Good, Objects, Accounts, Storage
    <2>4. Put(o.origin, k, o.data.root[k]) \in Maps
      BY <2>3, MapFacts, Zenon
    <2>5. l \in Objects
      BY <2>1, <2>2, <2>4, Zenon DEF Objects
    <2>6. /\ l.data = o.data /\ l.storage = o.storage /\ l.code = o.code
          /\ l.dirtyCode = o.dirtyCode /\ l.deleted = o.deleted
          /\ l.pending = o.pending /\ l.dirty = o.dirty /\ l.origin = Put(o.origin, k, o.data.root[k])
      BY <2>1, <2>2, Zenon DEF Good, Objects
    <2>7. Coherent(l, codes)
      BY <2>6, Zenon DEF Put, Coherent, Good
    <2>8. Like(o, l) /\ k \in DOMAIN l.origin
      BY <2>6, Zenon DEF Put, Like, Reading
    <2> QED  BY <2>5, <2>7, <2>8, Zenon DEF Good
  <1> QED  BY <1>1, <1>2, Zenon

\* Code caches the code it reads: the object stays good and reads the same.
LEMMA WithCodeGood ==
    ASSUME NEW o, Good(o, db.codes)
    PROVE  /\ Good(withCode(o), db.codes) /\ Like(o, withCode(o))
           /\ withCode(o).code = o.data.codeHash
PROOF
  <1> DEFINE w == withCode(o)
  <1>1. CASE o.code = NoCode /\ o.data.codeHash \in db.codes
    <2>1. w = [o EXCEPT !.code = o.data.codeHash]
      BY <1>1, Zenon DEF withCode
    <2>2. w \in Objects /\ w.data = o.data /\ w.storage = o.storage /\ w.code = o.data.codeHash
          /\ w.dirtyCode = o.dirtyCode /\ w.deleted = o.deleted
          /\ w.pending = o.pending /\ w.dirty = o.dirty /\ w.origin = o.origin
      BY <2>1, Zenon DEF Good, Objects, Accounts
    <2>3. Coherent(w, db.codes)
      BY <2>2, Zenon DEF Coherent, Good
    <2> QED  BY <2>2, <2>3, Zenon DEF Good, Like, Reading
  <1>2. CASE ~(o.code = NoCode /\ o.data.codeHash \in db.codes)
    BY <1>2, Zenon DEF withCode, Good, Coherent, Like
  <1> QED  BY <1>1, <1>2, Zenon

\* journalEntry.revert of a change, on the object it changed
restore(o, e) ==
    CASE e.kind = "balance" -> [o EXCEPT !.data.balance = e.prev]
      [] e.kind = "nonce" -> [o EXCEPT !.data.nonce = e.prev]
      [] e.kind = "code" -> [o EXCEPT !.code = e.prev, !.data.codeHash = e.prevhash, !.dirtyCode = TRUE]
      [] e.kind = "storage" -> [o EXCEPT !.dirty = Put(@, e.key, e.prev)]

\* The entry of a change of o, which has read the key that was changed.
ChangeOf(o, e) ==
    \/ e.kind = "balance" /\ e.prev \in Balances
    \/ e.kind = "nonce" /\ e.prev \in AllNonces
    \/ e.kind = "code" /\ e.prev \in Codes /\ e.prevhash = e.prev
    \/ e.kind = "storage" /\ e.key \in DOMAIN o.origin /\ e.prev \in Values

\* The assignments of setBalance, setNonce, setCode and setState
withBalance(o, n) == [o EXCEPT !.data.balance = n]
withNonce(o, n) == [o EXCEPT !.data.nonce = n]
withNewCode(o, c) == [o EXCEPT !.code = c, !.data.codeHash = c, !.dirtyCode = TRUE]
withState(o, key, v) == [o EXCEPT !.dirty = Put(@, key, v)]

\* p is o with other account data: the storage reads as before.
Updated(o, p, codes) ==
    /\ Good(p, codes) /\ p.deleted = o.deleted /\ p.origin = o.origin
    /\ \A k \in Keys : Reading(p, k) = Reading(o, k)

\* p is o with v for key in dirtyStorage.
StateSet(o, p, key, v, codes) ==
    /\ Good(p, codes) /\ p.deleted = o.deleted /\ p.origin = o.origin /\ p.data = o.data
    /\ key \in Keys
    /\ \A k \in Keys : Reading(p, k) = IF k = key THEN v ELSE Reading(o, k)

\* setBalance keeps an object good; it then reads with the new balance.
LEMMA SetBalanceGood ==
    ASSUME NEW codes, NEW o, Good(o, codes), NEW n \in Balances
    PROVE  /\ Updated(o, withBalance(o, n), codes)
           /\ withBalance(o, n).data = [o.data EXCEPT !.balance = n]
PROOF
  <1> DEFINE p == withBalance(o, n)
  <1>1. /\ p.data = [o.data EXCEPT !.balance = n] /\ p.storage = o.storage /\ p.hasTrie = o.hasTrie
        /\ p.code = o.code /\ p.dirtyCode = o.dirtyCode /\ p.origin = o.origin
        /\ p.pending = o.pending /\ p.dirty = o.dirty /\ p.deleted = o.deleted
    BY Zenon DEF withBalance, Good, Objects
  <1>2. p.data \in Accounts /\ p.data.root = o.data.root /\ p.data.codeHash = o.data.codeHash
    BY <1>1, Zenon DEF Good, Objects, Accounts
  <1>3. p \in Objects
    <2>1. p = [o EXCEPT !.data = p.data]
      BY <1>1, Zenon DEF withBalance, Good, Objects
    <2> QED  BY <1>2, <2>1, Zenon DEF Good, Objects
  <1> HIDE DEF p
  <1>4. Good(p, codes)
    BY <1>1, <1>2, <1>3, Zenon DEF Good, Coherent
  <1>5. \A k \in Keys : Reading(p, k) = Reading(o, k)
    BY <1>1, <1>2, Zenon DEF Reading
  <1> QED  BY <1>1, <1>4, <1>5, Zenon DEF p, Updated

\* setNonce keeps an object good; it then reads with the new nonce.
LEMMA SetNonceGood ==
    ASSUME NEW codes, NEW o, Good(o, codes), NEW n \in AllNonces
    PROVE  /\ Updated(o, withNonce(o, n), codes)
           /\ withNonce(o, n).data = [o.data EXCEPT !.nonce = n]
PROOF
  <1> DEFINE p == withNonce(o, n)
  <1>1. /\ p.data = [o.data EXCEPT !.nonce = n] /\ p.storage = o.storage /\ p.hasTrie = o.hasTrie
        /\ p.code = o.code /\ p.dirtyCode = o.dirtyCode /\ p.origin = o.origin
        /\ p.pending = o.pending /\ p.dirty = o.dirty /\ p.deleted = o.deleted
    BY Zenon DEF withNonce, Good, Objects
  <1>2. p.data \in Accounts /\ p.data.root = o.data.root /\ p.data.codeHash = o.data.codeHash
    BY <1>1, Zenon DEF Good, Objects, Accounts
  <1>3. p \in Objects
    <2>1. p = [o EXCEPT !.data = p.data]
      BY <1>1, Zenon DEF withNonce, Good, Objects
    <2> QED  BY <1>2, <2>1, Zenon DEF Good, Objects
  <1> HIDE DEF p
  <1>4. Good(p, codes)
    BY <1>1, <1>2, <1>3, Zenon DEF Good, Coherent
  <1>5. \A k \in Keys : Reading(p, k) = Reading(o, k)
    BY <1>1, <1>2, Zenon DEF Reading
  <1> QED  BY <1>1, <1>4, <1>5, Zenon DEF p, Updated

\* setCode keeps an object good; it then reads with the new code.
LEMMA SetCodeGood ==
    ASSUME NEW codes, NEW o, Good(o, codes), NEW c \in Codes
    PROVE  /\ Updated(o, withNewCode(o, c), codes)
           /\ withNewCode(o, c).data = [o.data EXCEPT !.codeHash = c]
PROOF
  <1> DEFINE p == withNewCode(o, c)
  <1>1. /\ p.data = [o.data EXCEPT !.codeHash = c] /\ p.storage = o.storage /\ p.hasTrie = o.hasTrie
        /\ p.code = c /\ p.dirtyCode = TRUE /\ p.origin = o.origin
        /\ p.pending = o.pending /\ p.dirty = o.dirty /\ p.deleted = o.deleted
    BY Zenon DEF withNewCode, Good, Objects
  <1>2. p.data \in Accounts /\ p.data.root = o.data.root /\ p.data.codeHash = c
    BY <1>1, Zenon DEF Good, Objects, Accounts
  <1>3. p \in Objects
    <2>1. p = [o EXCEPT !.code = c, !.data = p.data, !.dirtyCode = TRUE]
      BY <1>1, Zenon DEF withNewCode, Good, Objects
    <2> QED  BY <1>2, <2>1, Zenon DEF Good, Objects
  <1> HIDE DEF p
  <1>4. Good(p, codes)
    BY <1>1, <1>2, <1>3 DEF Good, Coherent
  <1>5. \A k \in Keys : Reading(p, k) = Reading(o, k)
    BY <1>1, <1>2, Zenon DEF Reading
  <1> QED  BY <1>1, <1>4, <1>5, Zenon DEF p, Updated

\* setState of a key that was read keeps an object good; only that key reads otherwise.
LEMMA SetStateGood ==
    ASSUME NEW codes, NEW o, Good(o, codes), NEW key \in DOMAIN o.origin, NEW v \in Values
    PROVE  StateSet(o, withState(o, key, v), key, v, codes)
PROOF
  <1> DEFINE p == withState(o, key, v)
  <1>1. /\ p.data = o.data /\ p.storage = o.storage /\ p.hasTrie = o.hasTrie
        /\ p.code = o.code /\ p.dirtyCode = o.dirtyCode /\ p.origin = o.origin
        /\ p.pending = o.pending /\ p.dirty = Put(o.dirty, key, v) /\ p.deleted = o.deleted
    BY Zenon DEF withState, Good, Objects
  <1>2. key \in Keys /\ p.dirty \in Maps
    BY <1>1, MapFacts DEF Good, Objects
  <1>3. p \in Objects
    <2>1. p = [o EXCEPT !.dirty = p.dirty]
      BY <1>1, Zenon DEF withState, Good, Objects
    <2> QED  BY <1>2, <2>1, Zenon DEF Good, Objects
  <1> HIDE DEF p
  <1>4. Good(p, codes)
    BY <1>1, <1>3, Zenon DEF Good, Coherent, Put
  <1>5. \A k \in Keys : Reading(p, k) = IF k = key THEN v ELSE Reading(o, k)
    BY <1>1, Zenon DEF Reading, Put
  <1> QED  BY <1>1, <1>2, <1>4, <1>5, Zenon DEF p, StateSet

\* Reverting a change keeps an object good.
LEMMA RestoreGood ==
    ASSUME NEW codes, NEW o, Good(o, codes), NEW e, ChangeOf(o, e)
    PROVE  Good(restore(o, e), codes) /\ restore(o, e).deleted = o.deleted
PROOF
  <1>1. CASE e.kind = "balance"
    <2>1. restore(o, e) = withBalance(o, e.prev) /\ e.prev \in Balances
      BY <1>1, Zenon DEF ChangeOf, restore, withBalance, withNonce, withNewCode, withState
    <2>2. Good(withBalance(o, e.prev), codes) /\ withBalance(o, e.prev).deleted = o.deleted
      BY <2>1, SetBalanceGood, Zenon DEF Updated
    <2> QED  BY <2>1, <2>2, Zenon
  <1>2. CASE e.kind = "nonce"
    <2>1. restore(o, e) = withNonce(o, e.prev) /\ e.prev \in AllNonces
      BY <1>2, Zenon DEF ChangeOf, restore, withBalance, withNonce, withNewCode, withState
    <2>2. Good(withNonce(o, e.prev), codes) /\ withNonce(o, e.prev).deleted = o.deleted
      BY <2>1, SetNonceGood, Zenon DEF Updated
    <2> QED  BY <2>1, <2>2, Zenon
  <1>3. CASE e.kind = "code"
    <2>1. /\ restore(o, e) = withNewCode(o, e.prev)
          /\ e.prev \in Codes
      BY <1>3, Zenon DEF ChangeOf, restore, withBalance, withNonce, withNewCode, withState
    <2>2. Good(withNewCode(o, e.prev), codes) /\ withNewCode(o, e.prev).deleted = o.deleted
      BY <2>1, SetCodeGood, Zenon DEF Updated
    <2> QED  BY <2>1, <2>2, Zenon
  <1>4. CASE e.kind = "storage"
    <2>1. /\ restore(o, e) = withState(o, e.key, e.prev)
          /\ e.key \in DOMAIN o.origin /\ e.prev \in Values
      BY <1>4, Zenon DEF ChangeOf, restore, withBalance, withNonce, withNewCode, withState
    <2> QED  BY <2>1, SetStateGood DEF StateSet
  <1> QED  BY <1>1, <1>2, <1>3, <1>4, Zenon DEF ChangeOf

\* Reverting a change keeps one object standing for another.
LEMMA RestoreLike ==
    ASSUME NEW codes, NEW o, Good(o, codes), NEW p, Good(p, codes), Like(o, p), NEW e, ChangeOf(o, e)
    PROVE  Like(restore(o, e), restore(p, e)) /\ ChangeOf(p, e)
PROOF
  <1>0. ChangeOf(p, e)
    BY Zenon DEF ChangeOf, Like
  <1>1. CASE e.kind = "balance"
    <2>1. restore(o, e) = withBalance(o, e.prev) /\ restore(p, e) = withBalance(p, e.prev)
          /\ e.prev \in Balances
      BY <1>1, Zenon DEF ChangeOf, restore, withBalance, withNonce, withNewCode, withState
    <2>2. /\ withBalance(o, e.prev).deleted = o.deleted /\ withBalance(o, e.prev).origin = o.origin
          /\ withBalance(o, e.prev).data = [o.data EXCEPT !.balance = e.prev]
          /\ \A k \in Keys : Reading(withBalance(o, e.prev), k) = Reading(o, k)
      BY <2>1, SetBalanceGood DEF Updated
    <2>3. /\ withBalance(p, e.prev).deleted = p.deleted /\ withBalance(p, e.prev).origin = p.origin
          /\ withBalance(p, e.prev).data = [p.data EXCEPT !.balance = e.prev]
          /\ \A k \in Keys : Reading(withBalance(p, e.prev), k) = Reading(p, k)
      BY <2>1, SetBalanceGood DEF Updated
    <2> QED  BY <1>0, <2>1, <2>2, <2>3, Zenon DEF Like
  <1>2. CASE e.kind = "nonce"
    <2>1. restore(o, e) = withNonce(o, e.prev) /\ restore(p, e) = withNonce(p, e.prev)
          /\ e.prev \in AllNonces
      BY <1>2, Zenon DEF ChangeOf, restore, withBalance, withNonce, withNewCode, withState
    <2>2. /\ withNonce(o, e.prev).deleted = o.deleted /\ withNonce(o, e.prev).origin = o.origin
          /\ withNonce(o, e.prev).data = [o.data EXCEPT !.nonce = e.prev]
          /\ \A k \in Keys : Reading(withNonce(o, e.prev), k) = Reading(o, k)
      BY <2>1, SetNonceGood DEF Updated
    <2>3. /\ withNonce(p, e.prev).deleted = p.deleted /\ withNonce(p, e.prev).origin = p.origin
          /\ withNonce(p, e.prev).data = [p.data EXCEPT !.nonce = e.prev]
          /\ \A k \in Keys : Reading(withNonce(p, e.prev), k) = Reading(p, k)
      BY <2>1, SetNonceGood DEF Updated
    <2> QED  BY <1>0, <2>1, <2>2, <2>3, Zenon DEF Like
  <1>3. CASE e.kind = "code"
    <2>1. /\ restore(o, e) = withNewCode(o, e.prev)
          /\ restore(p, e) = withNewCode(p, e.prev)
          /\ e.prev \in Codes
      BY <1>3, Zenon DEF ChangeOf, restore, withBalance, withNonce, withNewCode, withState
    <2>2. /\ restore(o, e).deleted = o.deleted /\ restore(o, e).origin = o.origin
          /\ restore(o, e).data = [o.data EXCEPT !.codeHash = e.prev]
          /\ \A k \in Keys : Reading(restore(o, e), k) = Reading(o, k)
      BY <2>1, SetCodeGood DEF Updated
    <2>3. /\ restore(p, e).deleted = p.deleted /\ restore(p, e).origin = p.origin
          /\ restore(p, e).data = [p.data EXCEPT !.codeHash = e.prev]
          /\ \A k \in Keys : Reading(restore(p, e), k) = Reading(p, k)
      BY <2>1, SetCodeGood DEF Updated
    <2> QED  BY <1>0, <2>2, <2>3, Zenon DEF Like
  <1>4. CASE e.kind = "storage"
    <2>1. /\ restore(o, e) = withState(o, e.key, e.prev)
          /\ restore(p, e) = withState(p, e.key, e.prev)
          /\ e.key \in DOMAIN o.origin /\ e.key \in DOMAIN p.origin /\ e.prev \in Values
      BY <1>0, <1>4, Zenon DEF ChangeOf, restore, withBalance, withNonce, withNewCode, withState
    <2> QED  BY <1>0, <2>1, SetStateGood DEF StateSet, Like
  <1> QED  BY <1>1, <1>2, <1>3, <1>4, Zenon DEF ChangeOf

-----------------------------------------------------------------------------
\* Objects, views and reverting one entry.

\* An account as the state trie has it
Bare(tr, a) == IF tr[a] = NoAccount THEN Blank ELSE tr[a]

\* c: the state trie, stateObjectsPending, stateObjectsDirty and the codes of the database.
Sound(objs, c) ==
    /\ objs = [a \in DOMAIN objs |-> objs[a]]
    /\ DOMAIN objs \subseteq Addresses /\ c.pending \subseteq DOMAIN objs /\ c.dirty \subseteq DOMAIN objs
    /\ \A a \in DOMAIN objs : Good(objs[a], c.codes)

\* An object that nothing has changed since reads as the state trie has it.
Clean(objs, changed, c) ==
    \A a \in DOMAIN objs \ (c.pending \cup changed) : View(objs, c.trie, a) = Bare(c.trie, a)

\* more stands for objs: it may hold objects that were only read.
Covers(more, objs, c) ==
    /\ DOMAIN objs \subseteq DOMAIN more
    /\ \A a \in DOMAIN objs : Like(objs[a], more[a])
    /\ \A a \in DOMAIN more \ DOMAIN objs : View(more, c.trie, a) = Bare(c.trie, a)

\* An entry that can be reverted when the objects are these
Legal(objs, e, c) ==
    \/ e.kind = "create" /\ e.account \in Addresses /\ e.account \notin c.pending /\ e.account \notin c.dirty
    \/ e.kind = "reset" /\ e.account \in Addresses /\ Good(e.prev, c.codes)
    \/ e.account \in DOMAIN objs /\ ~objs[e.account].deleted /\ ChangeOf(objs[e.account], e)

\* The objects after an entry is reverted
back(objs, e) ==
    IF e.kind = "create" THEN [x \in DOMAIN objs \ {e.account} |-> objs[x]]
    ELSE IF e.kind = "reset" THEN Put(objs, e.account, e.prev)
    ELSE [objs EXCEPT ![e.account] = restore(objs[e.account], e)]

\* The view of an account, by cases.
LEMMA ViewIs ==
    ASSUME NEW c, NEW objs, Sound(objs, c), NEW tr, NEW a \in Addresses
    PROVE  View(objs, tr, a) = IF a \in DOMAIN objs
                               THEN IF objs[a].deleted THEN Blank ELSE Reads(objs[a])
                               ELSE Bare(tr, a)
PROOF
  <1>1. CASE a \in DOMAIN objs
    <2>1. Good(objs[a], c.codes)
      BY <1>1, Zenon DEF Sound
    <2>2. \A k \in Keys : GetState(objs[a], k) = Reading(objs[a], k)
      BY <2>1, GetStateReads, Zenon DEF Good
    <2>3. [k \in Keys |-> GetState(objs[a], k)] = [k \in Keys |-> Reading(objs[a], k)]
      BY <2>2, Zenon
    <2> QED  BY <1>1, <2>3, Zenon DEF View, Reads
  <1>2. CASE a \notin DOMAIN objs
    BY <1>2, Zenon DEF View, Bare
  <1> QED  BY <1>1, <1>2, Zenon

\* An object that stands for another reads as that one.
LEMMA LikeReads ==
    ASSUME NEW o, NEW p, Like(o, p)
    PROVE  Reads(p) = Reads(o) /\ p.deleted = o.deleted
PROOF
  <1>1. [k \in Keys |-> Reading(p, k)] = [k \in Keys |-> Reading(o, k)]
    BY Zenon DEF Like
  <1> QED  BY <1>1, Zenon DEF Like, Reads

\* An object stands for itself.
LEMMA LikeItself ==
    ASSUME NEW o PROVE Like(o, o)
BY Zenon DEF Like

\* Objects that were only read change no view, and nothing that is clean.
LEMMA CoveredViews ==
    ASSUME NEW c, NEW objs, Sound(objs, c), NEW more, Sound(more, c), Covers(more, objs, c)
    PROVE  /\ \A a \in Addresses : View(more, c.trie, a) = View(objs, c.trie, a)
           /\ Views(more, c.trie) = Views(objs, c.trie)
           /\ \A changed : Clean(objs, changed, c) => Clean(more, changed, c)
PROOF
  <1>1. ASSUME NEW a \in Addresses PROVE View(more, c.trie, a) = View(objs, c.trie, a)
    <2>1. CASE a \in DOMAIN objs
      BY <2>1, ViewIs, LikeReads DEF Covers
    <2>2. CASE a \notin DOMAIN objs
      BY <2>2, ViewIs DEF Covers
    <2> QED  BY <2>1, <2>2, Zenon
  <1>2. Views(more, c.trie) = Views(objs, c.trie)
    BY <1>1, Zenon DEF Views
  <1>3. ASSUME NEW changed, Clean(objs, changed, c) PROVE Clean(more, changed, c)
    <2>1. ASSUME NEW a \in DOMAIN more \ (c.pending \cup changed)
          PROVE  View(more, c.trie, a) = Bare(c.trie, a)
      <3>1. a \in Addresses
        BY Zenon DEF Sound
      <3>2. View(objs, c.trie, a) = Bare(c.trie, a)
        BY <1>3, <3>1, ViewIs DEF Clean
      <3> QED  BY <1>1, <3>1, <3>2, Zenon
    <2> QED  BY <2>1, Zenon DEF Clean
  <1> QED  BY <1>1, <1>2, <1>3, Zenon

\* journalEntry.revert of a legal entry is back; stateObjectsDirty stays.
LEMMA RevertIs ==
    ASSUME NEW c, NEW objs, Sound(objs, c), NEW e, Legal(objs, e, c)
    PROVE  revertEntry([objects |-> objs, dirty |-> c.dirty], e) = [objects |-> back(objs, e), dirty |-> c.dirty]
PROOF
  <1> DEFINE s == [objects |-> objs, dirty |-> c.dirty]
  <1>1. CASE e.kind = "create"
    <2>1. c.dirty \ {e.account} = c.dirty
      BY <1>1, Zenon DEF Legal, ChangeOf
    <2> QED  BY <1>1, <2>1, Zenon DEF revertEntry, back
  <1>2. CASE e.kind = "reset"
    BY <1>2, Zenon DEF revertEntry, back
  <1>3. CASE e.kind \notin {"create", "reset"}
    <2> DEFINE o == objs[e.account]
    <2>1. e.account \in DOMAIN objs /\ ~o.deleted /\ ChangeOf(o, e)
      BY <1>3, Zenon DEF Legal
    <2>2. o \in Objects
      BY <2>1, Zenon DEF Sound, Good
    <2>3. CASE e.kind = "balance"
      BY <1>3, <2>1, <2>3, Zenon DEF revertEntry, back, restore
    <2>4. CASE e.kind = "nonce"
      BY <1>3, <2>1, <2>4, Zenon DEF revertEntry, back, restore
    <2>5. CASE e.kind = "code"
      BY <1>3, <2>1, <2>5, Zenon DEF revertEntry, back, restore
    <2>6. CASE e.kind = "storage"
      BY <1>3, <2>1, <2>6, Zenon DEF revertEntry, back, restore
    <2> QED  BY <2>1, <2>3, <2>4, <2>5, <2>6, Zenon DEF ChangeOf
  <1> QED  BY <1>1, <1>2, <1>3, Zenon

\* Reverting a legal entry leaves sound objects.
LEMMA BackSound ==
    ASSUME NEW c, NEW objs, Sound(objs, c), NEW e, Legal(objs, e, c)
    PROVE  Sound(back(objs, e), c)
PROOF
  <1> DEFINE b == back(objs, e)
  <1>1. CASE e.kind = "create"
    <2>1. b = [x \in DOMAIN objs \ {e.account} |-> objs[x]]
      BY <1>1, Zenon DEF back
    <2>2. e.account \notin c.pending /\ e.account \notin c.dirty
      BY <1>1, Zenon DEF Legal, ChangeOf
    <2> QED  BY <2>1, <2>2, Zenon DEF Sound
  <1>2. CASE e.kind = "reset"
    <2>1. b = Put(objs, e.account, e.prev)
      BY <1>2, Zenon DEF back
    <2>2. e.account \in Addresses /\ Good(e.prev, c.codes)
      BY <1>2, Zenon DEF Legal, ChangeOf
    <2> QED  BY <2>1, <2>2, Zenon DEF Sound, Put
  <1>3. CASE e.kind \notin {"create", "reset"}
    <2>1. b = [objs EXCEPT ![e.account] = restore(objs[e.account], e)]
      BY <1>3, Zenon DEF back
    <2>2. Good(restore(objs[e.account], e), c.codes) /\ e.account \in DOMAIN objs
      BY <1>3, RestoreGood, Zenon DEF Legal, Sound
    <2> QED  BY <2>1, <2>2, Zenon DEF Sound
  <1> QED  BY <1>1, <1>2, <1>3, Zenon

\* The view of an account depends on its own object.
LEMMA ViewLocal ==
    ASSUME NEW tr, NEW objs, NEW more, NEW a,
           a \in DOMAIN objs <=> a \in DOMAIN more, a \in DOMAIN objs => more[a] = objs[a]
    PROVE  View(more, tr, a) = View(objs, tr, a)
BY Zenon DEF View

\* Reverting an entry with more objects read covers reverting it without them.
LEMMA BackCovers ==
    ASSUME NEW c, NEW objs, Sound(objs, c), NEW more, Sound(more, c), Covers(more, objs, c),
           NEW e, Legal(objs, e, c)
    PROVE  Legal(more, e, c) /\ Covers(back(more, e), back(objs, e), c)
PROOF
  <1> DEFINE b == back(objs, e)
             m == back(more, e)
  <1>1. CASE e.kind = "create"
    <2>1. b = [x \in DOMAIN objs \ {e.account} |-> objs[x]] /\ m = [x \in DOMAIN more \ {e.account} |-> more[x]]
      BY <1>1, Zenon DEF back
    <2>2. Legal(more, e, c)
      BY <1>1, Zenon DEF Legal, ChangeOf
    <2> HIDE DEF b, m
    <2>3. \A a \in DOMAIN m \ DOMAIN b : View(m, c.trie, a) = View(more, c.trie, a)
      BY <2>1, ViewLocal
    <2> QED  BY <2>1, <2>2, <2>3, Zenon DEF Covers, b, m
  <1>2. CASE e.kind = "reset"
    <2>1. b = Put(objs, e.account, e.prev) /\ m = Put(more, e.account, e.prev)
      BY <1>2, Zenon DEF back
    <2>2. Legal(more, e, c)
      BY <1>2, Zenon DEF Legal, ChangeOf
    <2>3. /\ DOMAIN b = DOMAIN objs \cup {e.account} /\ DOMAIN m = DOMAIN more \cup {e.account}
          /\ b[e.account] = e.prev /\ m[e.account] = e.prev
          /\ \A a \in DOMAIN objs \ {e.account} : b[a] = objs[a]
          /\ \A a \in DOMAIN more \ {e.account} : m[a] = more[a]
      BY <2>1, Zenon DEF Put
    <2> HIDE DEF b, m
    <2>4. \A a \in DOMAIN m \ DOMAIN b : View(m, c.trie, a) = View(more, c.trie, a)
      BY <2>3, ViewLocal
    <2>5. \A a \in DOMAIN b : Like(b[a], m[a])
      BY <2>3, LikeItself, Zenon DEF Covers
    <2> QED  BY <2>2, <2>3, <2>4, <2>5, Zenon DEF Covers, b, m
  <1>3. CASE e.kind \notin {"create", "reset"}
    <2> DEFINE o == objs[e.account]
               p == more[e.account]
    <2>1. b = [objs EXCEPT ![e.account] = restore(o, e)] /\ m = [more EXCEPT ![e.account] = restore(p, e)]
      BY <1>3, Zenon DEF back
    <2>2. e.account \in DOMAIN objs /\ e.account \in DOMAIN more /\ ~o.deleted /\ ChangeOf(o, e)
          /\ Like(o, p) /\ Good(o, c.codes) /\ Good(p, c.codes)
      BY <1>3, Zenon DEF Legal, Covers, Sound
    <2>3. Like(restore(o, e), restore(p, e)) /\ ChangeOf(p, e)
      BY <2>2, RestoreLike, Zenon
    <2>4. Legal(more, e, c)
      BY <2>2, <2>3, Zenon DEF Legal, Like
    <2>5. /\ DOMAIN b = DOMAIN objs /\ DOMAIN m = DOMAIN more
          /\ b[e.account] = restore(o, e) /\ m[e.account] = restore(p, e)
          /\ \A a \in DOMAIN objs \ {e.account} : b[a] = objs[a]
          /\ \A a \in DOMAIN more \ {e.account} : m[a] = more[a]
      BY <2>1, <2>2, Zenon
    <2> HIDE DEF b, m
    <2>6. \A a \in DOMAIN m \ DOMAIN b : View(m, c.trie, a) = View(more, c.trie, a)
      BY <2>2, <2>5, ViewLocal
    <2>7. \A a \in DOMAIN b : Like(b[a], m[a])
      BY <2>3, <2>5, Zenon DEF Covers
    <2> QED  BY <2>4, <2>5, <2>6, <2>7, Zenon DEF Covers, b, m
  <1> QED  BY <1>1, <1>2, <1>3, Zenon

-----------------------------------------------------------------------------
\* The trail of states a journal leads back to.

\* The states that the walk of the journal goes through are determined by the first and the entries.
LEMMA UndoneUnique ==
    ASSUME NEW s, NEW entries, Len(entries) \in Nat, NEW g, Undoes(g, s, entries, 0)
    PROVE  g = undone(s, entries)
PROOF
  <1> DEFINE L == Len(entries)
             h == undone(s, entries)
             Bad == {k \in Nat : k <= L /\ g[L - k] # h[L - k]}
  <1>1. Undoes(h, s, entries, 0)
    BY UndoneUnfolds, Zenon
  <1> HIDE DEF h
  <1>2. /\ g = [n \in 0 .. L |-> IF n = L THEN s ELSE revertEntry(g[n + 1], entries[n + 1])]
        /\ h = [n \in 0 .. L |-> IF n = L THEN s ELSE revertEntry(h[n + 1], entries[n + 1])]
    BY <1>1, Zenon DEF Undoes
  <1>3. Bad = {}
    <2>1. SUFFICES ASSUME Bad # {} PROVE FALSE
      BY Zenon
    <2>2. PICK k \in Bad : \A j \in Bad : k <= j
      BY <2>1, Least, Zenon
    <2>3. k \in Nat /\ k <= L /\ g[L - k] # h[L - k]
      BY Zenon
    <2>4. CASE k = 0
      <3>1. L - k = L /\ L \in 0 .. L
        BY <2>4
      <3> QED  BY <1>2, <2>3, <3>1, Zenon
    <2>5. CASE k > 0
      <3>1. k - 1 \in Nat /\ k - 1 <= L /\ L - k \in 0 .. L /\ L - k # L /\ (L - k) + 1 = L - (k - 1)
        BY <2>3, <2>5
      <3>2. g[L - (k - 1)] = h[L - (k - 1)]
        <4>1. k - 1 \notin Bad
          BY <2>2, <2>3, <2>5
        <4> QED  BY <3>1, <4>1, Zenon
      <3>3. g[L - k] = revertEntry(g[(L - k) + 1], entries[(L - k) + 1])
        BY <1>2, <3>1, Zenon
      <3>4. h[L - k] = revertEntry(h[(L - k) + 1], entries[(L - k) + 1])
        BY <1>2, <3>1, Zenon
      <3> QED  BY <2>3, <3>1, <3>2, <3>3, <3>4, Zenon
    <2> QED  BY <2>3, <2>4, <2>5
  <1>4. ASSUME NEW n \in 0 .. L PROVE g[n] = h[n]
    <2>1. L - n \in Nat /\ L - n <= L /\ L - (L - n) = n
      OBVIOUS
    <2>2. L - n \notin Bad
      BY <1>3, Zenon
    <2> QED  BY <2>1, <2>2, Zenon
  <1>5. g = [n \in 0 .. L |-> g[n]] /\ h = [n \in 0 .. L |-> h[n]]
    BY <1>2, Zenon
  <1>6. g = h
    BY <1>4, <1>5, Zenon
  <1> QED  BY <1>6, Zenon DEF h

\* The walk back through a journal: where it starts, the states it goes through, and the accounts its
\* first i entries changed (journal.dirties; a reset does not count)
Start(objs, c) == [objects |-> objs, dirty |-> c.dirty]
Trail(objs, J, c) == undone(Start(objs, c), J)
ChangedBy(J, i) == {J[j].account : j \in {n \in 1 .. i : J[n].kind # "reset"}}

\* Every state the journal leads back to is sound, and every entry can be reverted when it is its turn.
Kept(objs, J, c) ==
    /\ \A i \in 0 .. Len(J) : /\ Trail(objs, J, c)[i] = Start(Trail(objs, J, c)[i].objects, c)
                              /\ Sound(Trail(objs, J, c)[i].objects, c)
                              /\ Clean(Trail(objs, J, c)[i].objects, ChangedBy(J, i), c)
    /\ \A i \in 1 .. Len(J) : Legal(Trail(objs, J, c)[i].objects, J[i], c)

\* The views that reverting to each entry would bring back
History(objs, J, c) == [i \in 1 .. Len(J) |-> Views(Trail(objs, J, c)[i - 1].objects, c.trie)]

\* R starts at the objects objs and steps back one entry of J at a time
StepsBack(R, objs, J, c) ==
    /\ R[Len(J)] = Start(objs, c)
    /\ \A i \in 0 .. Len(J) : i # Len(J) => R[i] = revertEntry(R[i + 1], J[i + 1])

\* The trail starts at the objects as they are and steps back one entry at a time.
LEMMA TrailUnfolds ==
    ASSUME NEW objs, NEW J, Len(J) \in Nat, NEW c
    PROVE  StepsBack(Trail(objs, J, c), objs, J, c)
PROOF
  <1> DEFINE R == Trail(objs, J, c)
             L == Len(J)
  <1>1. Undoes(R, Start(objs, c), J, 0)
    BY UndoneUnfolds, Zenon DEF Trail
  <1> HIDE DEF R
  <1>2. R = [n \in 0 .. L |-> IF n = L THEN Start(objs, c) ELSE revertEntry(R[n + 1], J[n + 1])]
    BY <1>1, Zenon DEF Undoes
  <1>3. L \in 0 .. L
    OBVIOUS
  <1>4. R[L] = Start(objs, c)
    BY <1>2, <1>3, Zenon
  <1>5. \A i \in 0 .. L : i # L => R[i] = revertEntry(R[i + 1], J[i + 1])
    BY <1>2, Zenon
  <1> QED  BY <1>4, <1>5, Zenon DEF R, StepsBack

\* One step back along the trail.
LEMMA TrailStep ==
    ASSUME NEW objs, NEW J, Len(J) \in Nat, NEW c, NEW i \in 0 .. Len(J), i # Len(J), NEW now,
           Trail(objs, J, c)[i + 1] = Start(now, c), Sound(now, c), Legal(now, J[i + 1], c)
    PROVE  Trail(objs, J, c)[i] = Start(back(now, J[i + 1]), c) /\ Sound(back(now, J[i + 1]), c)
PROOF
  <1>1. Trail(objs, J, c)[i] = revertEntry(Start(now, c), J[i + 1])
    <2>1. StepsBack(Trail(objs, J, c), objs, J, c)  BY TrailUnfolds, Zenon
    <2>2. Trail(objs, J, c)[i] = revertEntry(Trail(objs, J, c)[i + 1], J[i + 1])  BY <2>1, Zenon DEF StepsBack
    <2> QED  BY <2>2, Zenon
  <1>2. revertEntry(Start(now, c), J[i + 1]) = Start(back(now, J[i + 1]), c)
    BY RevertIs, Zenon DEF Start
  <1> QED  BY <1>1, <1>2, BackSound, Zenon

\* The objects of the start of a trail.
LEMMA StartObjects ==
    ASSUME NEW objs, NEW c PROVE Start(objs, c).objects = objs
BY Zenon DEF Start

\* Objects that were only read keep the journal revertible and every earlier state as it was.
LEMMA KeptCovered ==
    ASSUME NEW c, NEW J, Len(J) \in Nat, NEW objs, Kept(objs, J, c),
           NEW more, Sound(more, c), Covers(more, objs, c)
    PROVE  /\ Kept(more, J, c) /\ History(more, J, c) = History(objs, J, c)
PROOF
  <1> DEFINE L == Len(J)
             R == Trail(objs, J, c)
             M == Trail(more, J, c)
             Fine(i) == /\ M[i] = Start(M[i].objects, c) /\ Sound(M[i].objects, c)
                        /\ Covers(M[i].objects, R[i].objects, c)
             Bad == {k \in Nat : k <= L /\ ~Fine(L - k)}
  <1>1. \A i \in 0 .. L : R[i] = Start(R[i].objects, c) /\ Sound(R[i].objects, c)
                          /\ Clean(R[i].objects, ChangedBy(J, i), c)
    BY Zenon DEF Kept
  <1>2. \A i \in 1 .. L : Legal(R[i].objects, J[i], c)
    BY Zenon DEF Kept
  <1>3. R[L] = Start(objs, c) /\ M[L] = Start(more, c)
    BY TrailUnfolds, Zenon DEF StepsBack
  <1>4. R[L].objects = objs /\ M[L].objects = more
    BY <1>3, StartObjects, Zenon
  <1>5. ASSUME NEW i \in 0 .. L, i # L, Fine(i + 1) PROVE Fine(i)
    <2> DEFINE r == R[i + 1].objects
               m == M[i + 1].objects
               e == J[i + 1]
    <2>1. i + 1 \in 0 .. L /\ i + 1 \in 1 .. L
      BY <1>5
    <2>2. Sound(r, c) /\ Legal(r, e, c) /\ Sound(m, c) /\ Covers(m, r, c)
          /\ R[i + 1] = Start(r, c) /\ M[i + 1] = Start(m, c)
      BY <1>1, <1>2, <1>5, <2>1, Zenon
    <2> HIDE DEF r, m, e
    <2>3. Legal(m, e, c) /\ Covers(back(m, e), back(r, e), c)
      BY <2>2, BackCovers, Zenon
    <2>4. R[i] = Start(back(r, e), c)
      BY <1>5, <2>2, TrailStep DEF e
    <2>5. M[i] = Start(back(m, e), c) /\ Sound(back(m, e), c)
      BY <1>5, <2>2, <2>3, TrailStep, Zenon DEF e
    <2>6. R[i].objects = back(r, e) /\ M[i].objects = back(m, e)
      BY <2>4, <2>5, StartObjects, Zenon
    <2> QED  BY <2>3, <2>5, <2>6, Zenon
  <1>6. Fine(L)
    BY <1>3, <1>4, Zenon
  <1> HIDE DEF Fine, R, M
  <1>7. Bad = {}
    <2>1. SUFFICES ASSUME Bad # {} PROVE FALSE
      BY Zenon
    <2>2. PICK k \in Bad : \A j \in Bad : k <= j
      BY <2>1, Least, Zenon
    <2>3. k \in Nat /\ k <= L /\ ~Fine(L - k)
      BY Zenon
    <2>4. CASE k = 0
      <3>1. L - k = L
        BY <2>4
      <3> QED  BY <1>6, <2>3, <3>1, Zenon
    <2>5. CASE k > 0
      <3>1. k - 1 \in Nat /\ k - 1 <= L /\ L - k \in 0 .. L /\ L - k # L /\ (L - k) + 1 = L - (k - 1)
        BY <2>3, <2>5
      <3>2. Fine(L - (k - 1))
        <4>1. k - 1 \notin Bad
          BY <2>2, <2>3, <2>5
        <4> QED  BY <3>1, <4>1, Zenon
      <3> QED  BY <1>5, <2>3, <3>1, <3>2, Zenon
    <2> QED  BY <2>3, <2>4, <2>5
  <1>8. ASSUME NEW i \in 0 .. L PROVE Fine(i)
    <2>1. L - i \in Nat /\ L - i <= L /\ L - (L - i) = i
      OBVIOUS
    <2>2. L - i \notin Bad
      BY <1>7, Zenon
    <2> QED  BY <2>1, <2>2, Zenon
  <1>9. ASSUME NEW i \in 0 .. L
        PROVE  /\ M[i] = Start(M[i].objects, c) /\ Sound(M[i].objects, c)
               /\ Clean(M[i].objects, ChangedBy(J, i), c)
               /\ Views(M[i].objects, c.trie) = Views(R[i].objects, c.trie)
    <2>1. Fine(i)
      BY <1>8, Zenon
    <2>2. /\ M[i] = Start(M[i].objects, c) /\ Sound(M[i].objects, c) /\ Covers(M[i].objects, R[i].objects, c)
      BY <2>1, Zenon DEF Fine
    <2>3. Sound(R[i].objects, c) /\ Clean(R[i].objects, ChangedBy(J, i), c)
      BY <1>1, Zenon
    <2> QED  BY <2>2, <2>3, CoveredViews, Zenon
  <1>10. ASSUME NEW i \in 1 .. L PROVE Legal(M[i].objects, J[i], c)
    <2>1. i \in 0 .. L /\ Fine(i)
      BY <1>8
    <2>2. Sound(M[i].objects, c) /\ Covers(M[i].objects, R[i].objects, c)
      BY <2>1, Zenon DEF Fine
    <2> QED  BY <1>1, <1>2, <2>1, <2>2, BackCovers, Zenon
  <1>11. Kept(more, J, c)
    BY <1>9, <1>10, Zenon DEF Kept, M
  <1>12. ASSUME NEW i \in 1 .. L
         PROVE  Views(M[i - 1].objects, c.trie) = Views(R[i - 1].objects, c.trie)
    <2>1. i - 1 \in 0 .. L
      OBVIOUS
    <2> QED  BY <1>9, <2>1, Zenon
  <1>13. History(more, J, c) = History(objs, J, c)
    BY <1>12, Zenon DEF History, R, M
  <1> QED  BY <1>11, <1>13, Zenon

\* A new entry whose revert covers the objects before keeps the journal revertible; the earlier
\* states are those before and the one the entry leads back to.
LEMMA KeptPushed ==
    ASSUME NEW c, NEW T, NEW J \in Seq(T), NEW e \in T, NEW objs, Kept(objs, J, c),
           NEW more, Sound(more, c), Legal(more, e, c), Covers(back(more, e), objs, c),
           Clean(more, ChangedBy(Append(J, e), Len(J) + 1), c)
    PROVE  /\ Kept(more, Append(J, e), c)
           /\ History(more, Append(J, e), c) = Append(History(objs, J, c), Views(objs, c.trie))
PROOF
  <1> DEFINE L == Len(J)
             K == Append(J, e)
             b == back(more, e)
             R == Trail(b, J, c)
             M == Trail(more, K, c)
             g == [i \in 0 .. L |-> M[i]]
  <1>0. L \in Nat /\ Len(K) \in Nat /\ Len(K) = L + 1 /\ K[L + 1] = e /\ \A i \in 1 .. L : K[i] = J[i]
    OBVIOUS
  <1> HIDE DEF K
  <1>1. M[L + 1] = Start(more, c) /\ \A i \in 0 .. L : M[i] = revertEntry(M[i + 1], K[i + 1])
    <2>0. StepsBack(M, more, K, c)
      BY <1>0, TrailUnfolds, Zenon
    <2>1. M[Len(K)] = Start(more, c)
      BY <2>0, Zenon DEF StepsBack
    <2>2. \A i \in 0 .. Len(K) : i # Len(K) => M[i] = revertEntry(M[i + 1], K[i + 1])
      BY <2>0, Zenon DEF StepsBack
    <2> HIDE DEF M
    <2> QED  BY <1>0, <2>1, <2>2
  <1>2. Sound(b, c)
    BY BackSound, Zenon
  <1>3. M[L] = Start(b, c)
    <2>1. L \in 0 .. L
      BY <1>0
    <2>2. M[L] = revertEntry(Start(more, c), e)
      BY <1>0, <1>1, <2>1, Zenon
    <2> QED  BY <2>2, RevertIs, Zenon DEF Start
  <1> HIDE DEF M, R, b
  <1>4. R = g
    <2>1. ASSUME NEW n \in 0 .. L
          PROVE  g[n] = IF n = L THEN Start(b, c) ELSE revertEntry(g[n + 1], J[n + 1])
      <3>1. CASE n = L
        BY <1>3, <3>1, Zenon
      <3>2. CASE n # L
        <4>1. n + 1 \in 0 .. L /\ n + 1 \in 1 .. L
          BY <1>0, <3>2
        <4>2. M[n] = revertEntry(M[n + 1], J[n + 1])
          BY <1>0, <1>1, <4>1, Zenon
        <4> QED  BY <3>2, <4>1, <4>2, Zenon
      <3> QED  BY <3>1, <3>2, Zenon
    <2>2. Undoes(g, Start(b, c), J, 0)
      BY <2>1, Zenon DEF Undoes
    <2> HIDE DEF g
    <2> QED  BY <1>0, <2>2, UndoneUnique, Zenon DEF R, Trail
  <1>5. Kept(b, J, c) /\ History(b, J, c) = History(objs, J, c)
    BY <1>0, <1>2, KeptCovered, Zenon DEF b
  <1>6. \A i \in 0 .. L : M[i] = R[i]
    BY <1>4, Zenon
  <1> HIDE DEF g
  <1>7. \A i \in 0 .. L : ChangedBy(K, i) = ChangedBy(J, i)
    <2>1. ASSUME NEW i \in 0 .. L PROVE ChangedBy(K, i) = ChangedBy(J, i)
      <3>1. \A n \in 1 .. i : K[n] = J[n]
        BY <1>0
      <3> QED  BY <3>1, Zenon DEF ChangedBy
    <2> QED  BY <2>1, Zenon
  <1>8. \A i \in 0 .. L : /\ M[i] = Start(M[i].objects, c) /\ Sound(M[i].objects, c)
                          /\ Clean(M[i].objects, ChangedBy(K, i), c)
    BY <1>5, <1>6, <1>7, Zenon DEF Kept, R
  <1>9. M[L + 1] = Start(M[L + 1].objects, c) /\ Sound(M[L + 1].objects, c)
        /\ Clean(M[L + 1].objects, ChangedBy(K, L + 1), c) /\ Legal(M[L + 1].objects, K[L + 1], c)
    <2>1. M[L + 1].objects = more
      BY <1>1, StartObjects, Zenon
    <2> QED  BY <1>0, <1>1, <2>1, Zenon DEF K
  <1>10. \A i \in 1 .. L : Legal(M[i].objects, K[i], c)
    <2>1. ASSUME NEW i \in 1 .. L PROVE Legal(M[i].objects, K[i], c)
      <3>1. i \in 0 .. L /\ M[i] = R[i] /\ K[i] = J[i]
        BY <1>0, <1>6
      <3>2. Legal(R[i].objects, J[i], c)
        BY <1>5, Zenon DEF Kept, R
      <3> QED  BY <3>1, <3>2, Zenon
    <2> QED  BY <2>1, Zenon
  <1>11. Kept(more, K, c)
    <2>1. /\ \A i \in 0 .. Len(K) : i \in 0 .. L \/ i = L + 1
          /\ \A i \in 1 .. Len(K) : i \in 1 .. L \/ i = L + 1
      BY <1>0
    <2> QED  BY <1>8, <1>9, <1>10, <2>1, Zenon DEF Kept, M
  <1>12. History(more, K, c) = Append(History(objs, J, c), Views(objs, c.trie))
    <2> DEFINE now == Views(objs, c.trie)
               H == History(objs, J, c)
    <2>1. Views(M[L].objects, c.trie) = now
      <3>1. L \in 0 .. L /\ M[L].objects = b
        BY <1>0, <1>3, StartObjects
      <3>2. Sound(objs, c)
        <4>1. Sound(Trail(objs, J, c)[L].objects, c)
          BY <1>0, <3>1, Zenon DEF Kept
        <4>2. Trail(objs, J, c)[L] = Start(objs, c)
          <5>1. StepsBack(Trail(objs, J, c), objs, J, c)  BY <1>0, TrailUnfolds, Zenon
          <5> QED  BY <5>1, Zenon DEF StepsBack
        <4> QED  BY <4>1, <4>2, StartObjects, Zenon
      <3>3. Views(b, c.trie) = now
        BY <1>2, <3>2, CoveredViews, Zenon DEF b
      <3> QED  BY <3>1, <3>3, Zenon
    <2>2. H = [i \in 1 .. L |-> Views(M[i - 1].objects, c.trie)]
      <3>1. H = [i \in 1 .. L |-> Views(R[i - 1].objects, c.trie)]
        BY <1>5, Zenon DEF History, R
      <3>2. \A i \in 1 .. L : M[i - 1] = R[i - 1]
        <4>1. \A i \in 1 .. L : i - 1 \in 0 .. L
          BY <1>0
        <4> QED  BY <1>6, <4>1, Zenon
      <3> QED  BY <3>1, <3>2, Zenon
    <2>3. History(more, K, c) = [i \in 1 .. L + 1 |-> Views(M[i - 1].objects, c.trie)]
      BY <1>0, Zenon DEF History, M
    <2>4. Len(H) = L
      BY <1>0, <2>2
    <2>5. Append(H, now) = [i \in 1 .. L + 1 |-> IF i = L + 1 THEN now ELSE H[i]]
      BY <2>2, <2>4, <1>0
    <2>6. \A i \in 1 .. L + 1 : Views(M[i - 1].objects, c.trie) = IF i = L + 1 THEN now ELSE H[i]
      <3>1. ASSUME NEW i \in 1 .. L + 1
            PROVE  Views(M[i - 1].objects, c.trie) = IF i = L + 1 THEN now ELSE H[i]
        <4>1. CASE i = L + 1
          <5>1. i - 1 = L
            BY <1>0, <4>1
          <5> QED  BY <2>1, <4>1, <5>1, Zenon
        <4>2. CASE i # L + 1
          <5>1. i \in 1 .. L
            BY <1>0, <4>2
          <5> QED  BY <2>2, <4>2, <5>1, Zenon
        <4> QED  BY <4>1, <4>2, Zenon
      <3> QED  BY <3>1, Zenon
    <2> HIDE DEF H, now
    <2> QED  BY <2>3, <2>5, <2>6, Zenon DEF H, now
  <1> QED  BY <1>11, <1>12, Zenon DEF K

\* journal.revert: at a state of the trail, the journal below it is kept with the same trail.
LEMMA KeptCut ==
    ASSUME NEW c, NEW T, NEW J \in Seq(T), NEW objs, Kept(objs, J, c), NEW n \in 0 .. Len(J)
    PROVE  LET older == Trail(objs, J, c)[n].objects
               K == SubSeq(J, 1, n)
           IN  /\ Kept(older, K, c)
               /\ \A i \in 0 .. n : Trail(older, K, c)[i] = Trail(objs, J, c)[i]
PROOF
  <1> DEFINE L == Len(J)
             K == SubSeq(J, 1, n)
             M == Trail(objs, J, c)
             older == M[n].objects
             R == Trail(older, K, c)
             g == [i \in 0 .. n |-> M[i]]
  <1>0. L \in Nat /\ n \in Nat /\ n <= L /\ Len(K) = n /\ \A i \in 1 .. n : K[i] = J[i]
    OBVIOUS
  <1> HIDE DEF K
  <1>1. \A i \in 0 .. L : i # L => M[i] = revertEntry(M[i + 1], J[i + 1])
    <2>1. StepsBack(M, objs, J, c)  BY <1>0, TrailUnfolds, Zenon
    <2> QED  BY <2>1, Zenon DEF StepsBack
  <1>2. M[n] = Start(older, c)
    BY Zenon DEF Kept
  <1> HIDE DEF M, R, older
  <1>3. g = R
    <2>1. ASSUME NEW i \in 0 .. n
          PROVE  g[i] = IF i = n THEN Start(older, c) ELSE revertEntry(g[i + 1], K[i + 1])
      <3>1. CASE i = n
        BY <1>2, <3>1, Zenon
      <3>2. CASE i # n
        <4>1. i + 1 \in 0 .. n /\ i + 1 \in 1 .. n /\ i \in 0 .. L /\ i # L
          BY <1>0, <3>2
        <4>2. M[i] = revertEntry(M[i + 1], K[i + 1])
          BY <1>0, <1>1, <4>1, Zenon
        <4> QED  BY <3>2, <4>1, <4>2, Zenon
      <3> QED  BY <3>1, <3>2, Zenon
    <2>2. Undoes(g, Start(older, c), K, 0)
      BY <1>0, <2>1, Zenon DEF Undoes
    <2> HIDE DEF g
    <2> QED  BY <1>0, <2>2, UndoneUnique, Zenon DEF R, Trail
  <1>4. \A i \in 0 .. n : R[i] = M[i]
    BY <1>3, Zenon
  <1> HIDE DEF g
  <1>5. ASSUME NEW i \in 0 .. n
        PROVE  R[i] = Start(R[i].objects, c) /\ Sound(R[i].objects, c) /\ Clean(R[i].objects, ChangedBy(K, i), c)
    <2>1. i \in 0 .. L
      BY <1>0
    <2>2. ChangedBy(K, i) = ChangedBy(J, i)
      <3>1. \A j \in 1 .. i : K[j] = J[j]
        BY <1>0
      <3> QED  BY <3>1, Zenon DEF ChangedBy
    <2>3. M[i] = Start(M[i].objects, c) /\ Sound(M[i].objects, c) /\ Clean(M[i].objects, ChangedBy(J, i), c)
      BY <2>1, Zenon DEF Kept, M
    <2> QED  BY <1>4, <2>2, <2>3, Zenon
  <1>6. ASSUME NEW i \in 1 .. n PROVE Legal(R[i].objects, K[i], c)
    <2>1. i \in 1 .. L /\ i \in 0 .. n
      BY <1>0
    <2>2. Legal(M[i].objects, J[i], c)
      BY <2>1, Zenon DEF Kept, M
    <2> QED  BY <1>0, <1>4, <2>1, <2>2, Zenon
  <1>7. Kept(older, K, c)
    BY <1>0, <1>5, <1>6, Zenon DEF Kept, R
  <1> QED  BY <1>4, <1>7, Zenon DEF K, M, older, R

-----------------------------------------------------------------------------
\* The invariant, and the calls that get an object.

\* Journal entries; an object that createObject replaced is in prev
Entries ==
    [kind : {"create"}, account : Addresses] \cup [kind : {"reset"}, account : Addresses, prev : Objects]
    \cup [kind : {"balance"}, account : Addresses, prev : Balances]
    \cup [kind : {"nonce"}, account : Addresses, prev : AllNonces]
    \cup [kind : {"code"}, account : Addresses, prev : Codes, prevhash : Codes]
    \cup [kind : {"storage"}, account : Addresses, prev : Values, key : Keys]

\* What the objects are judged by
Ctx == [trie |-> trie, pending |-> pending, dirty |-> dirty, codes |-> db.codes]

\* State tries
Tries == [Addresses -> Accounts \cup {NoAccount}]

\* What the state trie is, below the changes.
Settled ==
    /\ trie \in Tries /\ root \in Tries /\ pending \subseteq dirty
    /\ \A a \in Addresses \ dirty : trie[a] = root[a]
    /\ emptyRoot \in db.tries /\ CommittedIsComplete

\* The inductive invariant
StateInv == Settled /\ journal \in Seq(Entries) /\ Kept(objects, journal, Ctx)

\* The fields of Ctx.
LEMMA CtxIs ==
    /\ Ctx.trie = trie /\ Ctx.pending = pending /\ Ctx.dirty = dirty /\ Ctx.codes = db.codes
BY Zenon DEF Ctx

\* The state trie having no account is not an account.
LEMMA NoAccountIs ==
    NoAccount \notin Accounts
PROOF
  <1>1. \A x \in Accounts : x.nonce \in AllNonces
    BY Zenon DEF Accounts
  <1>2. NoAccount.nonce = -1 /\ -1 \notin AllNonces
    BY StateAssumption DEF NoAccount, AllNonces
  <1> QED  BY <1>1, <1>2, Zenon

\* An account that does not exist reads as a blank one, which is an account.
LEMMA BlankIs ==
    Blank \in Accounts /\ Blank.codeHash = NoCode
BY StateAssumption DEF Blank, Account, Accounts, AllNonces, Balances, Storage, emptyRoot

\* An account as the state trie has it is an account.
LEMMA BareTyped ==
    ASSUME NEW tr \in Tries, NEW a \in Addresses
    PROVE  Bare(tr, a) \in Accounts
BY BlankIs, Zenon DEF Tries, Bare

\* When the journal is kept, the objects as they are are sound, and clean but for what it changed.
LEMMA KeptNow ==
    ASSUME NEW c, NEW J, Len(J) \in Nat, NEW objs, Kept(objs, J, c)
    PROVE  Sound(objs, c) /\ Clean(objs, ChangedBy(J, Len(J)), c)
PROOF
  <1>1. Trail(objs, J, c)[Len(J)] = Start(objs, c)
    BY TrailUnfolds, Zenon DEF StepsBack
  <1>2. Trail(objs, J, c)[Len(J)].objects = objs
    BY <1>1, StartObjects, Zenon
  <1>3. Len(J) \in 0 .. Len(J)
    OBVIOUS
  <1> QED  BY <1>2, <1>3, Zenon DEF Kept

\* A state without entries is kept when it is sound and clean.
LEMMA KeptEmpty ==
    ASSUME NEW c, NEW objs, Sound(objs, c), Clean(objs, {}, c)
    PROVE  Kept(objs, << >>, c)
PROOF
  <1>1. Len(<< >>) = 0 /\ Len(<< >>) \in Nat
    BY Zenon
  <1>2. Trail(objs, << >>, c)[0] = Start(objs, c)
    <2>1. StepsBack(Trail(objs, << >>, c), objs, << >>, c)  BY <1>1, TrailUnfolds, Zenon
    <2> QED  BY <1>1, <2>1, Zenon DEF StepsBack
  <1>3. ChangedBy(<< >>, 0) = {}
    BY DEF ChangedBy
  <1>4. \A i \in 0 .. 0 : i = 0
    OBVIOUS
  <1>5. Trail(objs, << >>, c)[0].objects = objs
    BY <1>2, StartObjects, Zenon
  <1> QED  BY <1>1, <1>2, <1>3, <1>4, <1>5 DEF Kept

\* A new object reads as the account it is made from.
LEMMA NewObjectReads ==
    ASSUME NEW data \in Accounts, NEW codes, data.codeHash \in codes \cup {NoCode}
    PROVE  /\ Good(newObject(data), codes) /\ Reads(newObject(data)) = data
           /\ newObject(data).deleted = FALSE
PROOF
  <1> DEFINE o == newObject(data)
  <1>1. Good(o, codes)
    BY NewObjectGood, Zenon
  <1>2. o.data = data /\ o.dirty = EmptyMap /\ o.pending = EmptyMap /\ o.deleted = FALSE
    BY Zenon DEF newObject
  <1> HIDE DEF o
  <1>3. \A k \in Keys : Reading(o, k) = data.root[k]
    BY <1>2, MapFacts, Zenon DEF Reading
  <1>4. [k \in Keys |-> Reading(o, k)] = data.root
    BY <1>3, Zenon DEF Accounts, Storage
  <1>5. Reads(o) = [data EXCEPT !.root = data.root]
    BY <1>2, <1>4, Zenon DEF Reads
  <1>6. Reads(o) = data
    BY <1>5, Zenon DEF Accounts
  <1> QED  BY <1>1, <1>2, <1>6, Zenon DEF o

\* getDeletedStateObject: an object read from the state trie changes no view.
LEMMA FetchCovers ==
    ASSUME StateInv, NEW a \in Addresses
    PROVE  /\ Sound(fetch(a), Ctx) /\ Covers(fetch(a), objects, Ctx)
           /\ a \notin DOMAIN fetch(a) => trie[a] = NoAccount
PROOF
  <1>1. Sound(objects, Ctx)
    BY KeptNow DEF StateInv
  <1>2. Covers(objects, objects, Ctx)
    BY LikeItself, Zenon DEF Covers
  <1>3. CASE a \in DOMAIN objects \/ trie[a] = NoAccount
    BY <1>1, <1>2, <1>3, Zenon DEF fetch
  <1>4. CASE a \notin DOMAIN objects /\ trie[a] # NoAccount
    <2> DEFINE o == newObject(trie[a])
               f == fetch(a)
    <2>1. f = Put(objects, a, o)
      BY <1>4, Zenon DEF fetch
    <2>2. trie[a] \in Accounts /\ trie[a].codeHash \in Ctx.codes \cup {NoCode}
      <3>1. a \notin dirty
        BY <1>1, <1>4, CtxIs, Zenon DEF Sound
      <3>2. trie[a] = root[a]
        BY <3>1, Zenon DEF StateInv, Settled
      <3> QED  BY <1>4, <3>2, CtxIs, Zenon DEF StateInv, Settled, Tries, CommittedIsComplete
    <2>3. Good(o, Ctx.codes) /\ Reads(o) = trie[a] /\ ~o.deleted
      BY <2>2, NewObjectReads, Zenon
    <2> HIDE DEF o, f
    <2>4. /\ DOMAIN f = DOMAIN objects \cup {a} /\ f[a] = o
          /\ \A x \in DOMAIN objects : f[x] = objects[x]
          /\ f = [x \in DOMAIN f |-> f[x]]
      BY <1>4, <2>1, Zenon DEF Put
    <2>5. Sound(f, Ctx)
      BY <1>1, <2>3, <2>4, Zenon DEF Sound
    <2>6. View(f, Ctx.trie, a) = trie[a]
      BY <2>3, <2>4, <2>5, ViewIs, Zenon
    <2>7. Bare(Ctx.trie, a) = trie[a]
      BY <1>4, CtxIs, Zenon DEF Bare
    <2>8. Covers(f, objects, Ctx)
      BY <2>4, <2>6, <2>7, LikeItself, Zenon DEF Covers
    <2> QED  BY <2>4, <2>5, <2>8, Zenon DEF f
  <1> QED  BY <1>3, <1>4, Zenon

\* The accounts changed by a journal with one entry more.
LEMMA ChangedByAppend ==
    ASSUME NEW T, NEW J \in Seq(T), NEW e \in T
    PROVE  ChangedBy(Append(J, e), Len(J) + 1) =
               ChangedBy(J, Len(J)) \cup (IF e.kind = "reset" THEN {} ELSE {e.account})
PROOF
  <1> DEFINE L == Len(J)
             K == Append(J, e)
  <1>1. L \in Nat /\ K[L + 1] = e /\ \A i \in 1 .. L : K[i] = J[i]
    OBVIOUS
  <1>2. \A i \in 1 .. L + 1 : i \in 1 .. L \/ i = L + 1
    BY <1>1
  <1>3. \A i \in 1 .. L : i \in 1 .. L + 1
    BY <1>1
  <1>4. L + 1 \in 1 .. L + 1
    BY <1>1
  <1> HIDE DEF K
  <1>5. ChangedBy(K, L + 1) \subseteq ChangedBy(J, L) \cup (IF e.kind = "reset" THEN {} ELSE {e.account})
    BY <1>1, <1>2, Zenon DEF ChangedBy
  <1>6. ChangedBy(J, L) \subseteq ChangedBy(K, L + 1)
    BY <1>1, <1>3, Zenon DEF ChangedBy
  <1>7. e.kind # "reset" => e.account \in ChangedBy(K, L + 1)
    BY <1>1, <1>4, Zenon DEF ChangedBy
  <1> QED  BY <1>5, <1>6, <1>7, Zenon DEF K

\* more is objs with o for a: the views of the other accounts stay.
Replaced(objs, more, a, o, c) ==
    /\ Sound(more, c) /\ DOMAIN more = DOMAIN objs \cup {a} /\ more[a] = o
    /\ \A x \in DOMAIN objs \ {a} : more[x] = objs[x]
    /\ \A x \in Addresses \ {a} : View(more, c.trie, x) = View(objs, c.trie, x)
    /\ View(more, c.trie, a) = IF o.deleted THEN Blank ELSE Reads(o)

\* Setting the object of one account replaces its view and no other.
LEMMA PutObject ==
    ASSUME NEW c, NEW objs, Sound(objs, c), NEW a \in Addresses, NEW o, Good(o, c.codes)
    PROVE  Replaced(objs, Put(objs, a, o), a, o, c)
PROOF
  <1> DEFINE more == Put(objs, a, o)
  <1>1. /\ DOMAIN more = DOMAIN objs \cup {a} /\ more[a] = o
        /\ \A x \in DOMAIN objs \ {a} : more[x] = objs[x]
    BY Zenon DEF Put
  <1>2. more = [x \in DOMAIN more |-> more[x]]
    BY Zenon DEF Put
  <1> HIDE DEF more
  <1>3. Sound(more, c)
    BY <1>1, <1>2, Zenon DEF Sound
  <1>4. \A x \in Addresses \ {a} : View(more, c.trie, x) = View(objs, c.trie, x)
    BY <1>1, ViewLocal
  <1>5. View(more, c.trie, a) = IF o.deleted THEN Blank ELSE Reads(o)
    BY <1>1, <1>3, ViewIs, Zenon
  <1> QED  BY <1>1, <1>3, <1>4, <1>5, Zenon DEF Replaced, more

\* GetOrNewStateObject: the account has a live object by then, every view is as it was, and a
\* journal entry it adds leads back to the same views.
LEMMA GetOrNewKept ==
    ASSUME StateInv, NEW a \in Addresses
    PROVE  LET s == getOrNew(a)
           IN  /\ s.journal \in Seq(Entries) /\ Kept(s.objects, s.journal, Ctx)
               /\ Views(s.objects, trie) = Views(objects, trie)
               /\ a \in DOMAIN s.objects /\ ~s.objects[a].deleted
               /\ \/ History(s.objects, s.journal, Ctx) = History(objects, journal, Ctx)
                  \/ History(s.objects, s.journal, Ctx) = Append(History(objects, journal, Ctx), Views(objects, trie))
PROOF
  <1> DEFINE objs == fetch(a)
             s == getOrNew(a)
  <1>1. Sound(objs, Ctx) /\ Covers(objs, objects, Ctx) /\ (a \notin DOMAIN objs => trie[a] = NoAccount)
    BY FetchCovers, Zenon
  <1>2. journal \in Seq(Entries) /\ Len(journal) \in Nat /\ Kept(objects, journal, Ctx) /\ Sound(objects, Ctx)
    BY KeptNow DEF StateInv
  <1> HIDE DEF objs
  <1>3. Kept(objs, journal, Ctx) /\ History(objs, journal, Ctx) = History(objects, journal, Ctx)
    BY <1>1, <1>2, KeptCovered, Zenon
  <1>4. Views(objs, trie) = Views(objects, trie)
    BY <1>1, <1>2, CoveredViews, CtxIs, Zenon
  <1>5. Clean(objs, ChangedBy(journal, Len(journal)), Ctx)
    BY <1>2, <1>3, KeptNow, Zenon
  <1>6. CASE a \in DOMAIN objs /\ ~objs[a].deleted
    <2>1. s = [objects |-> objs, journal |-> journal]
      BY <1>6, Zenon DEF getOrNew, objs
    <2>2. s.objects = objs /\ s.journal = journal
      BY <2>1
    <2> HIDE DEF s
    <2> QED  BY <1>2, <1>3, <1>4, <1>6, <2>2, Zenon DEF s
  <1>7. CASE ~(a \in DOMAIN objs /\ ~objs[a].deleted)
    <2> DEFINE o == newObject(Blank)
               more == Put(objs, a, o)
               e == IF a \in DOMAIN objs THEN resetObjectChange(a, objs[a]) ELSE createObjectChange(a)
    <2>1. s = [objects |-> more, journal |-> Append(journal, e)]
      BY <1>7, Zenon DEF getOrNew, objs, Blank
    <2>2. Good(o, Ctx.codes) /\ Reads(o) = Blank /\ ~o.deleted
      BY BlankIs, NewObjectReads, Zenon
    <2> HIDE DEF o
    <2> HIDE DEF more
    <2>3. /\ Sound(more, Ctx) /\ DOMAIN more = DOMAIN objs \cup {a} /\ more[a] = o
          /\ \A x \in DOMAIN objs \ {a} : more[x] = objs[x]
          /\ \A x \in Addresses \ {a} : View(more, trie, x) = View(objs, trie, x)
          /\ View(more, trie, a) = Blank
      <3>1. Replaced(objs, more, a, o, Ctx)
        BY <1>1, <2>2, PutObject, Zenon DEF more
      <3> QED  BY <2>2, <3>1, CtxIs, Zenon DEF Replaced
    <2>4. View(objs, trie, a) = Blank
      BY <1>1, <1>7, ViewIs, CtxIs DEF Bare
    <2>5. Views(more, trie) = Views(objs, trie)
      BY <2>3, <2>4, Zenon DEF Views
    <2>6. e \in Entries /\ Legal(more, e, Ctx) /\ back(more, e) = objs
      <3>1. CASE a \in DOMAIN objs
        <4>1. e = [kind |-> "reset", account |-> a, prev |-> objs[a]] /\ Good(objs[a], Ctx.codes)
          BY <1>1, <3>1, Zenon DEF resetObjectChange, Sound
        <4> HIDE DEF e
        <4>2. e \in Entries
          BY <4>1, Zenon DEF Entries, Good
        <4>3. Legal(more, e, Ctx)
          BY <4>1, Zenon DEF Legal
        <4>4. back(more, e) = Put(more, a, objs[a])
          BY <4>1, Zenon DEF back
        <4>5. Put(more, a, objs[a]) = [x \in DOMAIN objs |-> objs[x]]
          BY <3>1, <2>3, Zenon DEF Put
        <4> QED  BY <1>1, <4>2, <4>3, <4>4, <4>5, Zenon DEF Sound
      <3>2. CASE a \notin DOMAIN objs
        <4>1. e = [kind |-> "create", account |-> a]
          BY <3>2, Zenon DEF createObjectChange
        <4> HIDE DEF e
        <4>2. e \in Entries
          BY <4>1, Zenon DEF Entries
        <4>3. Legal(more, e, Ctx)
          BY <1>1, <3>2, <4>1, Zenon DEF Legal, Sound
        <4>4. back(more, e) = [x \in DOMAIN more \ {a} |-> more[x]]
          BY <4>1, Zenon DEF back
        <4>5. [x \in DOMAIN more \ {a} |-> more[x]] = [x \in DOMAIN objs |-> objs[x]]
          BY <3>2, <2>3, Zenon
        <4> QED  BY <1>1, <4>2, <4>3, <4>4, <4>5, Zenon DEF Sound
      <3> QED  BY <3>1, <3>2, Zenon
    <2>7. Clean(more, ChangedBy(Append(journal, e), Len(journal) + 1), Ctx)
      <3>1. e.kind = (IF a \in DOMAIN objs THEN "reset" ELSE "create") /\ e.account = a
        BY Zenon DEF resetObjectChange, createObjectChange
      <3> HIDE DEF e
      <3>2. ChangedBy(Append(journal, e), Len(journal) + 1) =
                ChangedBy(journal, Len(journal)) \cup (IF e.kind = "reset" THEN {} ELSE {e.account})
        BY <1>2, <2>6, ChangedByAppend, Zenon
      <3> DEFINE before == ChangedBy(journal, Len(journal))
                 after == ChangedBy(Append(journal, e), Len(journal) + 1)
      <3>3. before \subseteq after
        BY <3>2, Zenon
      <3> HIDE DEF before, after
      <3>4. ASSUME NEW x \in DOMAIN more \ (pending \cup after) PROVE View(more, trie, x) = Bare(trie, x)
        <4>1. x \in Addresses
          BY <2>3, Zenon DEF Sound
        <4>2. View(more, trie, x) = View(objs, trie, x)
          BY <2>3, <2>4, <4>1, Zenon
        <4>3. CASE x \in DOMAIN objs
          BY <1>5, <3>3, <3>4, <4>2, <4>3, CtxIs, Zenon DEF Clean, before
        <4>4. CASE x \notin DOMAIN objs
          BY <1>1, <4>1, <4>2, <4>4, ViewIs
        <4> QED  BY <4>3, <4>4, Zenon
      <3> QED  BY <3>4, CtxIs, Zenon DEF Clean, after
    <2>8. Covers(objs, objs, Ctx)
      BY LikeItself, Zenon DEF Covers
    <2> HIDE DEF e
    <2>9. /\ Kept(more, Append(journal, e), Ctx)
          /\ History(more, Append(journal, e), Ctx) = Append(History(objs, journal, Ctx), Views(objs, trie))
      BY <1>2, <1>3, <2>3, <2>6, <2>7, <2>8, KeptPushed, CtxIs, SMTT(30)
    <2>10. s.objects = more /\ s.journal = Append(journal, e)
      BY <2>1
    <2>11. Append(journal, e) \in Seq(Entries)
      BY <1>2, <2>6
    <2> HIDE DEF s
    <2> QED  BY <1>3, <1>4, <2>2, <2>3, <2>5, <2>9, <2>10, <2>11, Zenon DEF s
  <1> QED  BY <1>6, <1>7, Zenon

-----------------------------------------------------------------------------
\* The calls that write.

\* What a caller can see
States == [Addresses -> Accounts]

\* A view is an account.
LEMMA ViewTyped ==
    ASSUME NEW c, NEW objs, Sound(objs, c), NEW tr \in Tries
    PROVE  Views(objs, tr) \in States
PROOF
  <1>1. ASSUME NEW a \in Addresses PROVE View(objs, tr, a) \in Accounts
    <2>1. a \in DOMAIN objs => Good(objs[a], c.codes)
      BY Zenon DEF Sound
    <2>2. a \in DOMAIN objs => Reads(objs[a]) \in Accounts
      BY <2>1, ReadsTyped, Zenon
    <2> QED  BY <2>2, ViewIs, BareTyped, BlankIs
  <1> QED  BY <1>1, Zenon DEF Views, States

\* The history has a state for every entry.
LEMMA HistoryTyped ==
    ASSUME NEW c, c.trie \in Tries, NEW J, Len(J) \in Nat, NEW objs, Kept(objs, J, c)
    PROVE  History(objs, J, c) \in Seq(States) /\ Len(History(objs, J, c)) = Len(J)
PROOF
  <1> DEFINE now(i) == Views(Trail(objs, J, c)[i - 1].objects, c.trie)
  <1>1. ASSUME NEW i \in 1 .. Len(J) PROVE now(i) \in States
    <2>1. i - 1 \in 0 .. Len(J)
      OBVIOUS
    <2>2. Sound(Trail(objs, J, c)[i - 1].objects, c)
      BY <2>1, Zenon DEF Kept
    <2> QED  BY <2>2, ViewTyped, Zenon
  <1>2. History(objs, J, c) = [i \in 1 .. Len(J) |-> now(i)]
    BY Zenon DEF History
  <1> HIDE DEF now
  <1> QED  BY <1>1, <1>2

\* One and two states appended.
LEMMA TwoAppends ==
    ASSUME NEW T, NEW H \in Seq(T), NEW v \in T
    PROVE  Append(H, v) = H \o <<v>> /\ Append(Append(H, v), v) = H \o <<v, v>>
BY SMTT(30)

\* What a call that writes a leaves
Wrote(a, objs, J) ==
    LET now == Views(objects, trie)
        old == History(objects, journal, Ctx)
        new == History(objs, J, Ctx)
    IN  /\ J \in Seq(Entries) /\ Kept(objs, J, Ctx)
        /\ \E account \in Accounts : Views(objs, trie) = [now EXCEPT ![a] = account]
        /\ \/ new = old /\ Views(objs, trie) = now
           \/ new = old \o <<now>>
           \/ new = old \o <<now, now>>

\* A change of an object with its entry keeps the journal revertible, and appends the views before
\* it to the history.
LEMMA ChangeKept ==
    ASSUME NEW c, NEW J \in Seq(Entries), NEW objs, Kept(objs, J, c), NEW a \in DOMAIN objs,
           NEW n, Good(n, c.codes), ~n.deleted,
           NEW e \in Entries, e.account = a, ChangeOf(n, e), Like(objs[a], restore(n, e))
    PROVE  /\ Kept([objs EXCEPT ![a] = n], Append(J, e), c)
           /\ History([objs EXCEPT ![a] = n], Append(J, e), c) = Append(History(objs, J, c), Views(objs, c.trie))
           /\ Views([objs EXCEPT ![a] = n], c.trie) = [Views(objs, c.trie) EXCEPT ![a] = Reads(n)]
           /\ a \in Addresses
PROOF
  <1> DEFINE more == [objs EXCEPT ![a] = n]
             changed == ChangedBy(Append(J, e), Len(J) + 1)
  <1>1. Sound(objs, c) /\ Clean(objs, ChangedBy(J, Len(J)), c)
    BY KeptNow
  <1>2. a \in Addresses
    BY <1>1, Zenon DEF Sound
  <1>3. more = Put(objs, a, n)
    BY <1>1, Zenon DEF Put, Sound
  <1>4. Replaced(objs, more, a, n, c)
    <2>1. Replaced(objs, Put(objs, a, n), a, n, c)
      BY <1>1, <1>2, PutObject, Zenon
    <2> HIDE DEF more
    <2> QED  BY <1>3, <2>1, Zenon
  <1>5. e.kind \notin {"create", "reset"}
    BY Zenon DEF ChangeOf
  <1>6. back(more, e) = [objs EXCEPT ![a] = restore(n, e)]
    BY <1>1, <1>5, Zenon DEF back, Sound
  <1>7. Covers(back(more, e), objs, c)
    BY <1>6, LikeItself, Zenon DEF Covers
  <1>8. Legal(more, e, c)
    BY Zenon DEF Legal
  <1> HIDE DEF more
  <1>9. Clean(more, changed, c)
    <2>1. changed = ChangedBy(J, Len(J)) \cup {a}
      BY <1>5, ChangedByAppend, Zenon
    <2> HIDE DEF changed
    <2>2. ASSUME NEW x \in DOMAIN more \ (c.pending \cup changed)
          PROVE  View(more, c.trie, x) = Bare(c.trie, x)
      <3>1. x \in Addresses \ {a} /\ x \in DOMAIN objs
        BY <1>1, <1>4, <2>1, Zenon DEF Replaced, Sound
      <3> QED  BY <1>1, <1>4, <2>1, <3>1, Zenon DEF Replaced, Clean
    <2> QED  BY <2>2, Zenon DEF Clean
  <1>10. /\ Kept(more, Append(J, e), c)
         /\ History(more, Append(J, e), c) = Append(History(objs, J, c), Views(objs, c.trie))
    <2>1. Sound(more, c)
      BY <1>4, Zenon DEF Replaced
    <2> QED  BY <2>1, <1>7, <1>8, <1>9, KeptPushed, Zenon
  <1>11. Views(more, c.trie) = [Views(objs, c.trie) EXCEPT ![a] = Reads(n)]
    BY <1>2, <1>4, Zenon DEF Views, Replaced
  <1> QED  BY <1>2, <1>10, <1>11, Zenon DEF more

\* A setter: GetOrNewStateObject, one change of the object and its entry.
LEMMA ModifyWrote ==
    ASSUME StateInv, NEW a \in Addresses, NEW s, s = getOrNew(a),
           NEW n, Good(n, db.codes), ~n.deleted,
           NEW e \in Entries, e.account = a, ChangeOf(n, e), Like(s.objects[a], restore(n, e))
    PROVE  Wrote(a, [s.objects EXCEPT ![a] = n], Append(s.journal, e))
PROOF
  <1> DEFINE objs == s.objects
             J == s.journal
             more == [objs EXCEPT ![a] = n]
             now == Views(objects, trie)
             old == History(objects, journal, Ctx)
             new == History(more, Append(J, e), Ctx)
  <1>1. /\ J \in Seq(Entries) /\ Kept(objs, J, Ctx) /\ Views(objs, trie) = now
        /\ a \in DOMAIN objs
        /\ History(objs, J, Ctx) = old \/ History(objs, J, Ctx) = Append(old, now)
    BY GetOrNewKept, Zenon
  <1> HIDE DEF objs, J
  <1>2. /\ Kept(more, Append(J, e), Ctx)
        /\ new = Append(History(objs, J, Ctx), Views(objs, trie))
        /\ Views(more, trie) = [Views(objs, trie) EXCEPT ![a] = Reads(n)]
    BY <1>1, ChangeKept, CtxIs, SMTT(30) DEF objs
  <1>3. Append(J, e) \in Seq(Entries)
    BY <1>1
  <1>4. old \in Seq(States) /\ now \in States
    BY HistoryTyped, ViewTyped, KeptNow, CtxIs DEF StateInv, Settled
  <1>5. Reads(n) \in Accounts
    BY ReadsTyped, Zenon
  <1> HIDE DEF more, now, old, new
  <1>6. new = old \o <<now>> \/ new = old \o <<now, now>>
    BY <1>1, <1>2, <1>4, TwoAppends, SMTT(30)
  <1>7. Views(more, trie) = [now EXCEPT ![a] = Reads(n)]
    BY <1>1, <1>2, Zenon
  <1> QED  BY <1>2, <1>3, <1>5, <1>6, <1>7, Zenon DEF Wrote, more, now, old, new, objs, J

\* The object a write gets is live and good.
LEMMA GotObject ==
    ASSUME StateInv, NEW a \in Addresses, NEW s, s = getOrNew(a)
    PROVE  a \in DOMAIN s.objects /\ Good(s.objects[a], db.codes) /\ ~s.objects[a].deleted
PROOF
  <1>1. /\ s.journal \in Seq(Entries) /\ Kept(s.objects, s.journal, Ctx)
        /\ a \in DOMAIN s.objects /\ ~s.objects[a].deleted
    BY GetOrNewKept, Zenon
  <1>2. Sound(s.objects, Ctx)
    BY <1>1, KeptNow
  <1> QED  BY <1>1, <1>2, CtxIs, Zenon DEF Sound

\* The types of the fields of a good object.
LEMMA GoodFields ==
    ASSUME NEW codes, NEW o, Good(o, codes)
    PROVE  /\ o.data \in Accounts /\ o.data.balance \in Balances /\ o.data.nonce \in AllNonces
           /\ o.data.codeHash \in Codes /\ o.code \in Codes
BY Zenon DEF Good, Objects, Accounts

\* SetBalance writes its account only.
LEMMA BalanceWrote ==
    ASSUME StateInv, NEW a \in Addresses, NEW s, s = getOrNew(a), NEW amount \in Balances
    PROVE  Wrote(a, [s.objects EXCEPT ![a] = [s.objects[a] EXCEPT !.data.balance = amount]],
                 Append(s.journal, change("balance", a, s.objects[a].data.balance)))
PROOF
  <1> DEFINE o == s.objects[a]
             n == withBalance(o, amount)
             e == change("balance", a, o.data.balance)
  <1>1. Good(o, db.codes) /\ ~o.deleted
    BY GotObject, Zenon
  <1>2. o.data \in Accounts /\ o.data.balance \in Balances
    BY <1>1, GoodFields, Zenon
  <1> HIDE DEF o
  <1>3. /\ e \in Entries /\ e.account = a /\ e.kind = "balance" /\ e.prev = o.data.balance
        /\ ChangeOf(n, e)
    BY <1>2, Zenon DEF change, Entries, ChangeOf
  <1>4. /\ Good(n, db.codes) /\ n.deleted = o.deleted /\ n.origin = o.origin
        /\ n.data = [o.data EXCEPT !.balance = amount]
        /\ \A k \in Keys : Reading(n, k) = Reading(o, k)
    BY <1>1, SetBalanceGood DEF Updated
  <1> HIDE DEF e, n
  <1>5. restore(n, e) = withBalance(n, o.data.balance)
    BY <1>3, Zenon DEF restore, withBalance
  <1>6. /\ restore(n, e).deleted = n.deleted /\ restore(n, e).origin = n.origin
        /\ restore(n, e).data = [n.data EXCEPT !.balance = o.data.balance]
        /\ \A k \in Keys : Reading(restore(n, e), k) = Reading(n, k)
    <2> DEFINE was == o.data.balance
               r == withBalance(n, was)
    <2>1. was \in Balances
      BY <1>2, Zenon
    <2> HIDE DEF was
    <2>2. Updated(n, r, db.codes) /\ r.data = [n.data EXCEPT !.balance = was]
      <3>1. Good(n, db.codes)
        BY <1>4, Zenon
      <3> QED  BY <2>1, <3>1, SetBalanceGood, Zenon
    <2>3. restore(n, e) = r
      BY <1>5, Zenon DEF was
    <2> HIDE DEF r
    <2> QED  BY <2>2, <2>3, Zenon DEF was, Updated
  <1>7. [[o.data EXCEPT !.balance = amount] EXCEPT !.balance = o.data.balance] = o.data
    BY <1>2, Zenon DEF Accounts
  <1>8. Like(o, restore(n, e))
    BY <1>4, <1>5, <1>6, <1>7, Zenon DEF Like
  <1>9. Wrote(a, [s.objects EXCEPT ![a] = n], Append(s.journal, e))
    BY <1>1, <1>3, <1>4, <1>8, ModifyWrote, Zenon DEF o
  <1> QED  BY <1>9, Zenon DEF o, n, e, withBalance

\* SetNonce writes its account only.
LEMMA NonceWrote ==
    ASSUME StateInv, NEW a \in Addresses, NEW s, s = getOrNew(a), NEW nonce \in AllNonces
    PROVE  Wrote(a, [s.objects EXCEPT ![a] = [s.objects[a] EXCEPT !.data.nonce = nonce]],
                 Append(s.journal, change("nonce", a, s.objects[a].data.nonce)))
PROOF
  <1> DEFINE o == s.objects[a]
             n == withNonce(o, nonce)
             e == change("nonce", a, o.data.nonce)
  <1>1. Good(o, db.codes) /\ ~o.deleted
    BY GotObject, Zenon
  <1>2. o.data \in Accounts /\ o.data.nonce \in AllNonces
    BY <1>1, GoodFields, Zenon
  <1> HIDE DEF o
  <1>3. /\ e \in Entries /\ e.account = a /\ e.kind = "nonce" /\ e.prev = o.data.nonce
        /\ ChangeOf(n, e)
    BY <1>2, Zenon DEF change, Entries, ChangeOf
  <1>4. /\ Good(n, db.codes) /\ n.deleted = o.deleted /\ n.origin = o.origin
        /\ n.data = [o.data EXCEPT !.nonce = nonce]
        /\ \A k \in Keys : Reading(n, k) = Reading(o, k)
    BY <1>1, SetNonceGood DEF Updated
  <1> HIDE DEF e, n
  <1>5. restore(n, e) = withNonce(n, o.data.nonce)
    BY <1>3, Zenon DEF restore, withNonce
  <1>6. /\ restore(n, e).deleted = n.deleted /\ restore(n, e).origin = n.origin
        /\ restore(n, e).data = [n.data EXCEPT !.nonce = o.data.nonce]
        /\ \A k \in Keys : Reading(restore(n, e), k) = Reading(n, k)
    <2> DEFINE was == o.data.nonce
               r == withNonce(n, was)
    <2>1. was \in AllNonces
      BY <1>2, Zenon
    <2> HIDE DEF was
    <2>2. Updated(n, r, db.codes) /\ r.data = [n.data EXCEPT !.nonce = was]
      <3>1. Good(n, db.codes)
        BY <1>4, Zenon
      <3> QED  BY <2>1, <3>1, SetNonceGood, Zenon
    <2>3. restore(n, e) = r
      BY <1>5, Zenon DEF was
    <2> HIDE DEF r
    <2> QED  BY <2>2, <2>3, Zenon DEF was, Updated
  <1>7. [[o.data EXCEPT !.nonce = nonce] EXCEPT !.nonce = o.data.nonce] = o.data
    BY <1>2, Zenon DEF Accounts
  <1>8. Like(o, restore(n, e))
    BY <1>4, <1>5, <1>6, <1>7, Zenon DEF Like
  <1>9. Wrote(a, [s.objects EXCEPT ![a] = n], Append(s.journal, e))
    BY <1>1, <1>3, <1>4, <1>8, ModifyWrote, Zenon DEF o
  <1> QED  BY <1>9, Zenon DEF o, n, e, withNonce

\* SetCode writes its account only.
LEMMA CodeWrote ==
    ASSUME StateInv, NEW a \in Addresses, NEW s, s = getOrNew(a), NEW code \in Codes
    PROVE  LET o == withCode(s.objects[a])
           IN  Wrote(a, [s.objects EXCEPT ![a] = [o EXCEPT !.code = code, !.data.codeHash = code, !.dirtyCode = TRUE]],
                     Append(s.journal, [kind |-> "code", account |-> a, prev |-> o.code, prevhash |-> o.data.codeHash]))
PROOF
  <1> DEFINE g == s.objects[a]
             o == withCode(g)
             n == withNewCode(o, code)
             e == [kind |-> "code", account |-> a, prev |-> o.code, prevhash |-> o.data.codeHash]
  <1>1. Good(g, db.codes) /\ ~g.deleted
    BY GotObject, Zenon
  <1>2. Good(o, db.codes) /\ Like(g, o) /\ o.code = g.data.codeHash
    BY <1>1, WithCodeGood, Zenon
  <1>3. o.data \in Accounts /\ o.code \in Codes /\ o.data.codeHash = o.code /\ ~o.deleted
    BY <1>1, <1>2, GoodFields, Zenon DEF Like
  <1> HIDE DEF g, o
  <1>4. /\ e \in Entries /\ e.account = a /\ e.kind = "code" /\ e.prev = o.code /\ e.prevhash = o.code
        /\ ChangeOf(n, e)
    BY <1>3, Zenon DEF Entries, ChangeOf
  <1>5. /\ Good(n, db.codes) /\ n.deleted = o.deleted /\ n.origin = o.origin
        /\ n.data = [o.data EXCEPT !.codeHash = code]
        /\ \A k \in Keys : Reading(n, k) = Reading(o, k)
    BY <1>2, SetCodeGood DEF Updated
  <1> HIDE DEF e, n
  <1>6. restore(n, e) = withNewCode(n, o.code)
    BY <1>4, Zenon DEF restore, withNewCode
  <1>7. /\ restore(n, e).deleted = n.deleted /\ restore(n, e).origin = n.origin
        /\ restore(n, e).data = [n.data EXCEPT !.codeHash = o.code]
        /\ \A k \in Keys : Reading(restore(n, e), k) = Reading(n, k)
    <2> DEFINE was == o.code
               r == withNewCode(n, was)
    <2>1. was \in Codes
      BY <1>3, Zenon
    <2> HIDE DEF was
    <2>2. Updated(n, r, db.codes) /\ r.data = [n.data EXCEPT !.codeHash = was]
      <3>1. Good(n, db.codes)
        BY <1>5, Zenon
      <3> QED  BY <2>1, <3>1, SetCodeGood, Zenon
    <2>3. restore(n, e) = r
      BY <1>6, Zenon DEF was
    <2> HIDE DEF r
    <2> QED  BY <2>2, <2>3, Zenon DEF was, Updated
  <1>8. [[o.data EXCEPT !.codeHash = code] EXCEPT !.codeHash = o.code] = o.data
    BY <1>3, Zenon DEF Accounts
  <1>9. Like(g, restore(n, e))
    BY <1>2, <1>5, <1>6, <1>7, <1>8, Zenon DEF Like
  <1>10. ~n.deleted
    BY <1>3, <1>5, Zenon
  <1>11. Wrote(a, [s.objects EXCEPT ![a] = n], Append(s.journal, e))
    BY <1>4, <1>5, <1>9, <1>10, ModifyWrote, Zenon DEF g
  <1> QED  BY <1>11, Zenon DEF g, o, n, e, withNewCode

\* A call that only gets or creates its object writes nothing.
LEMMA TouchWrote ==
    ASSUME StateInv, NEW a \in Addresses, NEW s, s = getOrNew(a)
    PROVE  Wrote(a, s.objects, s.journal)
PROOF
  <1> DEFINE now == Views(objects, trie)
             old == History(objects, journal, Ctx)
             new == History(s.objects, s.journal, Ctx)
  <1>1. /\ s.journal \in Seq(Entries) /\ Kept(s.objects, s.journal, Ctx) /\ Views(s.objects, trie) = now
        /\ new = old \/ new = Append(old, now)
    BY GetOrNewKept, Zenon
  <1>2. old \in Seq(States) /\ now \in States
    BY HistoryTyped, ViewTyped, KeptNow, CtxIs DEF StateInv, Settled
  <1>3. now[a] \in Accounts /\ now = [now EXCEPT ![a] = now[a]]
    BY <1>2, Zenon DEF States
  <1> HIDE DEF now, old, new
  <1>4. new = old \/ new = old \o <<now>>
    BY <1>1, <1>2, TwoAppends, Zenon
  <1> QED  BY <1>1, <1>3, <1>4, Zenon DEF Wrote, now, old, new

\* An object that has read one more key stands for the one before.
LEMMA LoadedWrote ==
    ASSUME StateInv, NEW a \in Addresses, NEW s, s = getOrNew(a),
           NEW o, Good(o, db.codes), Like(s.objects[a], o)
    PROVE  Wrote(a, [s.objects EXCEPT ![a] = o], s.journal)
PROOF
  <1> DEFINE objs == s.objects
             more == [objs EXCEPT ![a] = o]
             now == Views(objects, trie)
             old == History(objects, journal, Ctx)
             new == History(more, s.journal, Ctx)
  <1>1. Wrote(a, objs, s.journal)
    BY TouchWrote, Zenon
  <1>2. a \in DOMAIN objs
    BY GotObject, Zenon
  <1>3. s.journal \in Seq(Entries) /\ Kept(objs, s.journal, Ctx)
    BY <1>1, Zenon DEF Wrote
  <1>4. Sound(objs, Ctx)
    BY <1>3, KeptNow
  <1> HIDE DEF objs
  <1>5. /\ DOMAIN more = DOMAIN objs /\ more[a] = o /\ \A x \in DOMAIN objs \ {a} : more[x] = objs[x]
        /\ more = [x \in DOMAIN more |-> more[x]]
    BY <1>2, <1>4, Zenon DEF Sound
  <1> HIDE DEF more
  <1>6. Sound(more, Ctx)
    BY <1>4, <1>5, CtxIs, Zenon DEF Sound
  <1>7. Covers(more, objs, Ctx)
    BY <1>5, LikeItself, Zenon DEF Covers, objs
  <1>8. Kept(more, s.journal, Ctx) /\ new = History(objs, s.journal, Ctx)
    BY <1>3, <1>6, <1>7, KeptCovered
  <1>9. Views(more, trie) = Views(objs, trie)
    BY <1>4, <1>6, <1>7, CoveredViews, CtxIs, Zenon
  <1> HIDE DEF now, old, new
  <1>10. Wrote(a, more, s.journal)
    BY <1>1, <1>3, <1>8, <1>9, Zenon DEF Wrote, new
  <1> QED  BY <1>10, Zenon DEF more, objs

\* SetState writes its account only.
LEMMA StateWrote ==
    ASSUME StateInv, NEW a \in Addresses, NEW s, s = getOrNew(a), NEW key \in Keys, NEW value \in Values
    PROVE  LET o == loaded(s.objects[a], key)
               prev == GetState(o, key)
           IN  /\ Wrote(a, [s.objects EXCEPT ![a] = o], s.journal)
               /\ Wrote(a, [s.objects EXCEPT ![a] = [o EXCEPT !.dirty = Put(@, key, value)]],
                        Append(s.journal, [kind |-> "storage", account |-> a, prev |-> prev, key |-> key]))
PROOF
  <1> DEFINE g == s.objects[a]
             o == loaded(g, key)
             prev == GetState(o, key)
             n == withState(o, key, value)
             e == [kind |-> "storage", account |-> a, prev |-> prev, key |-> key]
  <1>1. Good(g, db.codes) /\ ~g.deleted
    BY GotObject, Zenon
  <1>2. Good(o, db.codes) /\ Like(g, o) /\ key \in DOMAIN o.origin
    BY <1>1, LoadedGood, Zenon
  <1> HIDE DEF o
  <1>3. Wrote(a, [s.objects EXCEPT ![a] = o], s.journal)
    BY <1>2, LoadedWrote, Zenon
  <1> HIDE DEF g
  <1>4. prev = Reading(o, key) /\ prev \in Values /\ ~o.deleted
    BY <1>1, <1>2, GetStateReads, ReadingTyped, Zenon DEF Good, Like
  <1> HIDE DEF prev
  <1>5. StateSet(o, n, key, value, db.codes)
    BY <1>2, SetStateGood, Zenon
  <1> HIDE DEF n
  <1>6. Good(n, db.codes) /\ ~n.deleted /\ n.deleted = o.deleted /\ n.origin = o.origin /\ n.data = o.data
        /\ \A k \in Keys : Reading(n, k) = IF k = key THEN value ELSE Reading(o, k)
    BY <1>4, <1>5, Zenon DEF StateSet
  <1>7. /\ e \in Entries /\ e.account = a /\ e.kind = "storage" /\ e.prev = prev /\ e.key = key
        /\ ChangeOf(n, e)
    BY <1>2, <1>4, <1>6, Zenon DEF Entries, ChangeOf
  <1> HIDE DEF e
  <1>8. Like(g, restore(n, e))
    <2> DEFINE r == withState(n, key, prev)
    <2>1. restore(n, e) = r
      BY <1>7, Zenon DEF restore, withState
    <2>2. Good(n, db.codes) /\ key \in DOMAIN n.origin
      BY <1>2, <1>6, Zenon
    <2>3. StateSet(n, r, key, prev, db.codes)
      BY <1>4, <2>2, SetStateGood, Zenon
    <2> HIDE DEF r
    <2>4. r.deleted = n.deleted /\ r.origin = n.origin /\ r.data = n.data
          /\ \A k \in Keys : Reading(r, k) = IF k = key THEN prev ELSE Reading(n, k)
      BY <2>3, Zenon DEF StateSet
    <2>5. \A k \in Keys : Reading(r, k) = Reading(o, k)
      BY <1>4, <1>6, <2>4, Zenon
    <2>6. Like(o, r)
      BY <1>6, <2>4, <2>5, Zenon DEF Like
    <2> QED  BY <1>2, <2>1, <2>6, Zenon DEF Like
  <1>9. Wrote(a, [s.objects EXCEPT ![a] = n], Append(s.journal, e))
    BY <1>6, <1>7, <1>8, ModifyWrote, Zenon DEF g
  <1> QED  BY <1>3, <1>9, Zenon DEF g, o, prev, n, e, withState

\* The calls that write one account
Writes(a) ==
    \/ \E n \in Amounts : SetBalance(a, n) \/ AddBalance(a, n) \/ (n > 0 /\ AddBalance(a, -n))
    \/ \E n \in Nonces : SetNonce(a, n)
    \/ \E c \in Codes : SetCode(a, c)
    \/ \E k \in Keys, v \in Values : SetState(a, k, v)

\* AddBalance writes its account only.
LEMMA AddWrote ==
    ASSUME StateInv, NEW a \in Addresses, NEW amount, AddBalance(a, amount)
    PROVE  Wrote(a, objects', journal') /\ UNCHANGED <<trie, pending, dirty, db, root>>
PROOF
  <1> DEFINE s == getOrNew(a)
             o == s.objects[a]
             sum == o.data.balance + amount
  <1>1. sum \in Balances
    BY Zenon DEF AddBalance, Balances
  <1>2. CASE amount = 0
    <2>1. objects' = s.objects /\ journal' = s.journal /\ UNCHANGED <<trie, pending, dirty, db, root>>
      BY <1>2, Zenon DEF AddBalance, Touch
    <2> QED  BY <2>1, TouchWrote, Zenon
  <1>3. CASE amount # 0
    <2>1. /\ objects' = [s.objects EXCEPT ![a] = [o EXCEPT !.data.balance = sum]]
          /\ journal' = Append(s.journal, change("balance", a, o.data.balance))
          /\ UNCHANGED <<trie, pending, dirty, db, root>>
      BY <1>3, Zenon DEF AddBalance, Modify
    <2>2. Wrote(a, [s.objects EXCEPT ![a] = [o EXCEPT !.data.balance = sum]],
                Append(s.journal, change("balance", a, o.data.balance)))
      <3> HIDE DEF s, sum
      <3> QED  BY <1>1, BalanceWrote, Zenon DEF s
    <2> QED  BY <2>1, <2>2, Zenon
  <1> QED  BY <1>2, <1>3, Zenon

\* Every call that writes an account has the effect Wrote, and leaves the state trie, the sets and
\* the database.
LEMMA WritesWrote ==
    ASSUME StateInv, NEW a \in Addresses, Writes(a)
    PROVE  Wrote(a, objects', journal') /\ UNCHANGED <<trie, pending, dirty, db, root>>
PROOF
  <1> DEFINE s == getOrNew(a)
             g == s.objects[a]
  <1>1. ASSUME NEW n \in Amounts, SetBalance(a, n)
        PROVE  Wrote(a, objects', journal') /\ UNCHANGED <<trie, pending, dirty, db, root>>
    <2>1. /\ objects' = [s.objects EXCEPT ![a] = [g EXCEPT !.data.balance = n]]
          /\ journal' = Append(s.journal, change("balance", a, g.data.balance))
          /\ UNCHANGED <<trie, pending, dirty, db, root>>
      BY <1>1, Zenon DEF SetBalance, Modify
    <2>2. n \in Balances
      BY StateAssumption, Zenon DEF Balances
    <2>3. Wrote(a, [s.objects EXCEPT ![a] = [g EXCEPT !.data.balance = n]],
                Append(s.journal, change("balance", a, g.data.balance)))
      <3> HIDE DEF s
      <3> QED  BY <2>2, BalanceWrote, Zenon DEF s
    <2> QED  BY <2>1, <2>3, Zenon
  <1>2. ASSUME NEW n \in Nonces, SetNonce(a, n)
        PROVE  Wrote(a, objects', journal') /\ UNCHANGED <<trie, pending, dirty, db, root>>
    <2>1. /\ objects' = [s.objects EXCEPT ![a] = [g EXCEPT !.data.nonce = n]]
          /\ journal' = Append(s.journal, change("nonce", a, g.data.nonce))
          /\ UNCHANGED <<trie, pending, dirty, db, root>>
      BY <1>2, Zenon DEF SetNonce, Modify
    <2>2. n \in AllNonces
      BY Zenon DEF AllNonces
    <2>3. Wrote(a, [s.objects EXCEPT ![a] = [g EXCEPT !.data.nonce = n]],
                Append(s.journal, change("nonce", a, g.data.nonce)))
      <3> HIDE DEF s
      <3> QED  BY <2>2, NonceWrote, Zenon DEF s
    <2> QED  BY <2>1, <2>3, Zenon
  <1>3. ASSUME NEW c \in Codes, SetCode(a, c)
        PROVE  Wrote(a, objects', journal') /\ UNCHANGED <<trie, pending, dirty, db, root>>
    <2> DEFINE o == withCode(g)
    <2>1. /\ objects' = [s.objects EXCEPT ![a] = [o EXCEPT !.code = c, !.data.codeHash = c, !.dirtyCode = TRUE]]
          /\ journal' = Append(s.journal, [kind |-> "code", account |-> a, prev |-> o.code, prevhash |-> o.data.codeHash])
          /\ UNCHANGED <<trie, pending, dirty, db, root>>
      BY <1>3, Zenon DEF SetCode, Modify
    <2>2. Wrote(a, [s.objects EXCEPT ![a] = [o EXCEPT !.code = c, !.data.codeHash = c, !.dirtyCode = TRUE]],
                Append(s.journal, [kind |-> "code", account |-> a, prev |-> o.code, prevhash |-> o.data.codeHash]))
      <3> HIDE DEF s
      <3> QED  BY CodeWrote, Zenon DEF s
    <2> QED  BY <2>1, <2>2, Zenon
  <1>4. ASSUME NEW k \in Keys, NEW v \in Values, SetState(a, k, v)
        PROVE  Wrote(a, objects', journal') /\ UNCHANGED <<trie, pending, dirty, db, root>>
    <2> DEFINE o == loaded(g, k)
               prev == GetState(o, k)
               more == [s.objects EXCEPT ![a] = o]
               put == [s.objects EXCEPT ![a] = [o EXCEPT !.dirty = Put(@, k, v)]]
               longer == Append(s.journal, [kind |-> "storage", account |-> a, prev |-> prev, key |-> k])
    <2>1. Wrote(a, more, s.journal) /\ Wrote(a, put, longer)
      <3> HIDE DEF s
      <3> QED  BY StateWrote, Zenon DEF s
    <2>2. CASE prev = v
      <3>1. objects' = [s EXCEPT !.objects[a] = o].objects /\ journal' = [s EXCEPT !.objects[a] = o].journal
            /\ UNCHANGED <<trie, pending, dirty, db, root>>
        BY <1>4, <2>2, Zenon DEF SetState, Touch
      <3>2. s = [objects |-> s.objects, journal |-> s.journal]
        BY Zenon DEF getOrNew
      <3> HIDE DEF s, o
      <3>3. objects' = more /\ journal' = s.journal
        BY <3>1, <3>2, Zenon
      <3> QED  BY <2>1, <3>1, <3>3, Zenon
    <2>3. CASE prev # v
      <3>1. objects' = put /\ journal' = longer /\ UNCHANGED <<trie, pending, dirty, db, root>>
        BY <1>4, <2>3, Zenon DEF SetState, Modify
      <3> HIDE DEF put, longer
      <3> QED  BY <2>1, <3>1, Zenon
    <2> QED  BY <2>2, <2>3, Zenon
  <1> QED  BY <1>1, <1>2, <1>3, <1>4, AddWrote, Zenon DEF Writes

\* Steps that leave the state trie, the sets and the database as they are
LEMMA SettledStays ==
    ASSUME StateInv, UNCHANGED <<trie, pending, dirty, db, root>>
    PROVE  Settled' /\ Ctx' = Ctx
PROOF
  <1>1. Settled
    BY Zenon DEF StateInv
  <1> QED  BY <1>1, Zenon DEF Settled, CommittedIsComplete, Tries, Ctx

\* The calls that write keep the invariant.
LEMMA WritesInv ==
    ASSUME StateInv, NEW a \in Addresses, Writes(a)
    PROVE  StateInv'
PROOF
  <1>1. Wrote(a, objects', journal') /\ UNCHANGED <<trie, pending, dirty, db, root>>
    BY WritesWrote, Zenon
  <1>2. Settled' /\ Ctx' = Ctx
    BY <1>1, SettledStays, Zenon
  <1>3. journal' \in Seq(Entries) /\ Kept(objects', journal', Ctx)
    BY <1>1, Zenon DEF Wrote
  <1> QED  BY <1>2, <1>3, Zenon DEF StateInv

-----------------------------------------------------------------------------
\* GetBalance and journal.revert.

\* GetBalance keeps the invariant, the views and the history.
LEMMA GetBalanceKept ==
    ASSUME StateInv, NEW a \in Addresses, GetBalance(a)
    PROVE  /\ StateInv' /\ UNCHANGED <<trie, pending, dirty, db, root, journal>>
           /\ History(objects', journal', Ctx) = History(objects, journal, Ctx)
           /\ Views(objects', trie) = Views(objects, trie)
PROOF
  <1>1. objects' = fetch(a) /\ UNCHANGED <<trie, pending, dirty, db, root, journal>>
    BY Zenon DEF GetBalance
  <1>2. Settled' /\ Ctx' = Ctx
    BY <1>1, SettledStays, Zenon
  <1>3. Sound(objects', Ctx) /\ Covers(objects', objects, Ctx)
    BY <1>1, FetchCovers, Zenon
  <1>4. journal \in Seq(Entries) /\ Kept(objects, journal, Ctx) /\ Sound(objects, Ctx)
    BY KeptNow DEF StateInv
  <1>5. Kept(objects', journal, Ctx) /\ History(objects', journal, Ctx) = History(objects, journal, Ctx)
    BY <1>3, <1>4, KeptCovered
  <1>6. Views(objects', trie) = Views(objects, trie)
    BY <1>3, <1>4, CoveredViews, CtxIs, Zenon
  <1>7. StateInv'
    BY <1>1, <1>2, <1>4, <1>5, Zenon DEF StateInv
  <1> QED  BY <1>1, <1>5, <1>6, <1>7, Zenon

\* The states journal.revert can lead back to are those of the trail.
LEMMA RevertedIs ==
    reverted = Trail(objects, journal, Ctx)
BY CtxIs, Zenon DEF reverted, Trail, Start

\* journal.revert keeps the invariant; the views are by then those of the history at the snapshot,
\* which is cut there.
LEMMA RevertKept ==
    ASSUME StateInv, NEW n \in 0 .. Len(journal) - 1, Revert(n)
    PROVE  /\ StateInv' /\ UNCHANGED <<trie, root>>
           /\ Views(objects', trie) = History(objects, journal, Ctx)[n + 1]
           /\ History(objects', journal', Ctx) = SubSeq(History(objects, journal, Ctx), 1, n)
           /\ Ctx' = Ctx
PROOF
  <1> DEFINE R == Trail(objects, journal, Ctx)
             older == R[n].objects
             K == SubSeq(journal, 1, n)
             H == History(objects, journal, Ctx)
  <1>1. journal \in Seq(Entries) /\ Kept(objects, journal, Ctx) /\ Len(journal) \in Nat /\ Ctx.trie \in Tries
    BY CtxIs DEF StateInv, Settled
  <1>2. n \in 0 .. Len(journal) /\ n \in Nat /\ n + 1 \in 1 .. Len(journal)
    BY <1>1
  <1>3. /\ objects' = R[n].objects /\ dirty' = R[n].dirty /\ journal' = K
        /\ UNCHANGED <<trie, pending, db, root>>
    BY RevertedIs, Zenon DEF Revert
  <1>4. R[n] = Start(older, Ctx)
    BY <1>1, <1>2, Zenon DEF Kept
  <1>5. dirty' = dirty
    BY <1>3, <1>4, CtxIs DEF Start
  <1>6. Settled' /\ Ctx' = Ctx
    BY <1>3, <1>5, SettledStays, Zenon
  <1>7. Kept(older, K, Ctx) /\ \A i \in 0 .. n : Trail(older, K, Ctx)[i] = R[i]
    BY <1>1, <1>2, KeptCut
  <1>8. K \in Seq(Entries) /\ Len(K) = n
    BY <1>1, <1>2
  <1>9. StateInv'
    BY <1>3, <1>6, <1>7, <1>8, Zenon DEF StateInv
  <1>10. H \in Seq(States) /\ Len(H) = Len(journal) /\ \A i \in 1 .. Len(journal) : H[i] = Views(R[i - 1].objects, trie)
    <2>1. H \in Seq(States) /\ Len(H) = Len(journal)
      BY <1>1, HistoryTyped, Zenon
    <2>2. \A i \in 1 .. Len(journal) : H[i] = Views(R[i - 1].objects, trie)
      BY CtxIs, Zenon DEF History
    <2> QED  BY <2>1, <2>2, Zenon
  <1>11. Views(objects', trie) = H[n + 1]
    <2>1. (n + 1) - 1 = n
      BY <1>2
    <2> HIDE DEF H, R
    <2> QED  BY <1>2, <1>3, <1>10, <2>1, Zenon
  <1>12. History(older, K, Ctx) = SubSeq(H, 1, n)
    <2>1. History(older, K, Ctx) = [i \in 1 .. n |-> Views(Trail(older, K, Ctx)[i - 1].objects, trie)]
      BY <1>8, CtxIs, Zenon DEF History
    <2>2. \A i \in 1 .. n : Views(Trail(older, K, Ctx)[i - 1].objects, trie) = H[i]
      <3>1. ASSUME NEW i \in 1 .. n PROVE Views(Trail(older, K, Ctx)[i - 1].objects, trie) = H[i]
        <4>1. i - 1 \in 0 .. n /\ i \in 1 .. Len(journal)
          BY <1>2
        <4>2. Trail(older, K, Ctx)[i - 1] = R[i - 1]
          BY <1>7, <4>1, Zenon
        <4> HIDE DEF H
        <4> QED  BY <1>10, <4>1, <4>2, Zenon
      <3> QED  BY <3>1, Zenon
    <2> HIDE DEF H
    <2>3. SubSeq(H, 1, n) = [i \in 1 .. n |-> H[i]]
      BY <1>2, <1>10
    <2> QED  BY <2>1, <2>2, <2>3, Zenon
  <1> QED  BY <1>3, <1>6, <1>9, <1>11, <1>12, Zenon

-----------------------------------------------------------------------------
\* Finalise and IntermediateRoot.

\* journal.dirties holds the accounts the journal changed.
LEMMA DirtiedIs ==
    ASSUME StateInv PROVE dirtied = ChangedBy(journal, Len(journal))
PROOF
  <1>1. DOMAIN journal = 1 .. Len(journal)
    BY DEF StateInv
  <1> QED  BY <1>1, Zenon DEF dirtied, ChangedBy

\* Marking an object deleted keeps it good.
LEMMA DeletedGood ==
    ASSUME NEW codes, NEW o, Good(o, codes), NEW p, p = [o EXCEPT !.deleted = TRUE]
    PROVE  Good(p, codes) /\ p.deleted
PROOF
  <1>1. /\ p.data = o.data /\ p.storage = o.storage /\ p.code = o.code /\ p.dirtyCode = o.dirtyCode
        /\ p.origin = o.origin /\ p.pending = o.pending /\ p.dirty = o.dirty /\ p.deleted = TRUE
        /\ p \in Objects
    BY Zenon DEF Good, Objects
  <1> QED  BY <1>1 DEF Good, Coherent

\* The accounts a Finalise drops
Gone(deleteEmptyObjects) == {a \in finalisedAddresses : deleteEmptyObjects /\ empty(objects[a])}

\* What the objects are after Finalise; c has the sets as they are by then.
Finalised(d, F, c) ==
    /\ Sound(F, c) /\ DOMAIN F = DOMAIN objects
    /\ \A a \in DOMAIN F \ c.pending : F[a] = objects[a] /\ View(F, trie, a) = Bare(trie, a)
    /\ \A a \in Addresses : View(F, trie, a) = IF a \in Gone(d) THEN Blank ELSE View(objects, trie, a)
    /\ Gone(d) \subseteq {a \in Addresses : Views(objects, trie)[a].nonce = 0
                            /\ Views(objects, trie)[a].balance = 0 /\ Views(objects, trie)[a].codeHash = NoCode}

\* Finalise drops the empty accounts it is to drop, and leaves the other views.
LEMMA FinalisedIs ==
    ASSUME StateInv, NEW d, NEW c, c.trie = trie, c.codes = db.codes,
           c.pending = pending \cup finalisedAddresses, c.dirty = dirty \cup finalisedAddresses
    PROVE  Finalised(d, finalised(d), c)
PROOF
  <1> DEFINE F == finalised(d)
  <1>1. Sound(objects, Ctx) /\ Clean(objects, dirtied, Ctx)
    BY KeptNow, DirtiedIs DEF StateInv
  <1>2. /\ DOMAIN F = DOMAIN objects /\ F = [a \in DOMAIN F |-> F[a]]
        /\ \A a \in DOMAIN objects : a \notin dirtied => F[a] = objects[a]
        /\ \A a \in DOMAIN objects : a \in Gone(d) => F[a] = [objects[a] EXCEPT !.deleted = TRUE]
        /\ \A a \in DOMAIN objects : a \in dirtied /\ a \notin Gone(d) => F[a] = finalise(objects[a])
    BY Zenon DEF finalised, Gone, finalisedAddresses
  <1> HIDE DEF F
  <1>3. ASSUME NEW a \in DOMAIN objects
        PROVE  /\ Good(F[a], c.codes)
               /\ a \in Gone(d) => F[a].deleted
               /\ a \notin Gone(d) => F[a].deleted = objects[a].deleted /\ Reads(F[a]) = Reads(objects[a])
    <2>1. Good(objects[a], c.codes)
      BY <1>1, CtxIs, Zenon DEF Sound
    <2>2. CASE a \notin dirtied
      BY <1>2, <2>1, <2>2, Zenon DEF Gone, finalisedAddresses
    <2>3. CASE a \in Gone(d)
      BY <1>2, <2>1, <2>3, DeletedGood, SMTT(30)
    <2>4. CASE a \in dirtied /\ a \notin Gone(d)
      <3>1. F[a] = finalise(objects[a])
        BY <1>2, <2>4, Zenon
      <3>2. /\ Good(finalise(objects[a]), c.codes) /\ finalise(objects[a]).deleted = objects[a].deleted
            /\ finalise(objects[a]).data = objects[a].data
            /\ \A k \in Keys : Reading(finalise(objects[a]), k) = Reading(objects[a], k)
        BY <2>1, FinaliseGood, Zenon
      <3>3. Reads(finalise(objects[a])) = Reads(objects[a])
        BY <3>2, Zenon DEF Reads
      <3> QED  BY <2>4, <3>1, <3>2, <3>3, Zenon
    <2> QED  BY <2>2, <2>3, <2>4, Zenon
  <1>4. Sound(F, c)
    <2>1. DOMAIN objects \subseteq Addresses /\ pending \subseteq DOMAIN objects /\ dirty \subseteq DOMAIN objects
          /\ finalisedAddresses \subseteq DOMAIN objects
      BY <1>1, CtxIs, Zenon DEF Sound, finalisedAddresses
    <2> QED  BY <1>2, <1>3, <2>1, Zenon DEF Sound
  <1>5. ASSUME NEW a \in Addresses
        PROVE  View(F, trie, a) = IF a \in Gone(d) THEN Blank ELSE View(objects, trie, a)
    <2>1. a \in Gone(d) => a \in DOMAIN objects
      BY Zenon DEF Gone, finalisedAddresses
    <2>2. View(F, trie, a) = IF a \in DOMAIN F THEN IF F[a].deleted THEN Blank ELSE Reads(F[a]) ELSE Bare(trie, a)
      BY <1>4, ViewIs, SMTT(30)
    <2>3. View(objects, trie, a) = IF a \in DOMAIN objects
                                   THEN IF objects[a].deleted THEN Blank ELSE Reads(objects[a]) ELSE Bare(trie, a)
      BY <1>1, ViewIs
    <2> QED  BY <1>2, <1>3, <2>1, <2>2, <2>3, Zenon
  <1>6. ASSUME NEW a \in DOMAIN F \ c.pending PROVE F[a] = objects[a] /\ View(F, trie, a) = Bare(trie, a)
    <2>1. a \in DOMAIN objects /\ a \notin dirtied /\ a \notin pending /\ a \notin Gone(d) /\ a \in Addresses
      BY <1>1, <1>2, Zenon DEF finalisedAddresses, Gone, Sound
    <2>2. View(objects, trie, a) = Bare(trie, a)
      BY <1>1, <2>1, CtxIs, Zenon DEF Clean
    <2> QED  BY <1>2, <1>5, <2>1, <2>2, Zenon
  <1>7. ASSUME NEW a \in Gone(d)
        PROVE  /\ a \in Addresses /\ Views(objects, trie)[a].nonce = 0
               /\ Views(objects, trie)[a].balance = 0 /\ Views(objects, trie)[a].codeHash = NoCode
    <2>1. a \in DOMAIN objects /\ a \in Addresses /\ empty(objects[a]) /\ Good(objects[a], db.codes)
      BY <1>1, CtxIs, Zenon DEF Gone, finalisedAddresses, Sound
    <2>2. View(objects, trie, a) = IF objects[a].deleted THEN Blank ELSE Reads(objects[a])
      BY <1>1, <2>1, ViewIs, Zenon
    <2>3. Views(objects, trie)[a] = View(objects, trie, a)
      BY <2>1, Zenon DEF Views
    <2>4. Blank.nonce = 0 /\ Blank.balance = 0 /\ Blank.codeHash = NoCode
      BY Zenon DEF Blank, Account
    <2>5. Reads(objects[a]).nonce = 0 /\ Reads(objects[a]).balance = 0 /\ Reads(objects[a]).codeHash = NoCode
      BY <2>1, ReadsTyped, Zenon DEF empty
    <2> QED  BY <2>1, <2>2, <2>3, <2>4, <2>5, Zenon
  <1> QED  BY <1>2, <1>4, <1>5, <1>6, <1>7, Zenon DEF Finalised, F

\* A state without journal entries: kept when it is sound and clean.
LEMMA KeptAfter ==
    ASSUME NEW c, c = Ctx', journal' = << >>, Settled', Sound(objects', c),
           \A a \in DOMAIN objects' \ c.pending : View(objects', c.trie, a) = Bare(c.trie, a)
    PROVE  StateInv' /\ History(objects', journal', c) = << >>
PROOF
  <1>1. Clean(objects', {}, c)
    BY Zenon DEF Clean
  <1>2. Kept(objects', << >>, c)
    BY <1>1, KeptEmpty, Zenon
  <1>3. << >> \in Seq(Entries)
    OBVIOUS
  <1>4. History(objects', << >>, c) = << >>
    BY DEF History
  <1> QED  BY <1>2, <1>3, <1>4, Zenon DEF StateInv

\* Finalise keeps the invariant; the journal is empty by then.
LEMMA FinaliseKept ==
    ASSUME StateInv, NEW d, Finalise(d)
    PROVE  /\ StateInv' /\ UNCHANGED <<trie, root>>
           /\ Finalised(d, objects', Ctx')
           /\ History(objects', journal', Ctx') = << >>
PROOF
  <1>1. /\ objects' = finalised(d) /\ pending' = pending \cup finalisedAddresses
        /\ dirty' = dirty \cup finalisedAddresses /\ journal' = << >> /\ UNCHANGED <<trie, db, root>>
    BY Zenon DEF Finalise
  <1> DEFINE c == Ctx'
  <1>2. c.trie = trie /\ c.codes = db.codes /\ c.pending = pending' /\ c.dirty = dirty'
    BY <1>1, Zenon DEF Ctx
  <1> HIDE DEF c
  <1>3. Finalised(d, objects', c)
    BY <1>1, <1>2, FinalisedIs, Zenon
  <1>4. Settled'
    <2>1. Settled
      BY Zenon DEF StateInv
    <2>2. pending' \subseteq dirty' /\ \A a \in Addresses \ dirty' : a \in Addresses \ dirty
      BY <1>1, <2>1, Zenon DEF Settled
    <2> QED  BY <1>1, <2>1, <2>2, Zenon DEF Settled, Tries, CommittedIsComplete
  <1>5. StateInv' /\ History(objects', journal', c) = << >>
    BY <1>1, <1>2, <1>3, <1>4, KeptAfter, Zenon DEF Finalised, c
  <1> QED  BY <1>1, <1>3, <1>5, Zenon DEF c

\* What IntermediateRoot leaves in the objects and the state trie: every view is in the trie.
Rooted(d, U, tr) ==
    /\ DOMAIN U = DOMAIN objects /\ U = [a \in DOMAIN U |-> U[a]] /\ tr \in Tries
    /\ \A a \in DOMAIN U : Good(U[a], db.codes)
    /\ \A a \in Addresses \ (dirty \cup finalisedAddresses) : tr[a] = root[a]
    /\ \A a \in Addresses :
        /\ View(U, tr, a) = Bare(tr, a)
        /\ View(U, tr, a) = IF a \in Gone(d) THEN Blank ELSE View(objects, trie, a)

\* IntermediateRoot brings every view into the state trie.
LEMMA RootedIs ==
    ASSUME StateInv, NEW d
    PROVE  Rooted(d, rooted(d).objects, rooted(d).trie)
PROOF
  <1> DEFINE F == finalised(d)
             todo == pending \cup finalisedAddresses
             U == [a \in DOMAIN F |-> IF a \in todo /\ ~F[a].deleted THEN updateRoot(F[a]) ELSE F[a]]
             tr == [a \in Addresses |-> IF a \notin todo THEN trie[a]
                                        ELSE IF U[a].deleted THEN NoAccount ELSE U[a].data]
             c == [trie |-> trie, pending |-> todo, dirty |-> dirty \cup finalisedAddresses, codes |-> db.codes]
  <1>1. rooted(d).objects = U /\ rooted(d).trie = tr
    BY Zenon DEF rooted
  <1>2. c.trie = trie /\ c.codes = db.codes /\ c.pending = todo /\ c.dirty = dirty \cup finalisedAddresses
    BY Zenon
  <1> HIDE DEF c
  <1>3. Finalised(d, F, c)
    BY <1>2, FinalisedIs, Zenon
  <1>4. /\ Sound(F, c) /\ DOMAIN F = DOMAIN objects /\ todo \subseteq DOMAIN F /\ DOMAIN F \subseteq Addresses
        /\ \A a \in DOMAIN F : Good(F[a], db.codes)
        /\ \A a \in DOMAIN F \ todo : View(F, trie, a) = Bare(trie, a)
        /\ \A a \in Addresses : View(F, trie, a) = IF a \in Gone(d) THEN Blank ELSE View(objects, trie, a)
    BY <1>2, <1>3, Zenon DEF Finalised, Sound
  <1> HIDE DEF F
  <1>5. ASSUME NEW a \in DOMAIN F
        PROVE  /\ Good(U[a], db.codes) /\ U[a].deleted = F[a].deleted /\ Reads(U[a]) = Reads(F[a])
               /\ a \in todo /\ ~F[a].deleted => U[a].data = Reads(F[a])
    <2>1. Good(F[a], db.codes)
      BY <1>4, Zenon
    <2>2. CASE a \in todo /\ ~F[a].deleted
      <3>1. U[a] = updateRoot(F[a])
        BY <2>2, Zenon
      <3> HIDE DEF U
      <3>2. /\ Good(updateRoot(F[a]), db.codes) /\ updateRoot(F[a]).deleted = F[a].deleted
            /\ updateRoot(F[a]).data = Reads(F[a]) /\ Reads(updateRoot(F[a])) = Reads(F[a])
        BY <2>1, UpdateRootGood, Zenon
      <3> QED  BY <3>1, <3>2, Zenon
    <2>3. CASE ~(a \in todo /\ ~F[a].deleted)
      <3>1. U[a] = F[a]
        BY <2>3, Zenon
      <3> HIDE DEF U
      <3> QED  BY <2>1, <2>3, <3>1, Zenon
    <2> QED  BY <2>2, <2>3, Zenon
  <1>6. DOMAIN U = DOMAIN F /\ U = [a \in DOMAIN U |-> U[a]]
    BY Zenon
  <1> HIDE DEF U
  <1>7. \A a \in DOMAIN F : Reads(F[a]) \in Accounts
    BY <1>4, ReadsTyped, Zenon
  <1>8. trie \in Tries /\ pending \subseteq dirty /\ \A a \in Addresses \ dirty : trie[a] = root[a]
    BY Zenon DEF StateInv, Settled
  <1>9. tr \in Tries /\ \A a \in Addresses : tr[a] = IF a \notin todo THEN trie[a]
                                        ELSE IF U[a].deleted THEN NoAccount ELSE U[a].data
    <2>1. ASSUME NEW a \in Addresses
          PROVE  (IF a \notin todo THEN trie[a] ELSE IF U[a].deleted THEN NoAccount ELSE U[a].data)
                     \in Accounts \cup {NoAccount}
      BY <1>4, <1>5, <1>7, <1>8, Zenon DEF Tries
    <2> QED  BY <2>1, Zenon DEF Tries
  <1> HIDE DEF tr
  <1>10. \A a \in Addresses \ (dirty \cup finalisedAddresses) : tr[a] = root[a]
    BY <1>8, <1>9, Zenon
  <1>11. Sound(U, c)
    BY <1>2, <1>4, <1>5, <1>6, Zenon DEF Sound
  <1>12. ASSUME NEW a \in Addresses
         PROVE  View(U, tr, a) = Bare(tr, a) /\ View(U, tr, a) = View(F, trie, a)
    <2>1. View(U, tr, a) = IF a \in DOMAIN F THEN IF U[a].deleted THEN Blank ELSE Reads(U[a]) ELSE Bare(tr, a)
      BY <1>6, <1>11, ViewIs
    <2>2. View(F, trie, a) = IF a \in DOMAIN F THEN IF F[a].deleted THEN Blank ELSE Reads(F[a]) ELSE Bare(trie, a)
      BY <1>4, ViewIs, Zenon
    <2>3. CASE a \notin todo
      <3>1. tr[a] = trie[a]
        BY <1>9, <2>3, Zenon
      <3>2. Bare(tr, a) = Bare(trie, a)
        BY <3>1, Zenon DEF Bare
      <3> QED  BY <1>4, <1>5, <2>1, <2>2, <2>3, <3>2, Zenon
    <2>4. CASE a \in todo
      <3>1. a \in DOMAIN F
        BY <1>4, <2>4, Zenon
      <3>2. tr[a] = IF U[a].deleted THEN NoAccount ELSE U[a].data
        BY <1>9, <2>4, Zenon
      <3>3. Bare(tr, a) = IF U[a].deleted THEN Blank ELSE Reads(F[a])
        BY <1>5, <1>7, <2>4, <3>1, <3>2, NoAccountIs, Zenon DEF Bare
      <3> QED  BY <1>5, <2>1, <2>2, <3>1, <3>3, SMTT(30)
    <2> QED  BY <2>3, <2>4, Zenon
  <1>13. Rooted(d, U, tr)
    BY <1>4, <1>5, <1>6, <1>9, <1>10, <1>12, Zenon DEF Rooted
  <1> QED  BY <1>1, <1>13, Zenon

\* IntermediateRoot keeps the invariant.
LEMMA RootKept ==
    ASSUME StateInv, NEW d, IntermediateRoot(d)
    PROVE  /\ StateInv' /\ UNCHANGED root
           /\ Rooted(d, objects', trie')
           /\ History(objects', journal', Ctx') = << >>
PROOF
  <1> DEFINE c == Ctx'
  <1>1. /\ objects' = rooted(d).objects /\ trie' = rooted(d).trie /\ pending' = {}
        /\ dirty' = dirty \cup finalisedAddresses /\ journal' = << >> /\ UNCHANGED <<db, root>>
    BY Zenon DEF IntermediateRoot
  <1>2. c.trie = trie' /\ c.codes = db.codes /\ c.pending = {} /\ c.dirty = dirty'
    BY <1>1, Zenon DEF Ctx
  <1> HIDE DEF c
  <1>3. Rooted(d, objects', trie')
    BY <1>1, RootedIs, Zenon
  <1>4. Sound(objects, Ctx)
    BY KeptNow DEF StateInv
  <1>5. Sound(objects', c)
    BY <1>1, <1>2, <1>3, <1>4, CtxIs, Zenon DEF Rooted, Sound, finalisedAddresses
  <1>6. Settled'
    BY <1>1, <1>3, Zenon DEF StateInv, Settled, Rooted, Tries, CommittedIsComplete
  <1>7. StateInv' /\ History(objects', journal', c) = << >>
    BY <1>1, <1>2, <1>3, <1>5, <1>6, KeptAfter, Zenon DEF Rooted, Sound, c
  <1> QED  BY <1>1, <1>3, <1>7, Zenon DEF c

-----------------------------------------------------------------------------
\* Commit, New and the invariant.

\* A good object stays good when the database gets more codes.
LEMMA GoodMonotone ==
    ASSUME NEW codes, NEW more, codes \subseteq more, NEW o, Good(o, codes)
    PROVE  Good(o, more)
BY Zenon DEF Good, Coherent

\* What Commit makes of an object; W are the addresses whose code it writes.
CommitOf(o, p, a, W) == p = [updateRoot(o) EXCEPT !.dirtyCode = @ /\ a \notin W]

\* A committed object is good for the database as it is by then, and reads as it did.
LEMMA CommittedGood ==
    ASSUME NEW more, NEW o, Good(o, more),
           NEW a, NEW W, a \in W => o.code \in more, a \notin W /\ o.dirtyCode => o.code = NoCode,
           NEW p, CommitOf(o, p, a, W)
    PROVE  Good(p, more) /\ p.deleted = o.deleted /\ Reads(p) = Reads(o)
PROOF
  <1> DEFINE u == updateRoot(o)
  <1>1. /\ Good(u, more) /\ u.deleted = o.deleted /\ u.code = o.code /\ u.dirtyCode = o.dirtyCode
        /\ Reads(u) = Reads(o)
    BY UpdateRootGood, Zenon
  <1> HIDE DEF u
  <1>3. p = [u EXCEPT !.dirtyCode = u.dirtyCode /\ a \notin W]
    BY Zenon DEF u, CommitOf
  <1>4. u.dirtyCode \in BOOLEAN
    BY <1>1, Zenon DEF Good, Objects
  <1> DEFINE b == u.dirtyCode /\ a \notin W
  <1>5. b \in BOOLEAN
    BY Zenon
  <1>6. b = (u.dirtyCode /\ a \notin W)
    BY Zenon
  <1> HIDE DEF b
  <1>7. /\ p.data = u.data /\ p.storage = u.storage /\ p.hasTrie = u.hasTrie /\ p.code = u.code
        /\ p.dirtyCode = b /\ p.origin = u.origin /\ p.pending = u.pending /\ p.dirty = u.dirty
        /\ p.deleted = u.deleted /\ p \in Objects
    BY <1>1, <1>3, <1>5, <1>6, Zenon DEF Good, Objects
  <1>8. IF b THEN u.code = u.data.codeHash ELSE u.data.codeHash \in more \cup {NoCode}
    <2>1. u.dirtyCode => u.code = u.data.codeHash
      BY <1>1, Zenon DEF Good, Coherent
    <2>2. ~u.dirtyCode => u.data.codeHash \in more \cup {NoCode}
      BY <1>1, Zenon DEF Good, Coherent
    <2> QED  BY <1>1, <1>6, <2>1, <2>2, Zenon
  <1>9. Coherent(p, more)
    BY <1>1, <1>7, <1>8, Zenon DEF Good, Coherent
  <1>10. \A k \in Keys : Reading(p, k) = Reading(u, k)
    BY <1>7, Zenon DEF Reading
  <1>11. Reads(p) = Reads(u)
    BY <1>7, <1>10, Zenon DEF Reads
  <1> QED  BY <1>1, <1>7, <1>9, <1>11, Zenon DEF Good

\* Commit keeps the invariant: every code an account names is in the database, and the root it
\* returns has every view.
LEMMA CommitKept ==
    ASSUME StateInv, NEW d, Commit(d)
    PROVE  /\ StateInv' /\ root' = trie'
           /\ \A a \in Addresses :
                /\ View(objects', trie', a) = Bare(trie', a)
                /\ View(objects', trie', a) = IF a \in Gone(d) THEN Blank ELSE View(objects, trie, a)
           /\ History(objects', journal', Ctx') = << >>
PROOF
  <1> DEFINE U == rooted(d).objects
             tr == rooted(d).trie
             alive == {a \in dirty \cup finalisedAddresses : ~U[a].deleted}
             withNew == {a \in alive : U[a].code # NoCode /\ U[a].dirtyCode}
             c == Ctx'
  <1>1. /\ objects' = [a \in DOMAIN U |->
                          IF a \notin alive THEN U[a]
                          ELSE [updateRoot(U[a]) EXCEPT !.dirtyCode = @ /\ a \notin withNew]]
        /\ db' = [codes |-> db.codes \cup {U[a].code : a \in withNew},
                  tries |-> db.tries \cup {updateRoot(U[a]).storage : a \in alive}]
        /\ trie' = tr /\ root' = tr /\ pending' = {} /\ dirty' = {} /\ journal' = << >>
    BY Zenon DEF Commit
  <1>2. Rooted(d, U, tr)
    BY RootedIs, Zenon
  <1> HIDE DEF U, tr
  <1>3. /\ DOMAIN objects' = DOMAIN U /\ objects' = [a \in DOMAIN objects' |-> objects'[a]]
        /\ \A a \in DOMAIN U : a \notin alive => objects'[a] = U[a]
        /\ \A a \in alive : a \in DOMAIN U =>
                objects'[a] = [updateRoot(U[a]) EXCEPT !.dirtyCode = @ /\ a \notin withNew]
    BY <1>1, Zenon
  <1>4. /\ db'.codes = db.codes \cup {U[a].code : a \in withNew}
        /\ db'.tries = db.tries \cup {updateRoot(U[a]).storage : a \in alive}
    BY <1>1, Zenon
  <1>5. /\ DOMAIN U = DOMAIN objects /\ tr \in Tries /\ \A a \in DOMAIN U : Good(U[a], db.codes)
        /\ \A a \in Addresses \ (dirty \cup finalisedAddresses) : tr[a] = root[a]
        /\ \A a \in Addresses :
            /\ View(U, tr, a) = Bare(tr, a)
            /\ View(U, tr, a) = IF a \in Gone(d) THEN Blank ELSE View(objects, trie, a)
    BY <1>2, Zenon DEF Rooted
  <1>6. DOMAIN U \subseteq Addresses /\ dirty \cup finalisedAddresses \subseteq DOMAIN U
    BY <1>5, KeptNow, CtxIs DEF StateInv, Sound, finalisedAddresses
  <1>7. \A a \in alive : a \in DOMAIN U
    BY <1>6, Zenon
  <1>8. \A a \in withNew : a \in alive /\ U[a].code \in db'.codes
    BY <1>4, Zenon
  <1>9. \A a \in alive : a \notin withNew /\ U[a].dirtyCode => U[a].code = NoCode
    BY Zenon
  <1>10. \A a \in alive : ~U[a].deleted /\ updateRoot(U[a]).storage \in db'.tries
    BY <1>4, Zenon
  <1>11. \A a \in dirty \cup finalisedAddresses : a \notin alive => U[a].deleted
    BY Zenon
  <1>12. db.codes \subseteq db'.codes /\ db.tries \subseteq db'.tries
    BY <1>4, Zenon
  <1> HIDE DEF alive, withNew
  <1>13. ASSUME NEW a \in DOMAIN U
         PROVE  Good(objects'[a], db'.codes) /\ objects'[a].deleted = U[a].deleted /\ Reads(objects'[a]) = Reads(U[a])
    <2>1. Good(U[a], db.codes)
      BY <1>5, Zenon
    <2>0. Good(U[a], db'.codes)
      BY <1>12, <2>1, GoodMonotone, Zenon
    <2>2. CASE a \notin alive
      BY <1>3, <2>0, <2>2, Zenon
    <2>3. CASE a \in alive
      <3>1. /\ a \in withNew => U[a].code \in db'.codes
            /\ a \notin withNew /\ U[a].dirtyCode => U[a].code = NoCode
        BY <1>8, <1>9, <2>3, Zenon
      <3>2. CommitOf(U[a], objects'[a], a, withNew)
        BY <1>3, <2>3, Zenon DEF CommitOf
      <3> QED  BY <2>0, <3>1, <3>2, CommittedGood, SMTT(30)
    <2> QED  BY <2>2, <2>3, Zenon
  <1>14. c.trie = tr /\ c.codes = db'.codes /\ c.pending = {} /\ c.dirty = {}
    BY <1>1, Zenon DEF Ctx
  <1> HIDE DEF c
  <1>15. Sound(objects', c)
    BY <1>3, <1>6, <1>13, <1>14, Zenon DEF Sound
  <1>16. ASSUME NEW a \in Addresses
         PROVE  View(objects', tr, a) = View(U, tr, a)
    <2>1. View(objects', tr, a) = IF a \in DOMAIN U
                                  THEN IF objects'[a].deleted THEN Blank ELSE Reads(objects'[a]) ELSE Bare(tr, a)
      BY <1>3, <1>15, ViewIs, SMTT(30)
    <2>2. View(U, tr, a) = IF a \in DOMAIN U THEN IF U[a].deleted THEN Blank ELSE Reads(U[a]) ELSE Bare(tr, a)
      <3>1. Sound(U, [Ctx EXCEPT !.pending = {}, !.dirty = {}])
        BY <1>2, <1>5, <1>6, Zenon DEF Sound, Rooted, Ctx
      <3> QED  BY <3>1, ViewIs
    <2> QED  BY <1>13, <2>1, <2>2
  <1>17. ASSUME NEW a \in Addresses, tr[a] # NoAccount
         PROVE  tr[a].root \in db'.tries /\ tr[a].codeHash \in db'.codes \cup {NoCode}
    <2>1. tr[a] = View(U, tr, a)
      BY <1>5, <1>17, Zenon DEF Bare
    <2>2. View(U, tr, a) = IF a \in DOMAIN U THEN IF U[a].deleted THEN Blank ELSE Reads(U[a]) ELSE Bare(tr, a)
      <3>1. Sound(U, [Ctx EXCEPT !.pending = {}, !.dirty = {}])
        BY <1>2, <1>5, <1>6, Zenon DEF Sound, Rooted, Ctx
      <3> QED  BY <3>1, ViewIs
    <2>3. CASE a \in alive
      <3>1. Good(U[a], db.codes) /\ tr[a] = Reads(U[a])
        BY <1>5, <1>7, <1>10, <2>1, <2>2, <2>3, Zenon
      <3>2. updateRoot(U[a]).storage = tr[a].root
        BY <3>1, UpdateRootGood, Zenon
      <3>3. tr[a].codeHash = U[a].data.codeHash
        BY <3>1, ReadsTyped, Zenon
      <3>4. U[a].dirtyCode => U[a].code = U[a].data.codeHash
        BY <3>1, Zenon DEF Good, Coherent
      <3>5. ~U[a].dirtyCode => U[a].data.codeHash \in db.codes \cup {NoCode}
        BY <3>1, Zenon DEF Good, Coherent
      <3> QED  BY <1>8, <1>9, <1>10, <1>12, <2>3, <3>2, <3>3, <3>4, <3>5, Zenon
    <2>4. CASE a \in dirty \cup finalisedAddresses /\ a \notin alive
      <3>1. tr[a] = Blank
        BY <1>6, <1>11, <2>1, <2>2, <2>4, Zenon
      <3>2. Blank.root = emptyRoot /\ Blank.codeHash = NoCode
        BY Zenon DEF Blank, Account
      <3> QED  BY <1>12, <3>1, <3>2, Zenon DEF StateInv, Settled
    <2>5. CASE a \notin dirty \cup finalisedAddresses
      <3>1. tr[a] = root[a]
        BY <1>5, <2>5, Zenon
      <3> QED  BY <1>12, <1>17, <3>1, Zenon DEF StateInv, Settled, CommittedIsComplete
    <2> QED  BY <2>3, <2>4, <2>5, Zenon
  <1>18. Settled'
    <2>1. CommittedIsComplete'
      BY <1>1, <1>17, Zenon DEF CommittedIsComplete
    <2>2. (trie \in Tries)' /\ (root \in Tries)'
      BY <1>1, <1>5, Zenon DEF Tries
    <2>3. emptyRoot \in db'.tries
      BY <1>12, Zenon DEF StateInv, Settled
    <2> QED  BY <1>1, <2>1, <2>2, <2>3, Zenon DEF Settled
  <1>19. StateInv' /\ History(objects', journal', c) = << >>
    BY <1>1, <1>3, <1>5, <1>6, <1>14, <1>15, <1>16, <1>18, KeptAfter, Zenon DEF c
  <1> QED  BY <1>1, <1>5, <1>16, <1>19, Zenon DEF c

\* New of a root that was committed establishes the invariant again.
LEMMA NewKept ==
    ASSUME StateInv, New
    PROVE  /\ StateInv' /\ UNCHANGED root /\ trie' = root
           /\ Views(objects', trie') = Closed(root)
           /\ History(objects', journal', Ctx') = << >>
PROOF
  <1> DEFINE c == Ctx'
  <1>1. /\ trie' = root /\ pending' = {} /\ dirty' = {} /\ journal' = << >> /\ UNCHANGED <<db, root>>
        /\ objects' = [a \in {} |-> newObject(NoAccount)]
    BY Zenon DEF New
  <1>2. DOMAIN objects' = {} /\ objects' = [a \in {} |-> objects'[a]]
    BY <1>1, Zenon
  <1>3. c.trie = root /\ c.pending = {} /\ c.dirty = {}
    BY <1>1, Zenon DEF Ctx
  <1>4. Settled'
    <2>1. Settled
      BY Zenon DEF StateInv
    <2> QED  BY <1>1, <2>1, Zenon DEF Settled, CommittedIsComplete, Tries
  <1>5. c = Ctx'
    BY Zenon
  <1> HIDE DEF c
  <1>6. Sound(objects', c)
    BY <1>2, <1>3, Zenon DEF Sound
  <1>7. StateInv' /\ History(objects', journal', c) = << >>
    BY <1>1, <1>2, <1>4, <1>5, <1>6, KeptAfter, Zenon
  <1>8. \A a \in Addresses : View(objects', root, a) = View([x \in {} |-> NoAccount], root, a)
    BY <1>2, Zenon DEF View
  <1>9. Views(objects', root) = Closed(root)
    BY <1>8, Zenon DEF Views, Closed
  <1> QED  BY <1>1, <1>5, <1>7, <1>9, Zenon

\* The invariant holds of a StateDB over an empty database.
LEMMA InitKept ==
    ASSUME Init
    PROVE  StateInv /\ journal = << >> /\ \A a \in Addresses : View(objects, trie, a) = Blank
PROOF
  <1>1. /\ trie = [a \in Addresses |-> NoAccount] /\ root = trie /\ DOMAIN objects = {} /\ pending = {} /\ dirty = {}
        /\ journal = << >> /\ db = [codes |-> {}, tries |-> {emptyRoot}] /\ objects = [a \in {} |-> objects[a]]
    BY Zenon DEF Init
  <1>2. trie \in Tries /\ root \in Tries
    BY <1>1, Zenon DEF Tries
  <1>3. Settled
    BY <1>1, <1>2, Zenon DEF Settled, CommittedIsComplete
  <1>4. Ctx.pending = {} /\ Ctx.dirty = {}
    BY <1>1, Zenon DEF Ctx
  <1>5. Sound(objects, Ctx) /\ Clean(objects, {}, Ctx)
    BY <1>1, <1>4, Zenon DEF Sound, Clean
  <1>6. Kept(objects, << >>, Ctx)
    BY <1>5, KeptEmpty, Zenon
  <1>7. << >> \in Seq(Entries)
    OBVIOUS
  <1>8. \A a \in Addresses : View(objects, trie, a) = Blank
    BY <1>1, Zenon DEF View
  <1> QED  BY <1>1, <1>3, <1>6, <1>7, <1>8, Zenon DEF StateInv

\* A step is one of these.
LEMMA NextCases ==
    ASSUME Next
    PROVE  \/ \E a \in Addresses : Writes(a) \/ GetBalance(a)
           \/ \E i \in 0 .. Len(journal) - 1 : Revert(i)
           \/ \E d \in BOOLEAN : Finalise(d) \/ IntermediateRoot(d) \/ Commit(d)
           \/ New
BY Zenon DEF Next, Writes

\* A step that changes nothing keeps the invariant.
LEMMA StayKept ==
    ASSUME StateInv, UNCHANGED vars
    PROVE  StateInv' /\ Ctx' = Ctx
PROOF
  <1>1. UNCHANGED <<trie, pending, dirty, db, root, objects, journal>>
    BY Zenon DEF vars
  <1>2. Settled' /\ Ctx' = Ctx
    BY <1>1, SettledStays, Zenon
  <1>3. journal \in Seq(Entries) /\ Kept(objects, journal, Ctx)
    BY Zenon DEF StateInv
  <1> QED  BY <1>1, <1>2, <1>3, Zenon DEF StateInv

\* Every step keeps the invariant.
LEMMA StateStep ==
    ASSUME StateInv, [Next]_vars
    PROVE  StateInv'
PROOF
  <1>1. CASE UNCHANGED vars
    BY <1>1, StayKept, Zenon
  <1>2. ASSUME NEW a \in Addresses, Writes(a) \/ GetBalance(a)  PROVE StateInv'
    BY <1>2, WritesInv, GetBalanceKept, Zenon
  <1>3. ASSUME NEW i \in 0 .. Len(journal) - 1, Revert(i)  PROVE StateInv'
    BY <1>3, RevertKept, Zenon
  <1>4. ASSUME NEW d \in BOOLEAN, Finalise(d) \/ IntermediateRoot(d) \/ Commit(d)  PROVE StateInv'
    BY <1>4, FinaliseKept, RootKept, CommitKept, Zenon
  <1>5. CASE New
    BY <1>5, NewKept, Zenon
  <1> QED  BY <1>1, <1>2, <1>3, <1>4, <1>5, NextCases, Zenon

\* The inductive invariant of a StateDB: the state trie and the database hold whole accounts, and
\* every state that journal.revert can lead back to is sound, with its journal entry revertible.
THEOREM StateInvariant == Spec => []StateInv
PROOF
  <1>1. Init => StateInv
    BY InitKept, Zenon
  <1>2. StateInv /\ [Next]_vars => StateInv'
    BY StateStep, Zenon
  <1> QED  BY <1>1, <1>2, PTL DEF Spec

\* TrieIsCurrent for any accounts, keys and values: once nothing is pending and the journal is
\* empty, as IntermediateRoot (statedb.go) leaves them, the trie whose root it returns has every
\* account as GetState, GetBalance, GetNonce and GetCode read it.
THEOREM TrieCurrent == Spec => []TrieIsCurrent
PROOF
  <1>1. ASSUME StateInv, pending = {}, journal = << >>  PROVE Closed(trie) = Views(objects, trie)
    <2>1. Sound(objects, Ctx) /\ Clean(objects, ChangedBy(journal, Len(journal)), Ctx)
      BY <1>1, KeptNow, Zenon DEF StateInv
    <2>2. ChangedBy(journal, Len(journal)) = {}
      BY <1>1 DEF ChangedBy
    <2>3. Ctx.pending = {} /\ Ctx.trie = trie
      BY <1>1, Zenon DEF Ctx
    <2>4. ASSUME NEW a \in Addresses  PROVE View(objects, trie, a) = View([x \in {} |-> NoAccount], trie, a)
      <3>1. View([x \in {} |-> NoAccount], trie, a) = Bare(trie, a)
        BY Zenon DEF View, Bare
      <3>2. CASE a \in DOMAIN objects
        BY <2>1, <2>2, <2>3, <3>1, <3>2, Zenon DEF Clean
      <3>3. CASE a \notin DOMAIN objects
        BY <2>1, <3>1, <3>3, ViewIs, Zenon
      <3> QED  BY <3>2, <3>3, Zenon
    <2> QED  BY <2>4, Zenon DEF Closed, Views
  <1>2. StateInv => TrieIsCurrent
    BY <1>1, Zenon DEF TrieIsCurrent
  <1> QED  BY <1>2, StateInvariant, PTL

\* CommittedIsComplete for any accounts, keys and values: a root that Commit (statedb.go) returned
\* opens with every storage trie and every code its accounts name in the database, whatever was
\* reverted before.
THEOREM CommittedComplete == Spec => []CommittedIsComplete
PROOF
  <1>1. StateInv => CommittedIsComplete
    BY Zenon DEF StateInv, Settled
  <1> QED  BY <1>1, StateInvariant, PTL

-----------------------------------------------------------------------------
\* The refinement of AccountState.

\* The refinement mapping of IsAccountState, by its parts
Now == Views(objects, trie)
Undo == [i \in 1 .. Len(journal) |-> Views(reverted[i - 1].objects, trie)]
Base == Closed(root)
Droppable == {Account(0, 0, storage, NoCode) : storage \in Storage}

\* The mapped undo list is the history.
LEMMA UndoIs ==
    /\ Undo = History(objects, journal, Ctx)
    /\ Undo' = History(objects', journal', Ctx')
PROOF
  <1>1. reverted = Trail(objects, journal, Ctx) /\ Ctx.trie = trie
    BY RevertedIs, Zenon DEF Ctx
  <1>2. reverted' = Trail(objects', journal', Ctx') /\ Ctx'.trie = trie'
    BY Zenon DEF reverted, Trail, Start, Ctx
  <1>3. Undo = History(objects, journal, Ctx)
    BY <1>1, Zenon DEF Undo, History
  <1>4. Undo' = History(objects', journal', Ctx')
    BY <1>2, Zenon DEF Undo, History
  <1> QED  BY <1>3, <1>4, Zenon

\* The accounts of the mapping are those of the proofs.
LEMMA MappedAccounts ==
    /\ [nonce : Nonces \cup {0}, balance : 0 .. MaxBalance, root : [Keys -> Values], codeHash : Codes] = Accounts
    /\ {Account(0, 0, storage, NoCode) : storage \in [Keys -> Values]} = Droppable
BY Zenon DEF Accounts, AllNonces, Balances, Storage, Droppable

\* The mapped state.
LEMMA NowTyped ==
    ASSUME StateInv
    PROVE  Now \in States /\ Now = [a \in Addresses |-> Now[a]] /\ \A a \in Addresses : Now[a] = View(objects, trie, a)
PROOF
  <1>1. Sound(objects, Ctx) /\ trie \in Tries
    BY KeptNow DEF StateInv, Settled
  <1>2. Now \in States
    BY <1>1, ViewTyped, Zenon DEF Now
  <1> QED  BY <1>2, Zenon DEF Now, Views, States

\* A call that writes is the write of the specification.
LEMMA WriteMaps ==
    ASSUME StateInv, NEW a \in Addresses, Writes(a)
    PROVE  Abstract!Write(a)
PROOF
  <1>1. Wrote(a, objects', journal') /\ UNCHANGED <<trie, pending, dirty, db, root>>
    BY WritesWrote, Zenon
  <1>2. Ctx' = Ctx
    BY <1>1, SettledStays, Zenon
  <1>3. Now' = Views(objects', trie) /\ Undo = History(objects, journal, Ctx) /\ Undo' = History(objects', journal', Ctx)
    BY <1>1, <1>2, UndoIs, Zenon DEF Now
  <1>4. PICK account \in Accounts : Now' = [Now EXCEPT ![a] = account]
    BY <1>1, <1>3, Zenon DEF Wrote, Now
  <1>5. Now'[a] \in Accounts /\ Now' = [Now EXCEPT ![a] = Now'[a]]
    <2>1. a \in DOMAIN Now
      BY NowTyped, Zenon DEF States
    <2> QED  BY <1>4, <2>1, Zenon
  <1>6. \/ Undo' = Undo /\ Now' = Now
        \/ Undo' = Undo \o <<Now>>
        \/ Undo' = Undo \o <<Now, Now>>
    BY <1>1, <1>3, Zenon DEF Wrote, Now
  <1>7. Base' = Base
    BY <1>1, Zenon DEF Base, Closed, Views, View
  <1> QED  BY <1>5, <1>6, <1>7, MappedAccounts, Zenon DEF Abstract!Write, Now, Undo, Base

\* GetBalance changes nothing in the specification.
LEMMA GetBalanceMaps ==
    ASSUME StateInv, NEW a \in Addresses, GetBalance(a)
    PROVE  UNCHANGED Abstract!vars
PROOF
  <1>1. /\ UNCHANGED <<trie, pending, dirty, db, root, journal>>
        /\ History(objects', journal', Ctx) = History(objects, journal, Ctx)
        /\ Views(objects', trie) = Views(objects, trie)
    BY GetBalanceKept, Zenon
  <1>2. Ctx' = Ctx
    BY <1>1, Zenon DEF Ctx
  <1>3. Now' = Now /\ Undo' = Undo
    BY <1>1, <1>2, UndoIs, Zenon DEF Now
  <1>4. Base' = Base
    BY <1>1, Zenon DEF Base, Closed, Views, View
  <1> QED  BY <1>3, <1>4, Zenon DEF Abstract!vars, Now, Undo, Base

\* journal.revert is the revert of the specification.
LEMMA RevertMaps ==
    ASSUME StateInv, NEW n \in 0 .. Len(journal) - 1, Revert(n)
    PROVE  \E i \in DOMAIN Undo : Abstract!Revert(i)
PROOF
  <1>1. /\ UNCHANGED <<trie, root>>
        /\ Views(objects', trie) = History(objects, journal, Ctx)[n + 1]
        /\ History(objects', journal', Ctx) = SubSeq(History(objects, journal, Ctx), 1, n)
        /\ Ctx' = Ctx
    BY RevertKept, Zenon
  <1>2. Now' = Undo[n + 1] /\ Undo' = SubSeq(Undo, 1, n)
    BY <1>1, UndoIs, Zenon DEF Now
  <1>3. Base' = Base
    BY <1>1, Zenon DEF Base, Closed, Views, View
  <1>4. Len(journal) \in Nat
    BY DEF StateInv
  <1>5. n + 1 \in DOMAIN Undo /\ (n + 1) - 1 = n
    BY <1>4 DEF Undo
  <1>6. Undo' = SubSeq(Undo, 1, (n + 1) - 1)
    BY <1>2, <1>5, Zenon
  <1>7. Abstract!Revert(n + 1)
    BY <1>2, <1>3, <1>6, Zenon DEF Abstract!Revert, Now, Undo, Base
  <1> QED  BY <1>5, <1>7, Zenon

\* The accounts that Finalise drops are empty.
LEMMA GoneEmpty ==
    ASSUME StateInv, NEW d
    PROVE  Gone(d) \in SUBSET {a \in Addresses : Now[a] \in Droppable}
PROOF
  <1> DEFINE c == [trie |-> trie, codes |-> db.codes, pending |-> pending \cup finalisedAddresses,
                   dirty |-> dirty \cup finalisedAddresses]
  <1>1. Finalised(d, finalised(d), c)
    BY FinalisedIs, Zenon
  <1> HIDE DEF c
  <1>2. \A a \in Gone(d) : a \in Addresses /\ Now[a].nonce = 0 /\ Now[a].balance = 0 /\ Now[a].codeHash = NoCode
    BY <1>1, Zenon DEF Finalised, Now
  <1>3. ASSUME NEW a \in Gone(d)  PROVE Now[a] \in Droppable
    <2>1. Now[a] \in Accounts
      BY <1>2, NowTyped, Zenon DEF States
    <2>2. Now[a] = Account(0, 0, Now[a].root, NoCode) /\ Now[a].root \in Storage
      BY <1>2, <2>1, Zenon DEF Accounts, Account
    <2> QED  BY <2>2, Zenon DEF Droppable
  <1> QED  BY <1>2, <1>3, Zenon

\* Views that differ in the dropped accounts only, with no history, are a settle of the
\* specification.
LEMMA SettleMaps ==
    ASSUME StateInv, NEW d,
           \A a \in Addresses : View(objects', trie', a) = IF a \in Gone(d) THEN Blank ELSE View(objects, trie, a),
           History(objects', journal', Ctx') = << >>
    PROVE  \E gone \in SUBSET {a \in Addresses : Now[a] \in Droppable} : Abstract!Settle(gone)
PROOF
  <1>1. Undo' = << >>
    BY UndoIs, Zenon
  <1>2. Now' = [a \in Addresses |-> View(objects', trie', a)]
    BY Zenon DEF Now, Views
  <1>3. Now' = [a \in Addresses |-> IF a \in Gone(d) THEN Blank ELSE Now[a]]
    BY <1>2, NowTyped, Zenon
  <1>4. Abstract!Settle(Gone(d))
    BY <1>1, <1>3, Zenon DEF Abstract!Settle, Now, Undo
  <1> QED  BY <1>4, GoneEmpty, Zenon

\* Finalise and IntermediateRoot are settles of the specification.
LEMMA FinaliseMaps ==
    ASSUME StateInv, NEW d, Finalise(d) \/ IntermediateRoot(d)
    PROVE  Abstract!Finalise
PROOF
  <1>1. /\ UNCHANGED root /\ History(objects', journal', Ctx') = << >>
        /\ \A a \in Addresses : View(objects', trie', a) = IF a \in Gone(d) THEN Blank ELSE View(objects, trie, a)
    <2>1. CASE Finalise(d)
      <3>1. /\ UNCHANGED <<trie, root>> /\ Finalised(d, objects', Ctx') /\ History(objects', journal', Ctx') = << >>
        BY <2>1, FinaliseKept, Zenon
      <3> QED  BY <3>1, Zenon DEF Finalised
    <2>2. CASE IntermediateRoot(d)
      <3>1. /\ UNCHANGED root /\ Rooted(d, objects', trie') /\ History(objects', journal', Ctx') = << >>
        BY <2>2, RootKept, Zenon
      <3> QED  BY <3>1, Zenon DEF Rooted
    <2> QED  BY <2>1, <2>2, Zenon
  <1>2. \E gone \in SUBSET {a \in Addresses : Now[a] \in Droppable} : Abstract!Settle(gone)
    BY <1>1, SettleMaps, Zenon
  <1>3. Base' = Base
    BY <1>1, Zenon DEF Base, Closed, Views, View
  <1> QED  BY <1>2, <1>3, MappedAccounts, Zenon DEF Abstract!Finalise, Now, Base

\* Commit is the commit of the specification.
LEMMA CommitMaps ==
    ASSUME StateInv, NEW d, Commit(d)
    PROVE  Abstract!Commit
PROOF
  <1>1. /\ root' = trie' /\ History(objects', journal', Ctx') = << >>
        /\ \A a \in Addresses : View(objects', trie', a) = Bare(trie', a)
        /\ \A a \in Addresses : View(objects', trie', a) = IF a \in Gone(d) THEN Blank ELSE View(objects, trie, a)
    BY CommitKept, Zenon
  <1>2. \E gone \in SUBSET {a \in Addresses : Now[a] \in Droppable} : Abstract!Settle(gone)
    BY <1>1, SettleMaps, Zenon
  <1>3. \A a \in Addresses : View([x \in {} |-> NoAccount], trie', a) = Bare(trie', a)
    BY Zenon DEF View, Bare
  <1>4. Base' = [a \in Addresses |-> View([x \in {} |-> NoAccount], trie', a)]
    BY <1>1, Zenon DEF Base, Closed, Views
  <1>5. Now' = [a \in Addresses |-> View(objects', trie', a)]
    BY Zenon DEF Now, Views
  <1>6. Base' = Now'
    BY <1>1, <1>3, <1>4, <1>5, Zenon
  <1> QED  BY <1>2, <1>6, MappedAccounts, Zenon DEF Abstract!Commit, Now, Base

\* New is the reset of the specification.
LEMMA NewMaps ==
    ASSUME StateInv, New
    PROVE  Abstract!Open
PROOF
  <1>1. /\ UNCHANGED root /\ Views(objects', trie') = Closed(root) /\ History(objects', journal', Ctx') = << >>
    BY NewKept, Zenon
  <1>2. Now' = Base /\ Undo' = << >>
    BY <1>1, UndoIs, Zenon DEF Now, Base
  <1>3. Base' = Base
    BY <1>1, Zenon DEF Base, Closed, Views, View
  <1> QED  BY <1>2, <1>3, Zenon DEF Abstract!Open, Now, Undo, Base

\* The first state is one of the specification.
LEMMA InitMaps ==
    ASSUME Init
    PROVE  Abstract!Init
PROOF
  <1>1. StateInv /\ journal = << >> /\ \A a \in Addresses : View(objects, trie, a) = Blank
    BY InitKept, Zenon
  <1>2. Now = [a \in Addresses |-> Blank]
    BY <1>1, Zenon DEF Now, Views
  <1>3. Undo = << >>
    BY <1>1 DEF Undo
  <1>4. root = trie /\ objects = [a \in {} |-> NoAccount]
    BY Zenon DEF Init
  <1>5. Base = Now
    BY <1>4, Zenon DEF Base, Closed, Now
  <1> QED  BY <1>2, <1>3, <1>5, Zenon DEF Abstract!Init, Now, Undo, Base

\* Every step is a step of the specification or changes nothing in it.
LEMMA StepMaps ==
    ASSUME StateInv, [Next]_vars
    PROVE  [Abstract!Next]_(Abstract!vars)
PROOF
  <1>1. CASE UNCHANGED vars
    <2>1. Ctx' = Ctx /\ UNCHANGED <<trie, root, objects, journal>>
      BY <1>1, StayKept, Zenon DEF vars
    <2>2. Now' = Now /\ Undo' = Undo
      BY <2>1, UndoIs, Zenon DEF Now
    <2>3. Base' = Base
      BY <2>1, Zenon DEF Base, Closed, Views, View
    <2> QED  BY <2>2, <2>3, Zenon DEF Abstract!vars, Now, Undo, Base
  <1>2. ASSUME NEW a \in Addresses, Writes(a)  PROVE Abstract!Next
    BY <1>2, WriteMaps, Zenon DEF Abstract!Next
  <1>3. ASSUME NEW a \in Addresses, GetBalance(a)  PROVE UNCHANGED Abstract!vars
    BY <1>3, GetBalanceMaps, Zenon
  <1>4. ASSUME NEW i \in 0 .. Len(journal) - 1, Revert(i)  PROVE Abstract!Next
    BY <1>4, RevertMaps, Zenon DEF Abstract!Next, Undo
  <1>5. ASSUME NEW d \in BOOLEAN, Finalise(d) \/ IntermediateRoot(d) \/ Commit(d)  PROVE Abstract!Next
    BY <1>5, FinaliseMaps, CommitMaps, Zenon DEF Abstract!Next
  <1>6. CASE New
    BY <1>6, NewMaps, Zenon DEF Abstract!Next
  <1> QED  BY <1>1, <1>2, <1>3, <1>4, <1>5, <1>6, NextCases, Zenon

\* StateDB implements AccountState: a caller of the setters, journal.revert, Finalise, Commit
\* and New sees a map of accounts with an undo list, and nothing of objects that
\* are cached, of the three storage maps of a state object or of the journal's entry kinds.
THEOREM StateDBIsAccountState == Spec => IsAccountState
PROOF
  <1>1. Init => Abstract!Init
    BY InitMaps, Zenon
  <1>2. StateInv /\ [Next]_vars => [Abstract!Next]_(Abstract!vars)
    BY StepMaps, Zenon
  <1> QED  BY <1>1, <1>2, StateInvariant, PTL DEF Spec, IsAccountState, Abstract!Spec
=============================================================================
