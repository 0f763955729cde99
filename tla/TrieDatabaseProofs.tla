------------------------- MODULE TrieDatabaseProofs -------------------------
\* TrieDatabase: its inductive invariant, that every step preserves it, and what follows from
\* it: what is on disk is closed under references, everything that is held can be read, the
\* flush-list and the counters are exact, and what Commit has written stays.
EXTENDS TrieDatabase, TrieCacheProofs, WellFoundedInduction

-----------------------------------------------------------------------------
(* The invariant, the steps that build up the cache or collect garbage in it, the beginnings *)
(* of Cap and Commit *)

\* Where the mutator can be inside Commit and inside Cap
commitPcs == {"commitPreimages", "commitPreimagesEnd", "commit", "commitEnd", "commitReplay", "commitClean"}
capPcs == {"capPreimages", "cap", "capEnd", "capClean"}

\* The variables other than the cache hold what their declarations say.
Types ==
    /\ disk \subseteq Nodes /\ diskPre \subseteq Preimages
    /\ pc \in {"idle", "store", "deref"} \cup capPcs \cup commitPcs
    /\ store \in [todo : SUBSET Nodes, node : Hashes, refs : SUBSET Nodes]
    /\ stack \in Seq(CallType) /\ batch \in Seq(Nodes \cup Preimages) /\ left \subseteq Preimages
    /\ walk \in [next : Hashes, size : Int, limit : Int, flushPreimages : BOOLEAN]
    /\ target \in Hashes /\ reader \in [pc : {"idle", "disk"}, node : Hashes]

\* What is left over from an operation, by where the mutator is.
PcInv ==
    /\ pc # "store" => store = idleStore
    /\ pc \notin {"deref"} \cup commitPcs => stack = << >>
    /\ pc \in {"idle", "store", "deref", "capClean"} => batch = << >>
    /\ full => pc \in {"capPreimages", "cap", "commitPreimages", "commit"}
    /\ pc \in {"capPreimages", "commitPreimages", "commitPreimagesEnd"} => Range(batch) \subseteq Preimages
    /\ pc = "deref" => stack # << >>

\* What is on disk or will be once the batch is written
saved == disk \cup Range(batch)

\* The calls of dereference in progress, and the references insert has not recorded yet
Calls == IF pc = "deref" THEN stack ELSE << >>
Hole == {store.node} \X store.refs

\* The walk of Cap: what it has passed is saved.
CapInv(pos) ==
    /\ pc = "capPreimages" => walk.next = mem.oldest
    /\ pc \in {"cap", "capEnd", "capClean"} =>
        /\ walk.next \in Cached(mem) \cup {Meta}
        /\ \A h \in Cached(mem) : walk.next = Meta \/ pos[h] < pos[walk.next] => h \in saved

\* The cache is sound, and Cap follows the flush-list.
OrderInv == \E pos \in [Nodes -> Nat] : CacheInv(mem, Calls, disk, Hole, pos) /\ CapInv(pos)

\* What is on disk or in the batch refers to what is on disk or in the batch, and a batch that
\* is replayed has been written.
DiskInv ==
    /\ DiskIsClosed
    /\ \A h \in Range(batch) \cap Nodes : Children(h) \subseteq saved
    /\ pc \in {"commitReplay", "commitClean"} => Range(batch) \cap Nodes \subseteq disk

\* The children a call has still to turn to, and what a call of commit guarantees: its
\* other children are saved, or the next call is about them.
Pending(f) == f.ext \cup {Kids[f.node][j] : j \in {k \in DOMAIN Kids[f.node] : f.next <= k}}
CallInv(i) ==
    /\ stack[i].node \in available /\ 1 <= stack[i].next /\ stack[i].ext \subseteq Refs[stack[i].node]
    /\ Children(stack[i].node) \subseteq
            saved \cup Pending(stack[i]) \cup (IF i < Len(stack) THEN {stack[i + 1].node} ELSE {})

\* Commit reaches its root: it is saved, or the outermost call is about it.
CommitInv ==
    /\ pc \in {"commitEnd", "commitClean"} => stack = << >>
    /\ pc \in commitPcs =>
        /\ target \in available => target \in saved \/ (stack # << >> /\ stack[1].node = target)
        /\ \A i \in DOMAIN stack : CallInv(i)

\* Commit writes all preimages before it writes nodes.
PreimageInv ==
    /\ pc = "commitPreimages" => mem.preimages \subseteq left \cup Range(batch) \cup diskPre
    /\ pc = "commitPreimagesEnd" => mem.preimages \subseteq Range(batch) \cup diskPre
    /\ pc \in {"commit", "commitReplay", "commitEnd", "commitClean"} => mem.preimages \subseteq diskPre

\* What the trie has still to store refers to what it will have stored by then, or to what is
\* available; references are recorded for a node in the cache.
StoreInv ==
    /\ \A h \in store.todo : Children(h) \subseteq store.todo \cup available
    /\ store.refs # {} => store.node \in Cached(mem) /\ store.refs \subseteq Refs[store.node]

\* A reader that went to the disk finds its node there.
ReaderInv == reader.pc = "disk" => reader.node \in disk

\* The inductive invariant
Inv == Types /\ PcInv /\ OrderInv /\ DiskInv /\ CommitInv /\ PreimageInv /\ StoreInv /\ ReaderInv

\* A new database satisfies the invariant.
LEMMA InitInv ==
  ASSUME Init
  PROVE  Inv
  <1>1. Cached(mem) = {} /\ Calls = << >> /\ Hole = {} /\ Range(batch) = {} /\ mem.preimages = {}
    BY FreshCache DEF Init, Calls, Hole, idleStore, Range
  <1>2. OrderInv
    <2>1. PICK pos \in [Nodes -> Nat] : CacheInv(mem, << >>, disk, {}, pos)  BY FreshCache, Zenon DEF Init
    <2>2. CapInv(pos)  BY Zenon DEF Init, CapInv
    <2> QED  BY <1>1, <2>1, <2>2, Zenon DEF OrderInv
  <1>3. Types  BY DEF Init, Types, idleStore, idleWalk, idleReader, Hashes
  <1> QED
    BY <1>1, <1>2, <1>3, Zenon
    DEF Init, Inv, PcInv, DiskInv, DiskIsClosed, CommitInv, PreimageInv, StoreInv, ReaderInv, commitPcs,
        idleStore, idleReader

\* The steps that leave the cache and the disk as they are
LEMMA OrderFrame ==
  ASSUME OrderInv, UNCHANGED <<mem, disk>>, Calls' = Calls, Hole' = Hole,
         ASSUME NEW pos \in [Nodes -> Nat], CacheInv(mem, Calls, disk, Hole, pos), CapInv(pos)
         PROVE  CapInv(pos)'
  PROVE  OrderInv'
  <1>1. PICK pos \in [Nodes -> Nat] : CacheInv(mem, Calls, disk, Hole, pos) /\ CapInv(pos)  BY Zenon DEF OrderInv
  <1>2. CapInv(pos)'  BY <1>1, Zenon
  <1>3. CacheInv(mem, Calls, disk, Hole, pos)'  BY <1>1, Zenon
  <1> QED  BY <1>2, <1>3, Zenon DEF OrderInv

\* An idle mutator: nothing is left of what it was doing.
LEMMA ResetInv ==
  ASSUME Inv, Reset, UNCHANGED <<mem, disk, diskPre, reader>>, pc \notin {"store", "deref"}
  PROVE  Inv'
  <1>1. Calls' = Calls /\ Hole' = Hole /\ Range(batch') = {}
    BY DEF Inv, Reset, PcInv, Calls, Hole, Range
  <1>2. OrderInv'  BY <1>1, OrderFrame, Zenon DEF Inv, Reset, CapInv
  <1>3. Types'  BY DEF Inv, Types, Reset, idleStore, idleWalk, Hashes
  <1> QED
    BY <1>1, <1>2, <1>3, Zenon
    DEF Inv, Reset, PcInv, DiskInv, DiskIsClosed, CommitInv, PreimageInv, StoreInv, ReaderInv, commitPcs, idleStore

\* Only the preimages change.
LEMMA PreimagesOrder ==
  ASSUME OrderInv, NEW v \in SUBSET Preimages, mem' = [mem EXCEPT !.preimages = v],
         disk' = disk, Calls' = Calls, Hole' = Hole, pc' \notin capPcs
  PROVE  OrderInv' /\ Cached(mem') = Cached(mem) /\ mem'.preimages = v
  <1>1. PICK pos \in [Nodes -> Nat] : CacheInv(mem, Calls, disk, Hole, pos)  BY Zenon DEF OrderInv
  <1>2. mem \in Memory  BY <1>1, Zenon DEF CacheInv
  <1>3. /\ mem' \in Memory /\ mem'.dirties = mem.dirties /\ mem'.oldest = mem.oldest /\ mem'.newest = mem.newest
        /\ mem'.preimages = v
    BY <1>2, Zenon DEF Memory
  <1>4. Linked(mem, Live(mem, Calls), pos)  BY <1>1, Zenon DEF CacheInv
  <1>5. Linked(mem', Live(mem, Calls), pos)  BY <1>3, <1>4, LinkedFrame, Zenon
  <1>6. CacheInv(mem', Calls, disk, Hole, pos)  BY <1>1, <1>3, <1>5, RelinkCache, Zenon DEF SameNode
  <1>7. CapInv(pos)'  BY Zenon DEF CapInv, capPcs
  <1> QED  BY <1>3, <1>6, <1>7, Zenon DEF OrderInv, Cached

\* A node is below itself.
LEMMA BelowSelf ==
  ASSUME NEW h \in Nodes
  PROVE  h \in Below[h]
  BY Zenon DEF Below

\* The children of a node are nodes.
LEMMA ChildrenNodes ==
  ASSUME NEW h \in Nodes
  PROVE  Children(h) \subseteq Nodes
  <1>1. Kids[h] \in Seq(Nodes) /\ Refs[h] \subseteq Nodes  BY ShapeAssumption, Zenon
  <1> QED  BY <1>1, SMTT(30) DEF Children, Range

\* Committing a trie to the cache begins.
LEMMA CommitTrieInv ==
  ASSUME Inv, NEW root \in Roots, NEW changed \in SUBSET Nodes, CommitTrie(root, changed)
  PROVE  Inv'
  <1>1. /\ pc = "idle" /\ pc' = "store" /\ store' = [idleStore EXCEPT !.todo = changed]
        /\ mem' = [mem EXCEPT !.preimages = @ \cup KeysOf[root]]
        /\ UNCHANGED <<disk, diskPre, stack, batch, full, left, walk, target, reader>>
    BY Zenon DEF CommitTrie
  <1>2. store'.todo = changed /\ store'.node = Meta /\ store'.refs = {}  BY <1>1, Zenon DEF idleStore
  <1>3. OrderInv' /\ Cached(mem') = Cached(mem)
    <2>1. mem \in Memory  BY Zenon DEF Inv, OrderInv, CacheInv
    <2>2. mem.preimages \cup KeysOf[root] \in SUBSET Preimages  BY <2>1, UseAssumption, Zenon DEF Memory
    <2>3. Calls' = Calls /\ Hole' = Hole  BY <1>1, <1>2, Zenon DEF Calls, Hole, Inv, PcInv, idleStore
    <2> QED  BY <1>1, <2>2, <2>3, PreimagesOrder, Zenon DEF Inv, capPcs
  <1>4. StoreInv'
    <2>1. ASSUME NEW h \in changed  PROVE Children(h) \subseteq changed \cup available
      <3>1. \A c \in Children(h) \ changed : Below[c] \subseteq available  BY Zenon DEF CommitTrie
      <3> QED  BY <3>1, BelowSelf, ChildrenNodes, Zenon
    <2> QED  BY <1>1, <1>2, <1>3, <2>1, Zenon DEF StoreInv, available
  <1>5. Types'  BY <1>1, Zenon DEF Inv, Types, idleStore, Hashes
  <1> QED
    BY <1>1, <1>3, <1>4, <1>5, Zenon
    DEF Inv, PcInv, DiskInv, DiskIsClosed, CommitInv, PreimageInv, ReaderInv, commitPcs, saved

\* The mutator stores or references: nothing but the cache changes.
LEMMA MemoryInv ==
  ASSUME Inv, pc \in {"idle", "store"}, pc' \in {"idle", "store"}, OrderInv', Types', StoreInv',
         UNCHANGED <<disk, diskPre, stack, batch, full, left, walk, target, reader>>,
         pc' = "idle" => store' = idleStore
  PROVE  Inv'
  BY Zenon DEF Inv, PcInv, DiskInv, DiskIsClosed, CommitInv, PreimageInv, ReaderInv, commitPcs, saved

\* The trie stores one node, or one external reference.
LEMMA StoreStepInv ==
  ASSUME Inv, StoreStep
  PROVE  Inv'
  <1>1. /\ pc = "store" /\ UNCHANGED <<disk, diskPre, stack, batch, full, left, walk, target, reader>>
        /\ Calls = << >> /\ store \in [todo : SUBSET Nodes, node : Hashes, refs : SUBSET Nodes]
    BY Zenon DEF StoreStep, Calls, Inv, Types
  <1>2. PICK pos \in [Nodes -> Nat] : CacheInv(mem, << >>, disk, Hole, pos)  BY <1>1, Zenon DEF Inv, OrderInv
  <1>3. /\ Cached(mem) \subseteq DOMAIN mem.dirties /\ Cached(mem) \subseteq Nodes /\ Meta \notin Nodes
    BY <1>2, CacheFacts, ShapeAssumption, Zenon
  <1>4. ASSUME NEW c \in store.refs, mem' = reference(mem, c, store.node),
               store' = [store EXCEPT !.refs = @ \ {c}], pc' = pc
        PROVE  Inv'
    <2>1. store.node \in Cached(mem) /\ c \in Refs[store.node] /\ store.refs \subseteq Refs[store.node]
      BY Zenon DEF Inv, StoreInv
    <2>2. c \in Nodes /\ c # store.node
      <3>1. Height[c] < Height[store.node] /\ Height[store.node] \in Nat /\ c \in Nodes
        BY <1>1, <1>3, <2>1, ShapeAssumption, Zenon DEF Children
      <3> QED  BY <3>1
    <2>3. CacheInv(mem', << >>, disk, Hole \ {<<store.node, c>>}, pos)
      BY <1>2, <1>3, <1>4, <2>1, <2>2, ReferenceCache, Zenon
    <2>4. store'.todo = store.todo /\ store'.node = store.node /\ store'.refs = store.refs \ {c}  BY <1>1, <1>4, Zenon
    <2>5. Hole' = Hole \ {<<store.node, c>>} /\ Calls' = << >>  BY <1>1, <1>4, <2>4, SMTT(30) DEF Hole, Calls
    <2>6. Cached(mem') = Cached(mem)
      <3>1. DOMAIN mem'.dirties = DOMAIN mem.dirties
        <4>1. CASE c \notin DOMAIN mem.dirties \/ c \in DOMAIN mem.dirties[store.node].children
          BY <1>3, <1>4, <2>1, <4>1, Zenon DEF reference
        <4>2. CASE c \in DOMAIN mem.dirties /\ c \notin DOMAIN mem.dirties[store.node].children
          <5>1. Referenced(mem, mem', c, store.node)
            BY <1>2, <1>3, <1>4, <2>1, <2>2, <4>2, ReferenceEffect, Zenon DEF CacheInv
          <5> QED  BY <5>1, Zenon DEF Referenced
        <4> QED  BY <4>1, <4>2, Zenon
      <3> QED  BY <3>1, Zenon DEF Cached
    <2>7. OrderInv'
      <3>1. CapInv(pos)'  BY <1>1, <1>4, Zenon DEF CapInv
      <3> QED  BY <1>1, <2>3, <2>5, <3>1, Zenon DEF OrderInv
    <2>8. StoreInv'  BY <1>1, <2>1, <2>4, <2>6, Zenon DEF StoreInv, available, Inv
    <2>9. Types'  BY <1>1, <1>4, Zenon DEF Inv, Types
    <2> QED  BY <1>1, <1>4, <2>7, <2>8, <2>9, MemoryInv, Zenon
  <1>5. ASSUME store.refs = {}, NEW h \in store.todo, Children(h) \cap store.todo = {}, mem' = insert(mem, h),
               store' = [todo |-> store.todo \ {h}, node |-> h, refs |-> Refs[h]], pc' = pc
        PROVE  Inv'
    <2>1. h \in Nodes /\ Children(h) \subseteq Cached(mem) \cup disk /\ Hole = {}
      BY <1>1, <1>5, Zenon DEF Inv, StoreInv, available, Hole
    <2>2. PICK pos2 \in [Nodes -> Nat] : CacheInv(mem', << >>, disk, {h} \X Refs[h], pos2)
      BY <1>2, <1>5, <2>1, InsertCache, Zenon
    <2>3. Cached(mem') = Cached(mem) \cup {h}
      <3>1. CASE h \in DOMAIN mem.dirties  BY <1>3, <1>5, <2>1, <3>1, Zenon DEF insert, Cached
      <3>2. CASE h \notin DOMAIN mem.dirties
        <4>1. mem \in Memory /\ (mem.oldest # Meta => mem.newest \in DOMAIN mem.dirties)
          BY <1>2, CacheFacts, Zenon DEF CacheInv
        <4>2. Inserted(mem, mem', h)  BY <1>5, <2>1, <3>2, <4>1, InsertEffect, Zenon
        <4> QED  BY <1>3, <2>1, <4>2, SMTT(30) DEF Inserted, Cached
      <3> QED  BY <3>1, <3>2, Zenon
    <2>4. store'.todo = store.todo \ {h} /\ store'.node = h /\ store'.refs = Refs[h]  BY <1>5, Zenon
    <2>5. OrderInv'
      <3>1. CapInv(pos2)' /\ Calls' = << >> /\ Hole' = {h} \X Refs[h]
        BY <1>1, <1>5, <2>4, Zenon DEF CapInv, Calls, Hole
      <3> QED  BY <1>1, <2>2, <3>1, Zenon DEF OrderInv
    <2>6. StoreInv'  BY <1>1, <2>3, <2>4, Zenon DEF StoreInv, available, Inv
    <2>7. Types'
      <3>1. Refs[h] \in SUBSET Nodes  BY <2>1, ShapeAssumption, Zenon
      <3> QED  BY <1>1, <1>5, <2>1, <3>1, Zenon DEF Inv, Types, Hashes
    <2> QED  BY <1>1, <1>5, <2>5, <2>6, <2>7, MemoryInv, Zenon
  <1>6. ASSUME store.refs = {}, store.todo = {}, pc' = "idle", store' = idleStore, mem' = mem
        PROVE  Inv'
    <2>1. Hole' = Hole /\ Calls' = Calls  BY <1>1, <1>6, Zenon DEF Hole, Calls, idleStore
    <2>2. OrderInv'  BY <1>1, <1>6, <2>1, OrderFrame, Zenon DEF Inv, CapInv
    <2>3. StoreInv'  BY <1>6, Zenon DEF StoreInv, idleStore
    <2>4. Types'  BY <1>1, <1>6, Zenon DEF Inv, Types, idleStore, Hashes
    <2> QED  BY <1>1, <1>6, <2>2, <2>3, <2>4, MemoryInv, Zenon
  <1> QED  BY <1>4, <1>5, <1>6, Zenon DEF StoreStep

\* Reference of a root.
LEMMA ReferenceInv ==
  ASSUME Inv, NEW root \in Roots, Reference(root)
  PROVE  Inv'
  <1>1. /\ pc = "idle" /\ root \in Cached(mem) /\ mem' = reference(mem, root, Meta)
        /\ UNCHANGED <<disk, diskPre, pc, store, stack, batch, full, left, walk, target, reader>>
        /\ Calls = << >> /\ Calls' = << >> /\ store = idleStore
    BY Zenon DEF Reference, Calls, Inv, PcInv
  <1>2. PICK pos \in [Nodes -> Nat] : CacheInv(mem, << >>, disk, Hole, pos)  BY <1>1, Zenon DEF Inv, OrderInv
  <1>3. Meta \in DOMAIN mem.dirties /\ root \in Nodes /\ root # Meta /\ Hole = {} /\ Hole' = {}
    BY <1>1, <1>2, UseAssumption, ShapeAssumption, Zenon DEF CacheInv, Hole, idleStore
  <1>4. Hole \ {<<Meta, root>>} = {}  BY <1>3, Zenon
  <1>5. CacheInv(mem', << >>, disk, Hole \ {<<Meta, root>>}, pos)  BY <1>1, <1>2, <1>3, ReferenceCache, Zenon
  <1>6. OrderInv'
    <2>1. CapInv(pos)'  BY <1>1, Zenon DEF CapInv
    <2> QED  BY <1>1, <1>3, <1>4, <1>5, <2>1, Zenon DEF OrderInv
  <1>7. StoreInv' /\ Types'  BY <1>1, Zenon DEF StoreInv, Inv, Types, idleStore
  <1> QED  BY <1>1, <1>6, <1>7, MemoryInv, Zenon

\* The mutator is in dereference, or was.
LEMMA CollectInv ==
  ASSUME Inv, pc \in {"idle", "deref"}, pc' \in {"idle", "deref"},
         stack' \in Seq(CallType), pc' = "deref" <=> stack' # << >>,
         NEW pos \in [Nodes -> Nat], CacheInv(mem', stack', disk, {}, pos),
         UNCHANGED <<disk, diskPre, store, batch, full, left, walk, target, reader>>
  PROVE  Inv'
  <1>1. store = idleStore /\ Hole' = {} /\ Calls' = stack'  BY DEF Inv, PcInv, Hole, Calls, idleStore
  <1>2. OrderInv'
    <2>1. CapInv(pos)'  BY Zenon DEF CapInv
    <2> QED  BY <1>1, <2>1, Zenon DEF OrderInv
  <1>3. Types' /\ StoreInv'  BY <1>1, Zenon DEF Inv, Types, StoreInv, idleStore
  <1> QED
    BY <1>1, <1>2, <1>3, Zenon
    DEF Inv, PcInv, DiskInv, DiskIsClosed, CommitInv, PreimageInv, ReaderInv, commitPcs, saved

\* dereference(child, parent), once the reference is released
LEMMA DereferenceCallInv ==
  ASSUME Inv, pc \in {"idle", "deref"}, NEW child \in Nodes, NEW parent, NEW calls, dereference(child, parent, calls),
         NEW pos \in [Nodes -> Nat], CacheInv(release(mem, child, parent), calls, disk, {}, pos),
         \A i \in DOMAIN calls : Height[child] < Height[calls[i].node],
         UNCHANGED <<disk, diskPre, store, batch, full, left, walk, target, reader>>
  PROVE  Inv'
  <1> DEFINE m == release(mem, child, parent)
             dead == child \in DOMAIN m.dirties /\ m.dirties[child].parents = 0
  <1>1. /\ mem' = IF dead THEN unlink(m, child) ELSE m
        /\ stack' = IF dead THEN Append(calls, call(m, child)) ELSE calls
        /\ pc' = IF stack' = << >> THEN "idle" ELSE "deref"
    BY Zenon DEF dereference
  <1> HIDE DEF m
  <1>2. CacheInv(m, calls, disk, {}, pos)  BY Zenon DEF m
  <1>3. CASE dead
    <2>1. child \in Live(m, calls)
      <3>1. child # Meta /\ Height[child] \in Nat  BY ShapeAssumption, Zenon
      <3>2. \A i \in DOMAIN calls : calls[i].node # child  BY <3>1
      <3> QED  BY <1>3, <3>1, <3>2, Zenon DEF Live, Cached
    <2>2. CacheInv(mem', stack', disk, {}, pos)  BY <1>1, <1>2, <1>3, <2>1, UnlinkCache, Zenon
    <2>3. stack' \in Seq(CallType)  BY <2>2, Zenon DEF CacheInv, Dying
    <2> QED  BY <1>1, <2>2, <2>3, CollectInv, Zenon
  <1>4. CASE ~dead
    <2>1. mem' = m /\ stack' = calls  BY <1>1, <1>4, Zenon
    <2>2. stack' \in Seq(CallType)  BY <1>2, <2>1, Zenon DEF CacheInv, Dying
    <2>3. CacheInv(mem', stack', disk, {}, pos)  BY <1>2, <2>1, Zenon
    <2> QED  BY <1>1, <2>2, <2>3, CollectInv, Zenon
  <1> QED  BY <1>3, <1>4, Zenon

\* Dereference of a root.
LEMMA DereferenceInv ==
  ASSUME Inv, NEW root \in Roots, Dereference(root)
  PROVE  Inv'
  <1>1. /\ pc = "idle" /\ (held(root) \/ root \in disk) /\ dereference(root, Meta, << >>)
        /\ UNCHANGED <<disk, diskPre, store, batch, full, left, walk, target, reader>>
        /\ Calls = << >> /\ Hole = {}
    BY DEF Dereference, Calls, Hole, Inv, PcInv, idleStore
  <1>2. PICK pos \in [Nodes -> Nat] : CacheInv(mem, << >>, disk, {}, pos)  BY <1>1, Zenon DEF Inv, OrderInv
  <1>3. mem \in Memory /\ Meta \in DOMAIN mem.dirties /\ root \in Nodes /\ root # Meta
    BY <1>2, UseAssumption, ShapeAssumption, Zenon DEF CacheInv
  <1>4. Released(mem, release(mem, root, Meta), root, Meta)  BY <1>3, ReleaseEffect, Zenon
  <1>5. CacheInv(release(mem, root, Meta), << >>, disk, {}, pos)
    BY <1>1, <1>2, <1>3, <1>4, ReleaseRootCache, Zenon DEF held
  <1> QED  BY <1>1, <1>3, <1>5, DereferenceCallInv, SMTT(30)

\* The innermost call turns to one of the children that follow.
LEMMA TurnedStack ==
  ASSUME stack \in Seq(CallType), stack # << >>, NEW c \in following
  PROVE  Turned(stack, turned(c), c)
  <1> DEFINE n == Len(stack)
             g == turn(top, c)
  <1>1. n \in DOMAIN stack /\ top \in CallType /\ top = stack[n]  BY DEF top
  <1>2. /\ g \in CallType /\ g.node = top.node
        /\ \/ c \in top.ext /\ g.ext = top.ext \ {c} /\ g.next = top.next
           \/ /\ top.ext = {} /\ top.next \in DOMAIN Kids[top.node] /\ c = Kids[top.node][top.next]
              /\ g.ext = {} /\ g.next = top.next + 1
    <2>1. CASE top.ext # {}
      <3>1. g = [top EXCEPT !.ext = @ \ {c}] /\ c \in top.ext  BY <2>1, Zenon DEF following, turn
      <3> QED  BY <1>1, <3>1, Zenon DEF CallType
    <2>2. CASE top.ext = {}
      <3>1. g = [top EXCEPT !.next = @ + 1] /\ top.next \in DOMAIN Kids[top.node] /\ c = Kids[top.node][top.next]
        BY <2>2, Zenon DEF following, turn
      <3> DEFINE k == top.next + 1
      <3>2. g = [top EXCEPT !.next = k] /\ k \in Nat  BY <1>1, <3>1 DEF CallType
      <3> HIDE DEF k
      <3>3. g \in CallType /\ g.node = top.node /\ g.ext = top.ext /\ g.next = k
        BY <1>1, <3>2, Zenon DEF CallType
      <3> QED  BY <2>2, <3>1, <3>3, Zenon DEF k
    <2> QED  BY <2>1, <2>2, Zenon
  <1>3. turned(c) = [stack EXCEPT ![n] = g]  BY Zenon DEF turned
  <1> HIDE DEF g
  <1>4. /\ turned(c) \in Seq(CallType) /\ DOMAIN turned(c) = DOMAIN stack /\ turned(c)[n] = g
        /\ \A i \in DOMAIN stack \ {n} : turned(c)[i] = stack[i]
    BY <1>1, <1>2, <1>3, SMTT(30)
  <1> QED  BY <1>1, <1>2, <1>4, Zenon DEF Turned

\* One step of the recursion of dereference.
LEMMA DereferenceStepInv ==
  ASSUME Inv, DereferenceStep
  PROVE  Inv'
  <1>1. /\ pc = "deref" /\ UNCHANGED <<disk, diskPre, store, batch, full, left, walk, target, reader>>
        /\ Calls = stack /\ Hole = {} /\ stack # << >> /\ stack \in Seq(CallType)
    BY DEF DereferenceStep, Calls, Hole, Inv, PcInv, Types, idleStore
  <1>2. PICK pos \in [Nodes -> Nat] : CacheInv(mem, stack, disk, {}, pos)  BY <1>1, Zenon DEF Inv, OrderInv
  <1>3. Len(stack) \in DOMAIN stack /\ top \in CallType /\ top.node \in Cached(mem) /\ Cached(mem) \subseteq DOMAIN mem.dirties
    <2>1. Len(stack) \in DOMAIN stack  BY <1>1
    <2> QED  BY <1>1, <1>2, <2>1, CacheFacts, SMTT(30) DEF top, CacheInv, Dying
  <1>4. ASSUME NEW c \in following, dereference(c, top.node, turned(c))
        PROVE  Inv'
    <2>1. Turned(stack, turned(c), c)  BY <1>1, TurnedStack, Zenon
    <2>2. /\ c \in Nodes /\ \A i \in DOMAIN turned(c) : Height[c] < Height[turned(c)[i].node]
      BY <1>2, <2>1, TurnedBelow, SMTT(30) DEF Turned
    <2>3. c # top.node
      <3>1. Height[c] < Height[top.node] /\ Height[c] \in Nat
        BY <1>2, <1>3, <2>1, <2>2, TurnedBelow, ShapeAssumption, Zenon DEF top
      <3> QED  BY <3>1, SMTT(30)
    <2>4. Released(mem, release(mem, c, top.node), c, top.node)
      BY <1>2, <1>3, <2>2, <2>3, ReleaseEffect, Zenon DEF CacheInv
    <2>5. CacheInv(release(mem, c, top.node), turned(c), disk, {}, pos)
      BY <1>2, <2>1, <2>4, ReleaseChildCache, Zenon DEF top
    <2> QED  BY <1>1, <1>4, <2>2, <2>5, DereferenceCallInv, Zenon
  <1>5. ASSUME following = {},
               mem' = [mem EXCEPT !.dirties = Delete(@, top.node),
                                  !.size = @ - NodeSize[top.node] -
                                           IF mem.dirties[top.node].tracked THEN ChildrenSize ELSE 0],
               stack' = returned, pc' = IF stack' = << >> THEN "idle" ELSE pc
        PROVE  Inv'
    <2> DEFINE e == Delete(mem.dirties, top.node)
               v == mem.size - NodeSize[top.node] - IF mem.dirties[top.node].tracked THEN ChildrenSize ELSE 0
    <2>1. mem \in Memory /\ top.node \in Nodes  BY <1>2, <1>3, CacheFacts, Zenon DEF CacheInv
    <2>2. /\ e \in Maps(Hashes, Entry) /\ DOMAIN e = DOMAIN mem.dirties \ {top.node}
          /\ \A x \in DOMAIN e : e[x] = mem.dirties[x]
      BY <2>1, DeleteType, Zenon DEF Memory, Delete
    <2>3. v \in Int
      <3>1. mem.size \in Int /\ NodeSize[top.node] \in Int /\ ChildrenSize \in Int
        BY <2>1, NodeSizes, SizeAssumption DEF Memory
      <3> QED  BY <3>1
    <2>4. mem' = [mem EXCEPT !.dirties = e, !.size = v]  BY <1>5, Zenon
    <2> HIDE DEF e, v
    <2>5. /\ mem' \in Memory /\ DOMAIN mem'.dirties = DOMAIN mem.dirties \ {top.node}
          /\ \A x \in DOMAIN mem'.dirties : mem'.dirties[x] = mem.dirties[x]
          /\ mem'.oldest = mem.oldest /\ mem'.newest = mem.newest
      BY <2>1, <2>2, <2>3, <2>4, Zenon DEF Memory
    <2>6. top.ext = {} /\ top.next \notin DOMAIN Kids[top.node]  BY <1>5, Zenon DEF following
    <2>7. CacheInv(mem', stack', disk, {}, pos)
      <3> DEFINE calls == stack
                 t == calls[Len(calls)]
      <3>1. /\ CacheInv(mem, calls, disk, {}, pos) /\ calls # << >> /\ stack' = SubSeq(calls, 1, Len(calls) - 1)
            /\ t = top
        BY <1>1, <1>2, <1>5, Zenon DEF top, returned
      <3>2. t.ext = {} /\ t.next \notin DOMAIN Kids[t.node]  BY <2>6, <3>1, Zenon
      <3>3. DOMAIN mem'.dirties = DOMAIN mem.dirties \ {t.node}  BY <2>5, <3>1, Zenon
      <3> HIDE DEF calls
      <3> QED  BY <2>5, <3>1, <3>2, <3>3, DeleteDeadCache, Zenon
    <2>8. stack' \in Seq(CallType)  BY <2>7, Zenon DEF CacheInv, Dying
    <2> QED  BY <1>1, <1>5, <2>7, <2>8, CollectInv, Zenon
  <1> QED  BY <1>4, <1>5, Zenon DEF DereferenceStep

\* The process dies: the cache is lost, the disk stays.
LEMMA CrashInv ==
  ASSUME Inv, Crash
  PROVE  Inv'
  <1>1. mem' = NewDatabase /\ Reset /\ reader' = idleReader /\ disk' = disk /\ diskPre' = diskPre  BY Zenon DEF Crash
  <1>2. Calls' = << >> /\ Hole' = {} /\ Range(batch') = {}
    BY <1>1 DEF Reset, Calls, Hole, idleStore, Range
  <1>3. OrderInv'
    <2>1. PICK pos \in [Nodes -> Nat] : CacheInv(mem', << >>, disk', {}, pos)  BY <1>1, FreshCache, Zenon
    <2>2. CapInv(pos)'  BY <1>1, Zenon DEF Reset, CapInv
    <2> QED  BY <1>2, <2>1, <2>2, Zenon DEF OrderInv
  <1>4. Types'
    <2>1. Types  BY Zenon DEF Inv
    <2>2. /\ pc' = "idle" /\ store' = idleStore /\ stack' = << >> /\ batch' = << >> /\ left' = {}
          /\ walk' = idleWalk /\ target' = Meta
      BY <1>1, Zenon DEF Reset
    <2>3. /\ store' \in [todo : SUBSET Nodes, node : Hashes, refs : SUBSET Nodes]
          /\ walk' \in [next : Hashes, size : Int, limit : Int, flushPreimages : BOOLEAN]
          /\ target' \in Hashes /\ reader' \in [pc : {"idle", "disk"}, node : Hashes]
      BY <1>1, <2>2, SMTT(30) DEF idleStore, idleWalk, idleReader, Hashes
    <2>4. stack' \in Seq(CallType) /\ batch' \in Seq(Nodes \cup Preimages)  BY <2>2
    <2> QED  BY <1>1, <2>1, <2>2, <2>3, <2>4, Zenon DEF Types
  <1> QED
    BY <1>1, <1>2, <1>3, <1>4, Zenon
    DEF Inv, Reset, PcInv, DiskInv, DiskIsClosed, CommitInv, PreimageInv, StoreInv, ReaderInv, commitPcs,
        idleStore, idleReader

\* A write to the disk fails, and the operation returns the error.
LEMMA WriteFailsInv ==
  ASSUME Inv, WriteFails
  PROVE  Inv'
  <1>1. Reset /\ UNCHANGED <<mem, disk, diskPre, reader>> /\ Writing  BY Zenon DEF WriteFails
  <1>2. pc \notin {"store", "deref"}  BY <1>1, Zenon DEF Inv, PcInv, Writing
  <1> QED  BY <1>1, <1>2, ResetInv, Zenon

\* Cap begins.
LEMMA CapOp ==
  ASSUME Inv, NEW limit \in Limits, Cap(limit)
  PROVE  Inv'
  <1> DEFINE flush == Cardinality(mem.preimages) > PreimageLimit
  <1>1. /\ pc = "idle" /\ pc' = "capPreimages" /\ left' = IF flush THEN mem.preimages ELSE {}
        /\ walk' = [next |-> mem.oldest, size |-> Size(mem), limit |-> limit, flushPreimages |-> flush]
        /\ UNCHANGED <<mem, disk, diskPre, store, stack, batch, full, target, reader>>
    BY Zenon DEF Cap
  <1>2. mem \in Memory /\ Size(mem) \in Int /\ limit \in Int
    <2>1. mem \in Memory /\ Meta \in DOMAIN mem.dirties  BY Zenon DEF Inv, OrderInv, CacheInv
    <2> QED  BY <2>1, SizeType, UseAssumption, Zenon
  <1>3. walk'.next = mem.oldest  BY <1>1, Zenon
  <1>4. OrderInv'
    <2>1. Calls' = Calls /\ Hole' = Hole  BY <1>1, Zenon DEF Calls, Hole
    <2> QED  BY <1>1, <1>3, <2>1, OrderFrame, Zenon DEF Inv, CapInv
  <1>5. Types'
    <2>1. walk' \in [next : Hashes, size : Int, limit : Int, flushPreimages : BOOLEAN]
      <3>1. mem.oldest \in Hashes /\ flush \in BOOLEAN  BY <1>2 DEF Memory
      <3> HIDE DEF flush
      <3> QED  BY <1>1, <1>2, <3>1, Zenon
    <2>2. left' \subseteq Preimages  BY <1>1, <1>2, Zenon DEF Memory
    <2> QED  BY <1>1, <2>1, <2>2, Zenon DEF Inv, Types, capPcs
  <1>6. Range(batch) = {}  BY <1>1, SMTT(30) DEF Inv, PcInv, Range
  <1> QED
    BY <1>1, <1>4, <1>5, <1>6, Zenon
    DEF Inv, PcInv, DiskInv, DiskIsClosed, CommitInv, PreimageInv, StoreInv, ReaderInv, commitPcs, saved, available

\* A call that begins has all children of its node before it but those on disk.
LEMMA NewCall ==
  ASSUME NEW m, NEW d, NEW pos, CacheInv(m, << >>, d, {}, pos), NEW h \in Cached(m)
  PROVE  /\ call(m, h) \in CallType /\ call(m, h).node = h /\ call(m, h).next = 1 /\ call(m, h).ext \subseteq Refs[h]
         /\ Children(h) \subseteq d \cup Pending(call(m, h))
  <1> DEFINE f == call(m, h)
  <1>1. h \in Nodes /\ h \in Live(m, << >>)  BY NoCalls, CacheFacts, Zenon
  <1>2. DOMAIN m.dirties[h].children \subseteq Refs[h] /\ Refs[h] \subseteq d \cup DOMAIN m.dirties[h].children
    BY <1>1, Zenon DEF CacheInv, Recorded
  <1>3. Refs[h] \subseteq Nodes /\ Kids[h] \in Seq(Nodes)  BY <1>1, ShapeAssumption, Zenon
  <1>4. f \in CallType /\ f.node = h /\ f.next = 1 /\ f.ext = DOMAIN m.dirties[h].children
    BY <1>1, <1>2, <1>3, Zenon DEF call, CallType
  <1> HIDE DEF f
  <1>5. \A j \in DOMAIN Kids[h] : 1 <= j  BY <1>3, SMTT(30)
  <1> QED  BY <1>2, <1>4, <1>5, Zenon DEF Pending, Children, Range, f

\* A call that turns to a child has the other children before it.
LEMMA TurnedPending ==
  ASSUME NEW calls \in Seq(CallType), NEW calls2, NEW c, Turned(calls, calls2, c)
  PROVE  /\ calls2[Len(calls)].node = calls[Len(calls)].node /\ calls[Len(calls)].next <= calls2[Len(calls)].next
         /\ c \in Pending(calls[Len(calls)])
         /\ Pending(calls[Len(calls)]) \subseteq Pending(calls2[Len(calls)]) \cup {c}
  <1> DEFINE f == calls[Len(calls)]
             g == calls2[Len(calls)]
  <1>1. Len(calls) \in DOMAIN calls /\ g.node = f.node  BY Zenon DEF Turned
  <1>2. f \in CallType  BY <1>1
  <1>3. f.next \in Nat /\ f.node \in Nodes  BY <1>2, Zenon DEF CallType
  <1>4. Kids[f.node] \in Seq(Nodes)  BY <1>3, ShapeAssumption, Zenon
  <1>5. DOMAIN Kids[f.node] \subseteq Nat  BY <1>4, SMTT(30)
  <1>6. CASE c \in f.ext /\ g.ext = f.ext \ {c} /\ g.next = f.next
    <2> HIDE DEF f, g
    <2> QED  BY <1>1, <1>3, <1>6, SMTT(30) DEF Pending, f, g
  <1>7. CASE /\ f.ext = {} /\ f.next \in DOMAIN Kids[f.node] /\ c = Kids[f.node][f.next]
             /\ g.ext = {} /\ g.next = f.next + 1
    <2>1. \A j \in DOMAIN Kids[f.node] : f.next <= j => j = f.next \/ g.next <= j  BY <1>3, <1>5, <1>7, SMTT(30)
    <2>2. f.next <= g.next /\ f.next <= f.next  BY <1>3, <1>7, SMTT(30)
    <2> HIDE DEF f, g
    <2>3. c \in Pending(f)  BY <1>7, <2>2, Zenon DEF Pending
    <2>4. Pending(f) \subseteq Pending(g) \cup {c}  BY <1>1, <1>7, <2>1, Zenon DEF Pending
    <2> QED  BY <1>1, <2>2, <2>3, <2>4, Zenon DEF f, g
  <1> QED  BY <1>6, <1>7, Zenon DEF Turned

\* Commit begins.
LEMMA CommitOp ==
  ASSUME Inv, NEW root \in Roots, Commit(root)
  PROVE  Inv'
  <1>1. /\ pc = "idle" /\ pc' = "commitPreimages" /\ left' = mem.preimages /\ target' = root
        /\ stack' = IF root \in DOMAIN mem.dirties THEN <<call(mem, root)>> ELSE << >>
        /\ UNCHANGED <<mem, disk, diskPre, store, batch, full, walk, reader>>
    BY Zenon DEF Commit
  <1>2. Calls = << >> /\ Hole = {} /\ Calls' = Calls /\ Hole' = Hole /\ Range(batch) = {} /\ root \in Nodes /\ root # Meta
    BY <1>1, UseAssumption, ShapeAssumption, SMTT(30) DEF Calls, Hole, Inv, PcInv, idleStore, Range
  <1>3. PICK pos \in [Nodes -> Nat] : CacheInv(mem, << >>, disk, {}, pos)  BY <1>2, Zenon DEF Inv, OrderInv
  <1>4. OrderInv'  BY <1>1, <1>2, OrderFrame, Zenon DEF Inv, CapInv
  <1>5. stack' \in Seq(CallType) /\ CommitInv'
    <2>1. CASE root \in DOMAIN mem.dirties
      <3> DEFINE f == call(mem, root)
      <3>1. root \in Cached(mem)  BY <1>2, <2>1, Zenon DEF Cached
      <3>2. f \in CallType /\ f.node = root /\ f.next = 1 /\ f.ext \subseteq Refs[root] /\ Children(root) \subseteq disk \cup Pending(f)
        BY <1>3, <3>1, NewCall, Zenon
      <3>3. stack' = <<f>>  BY <1>1, <2>1, Zenon
      <3> HIDE DEF f
      <3>4. stack' \in Seq(CallType) /\ DOMAIN stack' = {1} /\ Len(stack') = 1 /\ stack'[1] = f /\ stack' # << >>
        BY <3>2, <3>3, SMTT(30)
      <3>5. (\A i \in DOMAIN stack : CallInv(i))'
        BY <1>1, <3>1, <3>2, <3>4, SMTT(30) DEF CallInv, available, saved
      <3> QED  BY <1>1, <3>2, <3>4, <3>5, Zenon DEF CommitInv
    <2>2. CASE root \notin DOMAIN mem.dirties
      <3>1. stack' = << >> /\ (root \in available => root \in saved)  BY <1>1, <2>2, Zenon DEF available, saved, Cached
      <3> QED  BY <1>1, <3>1, SMTT(30) DEF CommitInv, available, saved
    <2> QED  BY <2>1, <2>2, Zenon
  <1>6. Types'
    <2>1. left' \subseteq Preimages  BY <1>1, <1>3, Zenon DEF CacheInv, Memory
    <2> QED  BY <1>1, <1>2, <1>5, <2>1, Zenon DEF Inv, Types, commitPcs, Hashes
  <1> QED
    BY <1>1, <1>2, <1>4, <1>5, <1>6, Zenon
    DEF Inv, PcInv, DiskInv, DiskIsClosed, PreimageInv, StoreInv, ReaderInv, commitPcs, saved, available

\* A batch with one more write.
LEMMA RangeAppend ==
  ASSUME NEW S, NEW s \in Seq(S), NEW e \in S
  PROVE  Append(s, e) \in Seq(S) /\ Range(Append(s, e)) = Range(s) \cup {e}
  <1> DEFINE t == Append(s, e)
  <1>1. /\ t \in Seq(S) /\ DOMAIN t = DOMAIN s \cup {Len(s) + 1} /\ t[Len(s) + 1] = e
        /\ \A i \in DOMAIN s : t[i] = s[i]
    OBVIOUS
  <1> HIDE DEF t
  <1>2. Range(t) = Range(s) \cup {e}  BY <1>1 DEF Range
  <1> QED  BY <1>1, <1>2, Zenon DEF t

\* A batch without its first write.
LEMMA RangeTail ==
  ASSUME NEW S, NEW s \in Seq(S), s # << >>
  PROVE  Tail(s) \in Seq(S) /\ Head(s) \in S /\ Range(s) = Range(Tail(s)) \cup {Head(s)}
  <1> DEFINE t == Tail(s)
  <1>1. /\ t \in Seq(S) /\ Head(s) = s[1] /\ Head(s) \in S /\ Len(s) \in Nat /\ 1 <= Len(s)
        /\ DOMAIN s = 1 .. Len(s) /\ DOMAIN t = 1 .. (Len(s) - 1)
        /\ \A i \in 1 .. (Len(s) - 1) : t[i] = s[i + 1]
    OBVIOUS
  <1> HIDE DEF t
  <1>2. Range(t) \subseteq Range(s)
    <2>1. \A i \in 1 .. (Len(s) - 1) : i + 1 \in DOMAIN s  BY <1>1, SMTT(30)
    <2> QED  BY <1>1, <2>1, SMTT(30) DEF Range
  <1>3. Head(s) \in Range(s)  BY <1>1 DEF Range
  <1>4. Range(s) \subseteq Range(t) \cup {Head(s)}
    <2>1. ASSUME NEW i \in DOMAIN s, i # 1  PROVE s[i] \in Range(t)
      <3>1. i - 1 \in 1 .. (Len(s) - 1) /\ (i - 1) + 1 = i  BY <1>1, <2>1, SMTT(30)
      <3>2. t[i - 1] = s[i]  BY <1>1, <3>1, Zenon
      <3> QED  BY <1>1, <3>1, <3>2, Zenon DEF Range
    <2> QED  BY <1>1, <2>1, Zenon DEF Range
  <1> QED  BY <1>1, <1>2, <1>3, <1>4, Zenon DEF t

\* What Commit has done is not undone.
LEMMA CommitFrame ==
  ASSUME Inv, pc \in commitPcs, pc' \in commitPcs, pc' \in {"commitEnd", "commitClean"} => stack = << >>,
         UNCHANGED <<stack, target>>, saved \cap Nodes \subseteq saved', disk \subseteq disk',
         Cached(mem') \subseteq Cached(mem), Cached(mem) \subseteq Cached(mem') \cup disk'
  PROVE  CommitInv'
  <1>1. available \subseteq available'  BY Zenon DEF available
  <1>2. (\A i \in DOMAIN stack : CallInv(i))'
    <2>1. \A i \in DOMAIN stack : Children(stack[i].node) \subseteq Nodes
      <3>1. \A i \in DOMAIN stack : stack[i] \in CallType  BY DEF Inv, Types
      <3> QED  BY <3>1, ChildrenNodes, Zenon DEF CallType
    <2>2. \A i \in DOMAIN stack : CallInv(i)  BY Zenon DEF Inv, CommitInv
    <2> QED  BY <1>1, <2>1, <2>2, Zenon DEF CallInv
  <1>3. (target \in available => target \in saved \/ (stack # << >> /\ stack[1].node = target))'
    <2>1. target \in available => target \in saved \/ (stack # << >> /\ stack[1].node = target)
      BY Zenon DEF Inv, CommitInv
    <2>2. target \in Cached(mem) => target \in Nodes
      <3>1. mem \in Memory  BY Zenon DEF Inv, OrderInv, CacheInv
      <3> QED  BY <3>1, CachedNodes, Zenon
    <2> QED  BY <2>1, <2>2, Zenon DEF available, saved
  <1> QED  BY <1>2, <1>3, Zenon DEF CommitInv

\* Cap or Commit puts a preimage into the batch.
LEMMA PutPreimageInv ==
  ASSUME Inv, PutPreimage
  PROVE  Inv'
  <1>1. /\ pc \in {"capPreimages", "commitPreimages"} /\ ~full
        /\ UNCHANGED <<mem, disk, diskPre, store, stack, walk, target, reader>>
    BY Zenon DEF PutPreimage
  <1>2. store = idleStore /\ Range(batch) \subseteq Preimages /\ batch \in Seq(Nodes \cup Preimages)
    BY <1>1, Zenon DEF Inv, PcInv, Types
  <1>3. ASSUME left = {}, pc' = (IF pc = "capPreimages" THEN "cap" ELSE "commitPreimagesEnd"),
               UNCHANGED <<left, batch, full>>
        PROVE  Inv'
    <2>1. OrderInv'
      <3>1. Calls' = Calls /\ Hole' = Hole /\ Calls = << >>  BY <1>1, <1>3, Zenon DEF Calls, Hole
      <3>2. ASSUME NEW pos \in [Nodes -> Nat], CacheInv(mem, Calls, disk, Hole, pos), CapInv(pos)
            PROVE  CapInv(pos)'
        <4>1. CASE pc = "capPreimages"
          <5>1. walk.next = mem.oldest /\ Linked(mem, Cached(mem), pos)
            BY <3>1, <3>2, <4>1, NoCalls, Zenon DEF CapInv, CacheInv
          <5>2. Cached(mem) \subseteq Nodes /\ Meta \notin Cached(mem)  BY <3>2, CacheFacts, Zenon
          <5>3. Cached(mem) = {} => mem.oldest = Meta  BY <5>1, Zenon DEF Linked
          <5>4. Cached(mem) # {} => mem.oldest \in Cached(mem)  BY <5>1, Zenon DEF Linked
          <5>5. \A h \in Cached(mem) : pos[mem.oldest] <= pos[h]  BY <5>1, Zenon DEF Linked
          <5>6. \A h \in Cached(mem) : ~(walk.next = Meta \/ pos[h] < pos[walk.next])
            BY <5>1, <5>2, <5>4, <5>5, SMTT(30)
          <5> QED  BY <1>1, <1>3, <4>1, <5>1, <5>3, <5>4, <5>6, Zenon DEF CapInv
        <4>2. CASE pc = "commitPreimages"  BY <1>3, <4>2, Zenon DEF CapInv
        <4> QED  BY <1>1, <4>1, <4>2, Zenon
      <3> QED  BY <1>1, <3>1, <3>2, OrderFrame, Zenon DEF Inv
    <2>2. CommitInv'
      <3>1. CASE pc = "capPreimages"  BY <1>3, <3>1, Zenon DEF CommitInv, commitPcs
      <3>2. CASE pc = "commitPreimages"
        <4>1. UNCHANGED <<mem, disk, batch>>  BY <1>1, <1>3, Zenon
        <4>2. saved' = saved  BY <4>1, Zenon DEF saved
        <4> QED  BY <1>1, <1>3, <3>2, <4>1, <4>2, CommitFrame, Zenon DEF commitPcs
      <3> QED  BY <1>1, <3>1, <3>2, Zenon
    <2>3. Types'  BY <1>1, <1>3, Zenon DEF Inv, Types, capPcs, commitPcs
    <2> QED
      BY <1>1, <1>2, <1>3, <2>1, <2>2, <2>3, Zenon
      DEF Inv, PcInv, DiskInv, DiskIsClosed, PreimageInv, StoreInv, ReaderInv, commitPcs, saved, available
  <1>4. ASSUME NEW p \in left, left' = left \ {p}, batch' = Append(batch, p), pc' = pc
        PROVE  Inv'
    <2>1. p \in Preimages /\ p \notin Nodes  BY ShapeAssumption, Zenon DEF Inv, Types, Hashes
    <2>2. batch' \in Seq(Nodes \cup Preimages) /\ Range(batch') = Range(batch) \cup {p}
      BY <1>2, <1>4, <2>1, RangeAppend, SMTT(30)
    <2>3. OrderInv'
      <3>1. Calls' = Calls /\ Hole' = Hole  BY <1>1, <1>4, Zenon DEF Calls, Hole
      <3> QED  BY <1>1, <1>4, <3>1, OrderFrame, Zenon DEF Inv, CapInv
    <2>4. CommitInv'
      <3>1. CASE pc = "capPreimages"  BY <1>4, <3>1, Zenon DEF CommitInv, commitPcs
      <3>2. CASE pc = "commitPreimages"
        <4>1. UNCHANGED <<mem, disk>> /\ saved \subseteq saved'  BY <1>1, <2>2, Zenon DEF saved
        <4> QED  BY <1>1, <1>4, <3>2, <4>1, CommitFrame, Zenon DEF commitPcs
      <3> QED  BY <1>1, <3>1, <3>2, Zenon
    <2>5. Types'  BY <1>1, <1>4, <2>2, Zenon DEF Inv, Types
    <2> QED
      BY <1>1, <1>2, <1>4, <2>1, <2>2, <2>3, <2>4, <2>5, Zenon
      DEF Inv, PcInv, DiskInv, DiskIsClosed, PreimageInv, StoreInv, ReaderInv, commitPcs, saved, available
  <1> QED  BY <1>3, <1>4, Zenon DEF PutPreimage

\* The walk of Cap puts the next node of the flush-list into the batch.
LEMMA CapStepInv ==
  ASSUME Inv, CapStep
  PROVE  Inv'
  <1>1. pc = "cap" /\ ~full /\ UNCHANGED <<mem, disk, diskPre, store, stack, left, target, reader>>
    BY Zenon DEF CapStep
  <1>2. /\ Calls = << >> /\ Hole = {} /\ batch \in Seq(Nodes \cup Preimages)
        /\ walk \in [next : Hashes, size : Int, limit : Int, flushPreimages : BOOLEAN] /\ store = idleStore
    BY <1>1 DEF Calls, Hole, Inv, PcInv, Types, idleStore
  <1>3. PICK pos \in [Nodes -> Nat] : CacheInv(mem, << >>, disk, {}, pos) /\ CapInv(pos)
    BY <1>2, Zenon DEF Inv, OrderInv
  <1>4. /\ Cached(mem) \subseteq Nodes /\ Meta \notin Cached(mem) /\ mem \in Memory
        /\ Linked(mem, Cached(mem), pos) /\ ChildFirst(Cached(mem), disk, pos)
        /\ walk.next \in Cached(mem) \cup {Meta}
        /\ \A h \in Cached(mem) : walk.next = Meta \/ pos[h] < pos[walk.next] => h \in saved
    BY <1>1, <1>3, CacheFacts, NoCalls, Zenon DEF CacheInv, CapInv
  <1>5. ASSUME walk.next # Meta, batch' = Append(batch, walk.next),
               walk' = [walk EXCEPT !.next = mem.dirties[@].flushNext,
                                    !.size = @ - MetaSize - entrySize(mem, walk.next)], pc' = pc
        PROVE  Inv'
    <2> DEFINE h == walk.next
               n == mem.dirties[h].flushNext
               z == walk.size - MetaSize - entrySize(mem, h)
    <2>1. h \in Cached(mem) /\ h \in Nodes  BY <1>4, <1>5, Zenon
    <2>2. batch' \in Seq(Nodes \cup Preimages) /\ Range(batch') = Range(batch) \cup {h}
      BY <1>2, <1>5, <2>1, RangeAppend, SMTT(30)
    <2>3. n \in Hashes /\ z \in Int
      <3>1. h \in DOMAIN mem.dirties  BY <2>1, Zenon DEF Cached
      <3>2. mem.dirties[h] \in Entry  BY <1>4, <3>1, CachedNodes, Zenon
      <3>3. walk.size \in Int /\ MetaSize \in Int /\ entrySize(mem, h) \in Int
        BY <1>2, <1>4, <2>1, EntrySizeType, SizeAssumption, SMTT(30)
      <3> QED  BY <3>2, <3>3, SMTT(30) DEF Entry
    <2>4. walk' = [walk EXCEPT !.next = n, !.size = z]  BY <1>5, Zenon
    <2> HIDE DEF n, z
    <2>5. walk' \in [next : Hashes, size : Int, limit : Int, flushPreimages : BOOLEAN] /\ walk'.next = n
      BY <1>2, <2>3, <2>4, Zenon
    <2>6. Children(h) \subseteq saved
      BY <1>4, <2>1, Zenon DEF ChildFirst, saved
    <2>7. /\ n \in Cached(mem) \cup {Meta}
          /\ \A g \in Cached(mem) : n = Meta \/ pos[g] < pos[n] => g = h \/ pos[g] < pos[h]
      <3>1. CASE h = mem.newest
        <4>1. \A g \in Cached(mem) : pos[g] <= pos[h] /\ (pos[g] = pos[h] => g = h) /\ pos[g] \in Nat
          BY <1>4, <2>1, <3>1, Zenon DEF Linked
        <4>2. n = Meta  BY <1>4, <2>1, <3>1, Zenon DEF Linked, n
        <4>3. pos[h] \in Nat  BY <2>1, Zenon
        <4> QED  BY <4>1, <4>2, <4>3, SMTT(30)
      <3>2. CASE h # mem.newest
        <4>1. n \in Cached(mem) /\ pos[h] \in Nat /\ pos[n] \in Nat  BY <1>4, <2>1, <3>2, Zenon DEF Linked, n
        <4>2. \A g \in Cached(mem) : /\ (pos[g] <= pos[h] \/ pos[n] <= pos[g]) /\ (pos[g] = pos[h] => g = h)
                                     /\ pos[g] \in Nat
          BY <1>4, <2>1, <3>2, Zenon DEF Linked, n
        <4> QED  BY <1>4, <4>1, <4>2, SMTT(30)
      <3> QED  BY <3>1, <3>2, Zenon
    <2>8. OrderInv'
      <3>1. Calls' = << >> /\ Hole' = {}  BY <1>1, <1>2, <1>5, Zenon DEF Calls, Hole
      <3>2. CapInv(pos)'
        <4>1. \A g \in Cached(mem) : n = Meta \/ pos[g] < pos[n] => g \in saved'
          BY <1>1, <1>4, <2>2, <2>7, Zenon DEF saved
        <4> QED  BY <1>1, <1>5, <2>5, <2>7, <4>1, Zenon DEF CapInv
      <3> QED  BY <1>1, <1>3, <3>1, <3>2, Zenon DEF OrderInv
    <2>9. DiskInv'  BY <1>1, <1>5, <2>2, <2>6, Zenon DEF DiskInv, DiskIsClosed, saved, Inv
    <2>10. Types'  BY <1>1, <1>5, <2>2, <2>5, Zenon DEF Inv, Types
    <2> QED
      BY <1>1, <1>2, <1>5, <2>8, <2>9, <2>10, Zenon
      DEF Inv, PcInv, CommitInv, PreimageInv, StoreInv, ReaderInv, commitPcs, available
  <1>6. ASSUME pc' = "capEnd", UNCHANGED <<batch, full, walk>>
        PROVE  Inv'
    <2>1. OrderInv'
      <3>1. Calls' = Calls /\ Hole' = Hole  BY <1>1, <1>6, Zenon DEF Calls, Hole
      <3> QED  BY <1>1, <1>6, <3>1, OrderFrame, Zenon DEF Inv, CapInv, saved
    <2>2. Types'  BY <1>1, <1>6, Zenon DEF Inv, Types, capPcs
    <2> QED
      BY <1>1, <1>2, <1>6, <2>1, <2>2, Zenon
      DEF Inv, PcInv, DiskInv, DiskIsClosed, CommitInv, PreimageInv, StoreInv, ReaderInv, commitPcs, saved, available
  <1> QED  BY <1>5, <1>6, Zenon DEF CapStep

-----------------------------------------------------------------------------
(* The steps of Cap, Commit and the readers, and the theorems *)

\* One step of the recursion of commit.
LEMMA CommitStepInv ==
  ASSUME Inv, CommitStep
  PROVE  Inv'
  <1> DEFINE n == Len(stack)
  <1>1. pc = "commit" /\ ~full /\ UNCHANGED <<mem, disk, diskPre, store, left, walk, target, reader>>
    BY Zenon DEF CommitStep
  <1>2. /\ Calls = << >> /\ Hole = {} /\ batch \in Seq(Nodes \cup Preimages) /\ stack \in Seq(CallType)
        /\ store = idleStore /\ \A i \in DOMAIN stack : CallInv(i)
        /\ target \in available => target \in saved \/ (stack # << >> /\ stack[1].node = target)
    BY <1>1, SMTT(30) DEF Calls, Hole, Inv, PcInv, Types, CommitInv, commitPcs, idleStore
  <1>3. PICK pos \in [Nodes -> Nat] : CacheInv(mem, << >>, disk, {}, pos)  BY <1>2, Zenon DEF Inv, OrderInv
  <1>4. pc' \in {"commit", "commitEnd"} => OrderInv'
    <2> HAVE pc' \in {"commit", "commitEnd"}
    <2>1. Calls' = Calls /\ Hole' = Hole  BY <1>1, <1>2, Zenon DEF Calls, Hole
    <2> QED  BY <1>1, <2>1, OrderFrame, Zenon DEF Inv, CapInv
  <1>5. ASSUME stack = << >>, pc' = "commitEnd", UNCHANGED <<stack, batch, full>>
        PROVE  Inv'
    <2>1. CommitInv'
      <3>1. saved' = saved  BY <1>1, <1>5, Zenon DEF saved
      <3> QED  BY <1>1, <1>5, <3>1, CommitFrame, Zenon DEF commitPcs
    <2>2. Types'  BY <1>1, <1>5, Zenon DEF Inv, Types, commitPcs
    <2> QED
      BY <1>1, <1>2, <1>4, <1>5, <2>1, <2>2, Zenon
      DEF Inv, PcInv, DiskInv, DiskIsClosed, PreimageInv, StoreInv, ReaderInv, commitPcs, saved, available
  <1>6. stack # << >> => n \in DOMAIN stack /\ n \in Nat /\ n >= 1 /\ DOMAIN stack = 1 .. n /\ top = stack[n]
    BY <1>2 DEF top
  <1>7. \A i \in DOMAIN stack : stack[i].node \in Nodes /\ stack[i].next \in Nat
    <2>1. \A i \in DOMAIN stack : stack[i] \in CallType  BY <1>2
    <2> QED  BY <2>1, Zenon DEF CallType
  <1>8. ASSUME stack # << >>, NEW c \in following,
               stack' = (IF c \in DOMAIN mem.dirties THEN Append(turned(c), call(mem, c)) ELSE turned(c)),
               UNCHANGED <<pc, batch, full>>
        PROVE  Inv'
    <2> DEFINE t == turned(c)
    <2>1. Turned(stack, t, c)  BY <1>2, <1>8, TurnedStack, Zenon
    <2> HIDE DEF t
    <2>2. /\ t[n].node = stack[n].node /\ stack[n].next <= t[n].next /\ c \in Pending(stack[n])
          /\ Pending(stack[n]) \subseteq Pending(t[n]) \cup {c}
      BY <1>2, <2>1, TurnedPending, Zenon
    <2>3. t \in Seq(CallType) /\ DOMAIN t = DOMAIN stack /\ (\A i \in DOMAIN stack \ {n} : t[i] = stack[i])
          /\ t[n].ext \subseteq stack[n].ext
      BY <2>1, Zenon DEF Turned
    <2>4. Len(t) = n /\ n \in DOMAIN t /\ n \in Nat /\ DOMAIN t = 1 .. n  BY <1>6, <1>8, <2>3, SMTT(30)
    <2>5. c \in Children(stack[n].node) /\ c \in Nodes
      <3>1. CallInv(n) /\ stack[n].node \in Nodes  BY <1>2, <1>6, <1>7, <1>8, Zenon
      <3>2. c \in Children(stack[n].node)  BY <2>2, <3>1, Zenon DEF CallInv, Pending, Children, Range
      <3> QED  BY <3>1, <3>2, ChildrenNodes, Zenon
    <2>6. ASSUME NEW i \in 1 .. n
          PROVE  /\ t[i].node \in available /\ 1 <= t[i].next /\ t[i].ext \subseteq Refs[t[i].node]
                 /\ Children(t[i].node) \subseteq
                        saved \cup Pending(t[i]) \cup (IF i < n THEN {t[i + 1].node} ELSE {c})
      <3>1. CallInv(i) /\ i \in DOMAIN stack  BY <1>2, <1>6, <1>8, Zenon
      <3>2. CASE i = n
        <4>1. stack[n].next \in Nat /\ t[n].next \in Nat
          <5>1. t[n] \in CallType  BY <2>3, <2>4, SMTT(30)
          <5> QED  BY <1>6, <1>7, <1>8, <5>1, Zenon DEF CallType
        <4>2. Children(stack[n].node) \subseteq saved \cup Pending(stack[n])  BY <2>4, <3>1, <3>2, SMTT(30) DEF CallInv
        <4>3. 1 <= t[n].next  BY <2>2, <3>1, <3>2, <4>1, SMTT(30) DEF CallInv
        <4>4. t[n].node \in available /\ t[n].ext \subseteq Refs[t[n].node]  BY <2>2, <2>3, <3>1, <3>2, Zenon DEF CallInv
        <4> QED  BY <2>2, <2>4, <3>2, <4>2, <4>3, <4>4, SMTT(30)
      <3>3. CASE i # n
        <4>1. i < n /\ i + 1 \in DOMAIN stack /\ t[i] = stack[i]  BY <2>3, <2>4, <3>1, <3>3, SMTT(30)
        <4>2. t[i + 1].node = stack[i + 1].node  BY <2>2, <2>3, <4>1, Zenon
        <4> QED  BY <3>1, <4>1, <4>2, Zenon DEF CallInv
      <3> QED  BY <3>2, <3>3, Zenon
    <2>7. t[1].node = stack[1].node
      <3>1. CASE n = 1  BY <2>2, <3>1, Zenon
      <3>2. CASE n # 1  BY <1>6, <2>3, <2>4, <3>2, SMTT(30)
      <3> QED  BY <3>1, <3>2, Zenon
    <2>8. saved' = saved /\ available' = available  BY <1>1, <1>8, Zenon DEF saved, available
    <2>9. stack' \in Seq(CallType) /\ CommitInv'
      <3>1. CASE c \in DOMAIN mem.dirties
        <4> DEFINE f == call(mem, c)
        <4>1. c \in Cached(mem)  BY <2>5, <3>1, ShapeAssumption, Zenon DEF Cached
        <4>2. /\ f \in CallType /\ f.node = c /\ f.next = 1 /\ f.ext \subseteq Refs[c]
              /\ Children(c) \subseteq disk \cup Pending(f)
          BY <1>3, <4>1, NewCall, Zenon
        <4>3. stack' = Append(t, f)  BY <1>8, <3>1, Zenon DEF t
        <4> HIDE DEF f
        <4>4. /\ stack' \in Seq(CallType) /\ Len(stack') = n + 1 /\ DOMAIN stack' = 1 .. (n + 1)
              /\ stack'[n + 1] = f /\ \A i \in 1 .. n : stack'[i] = t[i]
          BY <2>3, <2>4, <4>2, <4>3, SMTT(30)
        <4>5. ASSUME NEW i \in 1 .. (n + 1)  PROVE CallInv(i)'
          <5>1. CASE i = n + 1
            BY <1>1, <2>4, <2>8, <4>1, <4>2, <4>4, <5>1, SMTT(30) DEF CallInv, available, saved
          <5>2. CASE i < n
            <6>1. i \in 1 .. n /\ i + 1 \in 1 .. n /\ i < n + 1  BY <2>4, <5>2, SMTT(30)
            <6> QED  BY <2>4, <2>6, <2>8, <4>4, <5>2, <6>1, Zenon DEF CallInv
          <5>3. CASE i = n
            <6>1. i \in 1 .. n /\ i < n + 1 /\ ~(i < n) /\ stack'[i + 1].node = c  BY <1>6, <1>8, <2>4, <4>2, <4>4, <5>3, SMTT(30)
            <6> QED  BY <2>6, <2>8, <4>4, <6>1, Zenon DEF CallInv
          <5>4. n \in Nat  BY <2>4, Zenon
          <5>5. i = n + 1 \/ i < n \/ i = n  BY <5>4, SMTT(30)
          <5> QED  BY <5>1, <5>2, <5>3, <5>5, Zenon DEF CallInv
        <4>6. stack' # << >> /\ stack'[1].node = stack[1].node  BY <1>6, <1>8, <2>4, <2>7, <4>4, SMTT(30)
        <4>7. (\A i \in DOMAIN stack : CallInv(i))'  BY <4>4, <4>5, Zenon
        <4> QED  BY <1>1, <1>2, <1>8, <2>8, <4>4, <4>6, <4>7, Zenon DEF CommitInv, commitPcs
      <3>2. CASE c \notin DOMAIN mem.dirties
        <4>1. stack' = t  BY <1>8, <3>2, Zenon DEF t
        <4>2. c \in saved
          <5>1. stack[n].node \in Cached(mem) \cup disk  BY <1>2, <1>6, <1>8, Zenon DEF CallInv, available
          <5>2. ChildFirst(Cached(mem), disk, pos)  BY <1>3, NoCalls, Zenon DEF CacheInv
          <5> QED  BY <2>5, <3>2, <5>1, <5>2, Zenon DEF ChildFirst, saved, Inv, DiskInv, DiskIsClosed, Cached
        <4>3. ASSUME NEW i \in 1 .. n  PROVE CallInv(i)'
          <5>1. CASE i < n  BY <2>4, <2>6, <2>8, <4>1, <5>1, Zenon DEF CallInv
          <5>2. CASE i = n
            <6>1. ~(i < n)  BY <2>4, <5>2, SMTT(30)
            <6> QED  BY <2>4, <2>6, <2>8, <4>1, <4>2, <6>1, Zenon DEF CallInv
          <5>3. n \in Nat  BY <2>4, Zenon
          <5>4. i < n \/ i = n  BY <5>3
          <5> QED  BY <5>1, <5>2, <5>4, Zenon DEF CallInv
        <4>4. stack' # << >>  BY <2>4, <4>1, SMTT(30)
        <4>5. (\A i \in DOMAIN stack : CallInv(i))'  BY <2>4, <4>1, <4>3, Zenon
        <4> QED  BY <1>1, <1>2, <1>8, <2>3, <2>7, <2>8, <4>1, <4>4, <4>5, Zenon DEF CommitInv, commitPcs
      <3> QED  BY <3>1, <3>2, Zenon
    <2>10. Types'  BY <1>1, <1>8, <2>9, Zenon DEF Inv, Types
    <2> QED
      BY <1>1, <1>2, <1>4, <1>8, <2>8, <2>9, <2>10, Zenon
      DEF Inv, PcInv, DiskInv, DiskIsClosed, PreimageInv, StoreInv, ReaderInv, commitPcs
  <1>9. ASSUME stack # << >>, following = {}, batch' = Append(batch, top.node), stack' = returned, pc' = pc
        PROVE  Inv'
    <2>1. /\ CallInv(n) /\ top.node \in Nodes /\ top = stack[n] /\ n \in Nat /\ n >= 1 /\ DOMAIN stack = 1 .. n
      BY <1>2, <1>6, <1>7, <1>9, Zenon
    <2>2. batch' \in Seq(Nodes \cup Preimages) /\ Range(batch') = Range(batch) \cup {top.node}
      <3>1. top.node \in Nodes \cup Preimages  BY <2>1, Zenon
      <3> QED  BY <1>2, <1>9, <3>1, RangeAppend, SMTT(30)
    <2>3. Pending(top) = {}
      <3>1. top.ext = {} /\ top.next \notin DOMAIN Kids[top.node]  BY <1>9, Zenon DEF following
      <3>2. Kids[top.node] \in Seq(Nodes)  BY <2>1, ShapeAssumption, Zenon
      <3>3. DOMAIN Kids[top.node] = 1 .. Len(Kids[top.node]) /\ Len(Kids[top.node]) \in Nat  BY <3>2, SMTT(30)
      <3>4. 1 <= top.next /\ top.next \in Nat  BY <1>6, <1>7, <1>9, <2>1, Zenon DEF CallInv
      <3>5. \A k \in DOMAIN Kids[top.node] : ~(top.next <= k)  BY <3>1, <3>3, <3>4, SMTT(30)
      <3> QED  BY <3>1, <3>5, Zenon DEF Pending
    <2>4. Children(top.node) \subseteq saved
      <3>1. ~(n < n)  BY <2>1
      <3> QED  BY <2>1, <2>3, <3>1, Zenon DEF CallInv
    <2>5. saved' = saved \cup {top.node} /\ available' = available  BY <1>1, <2>2, Zenon DEF saved, available
    <2>6. /\ stack' \in Seq(CallType) /\ Len(stack') = n - 1 /\ DOMAIN stack' = 1 .. (n - 1)
          /\ \A i \in 1 .. (n - 1) : stack'[i] = stack[i]
      BY <1>2, <1>9, <2>1, SMTT(30) DEF returned
    <2>7. CommitInv'
      <3>1. ASSUME NEW i \in 1 .. (n - 1)  PROVE CallInv(i)'
        <4>1. CallInv(i) /\ i < n /\ i \in Nat  BY <1>2, <2>1, SMTT(30)
        <4>2. CASE i < n - 1
          <5>1. i + 1 \in 1 .. (n - 1)  BY <2>1, <4>2, SMTT(30)
          <5> QED  BY <2>5, <2>6, <4>1, <4>2, <5>1, Zenon DEF CallInv
        <4>3. CASE i = n - 1
          <5>1. i + 1 = n /\ ~(i < n - 1)  BY <2>1, <4>3, SMTT(30)
          <5> QED  BY <2>1, <2>5, <2>6, <4>1, <5>1, Zenon DEF CallInv
        <4>4. n \in Nat  BY <2>1, Zenon
        <4>5. i < n - 1 \/ i = n - 1  BY <4>4
        <4> QED  BY <4>2, <4>3, <4>5, Zenon DEF CallInv
      <3>2. (\A i \in DOMAIN stack : CallInv(i))'  BY <2>6, <3>1, Zenon
      <3>3. n # 1 => stack' # << >> /\ stack'[1] = stack[1]  BY <2>1, <2>6, SMTT(30)
      <3>4. (target \in available => target \in saved \/ (stack # << >> /\ stack[1].node = target))'
        BY <1>1, <1>2, <2>1, <2>5, <3>3, Zenon
      <3>5. pc' = "commit"  BY <1>1, <1>9, Zenon
      <3>6. pc' \notin {"commitEnd", "commitClean"}  BY <3>5, Zenon
      <3> QED  BY <3>2, <3>4, <3>6, Zenon DEF CommitInv
    <2>8. DiskInv'  BY <1>1, <1>9, <2>2, <2>4, <2>5, Zenon DEF DiskInv, DiskIsClosed, Inv
    <2>9. Types'  BY <1>1, <1>9, <2>2, <2>6, Zenon DEF Inv, Types
    <2> QED
      BY <1>1, <1>2, <1>4, <1>9, <2>5, <2>7, <2>8, <2>9, Zenon
      DEF Inv, PcInv, PreimageInv, StoreInv, ReaderInv, commitPcs
  <1> QED  BY <1>5, <1>8, <1>9, Zenon DEF CommitStep

\* A full batch, or the last one, is written.
LEMMA WriteBatchInv ==
  ASSUME Inv, WriteBatch
  PROVE  Inv'
  <1>1. /\ Writing /\ disk' = disk \cup (Range(batch) \cap Nodes) /\ diskPre' = diskPre \cup (Range(batch) \cap Preimages)
        /\ pc' = AfterWrite[pc] /\ full' = FALSE
        /\ batch' = (IF pc' \in {"commitReplay", "commitClean"} THEN batch ELSE << >>)
        /\ UNCHANGED <<mem, store, stack, left, walk, target, reader>>
    BY Zenon DEF WriteBatch
  <1>2. \/ pc = "capPreimages" /\ pc' = "capPreimages"
        \/ pc = "cap" /\ pc' = "cap"
        \/ pc = "capEnd" /\ pc' = "capClean"
        \/ pc = "commitPreimages" /\ pc' = "commitPreimages"
        \/ pc = "commitPreimagesEnd" /\ pc' = "commit"
        \/ pc = "commit" /\ pc' = "commitReplay"
        \/ pc = "commitEnd" /\ pc' = "commitClean"
    <2>1. pc \in {"capPreimages", "cap", "capEnd", "commitPreimages", "commitPreimagesEnd", "commit", "commitEnd"}
      BY <1>1, Zenon DEF Inv, PcInv, Writing
    <2> QED  BY <1>1, <2>1, SMTT(30) DEF AfterWrite
  <1>3. Range(batch') \subseteq Range(batch) /\ saved \cap Nodes \subseteq saved' /\ disk \subseteq disk'
    <2>1. Range(<< >>) = {}  BY DEF Range
    <2> QED  BY <1>1, <2>1, Zenon DEF saved
  <1>4. \A h \in Nodes : h \in saved => h \in disk'  BY <1>1, Zenon DEF saved
  <1>5. OrderInv'
    <2>1. Calls = << >> /\ Calls' = << >> /\ Hole' = Hole  BY <1>1, <1>2, Zenon DEF Calls, Hole
    <2>2. PICK pos \in [Nodes -> Nat] : CacheInv(mem, << >>, disk, Hole, pos) /\ CapInv(pos)
      BY <2>1, Zenon DEF Inv, OrderInv
    <2>3. CacheInv(mem, << >>, disk', Hole, pos)  BY <1>3, <2>2, DiskGrows, Zenon
    <2>4. CapInv(pos)'
      <3>1. Cached(mem) \subseteq Nodes  BY <2>2, CacheFacts, Zenon
      <3> QED  BY <1>1, <1>2, <1>3, <2>2, <3>1, Zenon DEF CapInv
    <2> QED  BY <1>1, <2>1, <2>3, <2>4, Zenon DEF OrderInv
  <1>6. DiskInv'
    <2>1. \A h \in disk' : Children(h) \subseteq disk'
      <3>1. disk \subseteq Nodes  BY Zenon DEF Inv, Types
      <3>2. \A h \in disk' : h \in Nodes /\ Children(h) \subseteq saved
        BY <1>1, <3>1, Zenon DEF Inv, DiskInv, DiskIsClosed, saved
      <3> QED  BY <1>4, <3>2, ChildrenNodes, Zenon
    <2>2. Range(batch') \cap Nodes \subseteq disk'  BY <1>1, <1>3, Zenon
    <2> QED  BY <2>1, <2>2, Zenon DEF DiskInv, DiskIsClosed, saved
  <1>7. CommitInv'
    <2>1. CASE pc \in commitPcs
      <3>1. pc' \in commitPcs /\ (pc' \in {"commitEnd", "commitClean"} => stack = << >>)
        BY <1>2, <2>1, Zenon DEF Inv, CommitInv, commitPcs
      <3> QED  BY <1>1, <1>3, <2>1, <3>1, CommitFrame, Zenon
    <2>2. CASE pc \notin commitPcs
      <3>1. pc' \notin commitPcs  BY <1>2, <2>2, Zenon DEF commitPcs
      <3> QED  BY <3>1, Zenon DEF CommitInv, commitPcs
    <2> QED  BY <2>1, <2>2, Zenon
  <1>8. PreimageInv'
    <2>1. mem.preimages \subseteq Preimages  BY Zenon DEF Inv, OrderInv, CacheInv, Memory
    <2> QED  BY <1>1, <1>2, <2>1, Zenon DEF Inv, PreimageInv
  <1>9. Types'
    <2>1. batch' \in Seq(Nodes \cup Preimages)  BY <1>1 DEF Inv, Types
    <2> QED  BY <1>1, <1>2, <2>1, Zenon DEF Inv, Types, capPcs, commitPcs
  <1>10. PcInv'
    <2>1. pc' \in {"capPreimages", "commitPreimages", "commitPreimagesEnd"} => Range(batch') \subseteq Preimages
      BY <1>2, <1>3, Zenon DEF Inv, PcInv
    <2> QED  BY <1>1, <1>2, <2>1, Zenon DEF Inv, PcInv, commitPcs
  <1> QED
    BY <1>1, <1>2, <1>3, <1>5, <1>6, <1>7, <1>8, <1>9, <1>10, Zenon
    DEF Inv, StoreInv, ReaderInv, available

\* Commit begins to replay a batch that is written.
LEMMA CommitReplayInv ==
  ASSUME Inv, CommitReplay
  PROVE  Inv'
  <1>1. /\ pc = "commitReplay" /\ batch = << >> /\ pc' = "commit"
        /\ UNCHANGED <<mem, disk, diskPre, store, stack, batch, full, left, walk, target, reader>>
    BY Zenon DEF CommitReplay
  <1>2. OrderInv'
    <2>1. Calls' = Calls /\ Hole' = Hole  BY <1>1, Zenon DEF Calls, Hole
    <2> QED  BY <1>1, <2>1, OrderFrame, Zenon DEF Inv, CapInv
  <1>3. CommitInv'
    <2>1. saved' = saved  BY <1>1, Zenon DEF saved
    <2> QED  BY <1>1, <2>1, CommitFrame, Zenon DEF commitPcs
  <1>4. Types'  BY <1>1, Zenon DEF Inv, Types, commitPcs
  <1> QED
    BY <1>1, <1>2, <1>3, <1>4, Zenon
    DEF Inv, PcInv, DiskInv, DiskIsClosed, PreimageInv, StoreInv, ReaderInv, commitPcs, saved, available

\* Commit forgets the preimages it has written.
LEMMA CommitCleanInv ==
  ASSUME Inv, CommitClean
  PROVE  Inv'
  <1>1. /\ pc = "commitClean" /\ Reset /\ mem' = [mem EXCEPT !.preimages = {}]
        /\ UNCHANGED <<disk, diskPre, reader>>
    BY Zenon DEF CommitClean
  <1>2. Calls' = Calls /\ Hole' = Hole /\ Range(batch') = {}
    BY <1>1 DEF Inv, Reset, PcInv, Calls, Hole, Range
  <1>3. OrderInv'  BY <1>1, <1>2, PreimagesOrder, Zenon DEF Inv, Reset, capPcs
  <1>4. Types'  BY <1>1 DEF Inv, Types, Reset, idleStore, idleWalk, Hashes
  <1> QED
    BY <1>1, <1>2, <1>3, <1>4, Zenon
    DEF Inv, Reset, PcInv, DiskInv, DiskIsClosed, CommitInv, PreimageInv, StoreInv, ReaderInv, commitPcs, idleStore

\* uncache is called for one write of the batch.
LEMMA ReplayInv ==
  ASSUME Inv, Replay
  PROVE  Inv'
  <1> DEFINE h == Head(batch)
  <1>1. /\ pc \in {"commitReplay", "commitClean"} /\ batch # << >> /\ mem' = uncache(mem, h) /\ batch' = Tail(batch)
        /\ UNCHANGED <<disk, diskPre, pc, store, stack, full, left, walk, target, reader>>
    BY Zenon DEF Replay
  <1>2. /\ batch' \in Seq(Nodes \cup Preimages) /\ h \in Nodes \cup Preimages
        /\ Range(batch) = Range(batch') \cup {h}
    BY <1>1, RangeTail, Zenon DEF Inv, Types
  <1>3. (h \in Nodes => h \in disk /\ Children(h) \subseteq disk) /\ h # Meta
    BY <1>1, <1>2, ShapeAssumption, Zenon DEF Inv, DiskInv, DiskIsClosed, Hashes
  <1> HIDE DEF h
  <1>4. store = idleStore /\ Calls = << >> /\ Calls' = << >> /\ Hole = {} /\ Hole' = {}
    BY <1>1 DEF Inv, PcInv, Calls, Hole, idleStore
  <1>5. PICK pos \in [Nodes -> Nat] : CacheInv(mem, << >>, disk, {}, pos)  BY <1>4, Zenon DEF Inv, OrderInv
  <1>6. /\ CacheInv(mem', << >>, disk, {}, pos) /\ Cached(mem') = Cached(mem) \ {h}
        /\ mem'.preimages = mem.preimages
    BY <1>1, <1>3, <1>5, UncacheCache, Zenon
  <1>7. OrderInv'
    <2>1. CapInv(pos)'  BY <1>1, Zenon DEF CapInv
    <2> QED  BY <1>1, <1>4, <1>6, <2>1, Zenon DEF OrderInv
  <1>8. saved \cap Nodes \subseteq saved'  BY <1>1, <1>2, <1>3, Zenon DEF saved
  <1>9. DiskInv'
    <2>1. \A g \in Range(batch') \cap Nodes : Children(g) \subseteq disk
      BY <1>1, <1>2, Zenon DEF Inv, DiskInv, DiskIsClosed
    <2> QED  BY <1>1, <1>2, <2>1, Zenon DEF Inv, DiskInv, DiskIsClosed, saved
  <1>10. CommitInv'
    <2>1. Cached(mem) \subseteq Nodes  BY <1>5, CacheFacts, Zenon
    <2>2. Cached(mem) \subseteq Cached(mem') \cup disk'  BY <1>1, <1>3, <1>6, <2>1, Zenon
    <2> QED  BY <1>1, <1>6, <1>8, <2>2, CommitFrame, Zenon DEF Inv, CommitInv, commitPcs
  <1>11. Types'  BY <1>1, <1>2, Zenon DEF Inv, Types
  <1>12. PcInv'  BY <1>1, Zenon DEF Inv, PcInv, commitPcs
  <1>13. StoreInv'  BY <1>1, <1>4, Zenon DEF StoreInv, idleStore
  <1> QED
    BY <1>1, <1>6, <1>7, <1>9, <1>10, <1>11, <1>12, <1>13, Zenon DEF Inv, PreimageInv, ReaderInv

\* Cap takes the oldest entry out of the cache.
LEMMA CapCleanInv ==
  ASSUME Inv, CapClean
  PROVE  Inv'
  <1> DEFINE h == mem.oldest
  <1>1. pc = "capClean" /\ UNCHANGED <<disk, diskPre, reader>>  BY Zenon DEF CapClean
  <1>2. batch = << >> /\ stack = << >> /\ store = idleStore /\ Calls = << >> /\ Hole = {} /\ Range(batch) = {}
    BY <1>1 DEF Inv, PcInv, Calls, Hole, idleStore, commitPcs, Range
  <1>3. PICK pos \in [Nodes -> Nat] : CacheInv(mem, << >>, disk, {}, pos) /\ CapInv(pos)
    BY <1>2, Zenon DEF Inv, OrderInv
  <1>4. /\ Cached(mem) \subseteq Nodes /\ Meta \notin Cached(mem) /\ mem \in Memory /\ Meta \in DOMAIN mem.dirties
        /\ Cached(mem) \subseteq DOMAIN mem.dirties /\ Live(mem, << >>) = Cached(mem)
        /\ Linked(mem, Cached(mem), pos) /\ walk.next \in Cached(mem) \cup {Meta}
        /\ \A g \in Cached(mem) : walk.next = Meta \/ pos[g] < pos[walk.next] => g \in saved
        /\ \A x \in DOMAIN mem.dirties : mem.dirties[x] \in Entry
    BY <1>1, <1>3, CacheFacts, NoCalls, Zenon DEF CacheInv, CapInv
  <1>5. h # Meta => h \in Cached(mem)  BY <1>4, Zenon DEF Linked
  <1>6. ASSUME h # walk.next,
               mem' = [mem EXCEPT !.dirties = Delete(@, h), !.oldest = mem.dirties[h].flushNext,
                                  !.size = @ - entrySize(mem, h)],
               UNCHANGED <<pc, store, stack, batch, full, left, walk, target>>
        PROVE  Inv'
    <2>1. h \in Cached(mem)  BY <1>4, <1>6, Zenon DEF Linked
    <2>2. h \in disk /\ Children(h) \subseteq disk
      <3>1. walk.next = Meta \/ pos[h] < pos[walk.next]
        <4>1. CASE walk.next \in Cached(mem)
          <5>1. pos[h] \in Nat /\ pos[walk.next] \in Nat  BY <1>4, <2>1, <4>1, Zenon
          <5>2. pos[h] <= pos[walk.next] /\ (pos[h] = pos[walk.next] => walk.next = h)
            BY <1>4, <2>1, <4>1, Zenon DEF Linked
          <5> QED  BY <1>6, <5>1, <5>2, SMTT(30)
        <4> QED  BY <1>4, <4>1, Zenon
      <3>2. h \in disk  BY <1>2, <1>4, <2>1, <3>1, Zenon DEF saved
      <3> QED  BY <3>2, Zenon DEF Inv, DiskInv, DiskIsClosed
    <2> DEFINE e == Delete(mem.dirties, h)
               n == mem.dirties[h].flushNext
               z == mem.size - entrySize(mem, h)
    <2>3. mem' = [mem EXCEPT !.dirties = e, !.oldest = n, !.size = z]  BY <1>6, Zenon
    <2>4. /\ e \in Maps(Hashes, Entry) /\ DOMAIN e = DOMAIN mem.dirties \ {h}
          /\ \A x \in DOMAIN e : e[x] = mem.dirties[x]
      BY <1>4, DeleteType, Zenon DEF Memory, Delete
    <2>5. n \in Hashes /\ z \in Int
      <3>1. mem.dirties[h] \in Entry  BY <1>4, <2>1, Zenon
      <3>2. mem.size \in Int /\ entrySize(mem, h) \in Nat  BY <1>4, <2>1, EntrySizeType, Zenon DEF Memory
      <3> QED  BY <3>1, <3>2, SMTT(30) DEF Entry
    <2> HIDE DEF e, z
    <2>6. /\ mem' \in Memory /\ DOMAIN mem'.dirties = DOMAIN mem.dirties \ {h}
          /\ \A x \in DOMAIN mem'.dirties : mem'.dirties[x] = mem.dirties[x]
          /\ mem'.oldest = n /\ mem'.newest = mem.newest
      BY <1>4, <2>3, <2>4, <2>5, Zenon DEF Memory
    <2>7. Deleted(mem, mem', h)  BY <2>6, Zenon DEF Deleted, SameNode
    <2>8. CacheInv(mem', << >>, disk, {}, pos)
      BY <1>3, <1>4, <2>1, <2>2, <2>6, <2>7, FlushCache, Zenon
    <2>9. Cached(mem') = Cached(mem) \ {h}  BY <2>6, Zenon DEF Cached
    <2>10. saved' = saved /\ Calls' = << >> /\ Hole' = {}  BY <1>1, <1>2, <1>6, Zenon DEF saved, Calls, Hole
    <2>11. CapInv(pos)'
      BY <1>1, <1>4, <1>6, <2>9, <2>10, Zenon DEF CapInv
    <2>12. OrderInv'  BY <1>1, <2>8, <2>10, <2>11, Zenon DEF OrderInv
    <2> QED
      BY <1>1, <1>2, <1>6, <2>10, <2>12, Zenon
      DEF Inv, Types, PcInv, DiskInv, DiskIsClosed, CommitInv, commitPcs, PreimageInv, StoreInv, idleStore, ReaderInv
  <1>7. ASSUME h = walk.next, Reset,
               mem' = [mem EXCEPT !.dirties = IF h = Meta THEN @ ELSE [@ EXCEPT ![h].flushPrev = Meta],
                                  !.preimages = IF walk.flushPreimages THEN {} ELSE @]
        PROVE  Inv'
    <2> DEFINE f == mem.dirties
               e == IF h = Meta THEN f ELSE [f EXCEPT ![h].flushPrev = Meta]
               v == IF walk.flushPreimages THEN {} ELSE mem.preimages
    <2>1. mem' = [mem EXCEPT !.dirties = e, !.preimages = v]  BY <1>7, Zenon
    <2>2. /\ e \in Maps(Hashes, Entry) /\ DOMAIN e = DOMAIN f
          /\ \A x \in DOMAIN f : SameNode(e[x], f[x]) /\ e[x].flushNext = f[x].flushNext
          /\ \A x \in DOMAIN f \ {h} : e[x] = f[x]
      <3>1. f \in Maps(Hashes, Entry)  BY <1>4, Zenon DEF Memory
      <3>2. CASE h = Meta  BY <3>1, <3>2, Zenon DEF SameNode
      <3>3. CASE h # Meta
        <4> DEFINE w == [f[h] EXCEPT !.flushPrev = Meta]
        <4>1. h \in DOMAIN f  BY <1>4, <1>5, <3>3, Zenon
        <4>2. f[h] \in Entry  BY <1>4, <4>1, Zenon
        <4>3. w \in Entry /\ SameNode(w, f[h]) /\ w.flushNext = f[h].flushNext
          BY <4>2, Zenon DEF Entry, Hashes, SameNode
        <4>4. e = [f EXCEPT ![h] = w]  BY <3>3, Zenon
        <4> HIDE DEF w, e
        <4>5. e \in Maps(Hashes, Entry)  BY <3>1, <4>1, <4>3, <4>4, ExceptType, Zenon
        <4>6. DOMAIN e = DOMAIN f /\ e[h] = w /\ \A x \in DOMAIN f \ {h} : e[x] = f[x]
          BY <4>1, <4>4, Zenon
        <4> QED  BY <4>3, <4>5, <4>6, Zenon DEF SameNode
      <3> QED  BY <3>2, <3>3, Zenon
    <2>3. v \in SUBSET Preimages  BY <1>4, Zenon DEF Memory
    <2> HIDE DEF e, v
    <2>4. /\ mem' \in Memory /\ mem'.dirties = e /\ mem'.oldest = mem.oldest /\ mem'.newest = mem.newest
      BY <1>4, <2>1, <2>2, <2>3, Zenon DEF Memory
    <2>5. Linked(mem', Cached(mem), pos)
      <3>1. \A x \in Cached(mem) : x # mem.newest => f[x].flushNext # h
        <4>1. \A x \in Cached(mem) : pos[x] \in Nat  BY <1>4, Zenon
        <4> QED  BY <1>4, <4>1, SMTT(30) DEF Linked
      <3>2. /\ \A x \in Cached(mem) : mem'.dirties[x].flushNext = mem.dirties[x].flushNext
            /\ \A x \in Cached(mem) : x # mem.oldest => mem'.dirties[x].flushPrev = mem.dirties[x].flushPrev
        BY <1>4, <2>2, <2>4, Zenon
      <3> HIDE DEF h, f
      <3>3. \A x \in Cached(mem) : x # mem.newest => mem.dirties[x].flushNext # mem.oldest  BY <3>1, Zenon DEF h, f
      <3>4. mem'.oldest = mem.oldest /\ mem'.newest = mem.newest  BY <2>4, Zenon
      <3>5. \A x \in Cached(mem) : /\ x # mem.oldest => mem.dirties[x].flushPrev \in Cached(mem)
                                   /\ x # mem.newest => mem.dirties[x].flushNext \in Cached(mem)
        BY <1>4, Zenon DEF Linked
      <3>6. \A x \in Cached(mem) : x # mem.oldest =>
                mem'.dirties[x].flushPrev \in Cached(mem) /\ mem'.dirties[mem'.dirties[x].flushPrev].flushNext = x
        BY <1>4, <3>2, <3>5, SMTT(30) DEF Linked
      <3>7. \A x \in Cached(mem) : x # mem.newest =>
                mem'.dirties[x].flushNext \in Cached(mem) /\ mem'.dirties[mem'.dirties[x].flushNext].flushPrev = x
        BY <1>4, <3>2, <3>3, <3>5, SMTT(30) DEF Linked
      <3> QED  BY <1>4, <3>2, <3>4, <3>6, <3>7, Zenon DEF Linked
    <2>6. CacheInv(mem', << >>, disk, {}, pos)
      BY <1>3, <1>4, <2>2, <2>4, <2>5, RelinkCache, Zenon
    <2>7. Calls' = << >> /\ Hole' = {} /\ Range(batch') = {}  BY <1>7 DEF Reset, Calls, Hole, idleStore, Range
    <2>8. CapInv(pos)'  BY <1>7, Zenon DEF Reset, CapInv
    <2>9. OrderInv'  BY <1>1, <2>6, <2>7, <2>8, Zenon DEF OrderInv
    <2>10. Types'  BY <1>1, <1>7, SMTT(30) DEF Inv, Types, Reset, idleStore, idleWalk, Hashes
    <2> QED
      BY <1>1, <1>7, <2>7, <2>9, <2>10, Zenon
      DEF Inv, Reset, PcInv, DiskInv, DiskIsClosed, CommitInv, PreimageInv, StoreInv, ReaderInv, commitPcs, idleStore
  <1> QED  BY <1>6, <1>7, Zenon DEF CapClean

\* What is below a node is in every set that holds the node and the children of its members.
LEMMA BelowLeast ==
  ASSUME NEW S \in SUBSET Nodes, NEW h \in S, \A p \in S : Children(p) \subseteq S
  PROVE  Below[h] \subseteq S
  BY Zenon DEF Below

\* What no call of dereference is about, together with the disk, is closed under children; a
\* root that is held is in it.
LEMMA LiveReadable ==
  ASSUME Inv, NEW r \in Nodes, held(r)
  PROVE  Below[r] \subseteq available
  <1>1. PICK pos \in [Nodes -> Nat] : CacheInv(mem, Calls, disk, Hole, pos)  BY Zenon DEF Inv, OrderInv
  <1> DEFINE L == Live(mem, Calls)
  <1>2. L \subseteq Cached(mem) /\ Cached(mem) \subseteq Nodes /\ disk \subseteq Nodes /\ mem \in Memory
        /\ Meta \in DOMAIN mem.dirties /\ Dying(mem, Calls) /\ Counts(mem, Calls, disk)
    BY <1>1, CacheFacts, Zenon DEF Inv, Types, CacheInv
  <1>3. \A p \in L \cup disk : Children(p) \subseteq L \cup disk
    BY <1>1, Zenon DEF CacheInv, ChildFirst, Inv, DiskInv, DiskIsClosed
  <1>4. r \in L \cup disk
    <2>1. SUFFICES ASSUME r \notin disk  PROVE r \in L
      BY Zenon
    <2>2. Referred(mem, Calls, r)  BY Zenon DEF Referred, held
    <2>3. Total(mem, Calls, r) \in Nat /\ Total(mem, Calls, r) > 0  BY <1>2, <2>2, TotalReferred, Zenon
    <2>4. r \in Cached(mem) /\ mem.dirties[r].parents = Total(mem, Calls, r)
      BY <1>2, <2>1, <2>2, Zenon DEF Counts
    <2>5. \A i \in DOMAIN Calls : mem.dirties[Calls[i].node].parents = 0  BY <1>2, Zenon DEF Dying
    <2>6. mem.dirties[r].parents # 0  BY <2>3, <2>4, SMTT(30)
    <2> QED  BY <2>4, <2>5, <2>6, Zenon DEF Live
  <1>5. Below[r] \subseteq L \cup disk  BY <1>2, <1>3, <1>4, BelowLeast, Zenon
  <1> QED  BY <1>2, <1>5, Zenon DEF available

\* The steps of a reader
LEMMA ReaderFrame ==
  ASSUME Inv, UNCHANGED <<mem, disk, diskPre, pc, store, stack, batch, full, left, walk, target>>,
         reader' \in [pc : {"idle", "disk"}, node : Hashes], reader'.pc = "disk" => reader'.node \in disk
  PROVE  Inv'
  <1>1. OrderInv'  BY OrderFrame, Zenon DEF Inv, CapInv, saved, Calls, Hole
  <1>2. CommitInv'  BY Zenon DEF Inv, CommitInv, CallInv, available, saved
  <1> QED
    BY <1>1, <1>2, SMTT(30)
    DEF Inv, Types, PcInv, DiskInv, DiskIsClosed, PreimageInv, StoreInv, ReaderInv, available, saved

\* A reader looks for a node in the cache.
LEMMA NodeInv ==
  ASSUME Inv, NEW r \in Roots, NEW h \in Below[r], Node(r, h)
  PROVE  Inv'
  <1>1. r \in Nodes /\ h \in Nodes  BY UseAssumption, Zenon DEF Below
  <1>2. h \in disk  BY <1>1, LiveReadable, Zenon DEF Node, available
  <1>3. reader' = [pc |-> "disk", node |-> h]  BY Zenon DEF Node
  <1>4. reader' \in [pc : {"idle", "disk"}, node : Hashes]  BY <1>1, <1>3, Zenon DEF Hashes
  <1>5. UNCHANGED <<mem, disk, diskPre, pc, store, stack, batch, full, left, walk, target>>  BY Zenon DEF Node
  <1> QED  BY <1>2, <1>3, <1>4, <1>5, ReaderFrame, Zenon

\* A reader looks for a node on disk.
LEMMA NodeFromDiskInv ==
  ASSUME Inv, NodeFromDisk
  PROVE  Inv'
  <1>1. reader.pc = "disk" /\ reader.node \in disk  BY Zenon DEF NodeFromDisk, Inv, ReaderInv
  <1>2. reader' = idleReader  BY <1>1, Zenon DEF NodeFromDisk
  <1> QED  BY <1>2, ReaderFrame, SMTT(30) DEF NodeFromDisk, idleReader, Hashes

\* The invariant is inductive.
LEMMA NextInv ==
  ASSUME Inv, [Next]_vars
  PROVE  Inv'
  <1>1. CASE UNCHANGED vars  BY <1>1, ReaderFrame, Zenon DEF vars, Inv, Types, ReaderInv
  <1>2. ASSUME NEW r \in Roots, NEW d \in SUBSET Nodes, CommitTrie(r, d)  PROVE Inv'
    BY <1>2, CommitTrieInv, Zenon
  <1>3. ASSUME NEW r \in Roots, Reference(r)  PROVE Inv'  BY <1>3, ReferenceInv, Zenon
  <1>4. ASSUME NEW r \in Roots, Dereference(r)  PROVE Inv'  BY <1>4, DereferenceInv, Zenon
  <1>5. ASSUME NEW r \in Roots, Commit(r)  PROVE Inv'  BY <1>5, CommitOp, Zenon
  <1>6. ASSUME NEW limit \in Limits, Cap(limit)  PROVE Inv'  BY <1>6, CapOp, Zenon
  <1>7. ASSUME NEW r \in Roots, NEW h \in Below[r], Node(r, h)  PROVE Inv'  BY <1>7, NodeInv, Zenon
  <1>8. CASE StoreStep  BY <1>8, StoreStepInv, Zenon
  <1>9. CASE DereferenceStep  BY <1>9, DereferenceStepInv, Zenon
  <1>10. CASE PutPreimage  BY <1>10, PutPreimageInv, Zenon
  <1>11. CASE CapStep  BY <1>11, CapStepInv, Zenon
  <1>12. CASE CommitStep  BY <1>12, CommitStepInv, Zenon
  <1>13. CASE WriteBatch  BY <1>13, WriteBatchInv, Zenon
  <1>14. CASE WriteFails  BY <1>14, WriteFailsInv, Zenon
  <1>15. CASE CapClean  BY <1>15, CapCleanInv, Zenon
  <1>16. CASE Replay  BY <1>16, ReplayInv, Zenon
  <1>17. CASE CommitReplay  BY <1>17, CommitReplayInv, Zenon
  <1>18. CASE CommitClean  BY <1>18, CommitCleanInv, Zenon
  <1>19. CASE NodeFromDisk  BY <1>19, NodeFromDiskInv, Zenon
  <1>20. CASE Crash  BY <1>20, CrashInv, Zenon
  <1> QED
    BY <1>1, <1>2, <1>3, <1>4, <1>5, <1>6, <1>7, <1>8, <1>9, <1>10, <1>11, <1>12, <1>13, <1>14, <1>15, <1>16,
       <1>17, <1>18, <1>19, <1>20, Zenon
    DEF Next

\* Whatever the mutator and the readers do, and whenever a write fails or the process dies, the
\* invariant holds.
THEOREM Invariance == Spec => []Inv
  <1>1. Init => Inv  BY InitInv, Zenon
  <1>2. Inv /\ [Next]_vars => Inv'  BY NextInv, Zenon
  <1> QED  BY <1>1, <1>2, PTL DEF Spec

\* The disk never holds a trie node without its children: Cap and Commit put children into a
\* batch no later than the nodes that refer to them, and batches are written in order. So a
\* crash leaves no trie with a hole on disk.
THEOREM DiskClosed == Spec => []DiskIsClosed
  <1>1. Inv => DiskIsClosed  BY Zenon DEF Inv, DiskInv
  <1> QED  BY <1>1, Invariance, PTL

\* Every node below a root that Reference holds, or that is being committed, is in the cache or
\* on disk: neither dereference nor uncache drops a node that something still refers to.
THEOREM LiveNodesReadable == Spec => []LiveIsReadable
  <1>1. Inv => LiveIsReadable  BY LiveReadable, UseAssumption, Zenon DEF LiveIsReadable
  <1> QED  BY <1>1, Invariance, PTL

\* node, which reads the cache under the lock and the disk after releasing it, finds every node
\* of a held trie, although Cap and Commit may move the node between the two reads.
THEOREM ReaderSucceeds == Spec => []ReaderFindsNode
  <1>1. Inv => ReaderFindsNode  BY Zenon DEF Inv, Types, ReaderFindsNode
  <1> QED  BY <1>1, Invariance, PTL

\* Whatever set of entries holds the oldest one and is closed under flushNext holds them all: of
\* those left out, the one that comes first in the list would follow one that is not.
LEMMA ListReached ==
  ASSUME NEW m, NEW L, NEW pos, Linked(m, L, pos), Meta \notin L, \A h \in L : pos[h] \in Nat,
         NEW S \in SUBSET L, m.oldest \in S, \A h \in S : m.dirties[h].flushNext \in S \cup {Meta}
  PROVE  S = L
  <1> SUFFICES ASSUME L \ S # {}  PROVE FALSE
    BY Zenon
  <1> DEFINE P == {pos[h] : h \in L \ S}
             R == OpToRel(<, Nat)
  <1>1. P \subseteq Nat /\ P # {}  BY Zenon
  <1>2. PICK n \in P : \A k \in P : ~(<<k, n>> \in R)  BY <1>1, NatLessThanWellFounded, WFMin, Zenon
  <1>3. PICK x \in L \ S : n = pos[x]  BY <1>2, Zenon
  <1> DEFINE g == m.dirties[x].flushPrev
  <1>4. x \in L /\ x # m.oldest /\ x # Meta  BY <1>3, Zenon
  <1>5. g \in L /\ m.dirties[g].flushNext = x  BY <1>4, Zenon DEF Linked
  <1> HIDE DEF g
  <1>6. g \in L \ S  BY <1>3, <1>4, <1>5, Zenon
  <1>7. g # m.newest  BY <1>4, <1>5, Zenon DEF Linked
  <1>8. pos[g] < pos[x]  BY <1>5, <1>7, Zenon DEF Linked
  <1>9. pos[g] \in P /\ pos[g] \in Nat /\ n \in Nat  BY <1>1, <1>2, <1>5, <1>6, Zenon
  <1>10. <<pos[g], n>> \in R  BY <1>3, <1>8, <1>9, Zenon DEF OpToRel
  <1> QED  BY <1>2, <1>9, <1>10, Zenon

\* Following flushNext from oldest visits every entry once, and flushPrev is its inverse,
\* whenever no dereference is in progress.
THEOREM FlushListWhole == Spec => []FlushListIsWhole
  <1>1. ASSUME Inv  PROVE FlushListIsWhole
    <2>1. SUFFICES ASSUME pc # "deref"  PROVE FlushListIsWhole
      BY Zenon DEF FlushListIsWhole
    <2>2. Calls = << >>  BY <2>1, Zenon DEF Calls
    <2>3. PICK pos \in [Nodes -> Nat] : CacheInv(mem, << >>, disk, Hole, pos)  BY <1>1, <2>2, Zenon DEF Inv, OrderInv
    <2> DEFINE L == Cached(mem)
               next(h) == mem.dirties[h].flushNext
    <2>4. Linked(mem, L, pos) /\ Meta \notin L /\ \A h \in L : pos[h] \in Nat
      BY <2>3, CacheFacts, NoCalls, Zenon DEF CacheInv
    <2>5. mem.oldest \in L \/ (mem.oldest = Meta /\ L = {})  BY <2>4, Zenon DEF Linked
    <2>6. ASSUME NEW h \in L
          PROVE  IF h = mem.newest THEN next(h) = Meta
                 ELSE next(h) \in L \ {mem.oldest} /\ mem.dirties[next(h)].flushPrev = h
      <3>1. CASE h = mem.newest  BY <2>4, <3>1, Zenon DEF Linked
      <3>2. CASE h # mem.newest
        <4>1. /\ next(h) \in L /\ mem.dirties[next(h)].flushPrev = h
              /\ pos[h] < pos[next(h)] /\ pos[mem.oldest] <= pos[h]
          BY <2>4, <3>2, Zenon DEF Linked
        <4>2. pos[h] \in Nat /\ pos[next(h)] \in Nat /\ pos[mem.oldest] \in Nat  BY <2>4, <2>5, <4>1, Zenon
        <4>3. next(h) # mem.oldest  BY <4>1, <4>2, SMTT(30)
        <4> QED  BY <3>2, <4>1, <4>3, Zenon
      <3> QED  BY <3>1, <3>2, Zenon
    <2>7. ASSUME NEW S \in SUBSET L, mem.oldest \in S, \A h \in S : next(h) \in S \cup {Meta}  PROVE S = L
      BY <2>4, <2>7, ListReached, Zenon
    <2> QED  BY <2>5, <2>6, <2>7, Zenon DEF FlushListIsWhole
  <1> QED  BY <1>1, Invariance, PTL

\* The parents counter of every node that is not on disk is the number of references to it in
\* the cache, whenever no dereference is in progress.
THEOREM CountersExact == Spec => []CountsAreExact
  <1>1. ASSUME Inv  PROVE CountsAreExact
    <2>1. SUFFICES ASSUME pc # "deref", NEW h \in Cached(mem) \ disk
                   PROVE  mem.dirties[h].parents = references(h)
      BY Zenon DEF CountsAreExact
    <2>2. Calls = << >>  BY <2>1, Zenon DEF Calls
    <2>3. PICK pos \in [Nodes -> Nat] : CacheInv(mem, << >>, disk, Hole, pos)  BY <1>1, <2>2, Zenon DEF Inv, OrderInv
    <2>4. mem.dirties[h].parents = Total(mem, << >>, h)
      BY <2>3, CacheFacts, Zenon DEF CacheInv, Counts
    <2>5. Inside(Cached(mem), << >>, h) = {t \in Slots(Cached(mem)) : Kids[t[1]][t[2]] = h}
      <3>1. DOMAIN << >> = {}  OBVIOUS
      <3> QED  BY <3>1, Zenon DEF Inside
    <2> QED  BY <2>4, <2>5, Zenon DEF Total, references, External, RootRefs
  <1> QED  BY <1>1, Invariance, PTL

\* Nothing is ever deleted from the disk.
LEMMA DiskKept ==
  ASSUME Next
  PROVE  disk \subseteq disk' /\ diskPre \subseteq diskPre'
  BY Zenon DEF Next, CommitTrie, Reference, Dereference, Commit, Cap, StoreStep, DereferenceStep, PutPreimage, CapStep,
         CommitStep, WriteBatch, WriteFails, CapClean, Replay, CommitReplay, CommitClean, Node, NodeFromDisk, Crash

\* When Commit returns, the trie of its root and all preimages are on disk.
THEOREM CommitDurable == Spec => CommitIsDurable
  <1> DEFINE A == pc = "commitClean" /\ pc' = "idle" =>
                    /\ target \in available => Below[target] \subseteq disk'
                    /\ mem.preimages \subseteq diskPre'
  <1>1. ASSUME Inv, [Next]_vars  PROVE [A]_vars
    <2>1. SUFFICES ASSUME Next, pc = "commitClean"
                   PROVE  /\ target \in available => Below[target] \subseteq disk'
                          /\ mem.preimages \subseteq diskPre'
      BY <1>1, Zenon
    <2>2. mem.preimages \subseteq diskPre'  BY <1>1, <2>1, DiskKept, Zenon DEF Inv, PreimageInv
    <2>3. ASSUME target \in available  PROVE Below[target] \subseteq disk'
      <3>1. stack = << >>  BY <1>1, <2>1, Zenon DEF Inv, CommitInv
      <3>2. target \in saved  BY <1>1, <2>1, <2>3, <3>1, Zenon DEF Inv, CommitInv, commitPcs
      <3>3. Cached(mem) \subseteq Nodes /\ disk \subseteq Nodes
        BY <1>1, CacheFacts, Zenon DEF Inv, OrderInv, Types
      <3>4. target \in disk  BY <1>1, <2>1, <2>3, <3>2, <3>3, Zenon DEF Inv, DiskInv, saved, available
      <3>5. Below[target] \subseteq disk  BY <1>1, <3>3, <3>4, BelowLeast, Zenon DEF Inv, DiskInv, DiskIsClosed
      <3> QED  BY <2>1, <3>5, DiskKept, Zenon
    <2> QED  BY <2>2, <2>3, Zenon
  <1>2. Spec => [][A]_vars  BY <1>1, Invariance, PTL DEF Spec
  <1> QED  BY <1>2, Zenon DEF CommitIsDurable
=============================================================================
