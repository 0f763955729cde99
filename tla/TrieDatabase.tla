---------------------------- MODULE TrieDatabase ----------------------------
(***************************************************************************)
(* The write layer between the tries and the disk:                         *)
(* proton/trie/database.go.                                                *)
(*                                                                         *)
(* One goroutine mutates the database: it commits tries into it, takes and *)
(* releases references on roots, caps its memory and commits roots to      *)
(* disk.  Its loops and recursive calls take one step per turn or call.    *)
(* Readers run at any time the lock is free, and the process may stop      *)
(* between any two steps.  The cache in memory is in TrieCache; the clean  *)
(* cache only repeats what the disk holds and is left out.                 *)
(***************************************************************************)
EXTENDS TrieCache

CONSTANTS
    Roots,          \* the nodes that are state roots
    KeysOf,         \* the hashed keys of the trie with a given root
    IdealBatchSize, \* chaindb.IdealBatchSize, in nodes
    PreimageLimit,  \* the size from which Cap writes preimages (4 MB), in preimages
    Limits,         \* the arguments Cap is called with
    MaxRefs,        \* bound: references the metaroot holds on one root
    MaxWraps        \* bound: the insertions whose size overflowed, when a trie is committed

ASSUME UseAssumption ==
    /\ Roots \subseteq Nodes /\ KeysOf \in [Roots -> SUBSET Preimages]
    /\ Limits \subseteq Int /\ IdealBatchSize \in Nat \ {0} /\ PreimageLimit \in Nat
    /\ MaxRefs \in Nat /\ MaxWraps \in Nat

VARIABLES
    mem,         \* dirties, oldest, newest and size, and the preimages
    disk,        \* the nodes on disk
    diskPre,     \* the preimages on disk
    pc,          \* what the mutator is doing
    store,       \* the nodes of a trie still to be stored, and the references of the last one
    stack,       \* the calls of dereference or commit in progress, the innermost last
    batch,       \* the database batch: nodes put and not yet written
    full,        \* the batch reached its size and is written before the walk goes on
    left,        \* preimages still to be put into the batch
    walk,        \* Cap's walk of the flush-list: next node, and the size without those before it
    target,      \* the argument of the Commit in progress
    reader       \* a goroutine in Database.Node

vars == <<mem, disk, diskPre, pc, store, stack, batch, full, left, walk, target, reader>>

-----------------------------------------------------------------------------
idleReader == [pc |-> "idle", node |-> Meta]
idleWalk == [next |-> Meta, size |-> 0, limit |-> 0, flushPreimages |-> FALSE]
idleStore == [todo |-> {}, node |-> Meta, refs |-> {}]

Reset == /\ pc' = "idle" /\ store' = idleStore /\ stack' = << >> /\ batch' = << >> /\ full' = FALSE
         /\ left' = {} /\ walk' = idleWalk /\ target' = Meta

Init == /\ mem = NewDatabase /\ disk = {} /\ diskPre = {}
        /\ pc = "idle" /\ store = idleStore /\ stack = << >> /\ batch = << >> /\ full = FALSE
        /\ left = {} /\ walk = idleWalk /\ target = Meta /\ reader = idleReader

available == Cached(mem) \cup disk
held(r) == r \in DOMAIN mem.dirties[Meta].children

\* A trie with the given root is committed: its preimages go into the cache at once, its nodes
\* one by one.  The nodes that changed since it was read hang together below the root; what
\* did not change is where it was read from.
CommitTrie(root, changed) ==
    /\ pc = "idle"
    /\ root \in changed
    /\ \A h \in changed \ {root} : \E p \in changed : h \in Children(p)
    /\ \A h \in changed : \A c \in Children(h) \ changed : Below[c] \subseteq available
    /\ mem.wraps + Cardinality({h \in changed : NodeSize[h] >= Width}) <= MaxWraps
    /\ mem' = [mem EXCEPT !.preimages = @ \cup KeysOf[root]]
    /\ pc' = "store" /\ store' = [idleStore EXCEPT !.todo = changed]
    /\ UNCHANGED <<disk, diskPre, stack, batch, full, left, walk, target, reader>>

\* hasher.store of one node, children first, under the lock; then StateDB.Commit references,
\* from an account leaf, its storage root and code, each under the lock.
StoreStep ==
    /\ pc = "store"
    /\ \/ \E c \in store.refs :
          /\ mem' = reference(mem, c, store.node)
          /\ store' = [store EXCEPT !.refs = @ \ {c}] /\ UNCHANGED pc
       \/ /\ store.refs = {}
          /\ \E h \in store.todo :
             /\ Children(h) \cap store.todo = {}
             /\ mem' = insert(mem, h)
             /\ store' = [todo |-> store.todo \ {h}, node |-> h, refs |-> Refs[h]] /\ UNCHANGED pc
       \/ /\ store.refs = {} /\ store.todo = {}
          /\ pc' = "idle" /\ store' = idleStore /\ UNCHANGED mem
    /\ UNCHANGED <<disk, diskPre, stack, batch, full, left, walk, target, reader>>

\* Database.Reference of a root
Reference(root) ==
    /\ pc = "idle"
    /\ root \in Cached(mem)
    /\ held(root) => mem.dirties[Meta].children[root] < MaxRefs
    /\ mem' = reference(mem, root, Meta)
    /\ UNCHANGED <<disk, diskPre, pc, store, stack, batch, full, left, walk, target, reader>>

top == stack[Len(stack)]
\* The children the innermost call may turn to next, and the calls when it has turned to c
following ==
    IF top.ext # {} THEN top.ext
    ELSE {Kids[top.node][i] : i \in {top.next} \cap DOMAIN Kids[top.node]}
turn(f, c) == IF f.ext # {} THEN [f EXCEPT !.ext = @ \ {c}] ELSE [f EXCEPT !.next = @ + 1]
turned(c) == [stack EXCEPT ![Len(stack)] = turn(top, c)]
returned == SubSeq(stack, 1, Len(stack) - 1)

\* dereference(child, parent) up to its recursive calls; calls are those in progress.
dereference(child, parent, calls) ==
    LET m == release(mem, child, parent)
        dead == child \in DOMAIN m.dirties /\ m.dirties[child].parents = 0
    IN  /\ mem' = IF dead THEN unlink(m, child) ELSE m
        /\ stack' = IF dead THEN Append(calls, call(m, child)) ELSE calls
        /\ pc' = IF stack' = << >> THEN "idle" ELSE "deref"

\* Database.Dereference: a caller releases a root it referenced; when the root was on disk
\* by then, its Reference may have been skipped.
Dereference(root) ==
    /\ pc = "idle"
    /\ held(root) \/ root \in disk
    /\ dereference(root, Meta, << >>)
    /\ UNCHANGED <<disk, diskPre, store, batch, full, left, walk, target, reader>>

\* The next call of dereference, or the deletion after the last one; the database stays
\* locked until the outermost call returns.
DereferenceStep ==
    /\ pc = "deref"
    /\ \/ \E c \in following : dereference(c, top.node, turned(c))
       \/ /\ following = {}
          /\ mem' = [mem EXCEPT !.dirties = Delete(@, top.node),
                                !.size = @ - NodeSize[top.node] -
                                         IF mem.dirties[top.node].tracked THEN ChildrenSize ELSE 0]
          /\ stack' = returned /\ pc' = IF stack' = << >> THEN "idle" ELSE pc
    /\ UNCHANGED <<disk, diskPre, store, batch, full, left, walk, target, reader>>

-----------------------------------------------------------------------------
(* Writing to disk: Cap and Commit. *)

\* Database.Cap, up to its loops
Cap(limit) ==
    /\ pc = "idle"
    /\ LET flush == Cardinality(mem.preimages) > PreimageLimit
       IN  /\ walk' = [next |-> mem.oldest, size |-> Size(mem), limit |-> limit, flushPreimages |-> flush]
           /\ left' = IF flush THEN mem.preimages ELSE {}
    /\ pc' = "capPreimages"
    /\ UNCHANGED <<mem, disk, diskPre, store, stack, batch, full, target, reader>>

\* Database.Commit, up to its loops
Commit(root) ==
    /\ pc = "idle"
    /\ pc' = "commitPreimages" /\ left' = mem.preimages /\ target' = root
    /\ stack' = IF root \in DOMAIN mem.dirties THEN <<call(mem, root)>> ELSE << >>
    /\ UNCHANGED <<mem, disk, diskPre, store, batch, full, walk, reader>>

\* The loop over the preimages, in any order, in Cap and in Commit
PutPreimage ==
    /\ pc \in {"capPreimages", "commitPreimages"} /\ ~full
    /\ \/ /\ left = {}
          /\ pc' = IF pc = "capPreimages" THEN "cap" ELSE "commitPreimagesEnd"
          /\ UNCHANGED <<left, batch, full>>
       \/ \E p \in left :
          /\ left' = left \ {p}
          /\ batch' = Append(batch, p) /\ full' = (Len(batch') > IdealBatchSize)
          /\ UNCHANGED pc
    /\ UNCHANGED <<mem, disk, diskPre, store, stack, walk, target, reader>>

\* Mutant: the last batch is not written.
CapStepUnwritten ==
    /\ pc = "cap" /\ ~full
    /\ IF walk.size > walk.limit /\ walk.next # Meta
       THEN /\ batch' = Append(batch, walk.next) /\ full' = (Len(batch') >= IdealBatchSize)
            /\ walk' = [walk EXCEPT !.next = mem.dirties[@].flushNext,
                                    !.size = @ - MetaSize - entrySize(mem, walk.next)]
            /\ UNCHANGED pc
       ELSE pc' = "capClean" /\ UNCHANGED <<batch, full, walk>>
    /\ UNCHANGED <<mem, disk, diskPre, store, stack, left, target, reader>>

\* Mutant: a children map is subtracted for every node.
CapStepOverstated ==
    /\ pc = "cap" /\ ~full
    /\ IF walk.size > walk.limit /\ walk.next # Meta
       THEN /\ batch' = Append(batch, walk.next) /\ full' = (Len(batch') >= IdealBatchSize)
            /\ walk' = [walk EXCEPT !.next = mem.dirties[@].flushNext,
                                    !.size = @ - MetaSize - entrySize(mem, walk.next) - ChildrenSize]
            /\ UNCHANGED pc
       ELSE pc' = "capEnd" /\ UNCHANGED <<batch, full, walk>>
    /\ UNCHANGED <<mem, disk, diskPre, store, stack, left, target, reader>>

\* One turn of Cap's loop over the flush-list
CapStep ==
    /\ pc = "cap" /\ ~full
    /\ IF walk.size > walk.limit /\ walk.next # Meta
       THEN /\ batch' = Append(batch, walk.next) /\ full' = (Len(batch') >= IdealBatchSize)
            /\ walk' = [walk EXCEPT !.next = mem.dirties[@].flushNext,
                                    !.size = @ - MetaSize - entrySize(mem, walk.next)]
            /\ UNCHANGED pc
       ELSE pc' = "capEnd" /\ UNCHANGED <<batch, full, walk>>
    /\ UNCHANGED <<mem, disk, diskPre, store, stack, left, target, reader>>

\* Mutant: a node is put before its children too.
CommitStepPreOrder ==
    /\ pc = "commit" /\ ~full
    /\ \/ /\ stack = << >>
          /\ pc' = "commitEnd" /\ UNCHANGED <<stack, batch, full>>
       \/ /\ stack # << >>
          /\ \E c \in following :
             stack' = IF c \in DOMAIN mem.dirties THEN Append(turned(c), call(mem, c)) ELSE turned(c)
          /\ batch' = Append(batch, top.node) /\ full' = (Len(batch') >= IdealBatchSize) /\ UNCHANGED pc
       \/ /\ stack # << >> /\ following = {}
          /\ batch' = Append(batch, top.node) /\ full' = (Len(batch') >= IdealBatchSize)
          /\ stack' = returned /\ UNCHANGED pc
    /\ UNCHANGED <<mem, disk, diskPre, store, left, walk, target, reader>>

\* The next call of Database.commit, or the Put after the last one
CommitStep ==
    /\ pc = "commit" /\ ~full
    /\ \/ /\ stack = << >>
          /\ pc' = "commitEnd" /\ UNCHANGED <<stack, batch, full>>
       \/ /\ stack # << >>
          /\ \E c \in following :
             stack' = IF c \in DOMAIN mem.dirties THEN Append(turned(c), call(mem, c)) ELSE turned(c)
          /\ UNCHANGED <<pc, batch, full>>
       \/ /\ stack # << >> /\ following = {}
          /\ batch' = Append(batch, top.node) /\ full' = (Len(batch') >= IdealBatchSize)
          /\ stack' = returned /\ UNCHANGED pc
    /\ UNCHANGED <<mem, disk, diskPre, store, left, walk, target, reader>>

\* batch.Write, when the batch is full or a loop has ended, and where the code goes on.
\* Written nodes of a Commit stay in the batch until they are replayed.
AfterWrite ==
    [cap |-> "cap", capPreimages |-> "capPreimages", capEnd |-> "capClean",
     commitPreimages |-> "commitPreimages", commitPreimagesEnd |-> "commit",
     commit |-> "commitReplay", commitEnd |-> "commitClean"]
Writing == full \/ pc \in {"capEnd", "commitPreimagesEnd", "commitEnd"}

WriteBatch ==
    /\ Writing
    /\ disk' = disk \cup (Range(batch) \cap Nodes)
    /\ diskPre' = diskPre \cup (Range(batch) \cap Preimages)
    /\ pc' = AfterWrite[pc] /\ full' = FALSE
    /\ batch' = IF pc' \in {"commitReplay", "commitClean"} THEN batch ELSE << >>
    /\ UNCHANGED <<mem, store, stack, left, walk, target, reader>>

\* The write fails and Cap or Commit returns the error.
WriteFails ==
    /\ Writing /\ Reset
    /\ UNCHANGED <<mem, disk, diskPre, reader>>

\* The end of Cap, under the lock: what was flushed leaves the cache, one node after another.
CapClean ==
    /\ pc = "capClean"
    /\ LET h == mem.oldest
       IN  \/ /\ h # walk.next
              /\ mem' = [mem EXCEPT !.dirties = Delete(@, h), !.oldest = mem.dirties[h].flushNext,
                                    !.size = @ - entrySize(mem, h)]
              /\ UNCHANGED <<pc, store, stack, batch, full, left, walk, target>>
           \/ /\ h = walk.next /\ Reset
              /\ mem' = [mem EXCEPT !.dirties = IF h = Meta THEN @ ELSE [@ EXCEPT ![h].flushPrev = Meta],
                                    !.preimages = IF walk.flushPreimages THEN {} ELSE @]
    /\ UNCHANGED <<disk, diskPre, reader>>

\* Batch.Replay into the cleaner, under the lock, in commit and at the end of Commit
Replay ==
    /\ pc \in {"commitReplay", "commitClean"} /\ batch # << >>
    /\ mem' = uncache(mem, Head(batch)) /\ batch' = Tail(batch)
    /\ UNCHANGED <<disk, diskPre, pc, store, stack, full, left, walk, target, reader>>

CommitReplay ==
    /\ pc = "commitReplay" /\ batch = << >>
    /\ pc' = "commit"
    /\ UNCHANGED <<mem, disk, diskPre, store, stack, batch, full, left, walk, target, reader>>

CommitClean ==
    /\ pc = "commitClean" /\ batch = << >> /\ Reset
    /\ mem' = [mem EXCEPT !.preimages = {}]
    /\ UNCHANGED <<disk, diskPre, reader>>

-----------------------------------------------------------------------------
\* Database.Node and Database.node: a lookup in the cache under the read lock, and if that
\* finds nothing, in a later step, a read from disk.
Locked == pc \in {"deref", "capClean", "commitReplay", "commitClean"}

Node(root, h) ==
    /\ reader.pc = "idle" /\ ~Locked
    /\ held(root) /\ h \in Below[root] /\ h \notin Cached(mem)
    /\ reader' = [pc |-> "disk", node |-> h]
    /\ UNCHANGED <<mem, disk, diskPre, pc, store, stack, batch, full, left, walk, target>>

NodeFromDisk ==
    /\ reader.pc = "disk"
    /\ reader' = IF reader.node \in disk THEN idleReader ELSE [reader EXCEPT !.pc = "missing"]
    /\ UNCHANGED <<mem, disk, diskPre, pc, store, stack, batch, full, left, walk, target>>

\* The process stops and is started again.
Crash ==
    /\ mem' = NewDatabase /\ Reset /\ reader' = idleReader
    /\ UNCHANGED <<disk, diskPre>>

Next ==
    \/ \E r \in Roots, d \in SUBSET Nodes : CommitTrie(r, d)
    \/ \E r \in Roots : Reference(r) \/ Dereference(r) \/ Commit(r)
    \/ \E limit \in Limits : Cap(limit)
    \/ StoreStep \/ DereferenceStep \/ PutPreimage \/ CapStep \/ CommitStep
    \/ WriteBatch \/ WriteFails \/ CapClean \/ Replay \/ CommitReplay \/ CommitClean
    \/ \E r \in Roots : \E h \in Below[r] : Node(r, h)
    \/ NodeFromDisk \/ Crash

Spec == Init /\ [][Next]_vars

-----------------------------------------------------------------------------
(* Properties *)

\* Whatever is below a root the metaroot still refers to can be read, from the cache or from
\* disk, in the middle of every garbage collection, flush and commit.
LiveIsReadable ==
    \A r \in Roots : held(r) => Below[r] \subseteq available

\* A goroutine that does not find a node in the cache and then reads the disk finds it there,
\* even if the last reference to its root was released meanwhile: "only uncaching existing
\* data when the database write finalizes" is enough for readers that hold no lock in between.
ReaderFindsNode ==
    reader.pc # "missing"

\* Wherever the process stops, a node on disk has everything below it on disk: the order of
\* the flush-list in Cap, and the post-order of commit, put children before parents.
DiskIsClosed ==
    \A h \in disk : Children(h) \subseteq disk

\* Following flushNext from oldest visits every entry but the metaroot once and ends at newest,
\* and flushPrev leads back: no entry is lost to Cap, which only sees what the walk visits, and
\* none is visited after it left.  insert, dereference, Cap and the cleaner keep it so.
FlushListIsWhole ==
    LET next(h) == mem.dirties[h].flushNext
    IN  pc # "deref" =>
            /\ mem.oldest \in Cached(mem) \/ (mem.oldest = Meta /\ Cached(mem) = {})
            /\ \A h \in Cached(mem) :
                IF h = mem.newest THEN next(h) = Meta
                ELSE next(h) \in Cached(mem) \ {mem.oldest} /\ mem.dirties[next(h)].flushPrev = h
            /\ \A S \in SUBSET Cached(mem) :
                mem.oldest \in S /\ (\A h \in S : next(h) \in S \cup {Meta}) => S = Cached(mem)

\* How many references to h the entries of the cache hold: by hashes inside them, as external
\* children, and in the metaroot
references(h) ==
    LET roots == mem.dirties[Meta].children
    IN  Cardinality({t \in Slots(Cached(mem)) : Kids[t[1]][t[2]] = h})
        + Cardinality({p \in Cached(mem) : h \in DOMAIN mem.dirties[p].children})
        + (IF h \in DOMAIN roots THEN roots[h] ELSE 0)

\* The counter of an entry that is in memory only is the number of references to it, so it is
\* neither collected while referenced nor kept for ever.  (The counter of a node that is also
\* on disk, and was put into the cache again, may be off: the corner case in dereference.)
CountsAreExact ==
    pc # "deref" => \A h \in Cached(mem) \ disk : mem.dirties[h].parents = references(h)

\* The running size is what the entries take, counted byte by byte, less 2^16 for every blob so
\* large that insert's uint16 sum overflowed, and for nothing else: through every path that adds
\* or removes an entry, in the middle of a garbage collection too, what is subtracted for an
\* entry is what was added for it, and only the overflows of insert are never made good.
SizeIsTotal ==
    mem.size = Cardinality(Bytes(mem, Cached(mem)))
               + RefSize * Cardinality(DOMAIN mem.dirties[Meta].children) - Width * mem.wraps

\* Commit that returns no error leaves everything below a root that was available on disk, and
\* with it all the preimages collected so far.
CommitIsDurable ==
    [][pc = "commitClean" /\ pc' = "idle" =>
        /\ target \in available => Below[target] \subseteq disk'
        /\ mem.preimages \subseteq diskPre']_vars

\* Cap that returns no error has brought the size the database reports down to the limit, or
\* emptied the cache.
CapMeetsLimit ==
    [][pc = "capClean" /\ pc' = "idle" => Size(mem') <= walk.limit \/ Cached(mem') = {}]_vars

=============================================================================
