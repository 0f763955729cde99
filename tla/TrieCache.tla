----------------------------- MODULE TrieCache ------------------------------
(***************************************************************************)
(* The cache of trie nodes in memory of proton/trie/database.go: the map   *)
(* of dirty nodes, the counters of references between them, the list in    *)
(* which they are flushed, and what they take.  Nodes are named by their   *)
(* hash, so the shape of the trie below a hash is a constant.              *)
(*                                                                         *)
(* A lookup in the dirties map that finds nothing and is then dereferenced *)
(* would crash the program; it is an application of dirties outside its    *)
(* domain here, which TLC reports as an error.                             *)
(***************************************************************************)
EXTENDS Integers, Sequences, FiniteSets, Functions

CONSTANTS
    Nodes,          \* the hashes of trie nodes and blobs
    Meta,           \* common.Hash{}: the metaroot, and the end of the flush-list
    Kids,           \* the hashes inside a node, in order; a blob has none
    Refs,           \* the storage root and code hash an account leaf refers to
    Height,         \* of the trie below a node: no hash is inside what it is the hash of
    Preimages,      \* the hashed keys whose preimages secure tries collect
    BlobSize,       \* len(blob) of a node
    HashLength,     \* common.HashLength
    Width,          \* the values of a uint16, in which insert keeps and adds sizes
    MetaSize,       \* cachedNodeSize
    ChildrenSize,   \* cachedNodeChildrenSize
    RefSize         \* HashLength + 2: an entry of a children map

Hashes == Nodes \cup {Meta}
Children(h) == Range(Kids[h]) \cup Refs[h]

ASSUME ShapeAssumption ==
    /\ Meta \notin Nodes /\ Preimages \cap Hashes = {} /\ IsFiniteSet(Nodes)
    /\ Kids \in [Nodes -> Seq(Nodes)] /\ Refs \in [Nodes -> SUBSET Nodes]
    /\ Height \in [Nodes -> Nat] /\ \A h \in Nodes : \A c \in Children(h) : Height[c] < Height[h]

ASSUME SizeAssumption ==
    /\ BlobSize \in [Nodes -> Nat] /\ Width \in Nat \ {0} /\ HashLength \in 0 .. Width
    /\ MetaSize \in Nat /\ ChildrenSize \in Nat /\ RefSize \in Nat

\* A node with everything below it
Below == [h \in Nodes |-> {x \in Nodes :
            \A S \in SUBSET Nodes : h \in S /\ (\A p \in S : Children(p) \subseteq S) => x \in S}]

-----------------------------------------------------------------------------
(* dirtiesSize and childrenSize are kept as their sum, which is how Cap and Size  *)
(* read them.  A history field, wraps, counts the insertions whose uint16 sum of  *)
(* HashLength and the size overflowed.                                            *)

\* HashLength + int(node.size), what the paths that remove a node subtract: the size was
\* truncated by insert, the sum is an int.
NodeSize == [h \in Nodes |-> HashLength + (BlobSize[h] % Width)]
wrapped(h) == IF NodeSize[h] >= Width THEN 1 ELSE 0

\* cachedNode; tracked tells whether its children map was made.
newNode(prev, tracked) ==
    [parents |-> 0, children |-> << >>, tracked |-> tracked, flushPrev |-> prev, flushNext |-> Meta]

NewDatabase ==
    [dirties |-> [h \in {Meta} |-> newNode(Meta, TRUE)],
     oldest |-> Meta, newest |-> Meta, size |-> 0, wraps |-> 0, preimages |-> {}]

Cached(m) == DOMAIN m.dirties \ {Meta}

Put(f, x, v) == [y \in DOMAIN f \cup {x} |-> IF y = x THEN v ELSE f[y]]
Delete(f, x) == [y \in DOMAIN f \ {x} |-> f[y]]

\* How often h refers to c by a hash inside it
Multiplicity(h, c) == Cardinality({i \in DOMAIN Kids[h] : Kids[h][i] = c})

\* Mutant: a child that is inside the node twice is counted once.
insertCountOnce(m, h) ==
    IF h \in DOMAIN m.dirties THEN m
    ELSE LET counted == [x \in DOMAIN m.dirties |->
                            [m.dirties[x] EXCEPT !.parents = @ + IF x \in Range(Kids[h]) THEN 1 ELSE 0]]
             linked == IF m.oldest = Meta THEN counted
                       ELSE [counted EXCEPT ![m.newest].flushNext = h]
         IN  [m EXCEPT !.dirties = Put(linked, h, newNode(m.newest, FALSE)),
                       !.oldest = IF @ = Meta THEN h ELSE @,
                       !.newest = h,
                       !.size = @ + (NodeSize[h] % Width), !.wraps = @ + wrapped(h)]

\* Database.insert; common.HashLength + entry.size is computed in uint16.
insert(m, h) ==
    IF h \in DOMAIN m.dirties THEN m
    ELSE LET counted == [x \in DOMAIN m.dirties |->
                            [m.dirties[x] EXCEPT !.parents = @ + Multiplicity(h, x)]]
             linked == IF m.oldest = Meta THEN counted
                       ELSE [counted EXCEPT ![m.newest].flushNext = h]
         IN  [m EXCEPT !.dirties = Put(linked, h, newNode(m.newest, FALSE)),
                       !.oldest = IF @ = Meta THEN h ELSE @,
                       !.newest = h,
                       !.size = @ + (NodeSize[h] % Width), !.wraps = @ + wrapped(h)]

\* Database.reference: an existing reference is counted again for roots only.
reference(m, child, parent) ==
    LET p == m.dirties[parent]
        known == child \in DOMAIN p.children
    IN  IF child \notin DOMAIN m.dirties \/ (known /\ parent # Meta) THEN m
        ELSE [m EXCEPT !.dirties[child].parents = @ + 1,
                       !.dirties[parent].children = Put(@, child, IF known THEN @[child] + 1 ELSE 1),
                       !.dirties[parent].tracked = TRUE,
                       !.size = @ + (IF p.tracked THEN 0 ELSE ChildrenSize) + (IF known THEN 0 ELSE RefSize)]

\* Mutant: the parent keeps its entry for the child.
releaseKeepEntry(m, child, parent) ==
    IF child \in DOMAIN m.dirties /\ m.dirties[child].parents > 0
    THEN [m EXCEPT !.dirties[child].parents = @ - 1] ELSE m

\* The first half of dereference: one reference less
release(m, child, parent) ==
    LET p == m.dirties[parent]
        last == child \in DOMAIN p.children /\ p.children[child] = 1
        counted == IF last THEN [m EXCEPT !.dirties[parent].children = Delete(@, child), !.size = @ - RefSize]
                   ELSE IF child \in DOMAIN p.children
                   THEN [m EXCEPT !.dirties[parent].children[child] = @ - 1] ELSE m
    IN  IF child \in DOMAIN m.dirties /\ m.dirties[child].parents > 0
        THEN [counted EXCEPT !.dirties[child].parents = @ - 1] ELSE counted

\* Mutant: the end of the flush-list is not moved.
unlinkKeepNewest(m, h) ==
    LET n == m.dirties[h]
    IN  IF h = m.oldest THEN [m EXCEPT !.oldest = n.flushNext, !.dirties[n.flushNext].flushPrev = Meta]
        ELSE [m EXCEPT !.dirties[n.flushPrev].flushNext = n.flushNext,
                       !.dirties[n.flushNext].flushPrev = n.flushPrev]

\* Takes a node out of the flush-list, as dereference and cleaner.Put do.
unlink(m, h) ==
    LET n == m.dirties[h]
    IN  CASE h = m.oldest -> [m EXCEPT !.oldest = n.flushNext,
                                       !.dirties[n.flushNext].flushPrev = Meta]
          [] h # m.oldest /\ h = m.newest -> [m EXCEPT !.newest = n.flushPrev,
                                                       !.dirties[n.flushPrev].flushNext = Meta]
          [] h # m.oldest /\ h # m.newest -> [m EXCEPT !.dirties[n.flushPrev].flushNext = n.flushNext,
                                                       !.dirties[n.flushNext].flushPrev = n.flushPrev]

\* What an entry takes besides the metadata
entrySize(m, h) ==
    NodeSize[h] + IF m.dirties[h].tracked
                  THEN ChildrenSize + RefSize * Cardinality(DOMAIN m.dirties[h].children) ELSE 0

\* Mutant: the children map of the entry is not subtracted.
uncacheNodeSize(m, h) ==
    IF h \notin DOMAIN m.dirties THEN m
    ELSE [unlink(m, h) EXCEPT !.dirties = Delete(@, h), !.size = @ - NodeSize[h]]

\* cleaner.Put: a node that was written leaves the cache.
uncache(m, h) ==
    IF h \notin DOMAIN m.dirties THEN m
    ELSE [unlink(m, h) EXCEPT !.dirties = Delete(@, h), !.size = @ - entrySize(m, h)]

\* Database.Size, and the size Cap starts from
Size(m) ==
    m.size + MetaSize * Cardinality(Cached(m)) - RefSize * Cardinality(DOMAIN m.dirties[Meta].children)

\* Mutant: external children are forgotten.
callInside(m, h) == [node |-> h, ext |-> {}, next |-> 1]

\* A call of dereference or commit that goes through cachedNode.childs: the external children
\* still to come, in the order of a map, and after them the position among the hashes inside
call(m, h) == [node |-> h, ext |-> DOMAIN m.dirties[h].children, next |-> 1]

-----------------------------------------------------------------------------
(* What the counters and the sizes are compared with *)

\* The hashes inside the nodes of S, each at its place, and the bytes of their entries
Slots(S) == UNION {{p} \X DOMAIN Kids[p] : p \in S}
Bytes(m, S) == UNION {{h} \X (1 .. entrySize(m, h)) : h \in S}

=============================================================================
