--------------------------- MODULE TrieCacheProofs ---------------------------
\* The cache of trie/database.go: what each operation of TrieCache does to it, stated field by
\* field, and that it keeps the flush-list in order and the reference counters exact; then the
\* invariant of the cache, for any calls of dereference in progress and any contents of the
\* disk, and that every operation preserves it.
EXTENDS TrieCache, FiniteSetTheorems, TLAPS

\* Go maps from S to T: functions on a subset of S.
Maps(S, T) == UNION {[R -> T] : R \in SUBSET S}
\* An entry of the dirty cache, a cachedNode, and the in-memory part of Database.
Entry == [parents : Nat, children : Maps(Nodes, Nat \ {0}), tracked : BOOLEAN,
          flushPrev : Hashes, flushNext : Hashes]
Memory == [dirties : Maps(Hashes, Entry), oldest : Hashes, newest : Hashes,
           size : Int, wraps : Nat, preimages : SUBSET Preimages]

\* The flush-list runs through the entries of L in the order of their positions.
Linked(m, L, pos) ==
    /\ IF L = {} THEN m.oldest = Meta ELSE m.oldest \in L /\ m.newest \in L
    /\ \A h \in L :
        LET n == m.dirties[h]
        IN  /\ pos[m.oldest] <= pos[h] /\ pos[h] <= pos[m.newest]
            /\ h = m.newest => n.flushNext = Meta
            /\ h # m.oldest => n.flushPrev \in L /\ m.dirties[n.flushPrev].flushNext = h
            /\ h # m.newest => /\ n.flushNext \in L /\ m.dirties[n.flushNext].flushPrev = h
                               /\ pos[h] < pos[n.flushNext]
            /\ \A g \in L : /\ pos[g] = pos[h] => g = h
                            /\ h # m.newest => pos[g] <= pos[h] \/ pos[n.flushNext] <= pos[g]

\* Two entries that differ in their flush-list pointers only, or not in them
SameNode(n, p) == n.parents = p.parents /\ n.children = p.children /\ n.tracked = p.tracked
SameLinks(n, p) == n.flushPrev = p.flushPrev /\ n.flushNext = p.flushNext

\* What insert adds for a node is what is subtracted when it leaves the cache, less 2^16 if the
\* sum overflowed.
LEMMA NodeSizes ==
  ASSUME NEW h \in Nodes
  PROVE  /\ NodeSize[h] \in Nat /\ wrapped(h) \in Nat
         /\ NodeSize[h] % Width \in Nat
         /\ (NodeSize[h] % Width) + Width * wrapped(h) = NodeSize[h]
  <1> DEFINE n == NodeSize[h]
             b == BlobSize[h]
  <1>1. n = HashLength + (b % Width) /\ b \in Nat  BY SizeAssumption, Zenon DEF NodeSize
  <1> HIDE DEF n, b
  <1>2. Width \in Nat \ {0} /\ HashLength \in 0 .. Width  BY SizeAssumption, Zenon
  <1>3. b % Width \in 0 .. (Width - 1)  BY <1>1, <1>2
  <1>4. n \in Nat /\ n < Width + Width  BY <1>1, <1>2, <1>3
  <1>5. CASE n < Width
    <2>1. n % Width = n  BY <1>2, <1>4, <1>5
    <2>2. wrapped(h) = 0  BY <1>2, <1>4, <1>5 DEF wrapped, n
    <2>3. Width * wrapped(h) = 0  BY <1>2, <2>2
    <2> QED  BY <1>4, <2>1, <2>2, <2>3 DEF n
  <1>6. CASE ~(n < Width)
    <2>1. n % Width = n - Width  BY <1>2, <1>4, <1>6
    <2>2. wrapped(h) = 1  BY <1>2, <1>4, <1>6 DEF wrapped, n
    <2>3. Width * wrapped(h) = Width  BY <1>2, <2>2
    <2> QED  BY <1>2, <1>4, <1>6, <2>1, <2>2, <2>3 DEF n
  <1> QED  BY <1>5, <1>6, Zenon

\* What insert, reference, release and unlink do to the cache
Inserted(m, m2, h) ==
    /\ m2 \in Memory /\ m2.preimages = m.preimages
    /\ DOMAIN m2.dirties = DOMAIN m.dirties \cup {h}
    /\ m2.size = m.size + (NodeSize[h] % Width) /\ m2.wraps = m.wraps + wrapped(h)
    /\ m2.dirties[h] = newNode(m.newest, FALSE)
    /\ m2.oldest = (IF m.oldest = Meta THEN h ELSE m.oldest) /\ m2.newest = h
    /\ \A x \in DOMAIN m.dirties :
        /\ m2.dirties[x].parents = m.dirties[x].parents + Multiplicity(h, x)
        /\ m2.dirties[x].children = m.dirties[x].children
        /\ m2.dirties[x].tracked = m.dirties[x].tracked
        /\ m2.dirties[x].flushPrev = m.dirties[x].flushPrev
        /\ m2.dirties[x].flushNext =
             IF m.oldest # Meta /\ x = m.newest THEN h ELSE m.dirties[x].flushNext

Referenced(m, m2, child, parent) ==
    LET p == m.dirties[parent]
        q == m2.dirties[parent]
        known == child \in DOMAIN p.children
    IN  /\ m2 \in Memory /\ m2.preimages = m.preimages /\ m2.wraps = m.wraps
        /\ DOMAIN m2.dirties = DOMAIN m.dirties
        /\ m2.size = m.size + (IF p.tracked THEN 0 ELSE ChildrenSize) + (IF known THEN 0 ELSE RefSize)
        /\ m2.oldest = m.oldest /\ m2.newest = m.newest
        /\ q.tracked = TRUE /\ DOMAIN q.children = DOMAIN p.children \cup {child}
        /\ q.children[child] = (IF known THEN p.children[child] + 1 ELSE 1)
        /\ \A c \in DOMAIN p.children \ {child} : q.children[c] = p.children[c]
        /\ \A x \in DOMAIN m.dirties \ {parent} : /\ m2.dirties[x].children = m.dirties[x].children
                                                  /\ m2.dirties[x].tracked = m.dirties[x].tracked
        /\ \A x \in DOMAIN m.dirties :
            /\ m2.dirties[x].parents = m.dirties[x].parents + (IF x = child THEN 1 ELSE 0)
            /\ SameLinks(m2.dirties[x], m.dirties[x])

Released(m, m2, child, parent) ==
    LET p == m.dirties[parent]
        q == m2.dirties[parent]
        known == child \in DOMAIN p.children
        last == known /\ p.children[child] = 1
    IN  /\ m2 \in Memory /\ m2.preimages = m.preimages /\ m2.wraps = m.wraps
        /\ DOMAIN m2.dirties = DOMAIN m.dirties
        /\ m2.size = m.size - (IF last THEN RefSize ELSE 0)
        /\ m2.oldest = m.oldest /\ m2.newest = m.newest
        /\ DOMAIN q.children = DOMAIN p.children \ (IF last THEN {child} ELSE {})
        /\ known /\ ~last => q.children[child] = p.children[child] - 1
        /\ \A c \in DOMAIN p.children \ {child} : q.children[c] = p.children[c]
        /\ \A x \in DOMAIN m.dirties \ {parent} : m2.dirties[x].children = m.dirties[x].children
        /\ \A x \in DOMAIN m.dirties :
            /\ m2.dirties[x].parents = m.dirties[x].parents
                 - (IF x = child /\ m.dirties[x].parents > 0 THEN 1 ELSE 0)
            /\ m2.dirties[x].tracked = m.dirties[x].tracked
            /\ SameLinks(m2.dirties[x], m.dirties[x])

Unlinked(m, m2, L, pos, h) ==
    /\ m2 \in Memory /\ m2.preimages = m.preimages /\ m2.wraps = m.wraps
    /\ DOMAIN m2.dirties = DOMAIN m.dirties
    /\ m2.size = m.size
    /\ \A x \in DOMAIN m.dirties : SameNode(m2.dirties[x], m.dirties[x])
    /\ Linked(m2, L \ {h}, pos)

\* The references to h: hashes inside the entries of S that the calls of dereference in
\* progress have not passed yet, external children of entries, and the metaroot's.
Inside(S, calls, h) ==
    {t \in Slots(S) : /\ Kids[t[1]][t[2]] = h
                      /\ \A i \in DOMAIN calls : calls[i].node = t[1] => calls[i].next <= t[2]}
External(m, h) == {p \in Cached(m) : h \in DOMAIN m.dirties[p].children}
RootRefs(m, h) ==
    IF h \in DOMAIN m.dirties[Meta].children THEN m.dirties[Meta].children[h] ELSE 0

Total(m, calls, h) ==
    Cardinality(Inside(Cached(m), calls, h)) + Cardinality(External(m, h)) + RootRefs(m, h)
Referred(m, calls, h) ==
    Inside(Cached(m), calls, h) # {} \/ External(m, h) # {} \/ h \in DOMAIN m.dirties[Meta].children

\* Nodes that are not on disk are counted exactly, and are in the cache if they are referred to.
Counts(m, calls, d) ==
    \A h \in Nodes \ d : /\ h \in Cached(m) => m.dirties[h].parents = Total(m, calls, h)
                         /\ Referred(m, calls, h) => h \in Cached(m)

\* A call of dereference or commit in progress.
CallType == [node : Nodes, ext : SUBSET Nodes, next : Nat]

\* An entry leaves the cache.
Deleted(m, m2, p) ==
    /\ DOMAIN m2.dirties = DOMAIN m.dirties \ {p}
    /\ \A x \in DOMAIN m2.dirties : SameNode(m2.dirties[x], m.dirties[x])

\* A map is a function on its keys.
LEMMA MapType ==
  ASSUME NEW S, NEW T, NEW f
  PROVE  f \in Maps(S, T) <=> /\ f = [x \in DOMAIN f |-> f[x]]
                              /\ DOMAIN f \subseteq S /\ \A x \in DOMAIN f : f[x] \in T
  BY DEF Maps

\* An empty Go map is a map.
LEMMA EmptyMap ==
  ASSUME NEW S, NEW T
  PROVE  << >> \in Maps(S, T) /\ DOMAIN << >> = {}
  BY MapType DEF Maps

\* What writing a key of a Go map returns.
LEMMA PutType ==
  ASSUME NEW S, NEW T, NEW f \in Maps(S, T), NEW x \in S, NEW v \in T
  PROVE  Put(f, x, v) \in Maps(S, T)
  BY MapType DEF Put

\* What the delete statement returns.
LEMMA DeleteType ==
  ASSUME NEW S, NEW T, NEW f \in Maps(S, T), NEW x
  PROVE  Delete(f, x) \in Maps(S, T)
  BY MapType DEF Delete

\* What replacing the value of a present key returns.
LEMMA ExceptType ==
  ASSUME NEW S, NEW T, NEW f \in Maps(S, T), NEW x \in DOMAIN f, NEW v \in T
  PROVE  [f EXCEPT ![x] = v] \in Maps(S, T)
  BY MapType

\* How often a hash occurs inside a node is a number.
LEMMA MultiplicityType ==
  ASSUME NEW h \in Nodes, NEW x
  PROVE  Multiplicity(h, x) \in Nat /\ IsFiniteSet({i \in DOMAIN Kids[h] : Kids[h][i] = x})
  <1>1. Kids[h] \in Seq(Nodes)  BY ShapeAssumption, Zenon
  <1>2. DOMAIN Kids[h] = 1 .. Len(Kids[h]) /\ Len(Kids[h]) \in Nat  BY <1>1
  <1>3. IsFiniteSet(DOMAIN Kids[h])
    <2>1. 1 \in Int /\ Len(Kids[h]) \in Int  BY <1>2
    <2>2. IsFiniteSet(1 .. Len(Kids[h]))  BY <2>1, FS_Interval, Zenon
    <2> QED  BY <1>2, <2>2, Zenon
  <1>4. {i \in DOMAIN Kids[h] : Kids[h][i] = x} \in SUBSET DOMAIN Kids[h]  BY Zenon
  <1> QED  BY <1>3, <1>4, FS_Subset, FS_CardinalityType, Zenon DEF Multiplicity

\* insert of a node that is not cached yet does what Inserted says.
LEMMA InsertEffect ==
  ASSUME NEW m \in Memory, NEW h \in Nodes, h \notin DOMAIN m.dirties,
         m.oldest # Meta => m.newest \in DOMAIN m.dirties
  PROVE  Inserted(m, insert(m, h), h)
  <1> DEFINE f == m.dirties
             counted == [x \in DOMAIN f |-> [f[x] EXCEPT !.parents = @ + Multiplicity(h, x)]]
             linked == IF m.oldest = Meta THEN counted ELSE [counted EXCEPT ![m.newest].flushNext = h]
  <1>1. f \in Maps(Hashes, Entry) /\ \A x \in DOMAIN f : f[x] \in Entry
    BY MapType DEF Memory
  <1>2. \A x \in DOMAIN f : Multiplicity(h, x) \in Nat  BY MultiplicityType, Zenon
  <1>3. /\ DOMAIN counted = DOMAIN f /\ counted = [x \in DOMAIN counted |-> counted[x]]
        /\ \A x \in DOMAIN f :
            /\ counted[x] \in Entry
            /\ counted[x].parents = f[x].parents + Multiplicity(h, x)
            /\ counted[x].children = f[x].children
            /\ counted[x].tracked = f[x].tracked
            /\ counted[x].flushPrev = f[x].flushPrev
            /\ counted[x].flushNext = f[x].flushNext
    BY <1>1, <1>2 DEF Entry
  <1>4. counted \in Maps(Hashes, Entry)  
    <2> HIDE DEF counted
    <2> QED BY <1>1, <1>3, MapType
  <1> HIDE DEF counted
  <1>5. /\ linked \in Maps(Hashes, Entry) /\ DOMAIN linked = DOMAIN f
        /\ \A x \in DOMAIN f :
            /\ linked[x].parents = counted[x].parents
            /\ linked[x].children = f[x].children
            /\ linked[x].tracked = f[x].tracked
            /\ linked[x].flushPrev = f[x].flushPrev
            /\ linked[x].flushNext = IF m.oldest # Meta /\ x = m.newest THEN h ELSE f[x].flushNext
    <2>1. CASE m.oldest = Meta  BY <2>1, <1>3, <1>4, Zenon
    <2>2. CASE m.oldest # Meta
      <3> DEFINE v == [counted[m.newest] EXCEPT !.flushNext = h]
      <3>1. m.newest \in DOMAIN counted /\ counted[m.newest] \in Entry  BY <2>2, <1>3, Zenon
      <3>2. /\ v \in Entry /\ v.flushNext = h /\ v.parents = counted[m.newest].parents
            /\ v.children = counted[m.newest].children /\ v.tracked = counted[m.newest].tracked
            /\ v.flushPrev = counted[m.newest].flushPrev
        BY <3>1, Zenon DEF Entry, Hashes
      <3>3. linked = [counted EXCEPT ![m.newest] = v]  BY <2>2, Zenon
      <3> HIDE DEF v, linked
      <3>4. linked \in Maps(Hashes, Entry)  BY <3>1, <3>2, <3>3, <1>4, ExceptType, Zenon
      <3>5. DOMAIN linked = DOMAIN f /\ linked[m.newest] = v /\ \A x \in DOMAIN f \ {m.newest} : linked[x] = counted[x]
        BY <3>1, <3>3, <1>3, Zenon
      <3> QED  BY <2>2, <3>1, <3>2, <3>4, <3>5, <1>3
    <2> QED  BY <2>1, <2>2, Zenon
  <1>6. newNode(m.newest, FALSE) \in Entry
    BY EmptyMap, Zenon DEF newNode, Entry, Memory, Hashes
  <1> DEFINE v == newNode(m.newest, FALSE)
             g == Put(linked, h, v)
             o == IF m.oldest = Meta THEN h ELSE m.oldest
             s == m.size + (NodeSize[h] % Width)
             w == m.wraps + wrapped(h)
             m2 == [m EXCEPT !.dirties = g, !.oldest = o, !.newest = h, !.size = s, !.wraps = w]
  <1>7. insert(m, h) = m2  BY Zenon DEF insert, counted
  <1> HIDE DEF linked, v
  <1>8. s \in Int /\ w \in Nat /\ h \in Hashes /\ o \in Hashes
    <2>1. m.size \in Int /\ m.wraps \in Nat  BY Zenon DEF Memory
    <2>2. s \in Int /\ w \in Nat  BY <2>1, NodeSizes, SMTT(30) DEF wrapped
    <2> QED  BY <2>2, Zenon DEF Hashes, Memory
  <1>9. /\ g \in Maps(Hashes, Entry) /\ DOMAIN g = DOMAIN f \cup {h} /\ g[h] = v
        /\ \A x \in DOMAIN f : g[x] = linked[x]
    <2>1. v \in Entry  BY <1>6, Zenon DEF v
    <2>2. g \in Maps(Hashes, Entry)  BY <1>5, <1>8, <2>1, PutType, Zenon
    <2> QED  BY <1>3, <1>5, <2>2, Zenon DEF Put
  <1> HIDE DEF g, o, s, w
  <1>10. /\ m2 \in Memory /\ m2.dirties = g /\ m2.oldest = o
         /\ m2.newest = h /\ m2.size = s /\ m2.wraps = w /\ m2.preimages = m.preimages
    BY <1>8, <1>9, Zenon DEF Memory
  <1> HIDE DEF m2
  <1> QED  BY <1>3, <1>5, <1>7, <1>9, <1>10 DEF v, o, s, w, Inserted

\* reference does what Referenced says, when it does not return early.
LEMMA ReferenceEffect ==
  ASSUME NEW m \in Memory, NEW child \in DOMAIN m.dirties, NEW parent \in DOMAIN m.dirties,
         child \in Nodes, child # parent,
         parent = Meta \/ child \notin DOMAIN m.dirties[parent].children
  PROVE  Referenced(m, reference(m, child, parent), child, parent)
  <1> DEFINE f == m.dirties
             p == f[parent]
             known == child \in DOMAIN p.children
             count == IF known THEN p.children[child] + 1 ELSE 1
             kids == Put(p.children, child, count)
             g == [f EXCEPT ![child].parents = @ + 1, ![parent].children = kids, ![parent].tracked = TRUE]
             add == (IF p.tracked THEN 0 ELSE ChildrenSize) + (IF known THEN 0 ELSE RefSize)
  <1>1. f \in Maps(Hashes, Entry) /\ \A x \in DOMAIN f : f[x] \in Entry
    BY MapType DEF Memory
  <1>2. p.children \in Maps(Nodes, Nat \ {0})  BY <1>1, Zenon DEF Entry
  <1>3. count \in Nat \ {0}  BY <1>2, MapType
  <1>20. kids = Put(p.children, child, count)  BY Zenon
  <1> HIDE DEF count
  <1>4. /\ kids \in Maps(Nodes, Nat \ {0}) /\ DOMAIN kids = DOMAIN p.children \cup {child}
        /\ kids[child] = count
        /\ \A c \in DOMAIN p.children \ {child} : kids[c] = p.children[c]
    BY <1>2, <1>3, PutType, Zenon DEF Put
  <1> DEFINE s == m.size + (IF p.tracked THEN 0 ELSE ChildrenSize) + (IF known THEN 0 ELSE RefSize)
             m2 == [m EXCEPT !.dirties = g, !.oldest = m.oldest, !.newest = m.newest, !.size = s]
  <1>5. reference(m, child, parent) = m2
    <2>1. m2 = [m EXCEPT !.dirties = g, !.size = s]  BY Zenon DEF Memory
    <2>2. reference(m, child, parent) = [m EXCEPT !.dirties = g, !.size = s]
      BY Zenon DEF reference, kids, count
    <2> QED  BY <2>1, <2>2, Zenon
  <1> HIDE DEF kids
  <1>6. DOMAIN g = DOMAIN f /\ g = [x \in DOMAIN g |-> g[x]]  BY Zenon
  <1>7. \A x \in DOMAIN f \ {parent} : /\ g[x] \in Entry /\ g[x].children = f[x].children
                                       /\ g[x].tracked = f[x].tracked
    BY <1>1 DEF Entry
  <1>8. g[parent] \in Entry /\ g[parent].children = kids /\ g[parent].tracked = TRUE
    BY <1>1, <1>4, Zenon DEF Entry
  <1>9. \A x \in DOMAIN f : /\ g[x].parents = f[x].parents + (IF x = child THEN 1 ELSE 0)
                            /\ g[x].flushPrev = f[x].flushPrev
                            /\ g[x].flushNext = f[x].flushNext
    BY <1>1 DEF Entry
  <1> HIDE DEF g, s
  <1>10. g \in Maps(Hashes, Entry)  BY <1>1, <1>6, <1>7, <1>8, MapType
  <1>11. m.oldest \in Hashes /\ m.newest \in Hashes /\ s \in Int  BY SizeAssumption DEF Memory, s
  <1>12. /\ m2 \in Memory /\ m2.dirties = g /\ m2.size = s
         /\ m2.oldest = m.oldest /\ m2.newest = m.newest /\ m2.preimages = m.preimages /\ m2.wraps = m.wraps
    BY <1>10, <1>11, Zenon DEF Memory
  <1> HIDE DEF m2
  <1> QED  BY <1>4, <1>5, <1>6, <1>7, <1>8, <1>9, <1>12, Zenon DEF count, s, Referenced, SameLinks

\* The first part of dereference does what Released says.
LEMMA ReleaseEffect ==
  ASSUME NEW m \in Memory, NEW child \in Nodes, NEW parent \in DOMAIN m.dirties, child # parent
  PROVE  Released(m, release(m, child, parent), child, parent)
  <1> DEFINE f == m.dirties
             p == f[parent]
             known == child \in DOMAIN p.children
             last == known /\ p.children[child] = 1
             counted == IF last THEN [m EXCEPT !.dirties[parent].children = Delete(@, child), !.size = @ - RefSize]
                        ELSE IF known THEN [m EXCEPT !.dirties[parent].children[child] = @ - 1] ELSE m
             Halfway(m1, kids, s) ==
                /\ m1 \in Memory /\ m1.oldest = m.oldest /\ m1.newest = m.newest
                /\ m1.preimages = m.preimages /\ m1.wraps = m.wraps /\ m1.size = s
                /\ DOMAIN m1.dirties = DOMAIN f
                /\ m1.dirties[parent].children = kids
                /\ \A x \in DOMAIN f \ {parent} : m1.dirties[x].children = f[x].children
                /\ \A x \in DOMAIN f : /\ m1.dirties[x].parents = f[x].parents
                                       /\ m1.dirties[x].tracked = f[x].tracked
                                       /\ m1.dirties[x].flushPrev = f[x].flushPrev
                                       /\ m1.dirties[x].flushNext = f[x].flushNext
  <1>1. f \in Maps(Hashes, Entry) /\ \A x \in DOMAIN f : f[x] \in Entry
    BY MapType DEF Memory
  <1>2. p.children \in Maps(Nodes, Nat \ {0})  BY <1>1, Zenon DEF Entry
  <1>3. ASSUME NEW kids \in Maps(Nodes, Nat \ {0}), NEW s \in Int
        PROVE  Halfway([m EXCEPT !.dirties[parent].children = kids, !.size = s], kids, s)
    <2> DEFINE g == [f EXCEPT ![parent].children = kids]
               m1 == [m EXCEPT !.dirties = g, !.size = s]
    <2>1. m1 = [m EXCEPT !.dirties[parent].children = kids, !.size = s]  BY Zenon
    <2>2. DOMAIN g = DOMAIN f /\ g = [x \in DOMAIN g |-> g[x]]  BY Zenon
    <2>3. \A x \in DOMAIN f \ {parent} : g[x] = f[x]  BY Zenon
    <2>4. /\ g[parent] \in Entry /\ g[parent].children = kids
          /\ g[parent].parents = f[parent].parents /\ g[parent].tracked = f[parent].tracked
          /\ g[parent].flushPrev = f[parent].flushPrev /\ g[parent].flushNext = f[parent].flushNext
      BY <1>1, Zenon DEF Entry
    <2> HIDE DEF g
    <2>5. g \in Maps(Hashes, Entry)  BY <1>1, <2>2, <2>3, <2>4, MapType, Zenon
    <2>6. /\ m1 \in Memory /\ m1.dirties = g /\ m1.size = s
          /\ m1.oldest = m.oldest /\ m1.newest = m.newest /\ m1.preimages = m.preimages /\ m1.wraps = m.wraps
      BY <2>5, Zenon DEF Memory
    <2> HIDE DEF m1
    <2>7. Halfway(m1, kids, s)  BY <2>2, <2>3, <2>4, <2>6, Zenon
    <2> QED  BY <2>1, <2>7, Zenon
  <1> DEFINE kids == IF last THEN Delete(p.children, child)
                     ELSE IF known THEN [p.children EXCEPT ![child] = @ - 1] ELSE p.children
             s == m.size - (IF last THEN RefSize ELSE 0)
  <1> HIDE DEF Halfway
  <1>4. kids \in Maps(Nodes, Nat \ {0}) /\ Halfway(counted, kids, s)
    <2>1. CASE last
      <3>1. Delete(p.children, child) \in Maps(Nodes, Nat \ {0})  BY <1>2, DeleteType, Zenon
      <3>2. m.size - RefSize \in Int  BY SizeAssumption DEF Memory
      <3>3. counted = [m EXCEPT !.dirties[parent].children = Delete(p.children, child), !.size = m.size - RefSize]
        BY <2>1, Zenon
      <3> QED  BY <2>1, <3>1, <3>2, <3>3, <1>3, Zenon
    <2>2. CASE known /\ ~last
      <3> DEFINE n == p.children[child] - 1
      <3>1. n \in Nat \ {0} /\ child \in DOMAIN p.children  BY <2>2, <1>2, MapType
      <3>2. counted = [m EXCEPT !.dirties[parent].children = [p.children EXCEPT ![child] = n], !.size = m.size]
        BY <2>2, Zenon DEF Memory
      <3>3. m.size \in Int /\ s = m.size  BY <2>2 DEF Memory
      <3>4. kids = [p.children EXCEPT ![child] = n]  BY <2>2, Zenon
      <3> HIDE DEF n, counted, kids, s
      <3>5. kids \in Maps(Nodes, Nat \ {0})  BY <1>2, <3>1, <3>4, ExceptType, Zenon
      <3> QED  BY <3>2, <3>3, <3>4, <3>5, <1>3, Zenon
    <2>3. CASE ~known
      <3>1. counted = m /\ kids = p.children /\ s = m.size  BY <2>3 DEF Memory
      <3> QED  BY <1>2, <3>1, Zenon DEF Halfway
    <2> QED  BY <2>1, <2>2, <2>3, Zenon
  <1>5. /\ DOMAIN kids = DOMAIN p.children \ (IF last THEN {child} ELSE {})
        /\ known /\ ~last => kids[child] = p.children[child] - 1
        /\ \A c \in DOMAIN p.children \ {child} : kids[c] = p.children[c]
    BY <1>2, MapType, Zenon DEF Delete
  <1> DEFINE m1 == counted
             down == child \in DOMAIN f /\ f[child].parents > 0
             g == [m1.dirties EXCEPT ![child].parents = @ - 1]
             m2 == IF down THEN [m1 EXCEPT !.dirties = g] ELSE m1
  <1>6. release(m, child, parent) = m2  
    BY Zenon DEF release
  <1> HIDE DEF kids, counted, s
  <1>7. CASE down
    <2>1. m1 \in Memory /\ m1.dirties \in Maps(Hashes, Entry) /\ \A x \in DOMAIN f : m1.dirties[x] \in Entry
      BY <1>4, MapType DEF Halfway, Memory
    <2>2. DOMAIN m1.dirties = DOMAIN f /\ m1.dirties[child].parents = f[child].parents  BY <1>4, <1>7, Zenon DEF Halfway
    <2> HIDE DEF m1
    <2>3. DOMAIN g = DOMAIN f /\ g = [x \in DOMAIN g |-> g[x]]  BY <2>2, Zenon
    <2>4. \A x \in DOMAIN f \ {child} : g[x] = m1.dirties[x]  BY <2>2, Zenon
    <2>5. /\ g[child] \in Entry /\ g[child].children = m1.dirties[child].children
          /\ g[child].parents = f[child].parents - 1 /\ g[child].tracked = m1.dirties[child].tracked
          /\ g[child].flushPrev = m1.dirties[child].flushPrev /\ g[child].flushNext = m1.dirties[child].flushNext
      BY <2>1, <2>2, <1>7 DEF Entry
    <2> HIDE DEF g
    <2>6. g \in Maps(Hashes, Entry)  BY <1>1, <2>1, <2>3, <2>4, <2>5, MapType, Zenon
    <2>7. /\ m2 \in Memory /\ m2.dirties = g /\ m2.size = m1.size
          /\ m2.oldest = m1.oldest /\ m2.newest = m1.newest /\ m2.preimages = m1.preimages /\ m2.wraps = m1.wraps
      BY <1>7, <2>1, <2>6, Zenon DEF Memory
    <2> HIDE DEF m2
    <2>8. /\ m2 \in Memory /\ m2.oldest = m.oldest /\ m2.newest = m.newest
          /\ m2.preimages = m.preimages /\ m2.wraps = m.wraps /\ m2.size = s
          /\ DOMAIN m2.dirties = DOMAIN f /\ m2.dirties[parent].children = kids
          /\ \A x \in DOMAIN f \ {parent} : m2.dirties[x].children = f[x].children
      BY <1>4, <2>3, <2>4, <2>5, <2>7 DEF m1, Halfway
    <2>9. \A x \in DOMAIN f :
             /\ m2.dirties[x].parents = f[x].parents - (IF x = child THEN 1 ELSE 0)
             /\ m2.dirties[x].tracked = f[x].tracked
             /\ m2.dirties[x].flushPrev = f[x].flushPrev
             /\ m2.dirties[x].flushNext = f[x].flushNext
      <3>1. \A x \in DOMAIN f : f[x].parents \in Nat  BY <1>1, Zenon DEF Entry
      <3> QED  BY <1>4, <2>4, <2>5, <2>7, <3>1 DEF m1, Halfway
    <2> QED  BY <1>5, <1>6, <1>7, <2>8, <2>9, Zenon DEF s, Released, SameLinks
  <1>8. CASE ~down
    <2>1. release(m, child, parent) = m1  BY <1>6, <1>8, Zenon
    <2>2. \A x \in DOMAIN f : f[x].parents \in Nat  BY <1>1, Zenon DEF Entry
    <2>3. /\ m1 \in Memory /\ m1.oldest = m.oldest /\ m1.newest = m.newest
          /\ m1.preimages = m.preimages /\ m1.wraps = m.wraps /\ m1.size = s
          /\ DOMAIN m1.dirties = DOMAIN f /\ m1.dirties[parent].children = kids
          /\ \A x \in DOMAIN f \ {parent} : m1.dirties[x].children = f[x].children
      BY <1>4, Zenon DEF Halfway
    <2>4. \A x \in DOMAIN f :
             /\ m1.dirties[x].parents = f[x].parents /\ m1.dirties[x].tracked = f[x].tracked
             /\ m1.dirties[x].flushPrev = f[x].flushPrev /\ m1.dirties[x].flushNext = f[x].flushNext
      BY <1>4, Zenon DEF Halfway
    <2>5. \A x \in DOMAIN f :
             m1.dirties[x].parents = f[x].parents - (IF x = child /\ f[x].parents > 0 THEN 1 ELSE 0)
      BY <1>8, <2>2, <2>4
    <2> HIDE DEF m1
    <2> QED  BY <1>5, <2>1, <2>3, <2>4, <2>5, Zenon DEF s, Released, SameLinks
  <1> QED  BY <1>7, <1>8, Zenon

\* A pointer of an entry is set, and nothing else.
setNext(m, a, u) == [m EXCEPT !.dirties[a].flushNext = u]
setPrev(m, a, u) == [m EXCEPT !.dirties[a].flushPrev = u]

\* What assigning one pointer changes.
NextSet(m, m2, a, u) ==
    /\ m2 \in Memory /\ m2.oldest = m.oldest /\ m2.newest = m.newest
    /\ m2.preimages = m.preimages /\ m2.wraps = m.wraps /\ m2.size = m.size
    /\ DOMAIN m2.dirties = DOMAIN m.dirties
    /\ \A x \in DOMAIN m.dirties : /\ SameNode(m2.dirties[x], m.dirties[x])
                                    /\ m2.dirties[x].flushPrev = m.dirties[x].flushPrev
    /\ \A x \in DOMAIN m.dirties \ {a} : m2.dirties[x].flushNext = m.dirties[x].flushNext
    /\ m2.dirties[a].flushNext = u

PrevSet(m, m2, a, u) ==
    /\ m2 \in Memory /\ m2.oldest = m.oldest /\ m2.newest = m.newest
    /\ m2.preimages = m.preimages /\ m2.wraps = m.wraps /\ m2.size = m.size
    /\ DOMAIN m2.dirties = DOMAIN m.dirties
    /\ \A x \in DOMAIN m.dirties : /\ SameNode(m2.dirties[x], m.dirties[x])
                                    /\ m2.dirties[x].flushNext = m.dirties[x].flushNext
    /\ \A x \in DOMAIN m.dirties \ {a} : m2.dirties[x].flushPrev = m.dirties[x].flushPrev
    /\ m2.dirties[a].flushPrev = u

\* Assigning flushNext changes that pointer and nothing else.
LEMMA SetNextEffect ==
  ASSUME NEW m \in Memory, NEW a \in DOMAIN m.dirties, NEW u \in Hashes
  PROVE  NextSet(m, setNext(m, a, u), a, u)
  <1> DEFINE f == m.dirties
             g == [f EXCEPT ![a].flushNext = u]
             m2 == [m EXCEPT !.dirties = g]
  <1>1. f \in Maps(Hashes, Entry) /\ \A x \in DOMAIN f : f[x] \in Entry
    BY MapType DEF Memory
  <1>2. m2 = setNext(m, a, u)  BY Zenon DEF setNext
  <1>3. DOMAIN g = DOMAIN f /\ g = [x \in DOMAIN g |-> g[x]]  BY Zenon
  <1>4. \A x \in DOMAIN f \ {a} : g[x] = f[x]  BY Zenon
  <1>5. g[a] \in Entry /\ SameNode(g[a], f[a]) /\ g[a].flushPrev = f[a].flushPrev /\ g[a].flushNext = u
    BY <1>1, Zenon DEF Entry, SameNode
  <1> HIDE DEF g
  <1>6. g \in Maps(Hashes, Entry)  BY <1>1, <1>3, <1>4, <1>5, MapType, Zenon
  <1>7. /\ m2 \in Memory /\ m2.dirties = g /\ m2.size = m.size
        /\ m2.oldest = m.oldest /\ m2.newest = m.newest /\ m2.preimages = m.preimages /\ m2.wraps = m.wraps
    BY <1>6, Zenon DEF Memory
  <1> HIDE DEF m2
  <1>8. NextSet(m, m2, a, u)  BY <1>3, <1>4, <1>5, <1>7, Zenon DEF SameNode, NextSet
  <1> QED  BY <1>2, <1>8, Zenon

\* Assigning flushPrev changes that pointer and nothing else.
LEMMA SetPrevEffect ==
  ASSUME NEW m \in Memory, NEW a \in DOMAIN m.dirties, NEW u \in Hashes
  PROVE  PrevSet(m, setPrev(m, a, u), a, u)
  <1> DEFINE f == m.dirties
             g == [f EXCEPT ![a].flushPrev = u]
             m2 == [m EXCEPT !.dirties = g]
  <1>1. f \in Maps(Hashes, Entry) /\ \A x \in DOMAIN f : f[x] \in Entry
    BY MapType DEF Memory
  <1>2. m2 = setPrev(m, a, u)  BY Zenon DEF setPrev
  <1>3. DOMAIN g = DOMAIN f /\ g = [x \in DOMAIN g |-> g[x]]  BY Zenon
  <1>4. \A x \in DOMAIN f \ {a} : g[x] = f[x]  BY Zenon
  <1>5. g[a] \in Entry /\ SameNode(g[a], f[a]) /\ g[a].flushNext = f[a].flushNext /\ g[a].flushPrev = u
    BY <1>1, Zenon DEF Entry, SameNode
  <1> HIDE DEF g
  <1>6. g \in Maps(Hashes, Entry)  BY <1>1, <1>3, <1>4, <1>5, MapType, Zenon
  <1>7. /\ m2 \in Memory /\ m2.dirties = g /\ m2.size = m.size
        /\ m2.oldest = m.oldest /\ m2.newest = m.newest /\ m2.preimages = m.preimages /\ m2.wraps = m.wraps
    BY <1>6, Zenon DEF Memory
  <1> HIDE DEF m2
  <1>8. PrevSet(m, m2, a, u)  BY <1>3, <1>4, <1>5, <1>7, Zenon DEF SameNode, PrevSet
  <1> QED  BY <1>2, <1>8, Zenon

\* Without its oldest entry a flush-list is one of the entries after it.
LEMMA OldestLinked ==
  ASSUME NEW m, NEW m2, NEW L, NEW pos, \A x \in L : pos[x] \in Nat, Linked(m, L, pos), NEW h \in L, h = m.oldest,
         m2.newest = m.newest, m2.oldest = m.dirties[h].flushNext,
         \A x \in L \ {h} : m2.dirties[x].flushNext = m.dirties[x].flushNext,
         \A x \in L \ {h} : x # m2.oldest => m2.dirties[x].flushPrev = m.dirties[x].flushPrev
  PROVE  Linked(m2, L \ {h}, pos)
  <1> DEFINE f == m.dirties
             a == m.dirties[h].flushNext
  <1>1. \A x \in L : pos[h] <= pos[x] /\ pos[x] <= pos[m.newest] /\ (pos[x] = pos[h] => x = h)  BY Zenon DEF Linked
  <1>2. CASE h = m.newest
    <2>1. L \ {h} = {}  BY <1>1, <1>2
    <2>2. m2.oldest = Meta  BY <1>2, Zenon DEF Linked
    <2> QED  BY <2>1, <2>2, Zenon DEF Linked
  <1>3. CASE h # m.newest
    <2>1. a \in L /\ f[a].flushPrev = h /\ pos[h] < pos[a] /\ m.newest \in L  BY <1>3, Zenon DEF Linked
    <2>2. m2.oldest = a  BY Zenon
    <2>3. \A x \in L : pos[x] <= pos[h] \/ pos[a] <= pos[x]  BY <1>3, Zenon DEF Linked
    <2>4. \A x \in L \ {h} : /\ x # m.oldest => f[x].flushPrev \in L /\ f[f[x].flushPrev].flushNext = x
                             /\ x = m.newest => f[x].flushNext = Meta
                             /\ x # m.newest => /\ f[x].flushNext \in L /\ f[f[x].flushNext].flushPrev = x
                                                /\ pos[x] < pos[f[x].flushNext]
                             /\ \A g \in L : /\ pos[g] = pos[x] => g = x
                                             /\ x # m.newest => pos[g] <= pos[x] \/ pos[f[x].flushNext] <= pos[g]
      BY Zenon DEF Linked
    <2> HIDE DEF a
    <2>5. a \in L \ {h} /\ m.newest \in L \ {h}  BY <1>3, <2>1
    <2>6. ASSUME NEW x \in L \ {h}
          PROVE  /\ pos[a] <= pos[x] /\ pos[x] <= pos[m.newest]
                 /\ x # a => f[x].flushPrev \in L \ {h}
                 /\ x # m.newest => f[x].flushNext \in L \ {h} /\ f[x].flushNext # a
      <3>1. pos[a] <= pos[x]  BY <1>1, <2>1, <2>3
      <3>2. x # a => f[x].flushPrev # h  BY <2>4, Zenon DEF a
      <3>3. x # m.newest => f[x].flushNext # h  BY <1>1, <2>4
      <3>4. x # m.newest => f[x].flushNext # a  BY <2>1, <2>4, Zenon
      <3> QED  BY <1>1, <2>4, <3>1, <3>2, <3>3, <3>4, Zenon
    <2>7. ASSUME NEW x \in L \ {h}, x # a
          PROVE  m2.dirties[x].flushPrev \in L \ {h} /\ m2.dirties[m2.dirties[x].flushPrev].flushNext = x
      <3>1. m2.dirties[x].flushPrev = f[x].flushPrev  BY <2>2, <2>7, Zenon
      <3> QED  BY <2>4, <2>6, <2>7, <3>1, SMTT(30)
    <2>8. ASSUME NEW x \in L \ {h}, x # m.newest
          PROVE  m2.dirties[x].flushNext \in L \ {h} /\ m2.dirties[m2.dirties[x].flushNext].flushPrev = x
      <3>1. m2.dirties[x].flushNext = f[x].flushNext  BY Zenon
      <3> QED  BY <2>2, <2>4, <2>6, <2>8, <3>1
    <2> HIDE DEF f
    <2>9. \A x \in L \ {h} : m2.dirties[x].flushNext = f[x].flushNext  BY Zenon DEF f
    <2>10. ASSUME NEW x \in L \ {h}
           PROVE  LET k == m2.dirties[x]
                  IN  /\ pos[m2.oldest] <= pos[x] /\ pos[x] <= pos[m2.newest]
                      /\ x = m2.newest => k.flushNext = Meta
                      /\ x # m2.oldest => k.flushPrev \in L \ {h} /\ m2.dirties[k.flushPrev].flushNext = x
                      /\ x # m2.newest => /\ k.flushNext \in L \ {h} /\ m2.dirties[k.flushNext].flushPrev = x
                                          /\ pos[x] < pos[k.flushNext]
                      /\ \A g \in L \ {h} : /\ pos[g] = pos[x] => g = x
                                            /\ x # m2.newest => pos[g] <= pos[x] \/ pos[k.flushNext] <= pos[g]
      BY <2>2, <2>4, <2>6, <2>7, <2>8, <2>9
    <2> QED  BY <2>2, <2>5, <2>10, Zenon DEF Linked
  <1> QED  BY <1>2, <1>3, Zenon

\* Without its newest entry a flush-list is one of the entries before it.
LEMMA NewestLinked ==
  ASSUME NEW m, NEW m2, NEW L, NEW pos, \A x \in L : pos[x] \in Nat, Linked(m, L, pos), NEW h \in L, h = m.newest,
         h # m.oldest, m2.oldest = m.oldest, m2.newest = m.dirties[h].flushPrev,
         \A x \in L \ {h} : m2.dirties[x].flushPrev = m.dirties[x].flushPrev,
         \A x \in L \ {h} : x # m2.newest => m2.dirties[x].flushNext = m.dirties[x].flushNext,
         m2.dirties[m2.newest].flushNext = Meta, Meta \notin L
  PROVE  Linked(m2, L \ {h}, pos)
  <1> DEFINE f == m.dirties
             b == m.dirties[h].flushPrev
  <1>1. \A x \in L : pos[m.oldest] <= pos[x] /\ pos[x] <= pos[h] /\ (pos[x] = pos[h] => x = h)  BY Zenon DEF Linked
  <1>2. b \in L /\ f[b].flushNext = h /\ m.oldest \in L  BY Zenon DEF Linked
  <1>3. m2.newest = b  BY Zenon
  <1>4. \A x \in L : /\ x # m.oldest => f[x].flushPrev \in L /\ f[f[x].flushPrev].flushNext = x
                     /\ x # h => /\ f[x].flushNext \in L /\ f[f[x].flushNext].flushPrev = x
                                 /\ pos[x] < pos[f[x].flushNext]
                     /\ \A g \in L : /\ pos[g] = pos[x] => g = x
                                     /\ x # h => pos[g] <= pos[x] \/ pos[f[x].flushNext] <= pos[g]
    BY DEF Linked
  <1>5. f[h].flushNext = Meta  BY Zenon DEF Linked
  <1>6. b # h  BY <1>2, <1>5, Zenon
  <1>7. b \in L \ {h} /\ m.oldest \in L \ {h}  BY <1>2, <1>6, Zenon
  <1> HIDE DEF b
  <1>8. ASSUME NEW x \in L \ {h}
        PROVE  /\ pos[m.oldest] <= pos[x] /\ pos[x] <= pos[b]
               /\ x # m.oldest => f[x].flushPrev \in L \ {h} /\ f[x].flushPrev # b
               /\ x # b => f[x].flushNext \in L \ {h}
    <2>1. pos[x] <= pos[b]
      <3>1. pos[x] <= pos[b] \/ pos[h] <= pos[x]  BY <1>2, <1>4, <1>6, Zenon
      <3> QED  BY <1>1, <3>1
    <2>2. x # m.oldest => f[x].flushPrev # b  BY <1>2, <1>4, Zenon
    <2>3. x # m.oldest => f[x].flushPrev # h  BY <1>4, <1>5
    <2>4. x # b => f[x].flushNext # h  BY <1>4, Zenon DEF b
    <2> QED  BY <1>1, <1>4, <2>1, <2>2, <2>3, <2>4, Zenon
  <1>9. ASSUME NEW x \in L \ {h}, x # m.oldest
        PROVE  m2.dirties[x].flushPrev \in L \ {h} /\ m2.dirties[m2.dirties[x].flushPrev].flushNext = x
    <2>1. m2.dirties[x].flushPrev = f[x].flushPrev  BY Zenon
    <2> QED  BY <1>3, <1>4, <1>8, <1>9, <2>1
  <1>10. ASSUME NEW x \in L \ {h}, x # b
         PROVE  /\ m2.dirties[x].flushNext = f[x].flushNext /\ m2.dirties[x].flushNext \in L \ {h}
                /\ m2.dirties[m2.dirties[x].flushNext].flushPrev = x
    <2>1. m2.dirties[x].flushNext = f[x].flushNext  BY <1>3, <1>10, Zenon
    <2> QED  BY <1>4, <1>8, <1>10, <2>1
  <1>11. m2.oldest = m.oldest /\ m2.dirties[b].flushNext = Meta  BY <1>3, Zenon
  <1> HIDE DEF f
  <1>12. ASSUME NEW x \in L \ {h}
         PROVE  LET k == m2.dirties[x]
                IN  /\ pos[m2.oldest] <= pos[x] /\ pos[x] <= pos[m2.newest]
                    /\ x = m2.newest => k.flushNext = Meta
                    /\ x # m2.oldest => k.flushPrev \in L \ {h} /\ m2.dirties[k.flushPrev].flushNext = x
                    /\ x # m2.newest => /\ k.flushNext \in L \ {h} /\ m2.dirties[k.flushNext].flushPrev = x
                                        /\ pos[x] < pos[k.flushNext]
                    /\ \A g \in L \ {h} : /\ pos[g] = pos[x] => g = x
                                          /\ x # m2.newest => pos[g] <= pos[x] \/ pos[k.flushNext] <= pos[g]
    <2>1. CASE x = b  BY <1>3, <1>4, <1>8, <1>9, <1>11, <2>1, SMTT(30)
    <2>2. CASE x # b  BY <1>3, <1>4, <1>8, <1>9, <1>10, <1>11, <2>2
    <2> QED  BY <2>1, <2>2, Zenon
  <1> QED  BY <1>3, <1>7, <1>11, <1>12, Zenon DEF Linked

\* Taking an entry out of the flush-list, at either end or in the middle, leaves a
\* flush-list of the other entries in the same order.
LEMMA UnlinkEffect ==
  ASSUME NEW m \in Memory, Meta \in DOMAIN m.dirties, NEW L \in SUBSET Cached(m), L \subseteq Nodes,
         NEW pos \in [Nodes -> Nat], Linked(m, L, pos), NEW h \in L
  PROVE  Unlinked(m, unlink(m, h), L, pos, h)
  <1> DEFINE f == m.dirties
             n == f[h]
             m2 == unlink(m, h)
  <1>1. \A x \in DOMAIN f : f[x] \in Entry  BY MapType DEF Memory
  <1>2. h \in DOMAIN f /\ h # Meta /\ m.oldest \in Hashes /\ m.newest \in Hashes  BY Zenon DEF Cached, Memory
  <1>3. n.flushNext \in Hashes /\ n.flushPrev \in Hashes  BY <1>1, <1>2, Zenon DEF Entry
  <1>4. L \subseteq DOMAIN f /\ Meta \notin L  BY Zenon DEF Cached
  <1>5. n.flushNext \in DOMAIN f  BY <1>4, Zenon DEF Linked
  <1>6. \A x \in L : pos[x] \in Nat  BY Zenon
  <1>7. CASE h = m.oldest
    <2> DEFINE m0 == [m EXCEPT !.oldest = n.flushNext]
    <2>1. m2 = setPrev(m0, n.flushNext, Meta)  BY <1>7, Zenon DEF unlink, setPrev
    <2>2. /\ m0 \in Memory /\ m0.dirties = f /\ m0.oldest = n.flushNext
          /\ m0.newest = m.newest /\ m0.preimages = m.preimages /\ m0.wraps = m.wraps /\ m0.size = m.size
      BY <1>3, Zenon DEF Memory
    <2> HIDE DEF m0, m2
    <2>3. /\ m2 \in Memory /\ m2.oldest = n.flushNext /\ m2.newest = m.newest
          /\ m2.preimages = m.preimages /\ m2.wraps = m.wraps /\ m2.size = m.size
          /\ DOMAIN m2.dirties = DOMAIN f
          /\ \A x \in DOMAIN f : SameNode(m2.dirties[x], f[x])
          /\ \A x \in DOMAIN f : m2.dirties[x].flushNext = f[x].flushNext
          /\ \A x \in DOMAIN f \ {n.flushNext} : m2.dirties[x].flushPrev = f[x].flushPrev
      <3>1. PrevSet(m0, m2, n.flushNext, Meta)  BY <1>5, <2>1, <2>2, SetPrevEffect, Zenon DEF Hashes
      <3> QED  BY <2>2, <3>1, Zenon DEF PrevSet
    <2>4. Linked(m2, L \ {h}, pos)  BY <1>4, <1>6, <1>7, <2>3, OldestLinked
    <2> QED  BY <2>3, <2>4, Zenon DEF m2, Unlinked
  <1>8. CASE h # m.oldest /\ h = m.newest
    <2> DEFINE m0 == [m EXCEPT !.newest = n.flushPrev]
    <2>1. m2 = setNext(m0, n.flushPrev, Meta)  BY <1>8, Zenon DEF unlink, setNext
    <2>2. /\ m0 \in Memory /\ m0.dirties = f /\ m0.newest = n.flushPrev
          /\ m0.oldest = m.oldest /\ m0.preimages = m.preimages /\ m0.wraps = m.wraps /\ m0.size = m.size
      BY <1>3, Zenon DEF Memory
    <2>0. n.flushPrev \in L /\ n.flushPrev \in DOMAIN f  BY <1>4, <1>8, Zenon DEF Linked
    <2> HIDE DEF m0, m2
    <2>3. /\ m2 \in Memory /\ m2.newest = n.flushPrev /\ m2.oldest = m.oldest
          /\ m2.preimages = m.preimages /\ m2.wraps = m.wraps /\ m2.size = m.size
          /\ DOMAIN m2.dirties = DOMAIN f
          /\ \A x \in DOMAIN f : SameNode(m2.dirties[x], f[x])
          /\ \A x \in DOMAIN f : m2.dirties[x].flushPrev = f[x].flushPrev
          /\ \A x \in DOMAIN f \ {n.flushPrev} : m2.dirties[x].flushNext = f[x].flushNext
          /\ m2.dirties[n.flushPrev].flushNext = Meta
      <3>1. NextSet(m0, m2, n.flushPrev, Meta)  BY <2>0, <2>1, <2>2, SetNextEffect, Zenon DEF Hashes
      <3> QED  BY <2>0, <2>2, <3>1, Zenon DEF NextSet
    <2>4. Linked(m2, L \ {h}, pos)  BY <1>4, <1>6, <1>8, <2>0, <2>3, NewestLinked, SMTT(30)
    <2> QED  BY <2>3, <2>4, Zenon DEF m2, Unlinked
  <1>9. CASE h # m.oldest /\ h # m.newest
    <2> DEFINE m0 == setNext(m, n.flushPrev, n.flushNext)
    <2>0. /\ n.flushPrev \in L /\ n.flushPrev \in DOMAIN f /\ f[n.flushPrev].flushNext = h
          /\ n.flushNext \in L /\ f[n.flushNext].flushPrev = h /\ pos[h] < pos[n.flushNext]
          /\ pos[n.flushPrev] < pos[h]
      BY <1>4, <1>9, Zenon DEF Linked
    <2>1. m2 = setPrev(m0, n.flushNext, n.flushPrev)  BY <1>9, Zenon DEF unlink, setNext, setPrev
    <2> HIDE DEF m0, m2
    <2>2. /\ m0 \in Memory /\ m0.newest = m.newest /\ m0.oldest = m.oldest
          /\ m0.preimages = m.preimages /\ m0.wraps = m.wraps /\ m0.size = m.size
          /\ DOMAIN m0.dirties = DOMAIN f
          /\ \A x \in DOMAIN f : SameNode(m0.dirties[x], f[x])
          /\ \A x \in DOMAIN f : m0.dirties[x].flushPrev = f[x].flushPrev
          /\ \A x \in DOMAIN f \ {n.flushPrev} : m0.dirties[x].flushNext = f[x].flushNext
          /\ m0.dirties[n.flushPrev].flushNext = n.flushNext
      <3>1. NextSet(m, m0, n.flushPrev, n.flushNext)  BY <1>3, <2>0, SetNextEffect, Zenon DEF m0
      <3> QED  BY <2>0, <3>1, Zenon DEF NextSet
    <2> DEFINE a == n.flushNext
               b == n.flushPrev
    <2>3. a \in DOMAIN m0.dirties /\ b \in Hashes  BY <1>3, <1>5, <2>2, Zenon
    <2>4. m2 = setPrev(m0, a, b)  BY <2>1, Zenon
    <2> HIDE DEF a, b
    <2>5. /\ m2 \in Memory /\ m2.newest = m0.newest /\ m2.oldest = m0.oldest
          /\ m2.preimages = m0.preimages /\ m2.wraps = m0.wraps /\ m2.size = m0.size
          /\ DOMAIN m2.dirties = DOMAIN m0.dirties
          /\ \A x \in DOMAIN m0.dirties : SameNode(m2.dirties[x], m0.dirties[x])
          /\ \A x \in DOMAIN m0.dirties : m2.dirties[x].flushNext = m0.dirties[x].flushNext
          /\ \A x \in DOMAIN m0.dirties \ {a} : m2.dirties[x].flushPrev = m0.dirties[x].flushPrev
          /\ m2.dirties[a].flushPrev = b
      <3>1. PrevSet(m0, m2, a, b)  BY <2>2, <2>3, <2>4, SetPrevEffect, Zenon
      <3> QED  BY <2>3, <3>1, Zenon DEF PrevSet
    <2>6. /\ m2 \in Memory /\ DOMAIN m2.dirties = DOMAIN f
          /\ m2.preimages = m.preimages /\ m2.wraps = m.wraps /\ m2.size = m.size
          /\ \A x \in DOMAIN f : SameNode(m2.dirties[x], f[x])
      BY <2>2, <2>5 DEF SameNode
    <2>7. /\ m2.newest = m.newest /\ m2.oldest = m.oldest
          /\ \A x \in L \ {b} : m2.dirties[x].flushNext = f[x].flushNext
          /\ \A x \in L \ {a} : m2.dirties[x].flushPrev = f[x].flushPrev
          /\ m2.dirties[b].flushNext = a /\ m2.dirties[a].flushPrev = b
      BY <2>0, <2>2, <2>5, <1>4, Zenon DEF a, b
    <2>8. /\ b \in L /\ f[b].flushNext = h /\ a \in L /\ f[a].flushPrev = h
          /\ pos[h] < pos[a] /\ pos[b] < pos[h] /\ a # h /\ b # h /\ a # b
          /\ f[h].flushNext = a /\ f[h].flushPrev = b
      BY <2>0, <1>6 DEF a, b
    <2>9. Linked(m2, L \ {h}, pos)
      <3>1. m.oldest \in L \ {h} /\ m.newest \in L \ {h}  BY <1>9, Zenon DEF Linked
      <3>2. ASSUME NEW x \in L \ {h}
            PROVE  LET k == m2.dirties[x]
                   IN  /\ pos[m2.oldest] <= pos[x] /\ pos[x] <= pos[m2.newest]
                       /\ x = m2.newest => k.flushNext = Meta
                       /\ x # m2.newest => /\ k.flushNext \in L \ {h} /\ m2.dirties[k.flushNext].flushPrev = x
                                           /\ pos[x] < pos[k.flushNext]
                       /\ \A g \in L \ {h} :
                            /\ pos[g] = pos[x] => g = x
                            /\ x # m2.newest => pos[g] <= pos[x] \/ pos[k.flushNext] <= pos[g]
        <4>1. CASE x = b
          <5>1. b # m.newest /\ m2.dirties[x].flushNext = a /\ pos[m.oldest] <= pos[b] /\ pos[b] <= pos[m.newest]
            BY <4>1, <1>4, <2>7, <2>8 DEF Linked
          <5>2. \A g \in L \ {h} : /\ pos[g] = pos[b] => g = b
                                   /\ pos[g] <= pos[b] \/ pos[h] <= pos[g]
                                   /\ pos[g] <= pos[h] \/ pos[a] <= pos[g]
                                   /\ pos[g] # pos[h]
            BY <5>1, <1>9, <2>8, Zenon DEF Linked
          <5>3. \A g \in L \ {h} : pos[g] <= pos[b] \/ pos[a] <= pos[g]
            BY <5>2, <1>6, <2>8
          <5> QED  BY <4>1, <5>1, <5>2, <5>3, <1>6, <2>7, <2>8, SMTT(30)
        <4>2. CASE x # b
          <5>1. m2.dirties[x].flushNext = f[x].flushNext  BY <4>2, <2>7, Zenon
          <5>2. x # m.newest => f[x].flushNext \in L \ {h} /\ f[x].flushNext # a  BY <4>2, <2>8, Zenon DEF Linked
          <5>3. x # m.newest => m2.dirties[f[x].flushNext].flushPrev = x  BY <5>2, <2>7, Zenon DEF Linked
          <5> QED  BY <5>1, <5>2, <5>3, <2>7 DEF Linked
        <4> QED  BY <4>1, <4>2, Zenon
      <3>3. ASSUME NEW x \in L \ {h}, x # m2.oldest
            PROVE  m2.dirties[x].flushPrev \in L \ {h} /\ m2.dirties[m2.dirties[x].flushPrev].flushNext = x
        <4>1. CASE x = a  BY <4>1, <2>7, <2>8, Zenon
        <4>2. CASE x # a
          <5>1. m2.dirties[x].flushPrev = f[x].flushPrev  BY <4>2, <2>7, Zenon
          <5>2. f[x].flushPrev \in L \ {h} /\ f[x].flushPrev # b  BY <4>2, <3>3, <2>7, <2>8, SMTT(30) DEF Linked
          <5> QED  BY <5>1, <5>2, <3>3, <2>7 DEF Linked
        <4> QED  BY <4>1, <4>2, Zenon
      <3> QED  BY <2>7, <3>1, <3>2, <3>3, Zenon DEF Linked
    <2> QED  BY <2>6, <2>9, Zenon DEF m2, Unlinked
  <1> QED  BY <1>7, <1>8, <1>9, Zenon

\* The flush-list is told by its pointers.
LEMMA LinkedFrame ==
  ASSUME NEW m, NEW m2, NEW L, NEW pos, Linked(m, L, pos),
         m2.oldest = m.oldest, m2.newest = m.newest,
         \A x \in L : /\ m2.dirties[x].flushNext = m.dirties[x].flushNext
                      /\ m2.dirties[x].flushPrev = m.dirties[x].flushPrev
  PROVE  Linked(m2, L, pos)
  BY SMTT(30) DEF Linked

\* h is put at the end of the list.
LinkedLast(m, L, h, pos, pos2) ==
    Linked(m, L \cup {h}, pos2) /\ \A x \in L : pos2[x] = pos[x] /\ pos2[x] < pos2[h]

\* insert appends the new entry to the flush-list.
LEMMA InsertLinked ==
  ASSUME NEW m \in Memory, NEW L \in SUBSET Cached(m), L \subseteq Nodes, NEW h \in Nodes, h \notin DOMAIN m.dirties,
         NEW pos \in [Nodes -> Nat], Linked(m, L, pos), NEW m2, Inserted(m, m2, h)
  PROVE  \E pos2 \in [Nodes -> Nat] : LinkedLast(m2, L, h, pos, pos2)
  <1> DEFINE f == m.dirties
  <1>1. L \subseteq DOMAIN f /\ Meta \notin L /\ h \notin L /\ h # Meta  BY ShapeAssumption, Zenon DEF Cached
  <1>2. m.oldest # Meta <=> L # {}  BY <1>1, Zenon DEF Linked
  <1>4. /\ m2.oldest = (IF m.oldest = Meta THEN h ELSE m.oldest) /\ m2.newest = h
        /\ m2.dirties[h] = newNode(m.newest, FALSE)
        /\ \A x \in DOMAIN f :
            /\ m2.dirties[x].flushPrev = f[x].flushPrev
            /\ m2.dirties[x].flushNext = IF m.oldest # Meta /\ x = m.newest THEN h ELSE f[x].flushNext
    BY Zenon DEF Inserted
  <1>5. m2.dirties[h].flushPrev = m.newest /\ m2.dirties[h].flushNext = Meta  BY <1>4 DEF newNode
  <1>6. CASE L = {}
    <2>0. pos[h] \in Nat /\ L \cup {h} = {h} /\ m2.oldest = h /\ m2.newest = h  BY <1>2, <1>4, <1>6, Zenon
    <2>1. Linked(m2, L \cup {h}, pos)  BY <1>5, <2>0 DEF Linked
    <2> QED  BY <1>6, <2>1, Zenon DEF LinkedLast
  <1>7. CASE L # {}
    <2> DEFINE w == m.newest
               k == pos[w] + 1
               pos2 == [pos EXCEPT ![h] = k]
    <2>1. m.oldest \in L /\ w \in L /\ w \in Nodes  BY <1>7, Zenon DEF Linked
    <2>2. k \in Nat /\ \A x \in L : pos[x] \in Nat /\ pos[x] < k  BY <2>1 DEF Linked
    <2> HIDE DEF k
    <2>3. pos2 \in [Nodes -> Nat] /\ pos2[h] = k /\ \A x \in L : pos2[x] = pos[x]  BY <1>1, <2>2, Zenon
    <2> HIDE DEF pos2, w
    <2>4. /\ m2.oldest = m.oldest /\ m2.newest = h /\ m2.dirties[w].flushNext = h
          /\ m2.dirties[h].flushPrev = w /\ m2.dirties[h].flushNext = Meta
          /\ \A x \in L : m2.dirties[x].flushPrev = f[x].flushPrev
          /\ \A x \in L \ {w} : m2.dirties[x].flushNext = f[x].flushNext
      BY <1>1, <1>2, <1>4, <1>5, <1>7, <2>1, Zenon DEF w
    <2>5. ASSUME NEW x \in L
          PROVE  LET n == m2.dirties[x]
                 IN  /\ pos2[m2.oldest] <= pos2[x] /\ pos2[x] <= pos2[h]
                     /\ x # m2.oldest => n.flushPrev \in L /\ m2.dirties[n.flushPrev].flushNext = x
                     /\ n.flushNext \in L \cup {h} /\ m2.dirties[n.flushNext].flushPrev = x
                     /\ pos2[x] < pos2[n.flushNext]
                     /\ \A g \in L \cup {h} : /\ pos2[g] = pos2[x] => g = x
                                              /\ pos2[g] <= pos2[x] \/ pos2[n.flushNext] <= pos2[g]
      <3>1. x # m.oldest => f[x].flushPrev \in L \ {w} /\ f[f[x].flushPrev].flushNext = x
        BY <1>1, Zenon DEF Linked, w
      <3>2. /\ pos[m.oldest] <= pos[x] /\ pos[x] <= pos[w] /\ pos[x] < k
            /\ \A g \in L : pos[g] \in Nat /\ pos[g] <= pos[w] /\ (pos[g] = pos[x] => g = x)
        BY <2>1, <2>2, Zenon DEF Linked, w
      <3>3. x # m.oldest => m2.dirties[x].flushPrev \in L /\ m2.dirties[m2.dirties[x].flushPrev].flushNext = x
        BY <2>4, <3>1, Zenon
      <3>4. CASE x = w
        <4>1. m2.dirties[x].flushNext = h /\ m2.dirties[h].flushPrev = x  BY <2>4, <3>4, Zenon
        <4>2. \A g \in L \cup {h} : /\ pos2[g] = pos2[x] => g = x
                                    /\ pos2[g] <= pos2[x] \/ pos2[h] <= pos2[g]
          BY <2>2, <2>3, <3>2, <3>4, SMTT(30)
        <4> QED  BY <1>1, <2>1, <2>2, <2>3, <2>4, <3>2, <3>3, <4>1, <4>2, SMTT(30)
      <3>5. CASE x # w
        <4>1. /\ f[x].flushNext \in L /\ f[f[x].flushNext].flushPrev = x /\ pos[x] < pos[f[x].flushNext]
              /\ \A g \in L : pos[g] <= pos[x] \/ pos[f[x].flushNext] <= pos[g]
          BY <3>5, Zenon DEF Linked, w
        <4>2. m2.dirties[x].flushNext = f[x].flushNext  BY <2>4, <3>5, Zenon
        <4>3. m2.dirties[f[x].flushNext].flushPrev = x  BY <2>4, <4>1, Zenon
        <4>4. \A g \in L \cup {h} : /\ pos2[g] = pos2[x] => g = x
                                    /\ pos2[g] <= pos2[x] \/ pos2[f[x].flushNext] <= pos2[g]
          BY <2>2, <2>3, <3>2, <4>1, SMTT(30)
        <4> QED  BY <1>1, <2>1, <2>2, <2>3, <2>4, <3>2, <3>3, <4>1, <4>2, <4>3, <4>4, SMTT(30)
      <3> QED  BY <3>4, <3>5, Zenon
    <2>6. Linked(m2, L \cup {h}, pos2)  BY <1>1, <2>1, <2>2, <2>3, <2>4, <2>5 DEF Linked
    <2> QED  BY <2>2, <2>3, <2>6, Zenon DEF LinkedLast
  <1> QED  BY <1>6, <1>7, Zenon

\* A slot is a node of the set and the position of a hash inside it.
LEMMA SlotPair ==
  ASSUME NEW S
  PROVE  /\ \A t \in Slots(S) : t = <<t[1], t[2]>> /\ t[1] \in S /\ t[2] \in DOMAIN Kids[t[1]]
         /\ \A p \in S : \A i \in DOMAIN Kids[p] : <<p, i>> \in Slots(S)
  BY DEF Slots

\* There are finitely many hashes inside the nodes of a set.
LEMMA SlotsFinite ==
  ASSUME NEW S \in SUBSET Nodes
  PROVE  IsFiniteSet(Slots(S))
  <1> DEFINE F == [p \in S |-> {p} \X DOMAIN Kids[p]]
             T == {{p} \X DOMAIN Kids[p] : p \in S}
  <1>1. IsFiniteSet(S)  BY ShapeAssumption, FS_Subset, Zenon
  <1>2. F \in Surjection(S, T)  BY Zenon DEF Surjection
  <1>3. IsFiniteSet(T)  BY <1>1, <1>2, FS_Surjection, Zenon
  <1>4. ASSUME NEW p \in S  PROVE IsFiniteSet({p} \X DOMAIN Kids[p])
    <2>1. Kids[p] \in Seq(Nodes)  BY ShapeAssumption, Zenon
    <2>2. DOMAIN Kids[p] = 1 .. Len(Kids[p]) /\ Len(Kids[p]) \in Nat  BY <2>1
    <2>3. IsFiniteSet(DOMAIN Kids[p])  BY <2>2, FS_Interval
    <2> QED  BY <2>3, FS_Product, FS_Singleton, Zenon
  <1>5. \A U \in T : IsFiniteSet(U)  BY <1>4, Zenon
  <1> QED  BY <1>3, <1>5, FS_UNION, Zenon DEF Slots

\* The references inside nodes can be counted.
LEMMA InsideFinite ==
  ASSUME NEW S \in SUBSET Nodes, NEW calls, NEW h
  PROVE  IsFiniteSet(Inside(S, calls, h)) /\ Cardinality(Inside(S, calls, h)) \in Nat
  <1>1. Inside(S, calls, h) \in SUBSET Slots(S)  BY Zenon DEF Inside
  <1> QED  BY <1>1, SlotsFinite, FS_Subset, FS_CardinalityType, Zenon

\* Entries other than the metaroot are nodes, finitely many.
LEMMA CachedNodes ==
  ASSUME NEW m \in Memory
  PROVE  /\ Cached(m) \subseteq Nodes /\ IsFiniteSet(Cached(m))
         /\ \A x \in DOMAIN m.dirties : m.dirties[x] \in Entry
  <1>1. DOMAIN m.dirties \subseteq Hashes /\ \A x \in DOMAIN m.dirties : m.dirties[x] \in Entry
    BY MapType DEF Memory
  <1>2. Cached(m) \in SUBSET Nodes  BY <1>1, Zenon DEF Cached, Hashes
  <1> QED  BY <1>1, <1>2, ShapeAssumption, FS_Subset, Zenon

\* The external references can be counted.
LEMMA ExternalFinite ==
  ASSUME NEW m \in Memory, NEW h
  PROVE  IsFiniteSet(External(m, h)) /\ Cardinality(External(m, h)) \in Nat
  <1>1. External(m, h) \in SUBSET Cached(m)  BY Zenon DEF External
  <1> QED  BY <1>1, CachedNodes, FS_Subset, FS_CardinalityType, Zenon

\* The references of the metaroot are counted.
LEMMA RootRefsType ==
  ASSUME NEW m \in Memory, Meta \in DOMAIN m.dirties, NEW h
  PROVE  RootRefs(m, h) \in Nat
  <1>1. m.dirties[Meta].children \in Maps(Nodes, Nat \ {0})  BY CachedNodes, Zenon DEF Entry
  <1> QED  BY <1>1, MapType DEF RootRefs

\* A node that is put into the cache brings one reference for every hash inside it.
LEMMA InsideInsert ==
  ASSUME NEW S \in SUBSET Nodes, NEW p \in Nodes \ S, NEW h
  PROVE  Cardinality(Inside(S \cup {p}, << >>, h)) = Cardinality(Inside(S, << >>, h)) + Multiplicity(p, h)
  <1> DEFINE I == {i \in DOMAIN Kids[p] : Kids[p][i] = h}
             A == Inside(S, << >>, h)
             B == {p} \X I
  <1>1. IsFiniteSet(A) /\ IsFiniteSet(I) /\ Multiplicity(p, h) = Cardinality(I) /\ Cardinality(I) \in Nat
        /\ Cardinality(A) \in Nat
    BY InsideFinite, MultiplicityType, Zenon DEF Multiplicity
  <1>2. IsFiniteSet(B) /\ Cardinality(B) = Cardinality(I)
    <2>1. IsFiniteSet({p}) /\ Cardinality({p}) = 1  BY FS_Singleton, Zenon
    <2>2. IsFiniteSet(B) /\ Cardinality(B) = Cardinality({p}) * Cardinality(I)  BY <1>1, <2>1, FS_Product, Zenon
    <2> QED  BY <1>1, <2>1, <2>2
  <1>3. Inside(S \cup {p}, << >>, h) = A \cup B  BY DEF Inside, Slots
  <1>4. A \cap B = {}  BY DEF Inside, Slots
  <1>5. Cardinality(A \cap B) = 0  BY <1>4, FS_EmptySet, Zenon
  <1> HIDE DEF A, B, I
  <1>6. Cardinality(A \cup B) = Cardinality(A) + Cardinality(B) - Cardinality(A \cap B)
    BY <1>1, <1>2, FS_Union, Zenon
  <1>7. Cardinality(A \cup B) = Cardinality(A) + Multiplicity(p, h)  BY <1>1, <1>2, <1>5, <1>6
  <1> QED  BY <1>3, <1>7, Zenon DEF A

\* References are counted by what is in the cache, whatever the flush-list looks like.
LEMMA CountsFrame ==
  ASSUME NEW m, NEW m2, NEW calls, NEW d, Counts(m, calls, d), Meta \in DOMAIN m.dirties,
         DOMAIN m2.dirties = DOMAIN m.dirties,
         \A x \in DOMAIN m.dirties : SameNode(m2.dirties[x], m.dirties[x])
  PROVE  Counts(m2, calls, d)
  <1>1. Cached(m2) = Cached(m) /\ Cached(m) \subseteq DOMAIN m.dirties  BY Zenon DEF Cached
  <1>2. \A h : External(m2, h) = External(m, h)  BY <1>1, Zenon DEF External, SameNode
  <1>3. \A h : RootRefs(m2, h) = RootRefs(m, h)  BY Zenon DEF RootRefs, SameNode
  <1>4. \A h : Total(m2, calls, h) = Total(m, calls, h) /\ (Referred(m2, calls, h) <=> Referred(m, calls, h))
    BY <1>1, <1>2, <1>3, Zenon DEF Total, Referred, SameNode
  <1> QED  BY <1>1, <1>4, Zenon DEF Counts, SameNode

\* insert keeps the counters exact: the parents field of every child grows by the number
\* of times its hash is inside the node.
LEMMA InsertCounts ==
  ASSUME NEW m \in Memory, NEW m2, NEW p \in Nodes, NEW d, Meta \in DOMAIN m.dirties, p \notin DOMAIN m.dirties,
         Inserted(m, m2, p), Counts(m, << >>, d), Range(Kids[p]) \subseteq Cached(m) \cup d
  PROVE  Counts(m2, << >>, d)
  <1>1. /\ Cached(m2) = Cached(m) \cup {p} /\ p \notin Cached(m) /\ p # Meta
        /\ Cached(m) \in SUBSET Nodes /\ Cached(m) \subseteq DOMAIN m.dirties
    <2>1. p # Meta  BY ShapeAssumption, Zenon
    <2>2. DOMAIN m2.dirties = DOMAIN m.dirties \cup {p}  BY Zenon DEF Inserted
    <2> QED  BY <2>1, <2>2, CachedNodes, Zenon DEF Cached
  <1>2. \A h : External(m2, h) = External(m, h)
    <2>1. m2.dirties[p].children = << >>  BY DEF Inserted, newNode
    <2>2. DOMAIN m2.dirties[p].children = {}  BY <2>1
    <2>3. \A x \in Cached(m) : m2.dirties[x].children = m.dirties[x].children  BY <1>1, Zenon DEF Inserted
    <2> QED  BY <1>1, <2>2, <2>3, Zenon DEF External
  <1>3. m2.dirties[Meta].children = m.dirties[Meta].children  BY Zenon DEF Inserted
  <1>4. \A h : Cardinality(Inside(Cached(m2), << >>, h)) = Cardinality(Inside(Cached(m), << >>, h)) + Multiplicity(p, h)
    BY <1>1, InsideInsert
  <1>5. \A h : Inside(Cached(m2), << >>, h) # {} => Inside(Cached(m), << >>, h) # {} \/ h \in Range(Kids[p])
    BY <1>1 DEF Inside, Slots, Range
  <1> SUFFICES ASSUME NEW h \in Nodes \ d
               PROVE  /\ h \in Cached(m2) => m2.dirties[h].parents = Total(m2, << >>, h)
                      /\ Referred(m2, << >>, h) => h \in Cached(m2)
    BY Zenon DEF Counts
  <1>6. Referred(m2, << >>, h) => h \in Cached(m2)
    BY <1>1, <1>2, <1>3, <1>5, Zenon DEF Referred, Counts
  <1>7. ASSUME h \in Cached(m)  PROVE m2.dirties[h].parents = Total(m2, << >>, h)
    <2>1. m2.dirties[h].parents = m.dirties[h].parents + Multiplicity(p, h)  BY <1>1, <1>7, Zenon DEF Inserted
    <2>2. m.dirties[h].parents = Total(m, << >>, h)  BY <1>7, Zenon DEF Counts
    <2>3. RootRefs(m2, h) = RootRefs(m, h)  BY <1>3, Zenon DEF RootRefs
    <2> DEFINE a == Cardinality(Inside(Cached(m), << >>, h))
               b == Cardinality(External(m, h))
               c == RootRefs(m, h)
               k == Multiplicity(p, h)
    <2>4. a \in Nat /\ b \in Nat /\ c \in Nat /\ k \in Nat
      BY <1>1, InsideFinite, ExternalFinite, RootRefsType, MultiplicityType, Zenon
    <2>5. Total(m2, << >>, h) = (a + k) + b + c /\ Total(m, << >>, h) = a + b + c
      BY <1>2, <1>4, <2>3, Zenon DEF Total
    <2> HIDE DEF a, b, c, k
    <2> QED  BY <2>1, <2>2, <2>4, <2>5 DEF k
  <1>8. ASSUME h = p  PROVE m2.dirties[h].parents = Total(m2, << >>, h)
    <2>1. ~Referred(m, << >>, p)  BY <1>1, <1>8, Zenon DEF Counts
    <2>2. p \notin Range(Kids[p])  BY ShapeAssumption DEF Children
    <2>3. Inside(Cached(m2), << >>, p) = {}  BY <2>1, <2>2, <1>5, Zenon DEF Referred
    <2>4. External(m2, p) = {}  BY <2>1, <1>2, Zenon DEF Referred
    <2>5. RootRefs(m2, p) = 0  BY <2>1, <1>3, Zenon DEF Referred, RootRefs
    <2>6. Total(m2, << >>, p) = 0  BY <2>3, <2>4, <2>5, FS_EmptySet DEF Total
    <2>7. m2.dirties[p].parents = 0  BY DEF Inserted, newNode
    <2> QED  BY <2>6, <2>7, <1>8, Zenon
  <1> QED  BY <1>1, <1>6, <1>7, <1>8, Zenon

\* reference keeps the counters exact.
LEMMA ReferenceCounts ==
  ASSUME NEW m \in Memory, NEW m2, NEW c \in Cached(m), NEW p \in DOMAIN m.dirties, NEW d,
         Meta \in DOMAIN m.dirties, p = Meta \/ c \notin DOMAIN m.dirties[p].children,
         Referenced(m, m2, c, p), Counts(m, << >>, d)
  PROVE  Counts(m2, << >>, d)
  <1> DEFINE f == m.dirties
             g == m2.dirties
             k == Cardinality(Inside(Cached(m), << >>, c))
             e == Cardinality(External(m, c))
  <1>1. /\ Cached(m2) = Cached(m) /\ Cached(m) \subseteq DOMAIN f /\ Cached(m) \in SUBSET Nodes
        /\ m2 \in Memory /\ DOMAIN g = DOMAIN f /\ Meta \notin Cached(m)
    BY CachedNodes, Zenon DEF Cached, Referenced
  <1>2. /\ \A x \in DOMAIN f \ {p} : g[x].children = f[x].children
        /\ DOMAIN g[p].children = DOMAIN f[p].children \cup {c}
        /\ \A h \in DOMAIN f[p].children \ {c} : g[p].children[h] = f[p].children[h]
    BY Zenon DEF Referenced
  <1>3. \A h : h # c => External(m2, h) = External(m, h) /\ RootRefs(m2, h) = RootRefs(m, h)
    BY <1>1, <1>2 DEF External, RootRefs
  <1>4. \A h : h # c => (h \in DOMAIN g[Meta].children <=> h \in DOMAIN f[Meta].children)
    BY <1>2, Zenon
  <1>5. k \in Nat /\ e \in Nat /\ RootRefs(m, c) \in Nat
    BY <1>1, InsideFinite, ExternalFinite, RootRefsType, Zenon
  <1>6. ASSUME p = Meta  PROVE Total(m2, << >>, c) = Total(m, << >>, c) + 1
    <2>1. External(m2, c) = External(m, c)  BY <1>1, <1>2, <1>6, Zenon DEF External
    <2>2. RootRefs(m2, c) = RootRefs(m, c) + 1
      <3>1. c \in DOMAIN g[Meta].children
            /\ g[Meta].children[c] = IF c \in DOMAIN f[Meta].children THEN f[Meta].children[c] + 1 ELSE 1
        BY <1>6, Zenon DEF Referenced
      <3> QED  BY <3>1 DEF RootRefs
    <2> HIDE DEF k, e
    <2>3. Total(m2, << >>, c) = Total(m, << >>, c) + 1  BY <2>1, <2>2, <1>1, <1>5 DEF Total, k, e
    <2> QED  BY <2>3, Zenon
  <1>7. ASSUME p # Meta  PROVE Total(m2, << >>, c) = Total(m, << >>, c) + 1
    <2>1. External(m2, c) = External(m, c) \cup {p} /\ p \notin External(m, c)
      BY <1>1, <1>2, <1>7, Zenon DEF External, Cached
    <2>2. Cardinality(External(m2, c)) = e + 1  BY <2>1, ExternalFinite, FS_AddElement, Zenon
    <2>3. RootRefs(m2, c) = RootRefs(m, c)  BY <1>2, <1>7, Zenon DEF RootRefs
    <2> HIDE DEF k, e
    <2>4. Total(m2, << >>, c) = Total(m, << >>, c) + 1  BY <2>2, <2>3, <1>1, <1>5 DEF Total, k, e
    <2> QED  BY <2>4, Zenon
  <1>8. \A h : h # c => /\ Total(m2, << >>, h) = Total(m, << >>, h)
                        /\ Referred(m2, << >>, h) <=> Referred(m, << >>, h)
    BY <1>1, <1>3, <1>4, Zenon DEF Total, Referred
  <1>9. \A h \in Cached(m) : /\ f[h].parents \in Nat
                              /\ g[h].parents = f[h].parents + (IF h = c THEN 1 ELSE 0)
    BY <1>1, CachedNodes, Zenon DEF Entry, Referenced
  <1>10. g[c].parents = f[c].parents + 1 /\ \A h \in Cached(m) : h # c => g[h].parents = f[h].parents
    BY <1>9
  <1> QED  BY <1>1, <1>6, <1>7, <1>8, <1>10, Zenon DEF Counts

\* One reference less, and one less counted
LEMMA ReleaseCounts ==
  ASSUME NEW m \in Memory, NEW m2, NEW c \in Nodes, NEW p, NEW calls, NEW calls2, NEW d,
         Released(m, m2, c, p), Counts(m, calls, d),
         \A h \in Nodes \ {c} : Total(m2, calls2, h) = Total(m, calls, h),
         \A h \in Nodes : Referred(m2, calls2, h) => Referred(m, calls, h),
         c \notin d => /\ Referred(m, calls, c) /\ Total(m, calls, c) \in Nat \ {0}
                      /\ Total(m2, calls2, c) = Total(m, calls, c) - 1
  PROVE  Counts(m2, calls2, d)
  <1>1. Cached(m2) = Cached(m) /\ Cached(m) \subseteq DOMAIN m.dirties  BY Zenon DEF Cached, Released
  <1>2. \A h \in Cached(m) : m2.dirties[h].parents = m.dirties[h].parents
                                - (IF h = c /\ m.dirties[h].parents > 0 THEN 1 ELSE 0)
    BY <1>1, Zenon DEF Released
  <1>3. ASSUME NEW h \in Nodes \ d, h \in Cached(m)
        PROVE  m2.dirties[h].parents = Total(m2, calls2, h)
    <2>1. m.dirties[h].parents = Total(m, calls, h)  BY <1>3, Zenon DEF Counts
    <2>2. CASE h = c  BY <1>2, <1>3, <2>1, <2>2
    <2>3. CASE h # c
      <3>1. m2.dirties[h].parents = m.dirties[h].parents - 0  BY <1>2, <1>3, <2>3, Zenon
      <3>2. m.dirties[h].parents \in Nat  BY <1>1, <1>3, CachedNodes, Zenon DEF Entry
      <3> QED  BY <3>1, <3>2, <2>1, <2>3
    <2> QED  BY <2>2, <2>3, Zenon
  <1> QED  BY <1>1, <1>3, Zenon DEF Counts

\* A node is referred to exactly when the number of references is not zero.
LEMMA TotalReferred ==
  ASSUME NEW m \in Memory, Meta \in DOMAIN m.dirties, NEW calls, NEW h
  PROVE  Total(m, calls, h) \in Nat /\ (Referred(m, calls, h) <=> Total(m, calls, h) > 0)
  <1> DEFINE A == Inside(Cached(m), calls, h)
             B == External(m, h)
             r == RootRefs(m, h)
  <1>1. IsFiniteSet(A) /\ Cardinality(A) \in Nat  BY CachedNodes, InsideFinite, Zenon
  <1>2. IsFiniteSet(B) /\ Cardinality(B) \in Nat  BY ExternalFinite, Zenon
  <1>3. r \in Nat /\ (h \in DOMAIN m.dirties[Meta].children <=> r > 0)
    <2>1. m.dirties[Meta].children \in Maps(Nodes, Nat \ {0})  BY CachedNodes, Zenon DEF Entry
    <2> QED  BY <2>1, MapType DEF RootRefs
  <1>4. (A = {} <=> Cardinality(A) = 0) /\ (B = {} <=> Cardinality(B) = 0)  BY <1>1, <1>2, FS_EmptySet, Zenon
  <1>5. Total(m, calls, h) = Cardinality(A) + Cardinality(B) + r  BY Zenon DEF Total
  <1>6. Referred(m, calls, h) <=> A # {} \/ B # {} \/ r > 0  BY <1>3, Zenon DEF Referred
  <1> HIDE DEF A, B, r
  <1> QED  BY <1>1, <1>2, <1>3, <1>4, <1>5, <1>6

\* The hash inside p at position j is no longer counted.
Passes(S, calls, calls2, p, j) ==
    LET c == Kids[p][j]
    IN  /\ <<p, j>> \in Inside(S, calls, c) /\ Inside(S, calls2, c) = Inside(S, calls, c) \ {<<p, j>>}
        /\ \A h : h # c => Inside(S, calls2, h) = Inside(S, calls, h)

\* A call of dereference moves on to the next hash inside its node.
LEMMA InsideTurn ==
  ASSUME NEW S, NEW calls, NEW calls2, NEW n \in DOMAIN calls,
         calls[n].node \in S, calls[n].next \in DOMAIN Kids[calls[n].node], Kids[calls[n].node] \in Seq(Nodes),
         \A i \in DOMAIN calls : calls[i].next \in Nat /\ (calls[i].node = calls[n].node => i = n),
         DOMAIN calls2 = DOMAIN calls, \A i \in DOMAIN calls : calls2[i].node = calls[i].node,
         \A i \in DOMAIN calls \ {n} : calls2[i].next = calls[i].next,
         calls2[n].next = calls[n].next + 1
  PROVE  Passes(S, calls, calls2, calls[n].node, calls[n].next)
  <1> DEFINE p == calls[n].node
             j == calls[n].next
             c == Kids[p][j]
  <1>1. \A u \in Slots(S) : u = <<u[1], u[2]>> /\ u[1] \in S /\ u[2] \in DOMAIN Kids[u[1]]  BY SlotPair, Zenon
  <1>2. <<p, j>> \in Slots(S)  BY SlotPair, Zenon
  <1>3. \A u \in Slots(S) : u[1] = p => u[2] \in Nat
    <2>1. DOMAIN Kids[p] \subseteq Nat  OBVIOUS
    <2> QED  BY <1>1, <2>1, Zenon
  <1>4. <<p, j>> \in Inside(S, calls, c)  BY <1>2 DEF Inside
  <1> DEFINE Passed(cs, u) == \A i \in DOMAIN cs : cs[i].node = u[1] => cs[i].next <= u[2]
  <1>5. \A u \in Slots(S) : Passed(calls2, u) <=> Passed(calls, u) /\ u # <<p, j>>
    <2> SUFFICES ASSUME NEW u \in Slots(S)
                 PROVE  Passed(calls2, u) <=> Passed(calls, u) /\ u # <<p, j>>
      BY Zenon
    <2>1. CASE u[1] = p
      <3>1. Passed(calls2, u) <=> j + 1 <= u[2]  BY <2>1, Zenon
      <3>2. Passed(calls, u) <=> j <= u[2]  BY <2>1, Zenon
      <3>3. u = <<p, j>> <=> u[2] = j  BY <2>1, <1>1
      <3>4. j \in Nat /\ u[2] \in Nat  BY <2>1, <1>3, Zenon
      <3> HIDE DEF Passed, j, p
      <3> QED  BY <3>1, <3>2, <3>3, <3>4
    <2>2. CASE u[1] # p
      <3>1. Passed(calls2, u) <=> Passed(calls, u)  BY <2>2, Zenon
      <3>2. u # <<p, j>>  BY <2>2
      <3> QED  BY <3>1, <3>2, Zenon
    <2> QED  BY <2>1, <2>2, Zenon
  <1>6. \A cs, h : Inside(S, cs, h) = {u \in Slots(S) : Kids[u[1]][u[2]] = h /\ Passed(cs, u)}  BY Zenon DEF Inside
  <1> HIDE DEF Passed
  <1>7. Inside(S, calls2, c) = Inside(S, calls, c) \ {<<p, j>>}  BY <1>5, <1>6
  <1>8. ASSUME NEW h, h # c  PROVE Inside(S, calls2, h) = Inside(S, calls, h)
    <2>1. \A u \in Slots(S) : Kids[u[1]][u[2]] = h => u # <<p, j>>  BY <1>8
    <2>2. {u \in Slots(S) : Kids[u[1]][u[2]] = h /\ Passed(calls2, u)}
             = {u \in Slots(S) : Kids[u[1]][u[2]] = h /\ Passed(calls, u)}
      BY <2>1, <1>5, Zenon
    <2> QED  BY <2>2, Zenon DEF Inside, Passed
  <1> QED  BY <1>4, <1>7, <1>8, Zenon DEF Passes

\* A call of dereference that begins has not passed any hash.
LEMMA InsideAppend ==
  ASSUME NEW S \in SUBSET Nodes, NEW calls \in Seq(CallType), NEW f \in CallType, f.next = 1, NEW h
  PROVE  Inside(S, Append(calls, f), h) = Inside(S, calls, h)
  <1> DEFINE n == Len(calls) + 1
  <1>1. DOMAIN Append(calls, f) = DOMAIN calls \cup {n} /\ Append(calls, f)[n] = f
        /\ \A i \in DOMAIN calls : Append(calls, f)[i] = calls[i]
    OBVIOUS
  <1>2. \A u \in Slots(S) : 1 <= u[2]
    <2>1. \A p \in S : Kids[p] \in Seq(Nodes)  BY ShapeAssumption, Zenon
    <2>2. \A p \in S : \A i \in DOMAIN Kids[p] : 1 <= i  BY <2>1
    <2> QED  BY <2>2, SlotPair, Zenon
  <1> HIDE DEF n
  <1> QED  BY <1>1, <1>2, Zenon DEF Inside

\* A reference of the metaroot is released.
LEMMA ReleaseRootCounts ==
  ASSUME NEW m \in Memory, NEW m2, NEW c \in Nodes, NEW d, Meta \in DOMAIN m.dirties,
         Released(m, m2, c, Meta), Counts(m, << >>, d), c \in DOMAIN m.dirties[Meta].children \/ c \in d
  PROVE  Counts(m2, << >>, d)
  <1> DEFINE f == m.dirties
             g == m2.dirties
  <1>1. /\ Cached(m2) = Cached(m) /\ Cached(m) \subseteq DOMAIN f /\ Cached(m) \in SUBSET Nodes
        /\ m2 \in Memory /\ DOMAIN g = DOMAIN f /\ Meta \notin Cached(m)
    BY CachedNodes, Zenon DEF Cached, Released
  <1>2. \A h : External(m2, h) = External(m, h)
    <2>1. \A x \in Cached(m) : g[x].children = f[x].children  BY <1>1, Zenon DEF Released
    <2> QED  BY <1>1, <2>1, Zenon DEF External
  <1>3. f[Meta].children \in Maps(Nodes, Nat \ {0})  BY CachedNodes, Zenon DEF Entry
  <1>4. \A h : h # c => RootRefs(m2, h) = RootRefs(m, h)  BY Zenon DEF RootRefs, Released
  <1>5. c \in DOMAIN f[Meta].children => RootRefs(m2, c) = RootRefs(m, c) - 1
    BY <1>3, MapType DEF RootRefs, Released
  <1>6. \A h : Total(m, << >>, h) \in Nat /\ (Referred(m, << >>, h) <=> Total(m, << >>, h) > 0)
    BY TotalReferred, Zenon
  <1>7. \A h : Total(m2, << >>, h) \in Nat /\ (Referred(m2, << >>, h) <=> Total(m2, << >>, h) > 0)
    BY <1>1, TotalReferred, Zenon
  <1>8. \A h : h # c => Total(m2, << >>, h) = Total(m, << >>, h)  BY <1>1, <1>2, <1>4, Zenon DEF Total
  <1>9. ASSUME c \in DOMAIN f[Meta].children
        PROVE  Total(m2, << >>, c) = Total(m, << >>, c) - 1 /\ Referred(m, << >>, c)
    <2> DEFINE a == Cardinality(Inside(Cached(m), << >>, c))
               b == Cardinality(External(m, c))
               r == RootRefs(m, c)
    <2>1. a \in Nat /\ b \in Nat /\ r \in Nat  BY <1>1, InsideFinite, ExternalFinite, RootRefsType, Zenon
    <2>2. Total(m, << >>, c) = a + b + r /\ Total(m2, << >>, c) = a + b + (r - 1)
      BY <1>1, <1>2, <1>5, <1>9, Zenon DEF Total
    <2> HIDE DEF a, b, r
    <2> QED  BY <2>1, <2>2, <1>9 DEF Referred
  <1>10. \A h \in Nodes : Referred(m2, << >>, h) => Referred(m, << >>, h)
    <2>1. DOMAIN g[Meta].children \subseteq DOMAIN f[Meta].children  BY Zenon DEF Released
    <2> QED  BY <1>1, <1>2, <2>1, Zenon DEF Referred
  <1>11. c \notin d => /\ Referred(m, << >>, c) /\ Total(m, << >>, c) \in Nat \ {0}
                      /\ Total(m2, << >>, c) = Total(m, << >>, c) - 1
    BY <1>6, <1>9
  <1> QED  BY <1>8, <1>10, <1>11, ReleaseCounts, Zenon

\* The node of a call of dereference releases one of its external children.
LEMMA ReleaseExternalCounts ==
  ASSUME NEW m \in Memory, NEW m2, NEW p \in Cached(m), NEW c \in DOMAIN m.dirties[p].children,
         NEW calls, NEW calls2, NEW d, Meta \in DOMAIN m.dirties, m.dirties[p].children[c] = 1,
         Released(m, m2, c, p), Counts(m, calls, d),
         \A h : Inside(Cached(m), calls2, h) = Inside(Cached(m), calls, h)
  PROVE  Counts(m2, calls2, d)
  <1> DEFINE f == m.dirties
             g == m2.dirties
  <1>1. /\ Cached(m2) = Cached(m) /\ Cached(m) \subseteq DOMAIN f /\ Cached(m) \in SUBSET Nodes
        /\ m2 \in Memory /\ DOMAIN g = DOMAIN f /\ Meta \notin Cached(m)
    BY CachedNodes, Zenon DEF Cached, Released
  <1>2. c \in Nodes
    <2>1. f[p].children \in Maps(Nodes, Nat \ {0})  BY <1>1, CachedNodes, Zenon DEF Entry
    <2> QED  BY <2>1, MapType
  <1>3. /\ \A x \in DOMAIN f \ {p} : g[x].children = f[x].children
        /\ DOMAIN g[p].children = DOMAIN f[p].children \ {c}
    BY Zenon DEF Released
  <1>4. g[Meta].children = f[Meta].children  BY <1>1, <1>3, Zenon
  <1>5. \A h : RootRefs(m2, h) = RootRefs(m, h)  BY <1>4, Zenon DEF RootRefs
  <1>6. \A h : h # c => External(m2, h) = External(m, h)  BY <1>1, <1>3, Zenon DEF External
  <1>7. External(m2, c) = External(m, c) \ {p} /\ p \in External(m, c)  BY <1>1, <1>3, Zenon DEF External
  <1>8. \A h : h # c => Total(m2, calls2, h) = Total(m, calls, h)  BY <1>1, <1>5, <1>6, Zenon DEF Total
  <1>9. Total(m2, calls2, c) = Total(m, calls, c) - 1 /\ Total(m, calls, c) \in Nat \ {0} /\ Referred(m, calls, c)
    <2> DEFINE a == Cardinality(Inside(Cached(m), calls, c))
               b == Cardinality(External(m, c))
               r == RootRefs(m, c)
    <2>1. a \in Nat /\ b \in Nat /\ r \in Nat  BY <1>1, InsideFinite, ExternalFinite, RootRefsType, Zenon
    <2>2. Cardinality(External(m2, c)) = b - 1  BY <1>7, ExternalFinite, FS_RemoveElement, Zenon
    <2>3. Total(m, calls, c) = a + b + r /\ Total(m2, calls2, c) = a + (b - 1) + r
      BY <1>1, <1>5, <2>2, Zenon DEF Total
    <2>4. Referred(m, calls, c)  BY <1>7, Zenon DEF Referred
    <2>5. Total(m, calls, c) \in Nat /\ Total(m, calls, c) > 0  BY <2>4, TotalReferred, Zenon
    <2> HIDE DEF a, b, r
    <2> QED  BY <2>1, <2>3, <2>4, <2>5
  <1>10. \A h \in Nodes : Referred(m2, calls2, h) => Referred(m, calls, h)
    BY <1>1, <1>4, <1>6, <1>7, Zenon DEF Referred
  <1> QED  BY <1>2, <1>8, <1>9, <1>10, ReleaseCounts, Zenon

\* The node of a call of dereference releases the next hash inside it.
LEMMA ReleaseInsideCounts ==
  ASSUME NEW m \in Memory, NEW m2, NEW p \in Cached(m), NEW c \in Nodes, c \notin DOMAIN m.dirties[p].children,
         NEW calls, NEW calls2, NEW d, Meta \in DOMAIN m.dirties,
         Released(m, m2, c, p), Counts(m, calls, d), NEW t \in Inside(Cached(m), calls, c),
         Inside(Cached(m), calls2, c) = Inside(Cached(m), calls, c) \ {t},
         \A h : h # c => Inside(Cached(m), calls2, h) = Inside(Cached(m), calls, h)
  PROVE  Counts(m2, calls2, d)
  <1> DEFINE f == m.dirties
             g == m2.dirties
  <1>1. /\ Cached(m2) = Cached(m) /\ Cached(m) \subseteq DOMAIN f /\ Cached(m) \in SUBSET Nodes
        /\ m2 \in Memory /\ DOMAIN g = DOMAIN f /\ Meta \notin Cached(m)
    BY CachedNodes, Zenon DEF Cached, Released
  <1>2. /\ \A x \in DOMAIN f \ {p} : g[x].children = f[x].children
        /\ DOMAIN g[p].children = DOMAIN f[p].children
    BY Zenon DEF Released
  <1>3. g[Meta].children = f[Meta].children  BY <1>1, <1>2, Zenon
  <1>4. \A h : RootRefs(m2, h) = RootRefs(m, h)  BY <1>3, Zenon DEF RootRefs
  <1>5. \A h : External(m2, h) = External(m, h)  BY <1>1, <1>2, Zenon DEF External
  <1>6. \A h : h # c => Total(m2, calls2, h) = Total(m, calls, h)  BY <1>1, <1>4, <1>5, Zenon DEF Total
  <1>7. Total(m2, calls2, c) = Total(m, calls, c) - 1 /\ Total(m, calls, c) \in Nat \ {0} /\ Referred(m, calls, c)
    <2> DEFINE a == Cardinality(Inside(Cached(m), calls, c))
               b == Cardinality(External(m, c))
               r == RootRefs(m, c)
    <2>1. a \in Nat /\ b \in Nat /\ r \in Nat  BY <1>1, InsideFinite, ExternalFinite, RootRefsType, Zenon
    <2>2. Cardinality(Inside(Cached(m), calls2, c)) = a - 1
      <3>1. IsFiniteSet(Inside(Cached(m), calls, c))  BY <1>1, InsideFinite, Zenon
      <3>2. Cardinality(Inside(Cached(m), calls, c) \ {t}) = a - 1  BY <3>1, FS_RemoveElement, Zenon
      <3> QED  BY <3>2, Zenon
    <2>3. Total(m, calls, c) = a + b + r /\ Total(m2, calls2, c) = (a - 1) + b + r
      BY <1>1, <1>4, <1>5, <2>2, Zenon DEF Total
    <2>4. Referred(m, calls, c)  BY Zenon DEF Referred
    <2>5. Total(m, calls, c) \in Nat /\ Total(m, calls, c) > 0  BY <2>4, TotalReferred, Zenon
    <2> HIDE DEF a, b, r
    <2> QED  BY <2>1, <2>3, <2>4, <2>5
  <1>8. \A h \in Nodes : Referred(m2, calls2, h) => Referred(m, calls, h)
    BY <1>1, <1>3, <1>5, Zenon DEF Referred
  <1> QED  BY <1>6, <1>7, <1>8, ReleaseCounts, Zenon

\* An entry leaves the cache to which nothing in memory only refers, and which refers to
\* nothing that is in memory only.
LEMMA DeleteCounts ==
  ASSUME NEW m \in Memory, NEW m2, NEW p \in Cached(m), NEW calls, NEW calls2, NEW d, Meta \in DOMAIN m.dirties,
         Deleted(m, m2, p), Counts(m, calls, d), p \in d \/ ~Referred(m, calls, p),
         \A h \in Nodes \ d : /\ h \notin DOMAIN m.dirties[p].children
                              /\ Inside(Cached(m) \ {p}, calls2, h) = Inside(Cached(m), calls, h)
  PROVE  Counts(m2, calls2, d)
  <1> DEFINE f == m.dirties
             g == m2.dirties
  <1>1. Cached(m2) = Cached(m) \ {p} /\ Cached(m) \subseteq DOMAIN f /\ p # Meta  BY Zenon DEF Cached, Deleted
  <1>2. \A x \in Cached(m2) \cup {Meta} : SameNode(g[x], f[x])  BY <1>1, Zenon DEF Deleted
  <1>3. g[Meta].children = f[Meta].children  BY <1>2, Zenon DEF SameNode
  <1>4. \A h : RootRefs(m2, h) = RootRefs(m, h)  BY <1>3, Zenon DEF RootRefs
  <1>5. \A h \in Nodes \ d : External(m2, h) = External(m, h)  BY <1>1, <1>2, Zenon DEF External, SameNode
  <1>6. \A h \in Nodes \ d : /\ Total(m2, calls2, h) = Total(m, calls, h)
                             /\ Referred(m2, calls2, h) <=> Referred(m, calls, h)
    BY <1>1, <1>3, <1>4, <1>5, Zenon DEF Total, Referred
  <1> QED  BY <1>1, <1>2, <1>6, Zenon DEF Counts, SameNode

------------------------------------------------------------------------------
\* The invariant of the cache.

\* The entries that no call of dereference in progress is about
Live(m, calls) == Cached(m) \ {calls[i].node : i \in DOMAIN calls}

\* Nodes come after what they refer to, or that is on disk.
ChildFirst(L, d, pos) ==
    \A p \in L : \A c \in Children(p) : c \in d \/ (c \in L /\ pos[c] < pos[p])

\* Entries record references to what their node refers to only, and all of those but the
\* ones in hole.
Recorded(m, calls, d, hole) ==
    /\ \A p \in Cached(m) : /\ DOMAIN m.dirties[p].children \subseteq Refs[p]
                            /\ \A c \in DOMAIN m.dirties[p].children : m.dirties[p].children[c] = 1
    /\ \A p \in Live(m, calls) : \A c \in Refs[p] :
            c \in d \/ c \in DOMAIN m.dirties[p].children \/ <<p, c>> \in hole

\* The calls of dereference in progress: nodes nothing refers to, each below the one before.
Dying(m, calls) ==
    /\ calls \in Seq(CallType)
    /\ \A i \in DOMAIN calls :
        /\ calls[i].node \in Cached(m) /\ m.dirties[calls[i].node].parents = 0
        /\ calls[i].ext = DOMAIN m.dirties[calls[i].node].children
        /\ 1 <= calls[i].next /\ calls[i].next <= Len(Kids[calls[i].node]) + 1
        /\ calls[i].ext # {} => calls[i].next = 1
    /\ \A i, j \in DOMAIN calls : i < j => Height[calls[j].node] < Height[calls[i].node]

\* What holds of the cache between any two steps, with the calls of dereference in progress,
\* the nodes on disk, the references not recorded yet and the order of the flush-list.
CacheInv(m, calls, d, hole, pos) ==
    /\ m \in Memory /\ Meta \in DOMAIN m.dirties
    /\ Counts(m, calls, d) /\ Recorded(m, calls, d, hole) /\ Dying(m, calls)
    /\ Linked(m, Live(m, calls), pos) /\ ChildFirst(Live(m, calls), d, pos)

\* Without a dereference in progress every entry is live.
LEMMA NoCalls ==
  ASSUME NEW m
  PROVE  Live(m, << >>) = Cached(m) /\ Dying(m, << >>)
  BY DEF Live, Dying

\* What the steps below need of the types.
LEMMA CacheFacts ==
  ASSUME NEW m, NEW calls, NEW d, NEW hole, NEW pos, CacheInv(m, calls, d, hole, pos)
  PROVE  /\ Live(m, calls) \subseteq Cached(m) /\ Cached(m) \subseteq Nodes
         /\ Cached(m) \subseteq DOMAIN m.dirties /\ Meta \notin Cached(m)
         /\ \A x \in DOMAIN m.dirties : m.dirties[x] \in Entry
         /\ DOMAIN m.dirties \subseteq Hashes
         /\ m.oldest # Meta => m.newest \in DOMAIN m.dirties
  <1>1. m \in Memory /\ Linked(m, Live(m, calls), pos)  BY Zenon DEF CacheInv
  <1>2. Live(m, calls) \subseteq Cached(m) /\ Cached(m) \subseteq DOMAIN m.dirties /\ Meta \notin Cached(m)
    BY Zenon DEF Live, Cached
  <1>3. m.oldest # Meta => m.newest \in Live(m, calls)  BY <1>1, Zenon DEF Linked
  <1>4. Cached(m) \subseteq Nodes /\ \A x \in DOMAIN m.dirties : m.dirties[x] \in Entry  BY <1>1, CachedNodes, Zenon
  <1>5. DOMAIN m.dirties \subseteq Hashes  BY <1>1, MapType, Zenon DEF Memory
  <1> QED  BY <1>2, <1>3, <1>4, <1>5, Zenon

\* insert keeps the cache sound, but for the references that are to be recorded.
LEMMA InsertCache ==
  ASSUME NEW m, NEW d, NEW pos \in [Nodes -> Nat], CacheInv(m, << >>, d, {}, pos),
         NEW h \in Nodes, Children(h) \subseteq Cached(m) \cup d
  PROVE  \E pos2 \in [Nodes -> Nat] : CacheInv(insert(m, h), << >>, d, {h} \X Refs[h], pos2)
  <1>1. /\ Live(m, << >>) = Cached(m) /\ Cached(m) \subseteq Nodes /\ Cached(m) \subseteq DOMAIN m.dirties
        /\ Meta \notin Cached(m) /\ (m.oldest # Meta => m.newest \in DOMAIN m.dirties) /\ m \in Memory
        /\ Meta \in DOMAIN m.dirties /\ h # Meta
    BY NoCalls, CacheFacts, ShapeAssumption, Zenon DEF CacheInv
  <1>2. CASE h \in DOMAIN m.dirties
    <2>1. insert(m, h) = m  BY <1>2, Zenon DEF insert
    <2>2. Recorded(m, << >>, d, {h} \X Refs[h])  BY Zenon DEF CacheInv, Recorded
    <2> QED  BY <2>1, <2>2, Zenon DEF CacheInv
  <1>3. CASE h \notin DOMAIN m.dirties
    <2> DEFINE m2 == insert(m, h)
    <2>1. Inserted(m, m2, h)  BY <1>1, <1>3, InsertEffect, Zenon
    <2> HIDE DEF m2
    <2>2. PICK pos2 \in [Nodes -> Nat] : LinkedLast(m2, Cached(m), h, pos, pos2)
      <3>1. Linked(m, Cached(m), pos)  BY <1>1, Zenon DEF CacheInv
      <3> QED  BY <1>1, <1>3, <2>1, <3>1, InsertLinked, Zenon
    <2>3. /\ m2 \in Memory /\ Meta \in DOMAIN m2.dirties /\ Cached(m2) = Cached(m) \cup {h}
          /\ Live(m2, << >>) = Cached(m2) /\ Dying(m2, << >>)
      BY <1>1, <2>1, NoCalls DEF Inserted, Cached
    <2>4. Counts(m2, << >>, d)
      BY <1>1, <1>3, <2>1, InsertCounts, Zenon DEF CacheInv, Children
    <2>5. Recorded(m2, << >>, d, {h} \X Refs[h])
      <3>1. m2.dirties[h].children = << >>  BY <2>1 DEF Inserted, newNode
      <3>2. DOMAIN m2.dirties[h].children = {}  BY <3>1
      <3>3. \A x \in Cached(m) : m2.dirties[x].children = m.dirties[x].children  BY <1>1, <2>1, Zenon DEF Inserted
      <3>4. Recorded(m, << >>, d, {})  BY Zenon DEF CacheInv
      <3>5. \A p \in Cached(m2) : /\ DOMAIN m2.dirties[p].children \subseteq Refs[p]
                                  /\ \A c \in DOMAIN m2.dirties[p].children : m2.dirties[p].children[c] = 1
        <4>1. \A p \in Cached(m) : /\ DOMAIN m.dirties[p].children \subseteq Refs[p]
                                  /\ \A c \in DOMAIN m.dirties[p].children : m.dirties[p].children[c] = 1
          BY <3>4, Zenon DEF Recorded
        <4> TAKE p \in Cached(m2)
        <4>2. CASE p = h  BY <3>2, <4>2, Zenon
        <4>3. CASE p # h
          <5>1. p \in Cached(m)  BY <2>3, <4>3, Zenon
          <5>2. m2.dirties[p].children = m.dirties[p].children  BY <3>3, <5>1, Zenon
          <5> QED  BY <4>1, <5>1, <5>2, Zenon
        <4> QED  BY <4>2, <4>3, Zenon
      <3>6. ASSUME NEW p \in Cached(m2), NEW c \in Refs[p]
            PROVE  c \in d \/ c \in DOMAIN m2.dirties[p].children \/ <<p, c>> \in {h} \X Refs[h]
        <4>1. CASE p = h  BY <4>1, Zenon
        <4>2. CASE p # h  BY <1>1, <2>3, <3>3, <3>4, <4>2, Zenon DEF Recorded
        <4> QED  BY <4>1, <4>2, Zenon
      <3> QED  BY <2>3, <3>5, <3>6, SMTT(30) DEF Recorded
    <2>6. ChildFirst(Cached(m2), d, pos2)
      <3>1. ChildFirst(Cached(m), d, pos)  BY <1>1, Zenon DEF CacheInv
      <3> QED  BY <2>2, <2>3, <3>1, Zenon DEF ChildFirst, LinkedLast
    <2> QED  BY <2>2, <2>3, <2>4, <2>5, <2>6, Zenon DEF CacheInv, LinkedLast, m2
  <1> QED  BY <1>2, <1>3, Zenon

\* reference keeps the cache sound, and records one reference.
LEMMA ReferenceCache ==
  ASSUME NEW m, NEW d, NEW hole, NEW pos, CacheInv(m, << >>, d, hole, pos),
         NEW p \in DOMAIN m.dirties, NEW c \in Nodes, c # p,
         p = Meta \/ c \in Refs[p]
  PROVE  CacheInv(reference(m, c, p), << >>, d, hole \ {<<p, c>>}, pos)
  <1>1. /\ Live(m, << >>) = Cached(m) /\ Cached(m) \subseteq Nodes /\ Cached(m) \subseteq DOMAIN m.dirties
        /\ Meta \notin Cached(m) /\ m \in Memory /\ Meta \in DOMAIN m.dirties
        /\ Recorded(m, << >>, d, hole) /\ ChildFirst(Cached(m), d, pos) /\ Linked(m, Cached(m), pos)
        /\ Counts(m, << >>, d) /\ Dying(m, << >>) /\ c # Meta
    BY NoCalls, CacheFacts, ShapeAssumption, Zenon DEF CacheInv
  <1>2. CASE c \notin DOMAIN m.dirties \/ (c \in DOMAIN m.dirties[p].children /\ p # Meta)
    <2>1. reference(m, c, p) = m  BY <1>2, Zenon DEF reference
    <2>2. p \in Cached(m) => c \in d \/ c \in DOMAIN m.dirties[p].children
      BY <1>1, <1>2, Zenon DEF ChildFirst, Children, Cached
    <2>3. Recorded(m, << >>, d, hole \ {<<p, c>>})  BY <1>1, <2>2, Zenon DEF Recorded
    <2> QED  BY <1>1, <2>1, <2>3, Zenon DEF CacheInv
  <1>3. CASE c \in DOMAIN m.dirties /\ (p = Meta \/ c \notin DOMAIN m.dirties[p].children)
    <2> DEFINE m2 == reference(m, c, p)
    <2>1. Referenced(m, m2, c, p)  BY <1>1, <1>3, ReferenceEffect, Zenon
    <2> HIDE DEF m2
    <2>2. /\ m2 \in Memory /\ Meta \in DOMAIN m2.dirties /\ Cached(m2) = Cached(m) /\ c \in Cached(m)
          /\ Live(m2, << >>) = Cached(m) /\ Dying(m2, << >>)
      BY <1>1, <1>3, <2>1, NoCalls, Zenon DEF Referenced, Cached
    <2>3. Counts(m2, << >>, d)  BY <1>1, <1>3, <2>1, <2>2, ReferenceCounts, Zenon
    <2>4. Recorded(m2, << >>, d, hole \ {<<p, c>>})
      <3>1. \A x \in Cached(m) \ {p} : m2.dirties[x].children = m.dirties[x].children  BY <1>1, <2>1, Zenon DEF Referenced
      <3>2. p \in Cached(m) => /\ DOMAIN m2.dirties[p].children = DOMAIN m.dirties[p].children \cup {c}
                               /\ m2.dirties[p].children[c] = 1
                               /\ \A x \in DOMAIN m.dirties[p].children \ {c} :
                                    m2.dirties[p].children[x] = m.dirties[p].children[x]
        BY <1>1, <1>3, <2>1, Zenon DEF Referenced
      <3>3. \A x \in Cached(m) : /\ DOMAIN m2.dirties[x].children \subseteq Refs[x]
                                 /\ \A y \in DOMAIN m2.dirties[x].children : m2.dirties[x].children[y] = 1
        BY <1>1, <3>1, <3>2 DEF Recorded
      <3>4. \A x \in Cached(m) : \A y \in Refs[x] :
              y \in d \/ y \in DOMAIN m2.dirties[x].children \/ <<x, y>> \in hole \ {<<p, c>>}
        BY <1>1, <3>1, <3>2, Zenon DEF Recorded
      <3> QED  BY <2>2, <3>3, <3>4, Zenon DEF Recorded
    <2>5. Linked(m2, Cached(m), pos)
      BY <1>1, <2>1, LinkedFrame DEF Referenced, SameLinks
    <2> QED  BY <1>1, <2>2, <2>3, <2>4, <2>5, Zenon DEF CacheInv, m2
  <1> QED  BY <1>2, <1>3, Zenon

\* What a live entry refers to and is not on disk is counted as referred to.
LEMMA LiveRefers ==
  ASSUME NEW m, NEW calls, NEW d, NEW pos, CacheInv(m, calls, d, {}, pos),
         NEW p \in Live(m, calls), NEW x \in Children(p), x \notin d
  PROVE  Referred(m, calls, x)
  <1>1. p \in Cached(m) /\ p \in Nodes  BY CacheFacts, Zenon
  <1>2. CASE x \in Refs[p]
    <2>1. x \in DOMAIN m.dirties[p].children  BY <1>2, Zenon DEF CacheInv, Recorded
    <2> QED  BY <1>1, <2>1, Zenon DEF Referred, External
  <1>3. CASE x \in Range(Kids[p])
    <2>1. PICK j \in DOMAIN Kids[p] : Kids[p][j] = x  BY <1>3, Zenon DEF Range
    <2>2. <<p, j>> \in Slots(Cached(m))  BY <1>1, SlotPair, Zenon
    <2>3. \A i \in DOMAIN calls : calls[i].node # p  BY Zenon DEF Live
    <2>4. <<p, j>> \in Inside(Cached(m), calls, x)  BY <2>1, <2>2, <2>3, Zenon DEF Inside
    <2> QED  BY <2>4, Zenon DEF Referred
  <1> QED  BY <1>2, <1>3, Zenon DEF Children

\* The innermost call turns to child c.
Turned(calls, calls2, c) ==
    LET n == Len(calls)
        f == calls[n]
        g == calls2[n]
    IN  /\ n \in DOMAIN calls /\ calls2 \in Seq(CallType) /\ DOMAIN calls2 = DOMAIN calls
        /\ \A i \in DOMAIN calls \ {n} : calls2[i] = calls[i]
        /\ g.node = f.node
        /\ \/ c \in f.ext /\ g.ext = f.ext \ {c} /\ g.next = f.next
           \/ /\ f.ext = {} /\ f.next \in DOMAIN Kids[f.node] /\ c = Kids[f.node][f.next]
              /\ g.ext = {} /\ g.next = f.next + 1

\* Releasing a reference of the metaroot keeps the cache sound.
LEMMA ReleaseRootCache ==
  ASSUME NEW m, NEW d, NEW pos, CacheInv(m, << >>, d, {}, pos), NEW c \in Nodes,
         c \in DOMAIN m.dirties[Meta].children \/ c \in d, NEW m2, Released(m, m2, c, Meta)
  PROVE  CacheInv(m2, << >>, d, {}, pos)
  <1>1. /\ Live(m, << >>) = Cached(m) /\ Cached(m) \subseteq DOMAIN m.dirties /\ Meta \notin Cached(m)
        /\ m \in Memory /\ Meta \in DOMAIN m.dirties
        /\ Recorded(m, << >>, d, {}) /\ ChildFirst(Cached(m), d, pos) /\ Linked(m, Cached(m), pos)
        /\ Counts(m, << >>, d)
    BY NoCalls, CacheFacts, Zenon DEF CacheInv
  <1>2. /\ m2 \in Memory /\ Meta \in DOMAIN m2.dirties /\ Cached(m2) = Cached(m)
        /\ Live(m2, << >>) = Cached(m) /\ Dying(m2, << >>)
    BY <1>1, NoCalls, Zenon DEF Released, Cached
  <1>3. Counts(m2, << >>, d)  BY <1>1, ReleaseRootCounts, Zenon
  <1>4. Recorded(m2, << >>, d, {})
    <2>1. \A x \in Cached(m) : m2.dirties[x].children = m.dirties[x].children  BY <1>1, Zenon DEF Released
    <2> QED  BY <1>1, <1>2, <2>1, Zenon DEF Recorded
  <1>5. Linked(m2, Cached(m), pos)  BY <1>1, LinkedFrame DEF Released, SameLinks
  <1> QED  BY <1>1, <1>2, <1>3, <1>4, <1>5, Zenon DEF CacheInv

\* What the innermost call turns to is below the nodes of all calls, so it is none of them.
LEMMA TurnedBelow ==
  ASSUME NEW m, NEW calls, NEW d, NEW pos, CacheInv(m, calls, d, {}, pos), NEW calls2, NEW c,
         Turned(calls, calls2, c)
  PROVE  /\ c \in Nodes /\ calls \in Seq(CallType) /\ Len(calls) \in DOMAIN calls
         /\ \A i \in DOMAIN calls : calls2[i].node = calls[i].node /\ Height[c] < Height[calls[i].node]
  <1> DEFINE n == Len(calls)
             p == calls[n].node
  <1>1. calls \in Seq(CallType) /\ Dying(m, calls) /\ n \in DOMAIN calls  BY Zenon DEF CacheInv, Dying, Turned
  <1>2. p \in Nodes /\ p \in Cached(m) /\ \A i \in DOMAIN calls : calls[i].node \in Nodes
    <2>1. \A i \in DOMAIN calls : calls[i] \in CallType  BY <1>1
    <2>2. \A i \in DOMAIN calls : calls[i].node \in Nodes  BY <2>1, Zenon DEF CallType
    <2> QED  BY <1>1, <2>2, Zenon DEF Dying
  <1>3. c \in Children(p)
    <2>1. CASE c \in calls[n].ext
      <3>1. c \in DOMAIN m.dirties[p].children  BY <1>1, <2>1, Zenon DEF Dying
      <3>2. Recorded(m, calls, d, {})  BY Zenon DEF CacheInv
      <3> QED  BY <1>2, <3>1, <3>2, Zenon DEF Recorded, Children
    <2>2. CASE calls[n].next \in DOMAIN Kids[p] /\ c = Kids[p][calls[n].next]
      BY <2>2, Zenon DEF Children, Range
    <2> QED  BY <2>1, <2>2, Zenon DEF Turned
  <1>4. c \in Nodes /\ Height[c] \in Nat /\ Height[c] < Height[p]
    <2>1. Children(p) \subseteq Nodes
      <3>1. Kids[p] \in Seq(Nodes) /\ Refs[p] \subseteq Nodes  BY <1>2, ShapeAssumption, Zenon
      <3> QED  BY <3>1 DEF Children, Range
    <2> QED  BY <1>2, <1>3, <2>1, ShapeAssumption, Zenon
  <1>5. ASSUME NEW i \in DOMAIN calls
        PROVE  Height[c] < Height[calls[i].node]
    <2>1. i = n \/ i < n  BY <1>1
    <2>2. i < n => Height[p] < Height[calls[i].node]  BY <1>1, Zenon DEF Dying
    <2>3. Height[p] \in Nat /\ Height[calls[i].node] \in Nat  BY <1>2, ShapeAssumption, Zenon
    <2> QED  BY <1>4, <2>1, <2>2, <2>3, SMTT(30)
  <1>6. \A i \in DOMAIN calls : calls2[i].node = calls[i].node  BY Zenon DEF Turned
  <1> QED  BY <1>1, <1>4, <1>5, <1>6, Zenon

\* Releasing the child the innermost call turns to keeps the cache sound.
LEMMA ReleaseChildCache ==
  ASSUME NEW m, NEW calls, NEW d, NEW pos, CacheInv(m, calls, d, {}, pos), NEW calls2, NEW c,
         Turned(calls, calls2, c), NEW m2, Released(m, m2, c, calls[Len(calls)].node)
  PROVE  CacheInv(m2, calls2, d, {}, pos)
  <1> DEFINE n == Len(calls)
             p == calls[n].node
  <1>1. /\ c \in Nodes /\ calls \in Seq(CallType) /\ n \in DOMAIN calls
        /\ \A i \in DOMAIN calls : calls2[i].node = calls[i].node /\ Height[c] < Height[calls[i].node]
    BY TurnedBelow, Zenon
  <1>2. /\ m \in Memory /\ Meta \in DOMAIN m.dirties /\ Cached(m) \subseteq Nodes
        /\ Cached(m) \subseteq DOMAIN m.dirties /\ Meta \notin Cached(m) /\ Live(m, calls) \subseteq Cached(m)
    BY CacheFacts, Zenon DEF CacheInv
  <1>3. Counts(m, calls, d) /\ Recorded(m, calls, d, {}) /\ Dying(m, calls)  BY Zenon DEF CacheInv
  <1>4. /\ m2 \in Memory /\ Meta \in DOMAIN m2.dirties /\ Cached(m2) = Cached(m)
        /\ DOMAIN calls2 = DOMAIN calls /\ Live(m2, calls2) = Live(m, calls)
    <2>1. DOMAIN calls2 = DOMAIN calls  BY Zenon DEF Turned
    <2>2. m2 \in Memory /\ Meta \in DOMAIN m2.dirties /\ Cached(m2) = Cached(m)  BY <1>2, Zenon DEF Released, Cached
    <2>3. {calls2[i].node : i \in DOMAIN calls2} = {calls[i].node : i \in DOMAIN calls}  BY <1>1, <2>1, Zenon
    <2> QED  BY <2>1, <2>2, <2>3, Zenon DEF Live
  <1>5. /\ p \in Cached(m) /\ p \notin Live(m, calls) /\ calls[n].ext = DOMAIN m.dirties[p].children
        /\ \A x \in DOMAIN m.dirties[p].children : m.dirties[p].children[x] = 1
        /\ \A i \in DOMAIN calls : calls[i].node = p => i = n
    <2>1. p \in Cached(m) /\ calls[n].ext = DOMAIN m.dirties[p].children  BY <1>1, <1>3, Zenon DEF Dying
    <2>2. \A i \in DOMAIN calls : calls[i].node = p => i = n
      <3>1. \A i \in DOMAIN calls : i \in Nat /\ i <= n  BY <1>1
      <3>2. Height[p] \in Nat  BY <1>2, <2>1, ShapeAssumption, Zenon
      <3>3. \A i \in DOMAIN calls : i < n => Height[p] < Height[calls[i].node]  BY <1>1, <1>3, Zenon DEF Dying
      <3> QED  BY <1>1, <3>1, <3>2, <3>3, SMTT(30)
    <2> QED  BY <1>1, <1>3, <2>1, <2>2, Zenon DEF Live, Recorded
  <1>6. Counts(m2, calls2, d)
    <2>1. CASE c \in calls[n].ext /\ calls2[n].next = calls[n].next
      <3>1. \A i \in DOMAIN calls : calls2[i].node = calls[i].node /\ calls2[i].next = calls[i].next
        BY <1>1, <2>1, Zenon DEF Turned
      <3>2. \A h : Inside(Cached(m), calls2, h) = Inside(Cached(m), calls, h)  BY <1>4, <3>1, Zenon DEF Inside
      <3>3. c \in DOMAIN m.dirties[p].children /\ m.dirties[p].children[c] = 1  BY <1>5, <2>1, Zenon
      <3> QED  BY <1>2, <1>3, <1>5, <3>2, <3>3, ReleaseExternalCounts, Zenon
    <2>2. CASE /\ calls[n].ext = {} /\ calls[n].next \in DOMAIN Kids[p] /\ c = Kids[p][calls[n].next]
               /\ calls2[n].next = calls[n].next + 1
      <3> DEFINE t == <<p, calls[n].next>>
      <3>1. \A i \in DOMAIN calls : calls[i].next \in Nat
        <4>1. \A i \in DOMAIN calls : calls[i] \in CallType  BY <1>1
        <4> QED  BY <4>1, Zenon DEF CallType
      <3>2. \A i \in DOMAIN calls \ {n} : calls2[i].next = calls[i].next  BY Zenon DEF Turned
      <3>3. Kids[p] \in Seq(Nodes)  BY <1>2, <1>5, ShapeAssumption, Zenon
      <3>4. Passes(Cached(m), calls, calls2, p, calls[n].next)
        BY <1>1, <1>4, <1>5, <2>2, <3>1, <3>2, <3>3, InsideTurn, Zenon
      <3>5. c \notin DOMAIN m.dirties[p].children  BY <1>5, <2>2, Zenon
      <3> HIDE DEF t, n, p
      <3> QED  BY <1>1, <1>2, <1>3, <1>5, <2>2, <3>4, <3>5, ReleaseInsideCounts, Zenon DEF n, p, t, Passes
    <2> QED  BY <2>1, <2>2, Zenon DEF Turned
  <1>7. Recorded(m2, calls2, d, {})
    <2>1. \A x \in Cached(m) \ {p} : m2.dirties[x].children = m.dirties[x].children  BY <1>2, Zenon DEF Released
    <2>2. /\ DOMAIN m2.dirties[p].children \subseteq DOMAIN m.dirties[p].children
          /\ \A x \in DOMAIN m2.dirties[p].children : m2.dirties[p].children[x] = m.dirties[p].children[x]
      BY <1>5, Zenon DEF Released
    <2>3. \A x \in Cached(m) : /\ DOMAIN m2.dirties[x].children \subseteq Refs[x]
                               /\ \A y \in DOMAIN m2.dirties[x].children : m2.dirties[x].children[y] = 1
      <3>1. \A x \in Cached(m) : /\ DOMAIN m.dirties[x].children \subseteq Refs[x]
                                 /\ \A y \in DOMAIN m.dirties[x].children : m.dirties[x].children[y] = 1
        BY <1>3, Zenon DEF Recorded
      <3>2. \A x \in Cached(m) \ {p} : /\ DOMAIN m2.dirties[x].children \subseteq Refs[x]
                                       /\ \A y \in DOMAIN m2.dirties[x].children : m2.dirties[x].children[y] = 1
        BY <2>1, <3>1, Zenon
      <3>3. /\ DOMAIN m2.dirties[p].children \subseteq Refs[p]
            /\ \A y \in DOMAIN m2.dirties[p].children : m2.dirties[p].children[y] = 1
        BY <1>5, <2>2, <3>1, Zenon
      <3> HIDE DEF p
      <3> QED  BY <3>2, <3>3
    <2>4. \A x \in Live(m, calls) : m2.dirties[x].children = m.dirties[x].children  BY <1>2, <1>5, <2>1, Zenon
    <2> QED  BY <1>3, <1>4, <2>3, <2>4, Zenon DEF Recorded
  <1>8. Dying(m2, calls2)
    <2>1. calls2 \in Seq(CallType)  BY Zenon DEF Turned
    <2>2. ASSUME NEW i \in DOMAIN calls
          PROVE  /\ calls2[i].node \in Cached(m2) /\ m2.dirties[calls2[i].node].parents = 0
                 /\ calls2[i].ext = DOMAIN m2.dirties[calls2[i].node].children
                 /\ 1 <= calls2[i].next /\ calls2[i].next <= Len(Kids[calls2[i].node]) + 1
                 /\ calls2[i].ext # {} => calls2[i].next = 1
      <3> DEFINE x == calls[i].node
      <3>1. /\ x \in Cached(m) /\ m.dirties[x].parents = 0 /\ calls[i].ext = DOMAIN m.dirties[x].children
            /\ 1 <= calls[i].next /\ calls[i].next <= Len(Kids[x]) + 1 /\ (calls[i].ext # {} => calls[i].next = 1)
        BY <1>3, Zenon DEF Dying
      <3>2. calls2[i].node = x  BY <1>1, Zenon
      <3>3. m2.dirties[x].parents = 0
        <4>1. x \in DOMAIN m.dirties /\ ~(m.dirties[x].parents > 0)  BY <1>2, <3>1, SMTT(30)
        <4>2. m2.dirties[x].parents = m.dirties[x].parents - 0  BY <4>1, Zenon DEF Released
        <4> QED  BY <3>1, <4>2, SMTT(30)
      <3>4. CASE i # n
        <4>1. calls2[i] = calls[i] /\ x # p  BY <1>5, <3>4, Zenon DEF Turned
        <4>2. m2.dirties[x].children = m.dirties[x].children  BY <1>2, <3>1, <4>1, Zenon DEF Released
        <4> QED  BY <1>4, <3>1, <3>2, <3>3, <4>1, <4>2, Zenon
      <3>5. CASE i = n
        <4>1. CASE c \in calls[n].ext /\ calls2[n].ext = calls[n].ext \ {c} /\ calls2[n].next = calls[n].next
          <5>1. c \in DOMAIN m.dirties[p].children /\ m.dirties[p].children[c] = 1  BY <1>5, <4>1, Zenon
          <5>2. DOMAIN m2.dirties[p].children = DOMAIN m.dirties[p].children \ {c}  BY <5>1, Zenon DEF Released
          <5> QED  BY <1>4, <3>1, <3>2, <3>3, <3>5, <4>1, <5>2, Zenon
        <4>2. CASE /\ calls[n].ext = {} /\ calls[n].next \in DOMAIN Kids[p] /\ calls2[n].ext = {}
                   /\ calls2[n].next = calls[n].next + 1
          <5>1. DOMAIN m2.dirties[p].children = {}  BY <1>5, <4>2, Zenon DEF Released
          <5>2. Kids[p] \in Seq(Nodes)  BY <1>2, <1>5, ShapeAssumption, Zenon
          <5>3. Len(Kids[p]) \in Nat /\ calls[n].next \in Nat /\ calls[n].next <= Len(Kids[p])  BY <4>2, <5>2
          <5> QED  BY <1>4, <3>1, <3>2, <3>3, <3>5, <4>2, <5>1, <5>3, SMTT(30)
        <4> QED  BY <4>1, <4>2, Zenon DEF Turned
      <3> QED  BY <3>4, <3>5, Zenon
    <2>3. \A i, j \in DOMAIN calls2 : i < j => Height[calls2[j].node] < Height[calls2[i].node]
      BY <1>1, <1>3, <1>4, Zenon DEF Dying
    <2> QED  BY <1>4, <2>1, <2>2, <2>3, Zenon DEF Dying
  <1>9. Linked(m2, Live(m, calls), pos) /\ ChildFirst(Live(m, calls), d, pos)
    <2>1. Linked(m, Live(m, calls), pos) /\ ChildFirst(Live(m, calls), d, pos)  BY Zenon DEF CacheInv
    <2>2. /\ m2.oldest = m.oldest /\ m2.newest = m.newest
          /\ \A x \in Live(m, calls) : SameLinks(m2.dirties[x], m.dirties[x])
      BY <1>2, Zenon DEF Released
    <2> QED  BY <2>1, <2>2, LinkedFrame, Zenon DEF SameLinks
  <1> QED  BY <1>4, <1>6, <1>7, <1>8, <1>9, Zenon DEF CacheInv

\* A node nothing refers to any more leaves the flush-list, and dereference is called for its children.
LEMMA UnlinkCache ==
  ASSUME NEW m, NEW calls, NEW d, NEW pos \in [Nodes -> Nat], CacheInv(m, calls, d, {}, pos),
         NEW c \in Live(m, calls), m.dirties[c].parents = 0,
         \A i \in DOMAIN calls : Height[c] < Height[calls[i].node]
  PROVE  CacheInv(unlink(m, c), Append(calls, call(m, c)), d, {}, pos)
  <1> DEFINE m2 == unlink(m, c)
             f == call(m, c)
             calls2 == Append(calls, f)
             L == Live(m, calls)
  <1>1. /\ m \in Memory /\ Meta \in DOMAIN m.dirties /\ Cached(m) \subseteq Nodes /\ L \subseteq Cached(m)
        /\ Cached(m) \subseteq DOMAIN m.dirties /\ Meta \notin Cached(m) /\ c \in Cached(m) /\ c \in Nodes
    BY CacheFacts, Zenon DEF CacheInv
  <1>2. /\ Counts(m, calls, d) /\ Recorded(m, calls, d, {}) /\ Dying(m, calls) /\ calls \in Seq(CallType)
        /\ Linked(m, L, pos) /\ ChildFirst(L, d, pos)
    BY Zenon DEF CacheInv, Dying
  <1>3. Unlinked(m, m2, L, pos, c)  BY <1>1, <1>2, UnlinkEffect, Zenon
  <1>4. /\ f.node = c /\ f.ext = DOMAIN m.dirties[c].children /\ f.next = 1 /\ f \in CallType
    <2>1. DOMAIN m.dirties[c].children \subseteq Refs[c]  BY <1>1, <1>2, Zenon DEF Recorded
    <2>2. Refs[c] \subseteq Nodes  BY <1>1, ShapeAssumption, Zenon
    <2> QED  BY <1>1, <2>1, <2>2, Zenon DEF call, CallType
  <1> HIDE DEF m2, f, L
  <1>5. /\ calls2 \in Seq(CallType) /\ DOMAIN calls2 = DOMAIN calls \cup {Len(calls) + 1}
        /\ calls2[Len(calls) + 1] = f /\ \A i \in DOMAIN calls : calls2[i] = calls[i] /\ i < Len(calls) + 1
        /\ Len(calls) \in Nat
    BY <1>2, <1>4
  <1>6. \A h : Inside(Cached(m), calls2, h) = Inside(Cached(m), calls, h)  BY <1>1, <1>2, <1>4, InsideAppend, Zenon
  <1> HIDE DEF calls2
  <1>7. /\ m2 \in Memory /\ Meta \in DOMAIN m2.dirties /\ Cached(m2) = Cached(m)
        /\ \A x \in DOMAIN m.dirties : SameNode(m2.dirties[x], m.dirties[x])
        /\ Linked(m2, L \ {c}, pos)
    BY <1>1, <1>3, Zenon DEF Unlinked, Cached
  <1>8. Live(m2, calls2) = L \ {c}
    BY <1>4, <1>5, <1>7 DEF Live, L
  <1>9. Counts(m2, calls2, d)
    <2>1. Counts(m, calls2, d)  BY <1>2, <1>6, Zenon DEF Counts, Total, Referred
    <2> QED  BY <1>1, <1>3, <2>1, CountsFrame, Zenon DEF Unlinked
  <1>10. Recorded(m2, calls2, d, {})
    <2>1. \A x \in Cached(m) : m2.dirties[x].children = m.dirties[x].children  BY <1>1, <1>7, Zenon DEF SameNode
    <2> QED  BY <1>1, <1>2, <1>7, <1>8, <2>1, SMTT(30) DEF Recorded, L
  <1>11. Dying(m2, calls2)
    <2>1. \A x \in Cached(m) : /\ m2.dirties[x].children = m.dirties[x].children
                               /\ m2.dirties[x].parents = m.dirties[x].parents
      BY <1>1, <1>7, Zenon DEF SameNode
    <2>2. \A i, j \in DOMAIN calls2 : i < j => Height[calls2[j].node] < Height[calls2[i].node]
      <3> SUFFICES ASSUME NEW i \in DOMAIN calls2, NEW j \in DOMAIN calls2, i < j
                   PROVE  Height[calls2[j].node] < Height[calls2[i].node]
        BY Zenon
      <3>1. i \in DOMAIN calls
        <4>1. DOMAIN calls = 1 .. Len(calls)  BY <1>2, SMTT(30)
        <4> QED  BY <1>5, <4>1, SMTT(30)
      <3>2. CASE j \in DOMAIN calls  BY <1>2, <1>5, <3>1, <3>2, Zenon DEF Dying
      <3>3. CASE j = Len(calls) + 1  BY <1>4, <1>5, <3>1, <3>3, Zenon
      <3> QED  BY <1>5, <3>2, <3>3, Zenon
    <2>3. /\ f.node \in Cached(m) /\ m2.dirties[f.node].parents = 0
          /\ f.ext = DOMAIN m2.dirties[f.node].children /\ 1 <= f.next /\ f.next <= Len(Kids[f.node]) + 1
      <3>1. Kids[c] \in Seq(Nodes)  BY <1>1, ShapeAssumption, Zenon
      <3>2. Len(Kids[c]) \in Nat  BY <3>1
      <3> QED  BY <1>1, <1>4, <2>1, <3>2, SMTT(30)
    <2>4. ASSUME NEW i \in DOMAIN calls
          PROVE  /\ calls2[i].node \in Cached(m2) /\ m2.dirties[calls2[i].node].parents = 0
                 /\ calls2[i].ext = DOMAIN m2.dirties[calls2[i].node].children
                 /\ 1 <= calls2[i].next /\ calls2[i].next <= Len(Kids[calls2[i].node]) + 1
                 /\ calls2[i].ext # {} => calls2[i].next = 1
      <3>1. calls2[i] = calls[i] /\ Cached(m2) = Cached(m)  BY <1>5, <1>7, Zenon
      <3>2. /\ calls[i].node \in Cached(m) /\ m.dirties[calls[i].node].parents = 0
            /\ calls[i].ext = DOMAIN m.dirties[calls[i].node].children
            /\ 1 <= calls[i].next /\ calls[i].next <= Len(Kids[calls[i].node]) + 1
            /\ calls[i].ext # {} => calls[i].next = 1
        BY <1>2, Zenon DEF Dying
      <3> QED  BY <2>1, <3>1, <3>2, Zenon
    <2> QED  BY <1>4, <1>5, <1>7, <2>2, <2>3, <2>4, Zenon DEF Dying
  <1>12. ChildFirst(L \ {c}, d, pos)
    <2>1. ~Referred(m, calls, c) \/ c \in d
      <3>1. c \notin d => Total(m, calls, c) = 0  BY <1>1, <1>2, Zenon DEF Counts
      <3> QED  BY <1>1, <3>1, TotalReferred, SMTT(30)
    <2>2. \A p \in L : c \in Children(p) => c \in d  BY <2>1, LiveRefers, Zenon DEF L
    <2> QED  BY <1>2, <2>2, Zenon DEF ChildFirst
  <1> QED  BY <1>7, <1>8, <1>9, <1>10, <1>11, <1>12, Zenon DEF CacheInv, m2, calls2, f

\* The last step of dereference: the node has released everything and is deleted.
LEMMA DeleteDeadCache ==
  ASSUME NEW m, NEW calls, NEW d, NEW pos, CacheInv(m, calls, d, {}, pos), calls # << >>,
         calls[Len(calls)].ext = {}, calls[Len(calls)].next \notin DOMAIN Kids[calls[Len(calls)].node],
         NEW m2 \in Memory, DOMAIN m2.dirties = DOMAIN m.dirties \ {calls[Len(calls)].node},
         \A x \in DOMAIN m2.dirties : m2.dirties[x] = m.dirties[x],
         m2.oldest = m.oldest, m2.newest = m.newest
  PROVE  CacheInv(m2, SubSeq(calls, 1, Len(calls) - 1), d, {}, pos)
  <1> DEFINE n == Len(calls)
             p == calls[n].node
             calls2 == SubSeq(calls, 1, n - 1)
             L == Live(m, calls)
  <1>1. /\ m \in Memory /\ Meta \in DOMAIN m.dirties /\ Cached(m) \subseteq Nodes /\ L \subseteq Cached(m)
        /\ Cached(m) \subseteq DOMAIN m.dirties /\ Meta \notin Cached(m)
    BY CacheFacts, Zenon DEF CacheInv
  <1>2. /\ Counts(m, calls, d) /\ Recorded(m, calls, d, {}) /\ Dying(m, calls) /\ calls \in Seq(CallType)
        /\ Linked(m, L, pos) /\ ChildFirst(L, d, pos)
    BY Zenon DEF CacheInv, Dying
  <1>3. /\ n \in Nat /\ n \in DOMAIN calls /\ DOMAIN calls = 1 .. n
        /\ calls2 \in Seq(CallType) /\ DOMAIN calls2 = 1 .. (n - 1)
        /\ \A i \in 1 .. (n - 1) : calls2[i] = calls[i]
    <2>1. calls \in Seq(CallType)  BY <1>2, Zenon
    <2>2. n \in Nat /\ DOMAIN calls = 1 .. n /\ n # 0  BY <2>1
    <2>3. /\ calls2 \in Seq(CallType) /\ DOMAIN calls2 = 1 .. (n - 1)
          /\ \A i \in 1 .. (n - 1) : calls2[i] = calls[i]
      BY <2>1, <2>2, SMTT(30)
    <2> QED  BY <2>2, <2>3
  <1> HIDE DEF calls2, L
  <1>4. DOMAIN calls2 = DOMAIN calls \ {n} /\ \A i \in DOMAIN calls2 : calls2[i] = calls[i]  BY <1>3, SMTT(30)
  <1>5. /\ p \in Cached(m) /\ m.dirties[p].parents = 0 /\ DOMAIN m.dirties[p].children = {}
        /\ \A i \in DOMAIN calls2 : calls[i].node # p
    <2>1. p \in Cached(m) /\ m.dirties[p].parents = 0 /\ DOMAIN m.dirties[p].children = {}
      BY <1>2, <1>3, Zenon DEF Dying
    <2>2. Height[p] \in Nat  BY <1>1, <2>1, ShapeAssumption, Zenon
    <2>3. \A i \in DOMAIN calls2 : Height[p] < Height[calls[i].node]
      <3>1. \A i, j \in DOMAIN calls : i < j => Height[calls[j].node] < Height[calls[i].node]  BY <1>2, Zenon DEF Dying
      <3>2. \A i \in DOMAIN calls2 : i \in DOMAIN calls /\ i < n  BY <1>3
      <3> QED  BY <1>3, <3>1, <3>2, Zenon
    <2> QED  BY <2>1, <2>2, <2>3, SMTT(30)
  <1>6. /\ Cached(m2) = Cached(m) \ {p} /\ Meta \in DOMAIN m2.dirties /\ Live(m2, calls2) = L
        /\ L \subseteq DOMAIN m2.dirties /\ Cached(m2) \subseteq DOMAIN m2.dirties
    <2>1. Cached(m2) = Cached(m) \ {p} /\ Meta \in DOMAIN m2.dirties /\ Cached(m2) \subseteq DOMAIN m2.dirties
      BY <1>1, <1>5, Zenon DEF Cached
    <2>2. Live(m2, calls2) = L  BY <1>3, <1>4, <2>1 DEF Live, L
    <2> QED  BY <2>1, <2>2, Zenon DEF Live
  <1>7. Counts(m2, calls2, d)
    <2>1. p \in d \/ ~Referred(m, calls, p)
      <3>1. p \notin d => Total(m, calls, p) = 0  BY <1>1, <1>2, <1>5, Zenon DEF Counts
      <3> QED  BY <1>1, <3>1, TotalReferred
    <2>2. Deleted(m, m2, p)  BY Zenon DEF Deleted, SameNode
    <2>3. \A h : Inside(Cached(m) \ {p}, calls2, h) = Inside(Cached(m), calls, h)
      <3>1. \A j \in DOMAIN Kids[p] : ~(calls[n].next <= j)
        <4>1. Kids[p] \in Seq(Nodes)  BY <1>1, <1>5, ShapeAssumption, Zenon
        <4>2. DOMAIN Kids[p] = 1 .. Len(Kids[p]) /\ Len(Kids[p]) \in Nat  BY <4>1, SMTT(30)
        <4>3. 1 <= calls[n].next /\ calls[n] \in CallType  BY <1>2, <1>3, SMTT(30) DEF Dying
        <4>4. calls[n].next \in Nat  BY <4>3, Zenon DEF CallType
        <4> QED  BY <4>2, <4>3, <4>4, SMTT(30)
      <3>2. \A t \in Slots(Cached(m)) : t[1] \in Cached(m) /\ t[2] \in DOMAIN Kids[t[1]]  BY SlotPair, Zenon
      <3>3. Slots(Cached(m) \ {p}) = {t \in Slots(Cached(m)) : t[1] # p}
        <4>1. \A t \in Slots(Cached(m) \ {p}) : t[1] # p /\ t \in Slots(Cached(m))  BY SlotPair DEF Slots
        <4>2. \A t \in Slots(Cached(m)) : t[1] # p => t \in Slots(Cached(m) \ {p})  BY SlotPair DEF Slots
        <4> QED  BY <4>1, <4>2, Zenon
      <3>4. \A t \in Slots(Cached(m)) :
              (\A i \in DOMAIN calls : calls[i].node = t[1] => calls[i].next <= t[2])
              <=> t[1] # p /\ \A i \in DOMAIN calls2 : calls2[i].node = t[1] => calls2[i].next <= t[2]
        <4> TAKE t \in Slots(Cached(m))
        <4>1. n \in DOMAIN calls /\ calls[n].node = p  BY <1>3, <1>5, Zenon
        <4>2. CASE t[1] = p  BY <3>1, <3>2, <4>1, <4>2, Zenon
        <4>3. CASE t[1] # p
          <5>1. \A i \in DOMAIN calls2 : i \in DOMAIN calls /\ calls2[i] = calls[i]  BY <1>4, Zenon
          <5>2. \A i \in DOMAIN calls : i = n \/ i \in DOMAIN calls2  BY <1>3, <1>4, Zenon
          <5> QED  BY <4>1, <4>3, <5>1, <5>2, Zenon
        <4> QED  BY <4>2, <4>3, Zenon
      <3> QED  BY <3>3, <3>4, Zenon DEF Inside
    <2> QED  BY <1>1, <1>2, <1>5, <2>1, <2>2, <2>3, DeleteCounts, Zenon
  <1>8. Recorded(m2, calls2, d, {})
    <2>1. \A x \in Cached(m2) : x \in Cached(m) /\ m2.dirties[x].children = m.dirties[x].children  BY <1>6, Zenon
    <2>2. Live(m2, calls2) = Live(m, calls) /\ Live(m, calls) \subseteq Cached(m2)  BY <1>6, Zenon DEF L, Live
    <2>3. \A x \in Cached(m2) : /\ DOMAIN m2.dirties[x].children \subseteq Refs[x]
                               /\ \A c \in DOMAIN m2.dirties[x].children : m2.dirties[x].children[c] = 1
      BY <1>2, <2>1, SMTT(30) DEF Recorded
    <2>4. \A x \in Live(m2, calls2) : \A c \in Refs[x] :
              c \in d \/ c \in DOMAIN m2.dirties[x].children \/ <<x, c>> \in {}
      BY <1>2, <2>1, <2>2, Zenon DEF Recorded
    <2> QED  BY <2>3, <2>4, Zenon DEF Recorded
  <1>9. Dying(m2, calls2)
    <2>1. \A i \in DOMAIN calls2 : calls[i].node \in Cached(m2) /\ m2.dirties[calls[i].node] = m.dirties[calls[i].node]
      BY <1>2, <1>4, <1>5, <1>6, Zenon DEF Dying
    <2>2. \A i \in DOMAIN calls2 : i \in DOMAIN calls /\ calls2[i] = calls[i]  BY <1>4, Zenon
    <2>3. \A i \in DOMAIN calls2 :
            /\ m2.dirties[calls[i].node].parents = 0 /\ calls[i].ext = DOMAIN m2.dirties[calls[i].node].children
            /\ 1 <= calls[i].next /\ calls[i].next <= Len(Kids[calls[i].node]) + 1
            /\ calls[i].ext # {} => calls[i].next = 1
      BY <1>2, <2>1, <2>2 DEF Dying
    <2>4. \A i, j \in DOMAIN calls2 : i < j => Height[calls[j].node] < Height[calls[i].node]
      BY <1>2, <2>2, Zenon DEF Dying
    <2> QED  BY <1>3, <2>1, <2>2, <2>3, <2>4, Zenon DEF Dying
  <1>10. Linked(m2, L, pos)  BY <1>2, <1>6, LinkedFrame, Zenon
  <1> QED  BY <1>2, <1>6, <1>7, <1>8, <1>9, <1>10, Zenon DEF CacheInv, calls2

\* An entry whose node is on disk, with what it refers to, leaves the cache.
LEMMA RemoveCache ==
  ASSUME NEW m, NEW d, NEW pos, CacheInv(m, << >>, d, {}, pos), NEW p \in Cached(m), p \in d, Children(p) \subseteq d,
         NEW m2 \in Memory, Deleted(m, m2, p), Linked(m2, Cached(m) \ {p}, pos)
  PROVE  CacheInv(m2, << >>, d, {}, pos)
  <1>1. /\ m \in Memory /\ Meta \in DOMAIN m.dirties /\ Live(m, << >>) = Cached(m)
        /\ Cached(m) \subseteq DOMAIN m.dirties /\ Meta \notin Cached(m)
    BY NoCalls, CacheFacts, Zenon DEF CacheInv
  <1>2. Counts(m, << >>, d) /\ Recorded(m, << >>, d, {}) /\ ChildFirst(Cached(m), d, pos)
    BY <1>1, Zenon DEF CacheInv
  <1>3. /\ Cached(m2) = Cached(m) \ {p} /\ Meta \in DOMAIN m2.dirties /\ Live(m2, << >>) = Cached(m2)
        /\ Cached(m2) \subseteq DOMAIN m2.dirties /\ Dying(m2, << >>)
    BY <1>1, NoCalls, Zenon DEF Deleted, Cached
  <1>4. Counts(m2, << >>, d)
    <2>1. \A h \in Nodes \ d : h \notin DOMAIN m.dirties[p].children  BY <1>2, Zenon DEF Recorded, Children
    <2>2. ASSUME NEW h \in Nodes \ d
          PROVE  Inside(Cached(m) \ {p}, << >>, h) = Inside(Cached(m), << >>, h)
      <3>1. \A j \in DOMAIN Kids[p] : Kids[p][j] # h  BY Zenon DEF Children, Range
      <3>2. \A t \in Slots(Cached(m)) : t[1] = p => Kids[t[1]][t[2]] # h  BY <3>1, SlotPair, Zenon
      <3>3. \A t \in Slots(Cached(m)) : t[1] # p => t \in Slots(Cached(m) \ {p})  BY SlotPair DEF Slots
      <3>4. Slots(Cached(m) \ {p}) \subseteq Slots(Cached(m))  BY Zenon DEF Slots
      <3> QED  BY <3>2, <3>3, <3>4, Zenon DEF Inside
    <2> QED  BY <1>1, <1>2, <2>1, <2>2, DeleteCounts, Zenon
  <1>5. Recorded(m2, << >>, d, {})
    <2>1. \A x \in Cached(m2) : m2.dirties[x].children = m.dirties[x].children  BY <1>3, Zenon DEF Deleted, SameNode
    <2>2. \A x \in Cached(m2) : x \in Cached(m)  BY <1>3, Zenon
    <2>3. \A x \in Cached(m) : /\ DOMAIN m.dirties[x].children \subseteq Refs[x]
                               /\ \A c \in DOMAIN m.dirties[x].children : m.dirties[x].children[c] = 1
                               /\ \A c \in Refs[x] : c \in d \/ c \in DOMAIN m.dirties[x].children
      BY <1>1, <1>2, Zenon DEF Recorded
    <2> QED  BY <1>3, <2>1, <2>2, <2>3 DEF Recorded
  <1>6. ChildFirst(Cached(m2), d, pos)  BY <1>2, <1>3, Zenon DEF ChildFirst
  <1> QED  BY <1>3, <1>4, <1>5, <1>6, Zenon DEF CacheInv

\* The disk only grows.
LEMMA DiskGrows ==
  ASSUME NEW m, NEW calls, NEW d, NEW hole, NEW pos, CacheInv(m, calls, d, hole, pos), NEW d2, d \subseteq d2
  PROVE  CacheInv(m, calls, d2, hole, pos)
  <1>1. Counts(m, calls, d2)  BY Zenon DEF CacheInv, Counts
  <1>2. Recorded(m, calls, d2, hole)  BY Zenon DEF CacheInv, Recorded
  <1>3. ChildFirst(Live(m, calls), d2, pos)  BY Zenon DEF CacheInv, ChildFirst
  <1> QED  BY <1>1, <1>2, <1>3, Zenon DEF CacheInv

\* The pointers of the flush-list, the sizes and the preimages say nothing about references.
LEMMA RelinkCache ==
  ASSUME NEW m, NEW calls, NEW d, NEW hole, NEW pos, CacheInv(m, calls, d, hole, pos),
         NEW m2 \in Memory, DOMAIN m2.dirties = DOMAIN m.dirties,
         \A x \in DOMAIN m.dirties : SameNode(m2.dirties[x], m.dirties[x]), Linked(m2, Live(m, calls), pos)
  PROVE  CacheInv(m2, calls, d, hole, pos)
  <1>1. Cached(m2) = Cached(m) /\ Live(m2, calls) = Live(m, calls)  BY Zenon DEF Cached, Live
  <1>2. \A x \in Cached(m) : /\ m2.dirties[x].children = m.dirties[x].children
                             /\ m2.dirties[x].parents = m.dirties[x].parents
    BY Zenon DEF Cached, SameNode
  <1>3. Counts(m2, calls, d)  BY CountsFrame, Zenon DEF CacheInv
  <1>4. Recorded(m2, calls, d, hole)  BY <1>1, <1>2, Zenon DEF CacheInv, Recorded, Live
  <1>5. Dying(m2, calls)  BY <1>1, <1>2, Zenon DEF CacheInv, Dying
  <1> QED  BY <1>1, <1>3, <1>4, <1>5, Zenon DEF CacheInv

\* A database that is just opened is sound.
LEMMA FreshCache ==
  ASSUME NEW d
  PROVE  /\ \E pos \in [Nodes -> Nat] : CacheInv(NewDatabase, << >>, d, {}, pos)
         /\ Cached(NewDatabase) = {} /\ NewDatabase.preimages = {}
  <1> DEFINE m == NewDatabase
             e == [h \in {Meta} |-> newNode(Meta, TRUE)]
             n == e[Meta]
  <1>1. m.dirties = e /\ m.oldest = Meta /\ m.newest = Meta /\ m.size = 0 /\ m.wraps = 0 /\ m.preimages = {}
    BY Zenon DEF NewDatabase
  <1>2. DOMAIN e = {Meta} /\ n = newNode(Meta, TRUE)  BY Zenon
  <1>3. n \in Entry /\ DOMAIN n.children = {}
    <2>1. << >> \in Maps(Nodes, Nat \ {0}) /\ DOMAIN << >> = {}  BY EmptyMap, Zenon
    <2>2. n.children = << >>  BY <1>2, Zenon DEF newNode
    <2> QED  BY <1>2, <2>1, <2>2, Zenon DEF Entry, newNode, Hashes
  <1>4. m \in Memory
    <2>1. e \in Maps(Hashes, Entry)
      <3>1. e = [x \in DOMAIN e |-> e[x]] /\ DOMAIN e \subseteq Hashes /\ \A x \in DOMAIN e : e[x] \in Entry
        BY <1>2, <1>3, Zenon DEF Hashes
      <3> HIDE DEF e
      <3> QED  BY <3>1, MapType, Zenon
    <2> HIDE DEF e
    <2> QED  BY <1>1, <2>1 DEF Memory, NewDatabase, Hashes, e
  <1>5. Cached(m) = {} /\ Meta \in DOMAIN m.dirties /\ DOMAIN m.dirties[Meta].children = {}
    BY <1>1, <1>2, <1>3, Zenon DEF Cached
  <1>6. Live(m, << >>) = {} /\ Dying(m, << >>)  BY <1>5, NoCalls, Zenon
  <1>7. Counts(m, << >>, d)
    <2>1. \A h : ~Referred(m, << >>, h)
      <3>1. \A h : Inside({}, << >>, h) = {}  BY Zenon DEF Inside, Slots
      <3> QED  BY <1>5, <3>1, Zenon DEF Referred, External
    <2> QED  BY <1>5, <2>1, Zenon DEF Counts
  <1>8. CacheInv(m, << >>, d, {}, [h \in Nodes |-> 0])
    BY <1>1, <1>4, <1>5, <1>6, <1>7, Zenon DEF CacheInv, Recorded, Linked, ChildFirst
  <1>9. [h \in Nodes |-> 0] \in [Nodes -> Nat]  BY Zenon
  <1> QED  BY <1>1, <1>5, <1>8, <1>9, Zenon

\* What Size returns is a number.
LEMMA SizeType ==
  ASSUME NEW m \in Memory, Meta \in DOMAIN m.dirties
  PROVE  Size(m) \in Int
  <1>1. Cardinality(Cached(m)) \in Nat  BY CachedNodes, FS_CardinalityType, Zenon
  <1>2. Cardinality(DOMAIN m.dirties[Meta].children) \in Nat
    <2>1. m.dirties[Meta] \in Entry  BY CachedNodes, Zenon
    <2>2. m.dirties[Meta].children \in Maps(Nodes, Nat \ {0})  BY <2>1, Zenon DEF Entry
    <2>3. DOMAIN m.dirties[Meta].children \subseteq Nodes  BY <2>2, MapType
    <2> QED  BY <2>3, ShapeAssumption, FS_Subset, FS_CardinalityType, Zenon
  <1>3. m.size \in Int  BY Zenon DEF Memory
  <1>4. /\ MetaSize * Cardinality(Cached(m)) \in Int
        /\ RefSize * Cardinality(DOMAIN m.dirties[Meta].children) \in Int
    BY <1>1, <1>2, SizeAssumption, SMTT(30)
  <1> QED  BY <1>3, <1>4, SMTT(30) DEF Size

\* The size of an entry is a number.
LEMMA EntrySizeType ==
  ASSUME NEW m \in Memory, NEW h \in Cached(m)
  PROVE  entrySize(m, h) \in Nat
  <1>1. h \in Nodes /\ m.dirties[h] \in Entry  BY CachedNodes, Zenon DEF Cached
  <1>2. Cardinality(DOMAIN m.dirties[h].children) \in Nat
    <2>1. m.dirties[h].children \in Maps(Nodes, Nat \ {0})  BY <1>1, Zenon DEF Entry
    <2>2. DOMAIN m.dirties[h].children \subseteq Nodes  BY <2>1, MapType, SMTT(30)
    <2> QED  BY <2>2, ShapeAssumption, FS_Subset, FS_CardinalityType, Zenon
  <1>3. RefSize * Cardinality(DOMAIN m.dirties[h].children) \in Nat  BY <1>2, SizeAssumption
  <1> QED  BY <1>1, <1>3, NodeSizes, SizeAssumption DEF entrySize

\* uncache keeps the cache sound, when the node and its children are on disk.
LEMMA UncacheCache ==
  ASSUME NEW m, NEW d, NEW pos \in [Nodes -> Nat], CacheInv(m, << >>, d, {}, pos),
         NEW p, p \in Nodes => p \in d /\ Children(p) \subseteq d, p # Meta
  PROVE  /\ CacheInv(uncache(m, p), << >>, d, {}, pos)
         /\ Cached(uncache(m, p)) = Cached(m) \ {p} /\ uncache(m, p).preimages = m.preimages
  <1>1. /\ m \in Memory /\ Meta \in DOMAIN m.dirties /\ Live(m, << >>) = Cached(m) /\ Cached(m) \subseteq Nodes
        /\ Cached(m) \subseteq DOMAIN m.dirties /\ Meta \notin Cached(m) /\ Linked(m, Cached(m), pos)
    BY NoCalls, CacheFacts, Zenon DEF CacheInv
  <1>2. CASE p \notin DOMAIN m.dirties  BY <1>2, Zenon DEF uncache, Cached
  <1>3. CASE p \in DOMAIN m.dirties
    <2>1. p \in Cached(m) /\ p \in Nodes  BY <1>1, <1>3, Zenon DEF Cached
    <2> DEFINE u == unlink(m, p)
               v == u.size - entrySize(m, p)
               e == Delete(u.dirties, p)
               m2 == [u EXCEPT !.dirties = e, !.size = v]
    <2>2. Unlinked(m, u, Cached(m), pos, p)  BY <1>1, <2>1, UnlinkEffect, Zenon
    <2>3. uncache(m, p) = m2  BY <1>3, Zenon DEF uncache
    <2> HIDE DEF u
    <2>4. u \in Memory /\ v \in Int
      <3>1. u \in Memory  BY <2>2, Zenon DEF Unlinked
      <3>2. u.size \in Int /\ entrySize(m, p) \in Nat  BY <1>1, <2>1, <3>1, EntrySizeType, Zenon DEF Memory
      <3> QED  BY <3>1, <3>2
    <2>8. /\ e \in Maps(Hashes, Entry) /\ DOMAIN e = DOMAIN u.dirties \ {p}
          /\ \A x \in DOMAIN e : e[x] = u.dirties[x]
      BY <2>4, DeleteType, Zenon DEF Memory, Delete
    <2> HIDE DEF v, e
    <2>5. /\ m2 \in Memory /\ DOMAIN m2.dirties = DOMAIN u.dirties \ {p}
          /\ \A x \in DOMAIN m2.dirties : m2.dirties[x] = u.dirties[x]
          /\ m2.oldest = u.oldest /\ m2.newest = u.newest /\ m2.preimages = u.preimages /\ m2.wraps = u.wraps
      BY <2>4, <2>8, Zenon DEF Memory
    <2> HIDE DEF m2
    <2>6. Deleted(m, m2, p)  BY <2>2, <2>5, Zenon DEF Deleted, Unlinked
    <2>7. Linked(m2, Cached(m) \ {p}, pos)
      <3>1. Linked(u, Cached(m) \ {p}, pos)  BY <2>2, Zenon DEF Unlinked
      <3>2. Cached(m) \ {p} \subseteq DOMAIN m2.dirties  BY <1>1, <2>6, Zenon DEF Deleted
      <3> QED  BY <2>5, <3>1, <3>2, LinkedFrame, Zenon
    <2>9. CacheInv(m2, << >>, d, {}, pos)  BY <2>1, <2>5, <2>6, <2>7, RemoveCache, Zenon
    <2>10. Cached(m2) = Cached(m) \ {p} /\ m2.preimages = m.preimages /\ m2.wraps = m.wraps
      BY <2>2, <2>5, <2>6, Zenon DEF Deleted, Unlinked, Cached
    <2> QED  BY <2>3, <2>9, <2>10, Zenon
  <1> QED  BY <1>2, <1>3, Zenon

\* Cap takes the oldest entry out of the cache, and leaves what follows as it is.
LEMMA FlushLinked ==
  ASSUME NEW m, NEW m2, NEW L \in SUBSET Nodes, NEW pos \in [Nodes -> Nat], Linked(m, L, pos), m.oldest \in L,
         m2.oldest = m.dirties[m.oldest].flushNext, m2.newest = m.newest,
         \A x \in L \ {m.oldest} : m2.dirties[x] = m.dirties[x], Meta \notin L
  PROVE  Linked(m2, L \ {m.oldest}, pos)
  <1>1. \A x \in L : pos[x] \in Nat  BY Zenon
  <1> QED  BY <1>1, OldestLinked, Zenon

\* The last loop of Cap keeps the cache sound: the oldest entry and its children are on disk.
LEMMA FlushCache ==
  ASSUME NEW m, NEW d, NEW pos \in [Nodes -> Nat], CacheInv(m, << >>, d, {}, pos),
         m.oldest # Meta, m.oldest \in d, Children(m.oldest) \subseteq d,
         NEW m2 \in Memory, Deleted(m, m2, m.oldest), m2.oldest = m.dirties[m.oldest].flushNext, m2.newest = m.newest,
         \A x \in DOMAIN m2.dirties : m2.dirties[x] = m.dirties[x]
  PROVE  CacheInv(m2, << >>, d, {}, pos)
  <1>1. /\ m \in Memory /\ Meta \in DOMAIN m.dirties /\ Live(m, << >>) = Cached(m) /\ Cached(m) \subseteq Nodes
        /\ Cached(m) \subseteq DOMAIN m.dirties /\ Meta \notin Cached(m) /\ Linked(m, Cached(m), pos)
    BY NoCalls, CacheFacts, Zenon DEF CacheInv
  <1>2. m.oldest \in Cached(m) /\ Cached(m) \ {m.oldest} \subseteq DOMAIN m2.dirties
    BY <1>1, Zenon DEF Linked, Deleted
  <1>3. Linked(m2, Cached(m) \ {m.oldest}, pos)  BY <1>1, <1>2, FlushLinked, Zenon
  <1> QED  BY <1>2, <1>3, RemoveCache, Zenon
==============================================================================
