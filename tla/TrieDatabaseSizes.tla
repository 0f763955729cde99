-------------------------- MODULE TrieDatabaseSizes --------------------------
\* TrieDatabase: the size that the cache reports is the sum of what its entries take, less the
\* overflows of insert, through every operation, and Cap stops only when the reported size meets
\* its limit.
EXTENDS TrieDatabaseProofs

\* What the overflows of insert have taken from the size
Lost(m) == Width * m.wraps

\* The size, with what was lost, is what the entries and the references of the metaroot take; an
\* entry without a children map has no external children.
Sized(m) ==
    /\ m.size + Lost(m) = Cardinality(Bytes(m, Cached(m))) + RefSize * Cardinality(DOMAIN m.dirties[Meta].children)
    /\ \A h \in DOMAIN m.dirties : m.dirties[h].tracked \/ DOMAIN m.dirties[h].children = {}
    /\ m.dirties[Meta].tracked

\* The size and what it lost are numbers, and only insert loses something.
LEMMA LostType ==
  ASSUME NEW m \in Memory
  PROVE  /\ m.size \in Int /\ Lost(m) \in Int
         /\ \A m2 : m2.wraps = m.wraps => Lost(m2) = Lost(m)
  <1>1. m.size \in Int /\ m.wraps \in Nat  BY Zenon DEF Memory
  <1>2. Width \in Nat  BY SizeAssumption, Zenon
  <1>3. Lost(m) \in Int  BY <1>1, <1>2, SMTT(30) DEF Lost
  <1> QED  BY <1>1, <1>3, Zenon DEF Lost

\* The external children of an entry can be counted.
LEMMA EntryChildren ==
  ASSUME NEW m \in Memory, NEW h \in DOMAIN m.dirties
  PROVE  /\ IsFiniteSet(DOMAIN m.dirties[h].children) /\ Cardinality(DOMAIN m.dirties[h].children) \in Nat
         /\ m.dirties[h].tracked \in BOOLEAN
  <1>1. m.dirties[h] \in Entry  BY CachedNodes, Zenon
  <1>2. m.dirties[h].children \in Maps(Nodes, Nat \ {0})  BY <1>1, Zenon DEF Entry
  <1>3. DOMAIN m.dirties[h].children \in SUBSET Nodes  BY <1>2, MapType
  <1>4. IsFiniteSet(DOMAIN m.dirties[h].children)  BY <1>3, ShapeAssumption, FS_Subset, Zenon
  <1> QED  BY <1>1, <1>4, FS_CardinalityType, Zenon DEF Entry

\* The bytes of entries are told by their children maps.
LEMMA BytesFrame ==
  ASSUME NEW m, NEW m2, NEW S,
         \A x \in S : SameNode(m2.dirties[x], m.dirties[x])
  PROVE  Bytes(m2, S) = Bytes(m, S) /\ \A x \in S : entrySize(m2, x) = entrySize(m, x)
  <1>1. \A x \in S : entrySize(m2, x) = entrySize(m, x)  BY Zenon DEF SameNode, entrySize
  <1> QED  BY <1>1, Zenon DEF Bytes

\* The bytes of entries can be counted.
LEMMA BytesFinite ==
  ASSUME NEW m, NEW S \in SUBSET Nodes, \A h \in S : entrySize(m, h) \in Nat
  PROVE  IsFiniteSet(Bytes(m, S)) /\ Cardinality(Bytes(m, S)) \in Nat
  <1> DEFINE F == [h \in S |-> {h} \X (1 .. entrySize(m, h))]
             T == {{h} \X (1 .. entrySize(m, h)) : h \in S}
  <1>1. IsFiniteSet(S)  BY ShapeAssumption, FS_Subset, Zenon
  <1>2. F \in Surjection(S, T)  BY Zenon DEF Surjection
  <1>3. IsFiniteSet(T)  BY <1>1, <1>2, FS_Surjection, Zenon
  <1>4. ASSUME NEW h \in S  PROVE IsFiniteSet({h} \X (1 .. entrySize(m, h)))
    <2>1. IsFiniteSet(1 .. entrySize(m, h))  BY FS_Interval
    <2> QED  BY <2>1, FS_Product, FS_Singleton, Zenon
  <1>5. \A U \in T : IsFiniteSet(U)  BY <1>4, Zenon
  <1>6. IsFiniteSet(Bytes(m, S))  BY <1>3, <1>5, FS_UNION, Zenon DEF Bytes
  <1> QED  BY <1>6, FS_CardinalityType, Zenon

\* One entry more adds its size.
LEMMA BytesAdd ==
  ASSUME NEW m, NEW S \in SUBSET Nodes, NEW p \in Nodes \ S, \A h \in S \cup {p} : entrySize(m, h) \in Nat
  PROVE  Cardinality(Bytes(m, S \cup {p})) = Cardinality(Bytes(m, S)) + entrySize(m, p)
  <1> DEFINE n == entrySize(m, p)
             I == 1 .. n
             A == Bytes(m, S)
             B == {p} \X I
  <1>1. IsFiniteSet(A) /\ Cardinality(A) \in Nat /\ n \in Nat  BY BytesFinite, Zenon
  <1> HIDE DEF n
  <1>2. IsFiniteSet(I) /\ Cardinality(I) = n
    <2>1. 1 \in Int /\ n \in Int  BY <1>1
    <2>2. IsFiniteSet(1 .. n) /\ Cardinality(1 .. n) = (IF 1 > n THEN 0 ELSE n - 1 + 1)  BY <2>1, FS_Interval, Zenon
    <2> QED  BY <1>1, <2>2, SMTT(30)
  <1>3. IsFiniteSet(B) /\ Cardinality(B) = n
    <2>1. IsFiniteSet({p}) /\ Cardinality({p}) = 1  BY FS_Singleton, Zenon
    <2>2. IsFiniteSet(B) /\ Cardinality(B) = Cardinality({p}) * Cardinality(I)  BY <1>2, <2>1, FS_Product, Zenon
    <2> QED  BY <1>1, <1>2, <2>1, <2>2, SMTT(30)
  <1>4. Bytes(m, S \cup {p}) = A \cup B  BY Zenon DEF Bytes, n
  <1>5. A \cap B = {}  BY DEF Bytes
  <1>6. Cardinality(A \cap B) = 0  BY <1>5, FS_EmptySet, Zenon
  <1> HIDE DEF A, B, I
  <1>7. Cardinality(A \cup B) = Cardinality(A) + Cardinality(B) - Cardinality(A \cap B)
    BY <1>1, <1>3, FS_Union, Zenon
  <1>8. Cardinality(A \cup B) = Cardinality(A) + n  BY <1>1, <1>3, <1>6, <1>7, SMTT(30)
  <1> QED  BY <1>4, <1>8, Zenon DEF A, n

\* One entry less takes its size away.
LEMMA BytesRemove ==
  ASSUME NEW m, NEW S \in SUBSET Nodes, NEW p \in S, \A h \in S : entrySize(m, h) \in Nat
  PROVE  /\ Cardinality(Bytes(m, S \ {p})) \in Nat
         /\ Cardinality(Bytes(m, S)) = Cardinality(Bytes(m, S \ {p})) + entrySize(m, p)
  <1> DEFINE R == S \ {p}
  <1>1. R \in SUBSET Nodes /\ p \in Nodes \ R /\ S = R \cup {p}  BY Zenon
  <1> HIDE DEF R
  <1>2. \A h \in R \cup {p} : entrySize(m, h) \in Nat  BY <1>1, Zenon
  <1>3. Cardinality(Bytes(m, R \cup {p})) = Cardinality(Bytes(m, R)) + entrySize(m, p)  BY <1>1, <1>2, BytesAdd, Zenon
  <1>4. Cardinality(Bytes(m, R)) \in Nat  BY <1>1, <1>2, BytesFinite, Zenon
  <1> QED  BY <1>1, <1>3, <1>4, Zenon DEF R

\* The sizes of all entries are numbers, and so is their sum.
LEMMA EntrySizes ==
  ASSUME NEW m \in Memory
  PROVE  /\ Cached(m) \in SUBSET Nodes /\ \A h \in Cached(m) : entrySize(m, h) \in Nat /\ h \in DOMAIN m.dirties
         /\ Cardinality(Bytes(m, Cached(m))) \in Nat
  <1>1. Cached(m) \in SUBSET Nodes  BY CachedNodes, Zenon
  <1>2. \A h \in Cached(m) : entrySize(m, h) \in Nat /\ h \in DOMAIN m.dirties  BY EntrySizeType, Zenon DEF Cached
  <1> QED  BY <1>1, <1>2, BytesFinite, Zenon

\* The lists, the counters and the preimages take no part in the size.
LEMMA SizedFrame ==
  ASSUME NEW m, NEW m2, Sized(m), Meta \in DOMAIN m.dirties, DOMAIN m2.dirties = DOMAIN m.dirties,
         m2.size = m.size, m2.wraps = m.wraps,
         \A x \in DOMAIN m.dirties : m2.dirties[x].children = m.dirties[x].children /\ m2.dirties[x].tracked = m.dirties[x].tracked
  PROVE  Sized(m2)
  <1>1. Cached(m2) = Cached(m) /\ Cached(m) \subseteq DOMAIN m.dirties  BY Zenon DEF Cached
  <1>2. \A x \in Cached(m) : entrySize(m2, x) = entrySize(m, x)  BY <1>1, Zenon DEF entrySize
  <1>3. Bytes(m2, Cached(m)) = Bytes(m, Cached(m))  BY <1>2, Zenon DEF Bytes
  <1> QED  BY <1>1, <1>3, Zenon DEF Sized, Lost

\* insert adds the size of the node, or loses 2^16 of it.
LEMMA InsertSized ==
  ASSUME NEW m \in Memory, NEW m2, NEW h \in Nodes, Sized(m), Meta \in DOMAIN m.dirties, h \notin DOMAIN m.dirties,
         Inserted(m, m2, h)
  PROVE  Sized(m2)
  <1> DEFINE S == Cached(m)
  <1>1. h # Meta /\ m2 \in Memory /\ Cached(m2) = S \cup {h} /\ S \in SUBSET Nodes /\ h \in Nodes \ S
        /\ S \subseteq DOMAIN m.dirties
    <2>1. h # Meta /\ m2 \in Memory /\ DOMAIN m2.dirties = DOMAIN m.dirties \cup {h}
      BY ShapeAssumption, Zenon DEF Inserted
    <2> QED  BY <2>1, CachedNodes, Zenon DEF Cached
  <1>2. /\ \A x \in DOMAIN m.dirties : m2.dirties[x].children = m.dirties[x].children /\ m2.dirties[x].tracked = m.dirties[x].tracked
        /\ m2.dirties[h].tracked = FALSE /\ DOMAIN m2.dirties[h].children = {}
        /\ m2.size = m.size + (NodeSize[h] % Width) /\ m2.wraps = m.wraps + wrapped(h)
        /\ DOMAIN m2.dirties = DOMAIN m.dirties \cup {h}
    BY DEF Inserted, newNode
  <1>3. entrySize(m2, h) = NodeSize[h]
    <2>1. NodeSize[h] \in Nat  BY NodeSizes, Zenon
    <2> QED  BY <1>2, <2>1, SMTT(30) DEF entrySize
  <1>4. Bytes(m2, S) = Bytes(m, S)
    <2>1. \A x \in S : entrySize(m2, x) = entrySize(m, x)  BY <1>1, <1>2, Zenon DEF entrySize
    <2> QED  BY <2>1, Zenon DEF Bytes
  <1>5. \A x \in S \cup {h} : entrySize(m2, x) \in Nat  BY <1>1, EntrySizes, Zenon
  <1>6. Cardinality(Bytes(m2, S \cup {h})) = Cardinality(Bytes(m2, S)) + entrySize(m2, h)  BY <1>1, <1>5, BytesAdd, Zenon
  <1>7. Lost(m2) = Lost(m) + Width * wrapped(h)
    <2>1. m.wraps \in Nat /\ Width \in Nat /\ wrapped(h) \in Nat  BY SizeAssumption, NodeSizes, Zenon DEF Memory
    <2>2. Width * (m.wraps + wrapped(h)) = Width * m.wraps + Width * wrapped(h)  BY <2>1, SMTT(30)
    <2> QED  BY <1>2, <2>2, Zenon DEF Lost
  <1>8. m2.size + Lost(m2) = Cardinality(Bytes(m2, Cached(m2))) + RefSize * Cardinality(DOMAIN m2.dirties[Meta].children)
    <2> DEFINE r == RefSize * Cardinality(DOMAIN m.dirties[Meta].children)
               k == Cardinality(Bytes(m, S))
               n == NodeSize[h]
               a == NodeSize[h] % Width
               x == Width * wrapped(h)
    <2>1. r \in Nat /\ k \in Nat  BY EntryChildren, EntrySizes, SizeAssumption, SMTT(30)
    <2>2. m.size + Lost(m) = k + r  BY Zenon DEF Sized
    <2>3. Cardinality(Bytes(m2, Cached(m2))) = k + n  BY <1>1, <1>3, <1>4, <1>6, Zenon
    <2>4. RefSize * Cardinality(DOMAIN m2.dirties[Meta].children) = r  BY <1>2, Zenon
    <2>5. n \in Nat /\ a \in Nat /\ a + x = n  BY NodeSizes, Zenon
    <2>6. x \in Int
      <3>1. Width \in Nat /\ wrapped(h) \in Nat  BY SizeAssumption, NodeSizes, Zenon
      <3> QED  BY <3>1, SMTT(30)
    <2>7. m2.size = m.size + a /\ Lost(m2) = Lost(m) + x /\ m.size \in Int /\ Lost(m) \in Int  BY <1>2, <1>7, LostType, Zenon
    <2> HIDE DEF k, r, n, a, x
    <2>8. m2.size + Lost(m2) = k + n + r  BY <2>1, <2>2, <2>5, <2>6, <2>7, SMTT(30)
    <2> QED  BY <2>3, <2>4, <2>8, Zenon
  <1> QED  BY <1>2, <1>8, Zenon DEF Sized

\* One entry changes by as much as the size.
LEMMA EntrySized ==
  ASSUME NEW m \in Memory, NEW m2 \in Memory, NEW p \in Cached(m), NEW delta \in Int, Sized(m), Meta \in DOMAIN m.dirties,
         DOMAIN m2.dirties = DOMAIN m.dirties, m2.size = m.size + delta, entrySize(m2, p) = entrySize(m, p) + delta,
         m2.wraps = m.wraps,
         m2.dirties[p].tracked \/ DOMAIN m2.dirties[p].children = {},
         \A x \in DOMAIN m.dirties \ {p} : m2.dirties[x].children = m.dirties[x].children /\ m2.dirties[x].tracked = m.dirties[x].tracked
  PROVE  Sized(m2)
  <1> DEFINE S == Cached(m)
             b == Cardinality(Bytes(m, S))
             c == Cardinality(Bytes(m2, S))
             r == RefSize * Cardinality(DOMAIN m.dirties[Meta].children)
  <1>1. /\ Cached(m2) = S /\ S \in SUBSET Nodes /\ S \subseteq DOMAIN m.dirties /\ p # Meta /\ b \in Nat
        /\ \A h \in S : entrySize(m, h) \in Nat /\ entrySize(m2, h) \in Nat
    BY EntrySizes, Zenon DEF Cached
  <1>2. Bytes(m2, S \ {p}) = Bytes(m, S \ {p})
    <2>1. \A x \in S \ {p} : entrySize(m2, x) = entrySize(m, x)  BY <1>1, Zenon DEF entrySize
    <2> QED  BY <2>1 DEF Bytes
  <1>3. b = Cardinality(Bytes(m, S \ {p})) + entrySize(m, p) /\ c = Cardinality(Bytes(m2, S \ {p})) + entrySize(m2, p)
        /\ Cardinality(Bytes(m, S \ {p})) \in Nat
    BY <1>1, BytesRemove, Zenon
  <1>4. r \in Nat  BY EntryChildren, SizeAssumption, SMTT(30)
  <1>5. m.size + Lost(m) = b + r  BY Zenon DEF Sized
  <1>6. RefSize * Cardinality(DOMAIN m2.dirties[Meta].children) = r  BY <1>1, Zenon
  <1> HIDE DEF r, b, c
  <1>7. c = b + delta
    <2>1. entrySize(m, p) \in Nat  BY <1>1, Zenon
    <2> QED  BY <1>2, <1>3, <2>1, SMTT(30)
  <1>8. m2.size + Lost(m2) = c + r
    <2>1. m.size \in Int /\ Lost(m) \in Int /\ Lost(m2) = Lost(m)  BY LostType, Zenon
    <2>2. b \in Int /\ r \in Int  BY <1>1, <1>4, SMTT(30)
    <2> DEFINE z == m.size
               l == Lost(m)
    <2>3. z + l = b + r /\ z \in Int /\ l \in Int  BY <1>5, <2>1, Zenon
    <2> HIDE DEF z, l
    <2>4. (z + delta) + l = (b + delta) + r  BY <2>2, <2>3, SMTT(30)
    <2> QED  BY <1>7, <2>1, <2>4, Zenon DEF z, l
  <1> QED  BY <1>1, <1>6, <1>8, Zenon DEF Sized, c

\* The metaroot's references change by as much as the size.
LEMMA RootSized ==
  ASSUME NEW m \in Memory, NEW m2, NEW delta \in Int, Sized(m), Meta \in DOMAIN m.dirties,
         DOMAIN m2.dirties = DOMAIN m.dirties, m2.size = m.size + RefSize * delta, m2.wraps = m.wraps,
         Cardinality(DOMAIN m2.dirties[Meta].children) = Cardinality(DOMAIN m.dirties[Meta].children) + delta,
         m2.dirties[Meta].tracked,
         \A x \in DOMAIN m.dirties \ {Meta} : m2.dirties[x].children = m.dirties[x].children /\ m2.dirties[x].tracked = m.dirties[x].tracked
  PROVE  Sized(m2)
  <1> DEFINE S == Cached(m)
             b == Cardinality(Bytes(m, S))
             k == Cardinality(DOMAIN m.dirties[Meta].children)
  <1>1. Cached(m2) = S /\ S \subseteq DOMAIN m.dirties \ {Meta}  BY Zenon DEF Cached
  <1>2. Bytes(m2, S) = Bytes(m, S)
    <2>1. \A x \in S : entrySize(m2, x) = entrySize(m, x)  BY <1>1, Zenon DEF entrySize
    <2> QED  BY <2>1, Zenon DEF Bytes
  <1>3. b \in Nat /\ k \in Nat /\ RefSize \in Nat  BY EntryChildren, EntrySizes, SizeAssumption, Zenon
  <1>4. m.size + Lost(m) = b + RefSize * k  BY Zenon DEF Sized
  <1> HIDE DEF b, k
  <1>5. RefSize * (k + delta) = RefSize * k + RefSize * delta  BY <1>3, SMTT(30)
  <1>6. m2.size + Lost(m2) = b + RefSize * (k + delta)
    <2> DEFINE x == RefSize * k
               y == RefSize * delta
    <2>1. x \in Int /\ y \in Int  BY <1>3
    <2>2. m.size + Lost(m) = b + x /\ m2.size = m.size + y /\ RefSize * (k + delta) = x + y  BY <1>4, <1>5, Zenon
    <2>3. m.size \in Int /\ Lost(m) \in Int /\ Lost(m2) = Lost(m)  BY LostType, Zenon
    <2> HIDE DEF x, y
    <2> QED  BY <1>3, <2>1, <2>2, <2>3, SMTT(30)
  <1> QED  BY <1>1, <1>2, <1>6, Zenon DEF Sized, b, k

\* reference adds the size of the map when it makes one, and that of a key when it is new.
LEMMA ReferenceSized ==
  ASSUME NEW m \in Memory, NEW m2, NEW c \in Nodes, NEW p \in DOMAIN m.dirties, Sized(m), Meta \in DOMAIN m.dirties,
         Referenced(m, m2, c, p)
  PROVE  Sized(m2)
  <1> DEFINE f == m.dirties[p]
             g == m2.dirties[p]
             known == c \in DOMAIN f.children
             n == Cardinality(DOMAIN f.children)
             k == IF known THEN 0 ELSE 1
  <1>1. /\ m2 \in Memory /\ DOMAIN m2.dirties = DOMAIN m.dirties /\ m2.wraps = m.wraps
        /\ m2.size = m.size + (IF f.tracked THEN 0 ELSE ChildrenSize) + (IF known THEN 0 ELSE RefSize)
        /\ g.tracked = TRUE /\ DOMAIN g.children = DOMAIN f.children \cup {c}
        /\ \A x \in DOMAIN m.dirties \ {p} : m2.dirties[x].children = m.dirties[x].children /\ m2.dirties[x].tracked = m.dirties[x].tracked
    BY Zenon DEF Referenced
  <1>2. n \in Nat /\ k \in {0, 1} /\ Cardinality(DOMAIN g.children) = n + k
    <2>1. IsFiniteSet(DOMAIN f.children) /\ n \in Nat  BY EntryChildren, Zenon
    <2>2. Cardinality(DOMAIN f.children \cup {c}) = IF c \in DOMAIN f.children THEN n ELSE n + 1
      BY <2>1, FS_AddElement, Zenon
    <2> QED  BY <1>1, <2>1, <2>2, SMTT(30)
  <1>3. /\ RefSize \in Nat /\ ChildrenSize \in Nat /\ m.size \in Int  BY SizeAssumption, Zenon DEF Memory
  <1>4. CASE p = Meta
    <2>1. f.tracked  BY <1>4, Zenon DEF Sized
    <2>2. m2.size = m.size + RefSize * k  BY <1>1, <1>3, <2>1, SMTT(30)
    <2>3. k \in Int  OBVIOUS
    <2> HIDE DEF k
    <2>4. Cardinality(DOMAIN m2.dirties[Meta].children) = Cardinality(DOMAIN m.dirties[Meta].children) + k
      BY <1>2, <1>4, Zenon
    <2> QED  BY <1>1, <1>4, <2>2, <2>3, <2>4, RootSized, Zenon
  <1>5. CASE p # Meta
    <2> DEFINE t == IF f.tracked THEN 0 ELSE ChildrenSize
               delta == t + RefSize * k
    <2>1. p \in Cached(m) /\ p \in Nodes  BY <1>5, CachedNodes, Zenon DEF Cached
    <2>2. delta \in Int /\ m2.size = m.size + delta
      <3>1. RefSize * k = IF known THEN 0 ELSE RefSize  BY <1>3
      <3> QED  BY <1>1, <1>3, <3>1, SMTT(30)
    <2>3. entrySize(m2, p) = entrySize(m, p) + delta
      <3>1. NodeSize[p] \in Nat  BY <2>1, NodeSizes, Zenon
      <3>2. entrySize(m2, p) = NodeSize[p] + (ChildrenSize + RefSize * (n + k))  BY <1>1, <1>2, Zenon DEF entrySize
      <3>3. RefSize * (n + k) = RefSize * n + RefSize * k  BY <1>2, <1>3, SMTT(30)
      <3>4. CASE f.tracked
        <4>1. entrySize(m, p) = NodeSize[p] + (ChildrenSize + RefSize * n) /\ t = 0  BY <3>4, Zenon DEF entrySize
        <4>2. RefSize * n \in Int /\ RefSize * k \in Int  BY <1>2, <1>3, SMTT(30)
        <4> HIDE DEF n, k, t
        <4> QED  BY <1>3, <3>1, <3>2, <3>3, <4>1, <4>2, SMTT(30)
      <3>5. CASE ~f.tracked
        <4>1. DOMAIN f.children = {}  BY <3>5, Zenon DEF Sized
        <4>2. n = 0  BY <4>1, FS_EmptySet, Zenon
        <4>3. entrySize(m, p) = NodeSize[p] /\ t = ChildrenSize  BY <3>1, <3>5, SMTT(30) DEF entrySize
        <4>4. RefSize * n = 0 /\ RefSize * k \in Int  BY <1>2, <1>3, <4>2, SMTT(30)
        <4> HIDE DEF n, k, t
        <4> QED  BY <1>3, <3>1, <3>2, <3>3, <4>3, <4>4, SMTT(30)
      <3> QED  BY <3>4, <3>5, Zenon
    <2> HIDE DEF delta
    <2> QED  BY <1>1, <2>1, <2>2, <2>3, EntrySized, Zenon
  <1> QED  BY <1>4, <1>5, Zenon

\* dereference takes away the size of a key when it deletes one.
LEMMA ReleaseSized ==
  ASSUME NEW m \in Memory, NEW m2, NEW c \in Nodes, NEW p \in DOMAIN m.dirties, Sized(m), Meta \in DOMAIN m.dirties,
         Released(m, m2, c, p)
  PROVE  Sized(m2)
  <1> DEFINE f == m.dirties[p]
             g == m2.dirties[p]
             last == c \in DOMAIN f.children /\ f.children[c] = 1
             n == Cardinality(DOMAIN f.children)
             k == IF last THEN 0 - 1 ELSE 0
  <1>1. /\ m2 \in Memory /\ DOMAIN m2.dirties = DOMAIN m.dirties /\ m2.wraps = m.wraps
        /\ m2.size = m.size - (IF last THEN RefSize ELSE 0)
        /\ DOMAIN g.children = DOMAIN f.children \ (IF last THEN {c} ELSE {})
        /\ \A x \in DOMAIN m.dirties \ {p} : m2.dirties[x].children = m.dirties[x].children
        /\ \A x \in DOMAIN m.dirties : m2.dirties[x].tracked = m.dirties[x].tracked
    BY Zenon DEF Released
  <1>2. n \in Nat /\ k \in Int /\ Cardinality(DOMAIN g.children) = n + k
    <2>1. IsFiniteSet(DOMAIN f.children) /\ n \in Nat  BY EntryChildren, Zenon
    <2>2. Cardinality(DOMAIN f.children \ {c}) = IF c \in DOMAIN f.children THEN n - 1 ELSE n
      BY <2>1, FS_RemoveElement, Zenon
    <2>3. CASE last  BY <1>1, <2>1, <2>2, <2>3, SMTT(30)
    <2>4. CASE ~last
      <3>1. DOMAIN g.children = DOMAIN f.children  BY <1>1, <2>4, Zenon
      <3> QED  BY <2>1, <2>4, <3>1, SMTT(30)
    <2> QED  BY <2>3, <2>4, Zenon
  <1>3. /\ RefSize \in Nat /\ ChildrenSize \in Nat /\ m.size \in Int  BY SizeAssumption, Zenon DEF Memory
  <1>4. m2.size = m.size + RefSize * k /\ RefSize * k \in Int
    <2>1. RefSize * k = IF last THEN 0 - RefSize ELSE 0  BY <1>3
    <2> QED  BY <1>1, <1>3, <2>1, SMTT(30)
  <1>5. g.tracked \/ DOMAIN g.children = {}  BY <1>1, Zenon DEF Sized
  <1>6. ~f.tracked => DOMAIN f.children = {} /\ k = 0  BY Zenon DEF Sized
  <1> HIDE DEF k
  <1>7. CASE p = Meta
    <2>1. Cardinality(DOMAIN m2.dirties[Meta].children) = Cardinality(DOMAIN m.dirties[Meta].children) + k
      BY <1>2, <1>7, Zenon
    <2>2. m2.dirties[Meta].tracked  BY <1>1, Zenon DEF Sized
    <2> QED  BY <1>1, <1>2, <1>4, <1>7, <2>1, <2>2, RootSized, Zenon
  <1>8. CASE p # Meta
    <2> DEFINE delta == RefSize * k
    <2>1. p \in Cached(m) /\ p \in Nodes  BY <1>8, CachedNodes, Zenon DEF Cached
    <2>2. entrySize(m2, p) = entrySize(m, p) + delta
      <3>1. NodeSize[p] \in Nat  BY <2>1, NodeSizes, Zenon
      <3>2. CASE f.tracked
        <4>1. entrySize(m, p) = NodeSize[p] + (ChildrenSize + RefSize * n)  BY <3>2, Zenon DEF entrySize
        <4>2. entrySize(m2, p) = NodeSize[p] + (ChildrenSize + RefSize * (n + k))  BY <1>1, <1>2, <3>2, Zenon DEF entrySize
        <4>3. RefSize * (n + k) = RefSize * n + RefSize * k /\ RefSize * n \in Int  BY <1>2, <1>3, SMTT(30)
        <4> HIDE DEF n
        <4> QED  BY <1>3, <1>4, <3>1, <4>1, <4>2, <4>3, SMTT(30)
      <3>3. CASE ~f.tracked
        <4>1. entrySize(m, p) = NodeSize[p] /\ entrySize(m2, p) = NodeSize[p]  BY <1>1, <3>1, <3>3, SMTT(30) DEF entrySize
        <4>2. delta = 0  BY <1>3, <1>6, <3>3, SMTT(30)
        <4> QED  BY <3>1, <4>1, <4>2, SMTT(30)
      <3> QED  BY <3>2, <3>3, Zenon
    <2>3. delta \in Int /\ m2.size = m.size + delta  BY <1>4, Zenon
    <2> HIDE DEF delta
    <2> QED  BY <1>1, <1>5, <2>1, <2>2, <2>3, EntrySized, SMTT(30)
  <1> QED  BY <1>7, <1>8, Zenon

\* An entry that leaves the cache takes its size along, that of its children map included.
LEMMA RemoveSized ==
  ASSUME NEW m \in Memory, NEW m2, NEW p \in Cached(m), Sized(m), Meta \in DOMAIN m.dirties,
         Deleted(m, m2, p), m2.size = m.size - entrySize(m, p), m2.wraps = m.wraps
  PROVE  Sized(m2)
  <1> DEFINE S == Cached(m)
             b == Cardinality(Bytes(m, S \ {p}))
             r == RefSize * Cardinality(DOMAIN m.dirties[Meta].children)
  <1>1. /\ Cached(m2) = S \ {p} /\ S \in SUBSET Nodes /\ p # Meta /\ DOMAIN m2.dirties = DOMAIN m.dirties \ {p}
        /\ \A h \in S : entrySize(m, h) \in Nat
        /\ \A x \in DOMAIN m2.dirties : SameNode(m2.dirties[x], m.dirties[x])
    BY EntrySizes, Zenon DEF Cached, Deleted
  <1>2. Bytes(m2, S \ {p}) = Bytes(m, S \ {p})
    <2>1. \A x \in S \ {p} : SameNode(m2.dirties[x], m.dirties[x])  BY <1>1, Zenon DEF Cached
    <2> QED  BY <2>1, BytesFrame, Zenon
  <1>3. Cardinality(Bytes(m, S)) = b + entrySize(m, p) /\ b \in Nat  BY <1>1, BytesRemove, Zenon
  <1>4. m.size + Lost(m) = Cardinality(Bytes(m, S)) + r  BY Zenon DEF Sized
  <1>5. r \in Nat /\ entrySize(m, p) \in Nat  BY <1>1, EntryChildren, SizeAssumption, SMTT(30)
  <1>6. RefSize * Cardinality(DOMAIN m2.dirties[Meta].children) = r  BY <1>1, Zenon DEF SameNode
  <1> HIDE DEF b, r
  <1>7. m2.size + Lost(m2) = b + r
    <2>1. m.size \in Int /\ Lost(m) \in Int /\ Lost(m2) = Lost(m)  BY LostType, Zenon
    <2>2. b \in Int /\ r \in Int /\ entrySize(m, p) \in Int  BY <1>3, <1>5, SMTT(30)
    <2> DEFINE z == m.size
               l == Lost(m)
               w == entrySize(m, p)
    <2>3. z + l = (b + w) + r /\ z \in Int /\ l \in Int /\ w \in Int  BY <1>3, <1>4, <2>1, <2>2, Zenon
    <2> HIDE DEF z, l, w
    <2>4. (z - w) + l = b + r  BY <2>2, <2>3, SMTT(30)
    <2> QED  BY <2>1, <2>4, Zenon DEF z, l, w
  <1>8. m2.size + Lost(m2) = Cardinality(Bytes(m2, Cached(m2))) + RefSize * Cardinality(DOMAIN m2.dirties[Meta].children)
    BY <1>1, <1>2, <1>6, <1>7, Zenon DEF b
  <1> QED  BY <1>1, <1>8, Zenon DEF Sized, SameNode

\* uncache keeps the size exact.
LEMMA UncacheSized ==
  ASSUME NEW m, NEW d, NEW pos \in [Nodes -> Nat], CacheInv(m, << >>, d, {}, pos), NEW p, p # Meta, Sized(m)
  PROVE  Sized(uncache(m, p))
  <1>1. /\ m \in Memory /\ Meta \in DOMAIN m.dirties /\ Live(m, << >>) = Cached(m) /\ Cached(m) \subseteq Nodes
        /\ Linked(m, Cached(m), pos)
    BY NoCalls, CacheFacts, Zenon DEF CacheInv
  <1>2. CASE p \notin DOMAIN m.dirties  BY <1>2, Zenon DEF uncache
  <1>3. CASE p \in DOMAIN m.dirties
    <2>1. p \in Cached(m)  BY <1>3, Zenon DEF Cached
    <2> DEFINE u == unlink(m, p)
               v == u.size - entrySize(m, p)
               e == Delete(u.dirties, p)
               m2 == [u EXCEPT !.dirties = e, !.size = v]
    <2>2. Unlinked(m, u, Cached(m), pos, p)  BY <1>1, <2>1, UnlinkEffect, Zenon
    <2>3. uncache(m, p) = m2  BY <1>3, Zenon DEF uncache
    <2> HIDE DEF u
    <2>4. u \in Memory  BY <2>2, Zenon DEF Unlinked
    <2>5. DOMAIN e = DOMAIN u.dirties \ {p} /\ \A x \in DOMAIN e : e[x] = u.dirties[x]  BY Zenon DEF Delete
    <2>6. v = m.size - entrySize(m, p) /\ u.wraps = m.wraps  BY <2>2, Zenon DEF Unlinked
    <2> HIDE DEF v, e
    <2>7. m2.dirties = e /\ m2.size = v /\ m2.wraps = u.wraps  BY <2>4, Zenon DEF Memory
    <2> HIDE DEF m2
    <2>8. Deleted(m, m2, p)  BY <2>2, <2>5, <2>7, Zenon DEF Deleted, Unlinked
    <2>9. Sized(m2)  BY <1>1, <2>1, <2>6, <2>7, <2>8, RemoveSized, Zenon
    <2> QED  BY <2>3, <2>9, Zenon
  <1> QED  BY <1>2, <1>3, Zenon

\* A database that is just opened has size zero.
LEMMA FreshSized == Sized(NewDatabase)
  <1>1. /\ NewDatabase.dirties = [h \in {Meta} |-> newNode(Meta, TRUE)]
        /\ NewDatabase.size = 0 /\ NewDatabase.wraps = 0
    BY Zenon DEF NewDatabase
  <1>2. /\ NewDatabase.dirties[Meta].tracked /\ DOMAIN NewDatabase.dirties[Meta].children = {}
        /\ DOMAIN NewDatabase.dirties = {Meta}
    BY <1>1, EmptyMap, SMTT(30) DEF newNode
  <1>3. Bytes(NewDatabase, Cached(NewDatabase)) = {}  BY <1>2, Zenon DEF Bytes, Cached
  <1>4. 0 = Cardinality(Bytes(NewDatabase, Cached(NewDatabase)))
              + RefSize * Cardinality(DOMAIN NewDatabase.dirties[Meta].children)
    <2>1. Cardinality({}) = 0 /\ RefSize \in Nat  BY FS_EmptySet, SizeAssumption, Zenon
    <2>2. RefSize * Cardinality({}) = 0  BY <2>1, SMTT(30)
    <2> QED  BY <1>2, <1>3, <2>1, <2>2, SMTT(30)
  <1>5. \A h \in DOMAIN NewDatabase.dirties : NewDatabase.dirties[h].tracked  BY <1>2, Zenon
  <1>6. NewDatabase.dirties[Meta].tracked /\ NewDatabase.size + Lost(NewDatabase) = 0
    <2>1. Width * 0 = 0  BY SizeAssumption, SMTT(30)
    <2>2. Lost(NewDatabase) = 0  BY <1>1, <2>1, Zenon DEF Lost
    <2>3. 0 + 0 = 0  OBVIOUS
    <2> QED  BY <1>1, <1>2, <2>2, <2>3, Zenon
  <1> QED  BY <1>4, <1>5, <1>6, Zenon DEF Sized

\* insert keeps the size exact, whether the node is cached or not.
LEMMA InsertStepSized ==
  ASSUME NEW m \in Memory, NEW h \in Nodes, Sized(m), Meta \in DOMAIN m.dirties,
         m.oldest # Meta => m.newest \in DOMAIN m.dirties
  PROVE  Sized(insert(m, h))
  <1>1. CASE h \in DOMAIN m.dirties  BY <1>1, Zenon DEF insert
  <1>2. CASE h \notin DOMAIN m.dirties  BY <1>2, InsertEffect, InsertSized, Zenon
  <1> QED  BY <1>1, <1>2, Zenon

\* reference keeps the size exact, whether it returns early or not.
LEMMA ReferenceStepSized ==
  ASSUME NEW m \in Memory, NEW c \in Nodes, NEW p \in DOMAIN m.dirties, c # p, Sized(m), Meta \in DOMAIN m.dirties
  PROVE  Sized(reference(m, c, p))
  <1>1. CASE c \notin DOMAIN m.dirties \/ (c \in DOMAIN m.dirties[p].children /\ p # Meta)
    BY <1>1, Zenon DEF reference
  <1>2. CASE c \in DOMAIN m.dirties /\ (p = Meta \/ c \notin DOMAIN m.dirties[p].children)
    <2>1. Referenced(m, reference(m, c, p), c, p)  BY <1>2, ReferenceEffect, Zenon
    <2> QED  BY <2>1, ReferenceSized, Zenon
  <1> QED  BY <1>1, <1>2, Zenon

\* Taking an entry out of the flush-list keeps the size exact.
LEMMA UnlinkSized ==
  ASSUME NEW m \in Memory, NEW h \in Cached(m), Sized(m), Meta \in DOMAIN m.dirties
  PROVE  Sized(unlink(m, h))
  <1> DEFINE f == m.dirties
             n == f[h]
             Pointers(g) == DOMAIN g = DOMAIN f /\ \A x \in DOMAIN f : SameNode(g[x], f[x])
             m2 == unlink(m, h)
  <1>1. \A x \in DOMAIN f : f[x] \in Entry  BY CachedNodes, Zenon
  <1>2. CASE h = m.oldest
    <2> DEFINE g == [f EXCEPT ![n.flushNext].flushPrev = Meta]
    <2>1. Pointers(g)  BY <1>1, Zenon DEF Entry, SameNode
    <2> HIDE DEF g
    <2>2. m2 = [m EXCEPT !.oldest = n.flushNext, !.dirties = g]  BY <1>2, Zenon DEF unlink, g
    <2>3. m2.dirties = g /\ m2.size = m.size /\ m2.wraps = m.wraps  BY <2>2, Zenon DEF Memory
    <2> HIDE DEF m2
    <2>4. Sized(m2)  BY <2>1, <2>3, SizedFrame, Zenon DEF SameNode
    <2> QED  BY <2>4, Zenon DEF m2
  <1>3. CASE h # m.oldest /\ h = m.newest
    <2> DEFINE g == [f EXCEPT ![n.flushPrev].flushNext = Meta]
    <2>1. Pointers(g)  BY <1>1, Zenon DEF Entry, SameNode
    <2> HIDE DEF g
    <2>2. m2 = [m EXCEPT !.newest = n.flushPrev, !.dirties = g]  BY <1>3, Zenon DEF unlink, g
    <2>3. m2.dirties = g /\ m2.size = m.size /\ m2.wraps = m.wraps  BY <2>2, Zenon DEF Memory
    <2> HIDE DEF m2
    <2>4. Sized(m2)  BY <2>1, <2>3, SizedFrame, Zenon DEF SameNode
    <2> QED  BY <2>4, Zenon DEF m2
  <1>4. CASE h # m.oldest /\ h # m.newest
    <2> DEFINE e == [f EXCEPT ![n.flushPrev].flushNext = n.flushNext]
               g == [e EXCEPT ![n.flushNext].flushPrev = n.flushPrev]
    <2>1. Pointers(g)
      <3>0. h \in DOMAIN f /\ n.flushNext \in Hashes  BY <1>1, Zenon DEF Cached, Entry
      <3>1. DOMAIN e = DOMAIN f  BY Zenon
      <3>2. ASSUME NEW x \in DOMAIN f  PROVE e[x] \in Entry /\ SameNode(e[x], f[x])
        <4>1. CASE x # n.flushPrev  BY <1>1, <4>1, Zenon DEF SameNode
        <4>2. CASE x = n.flushPrev
          <5>1. e[x] = [f[x] EXCEPT !.flushNext = n.flushNext] /\ f[x] \in Entry  BY <1>1, <4>2, Zenon
          <5> QED  BY <3>0, <5>1, Zenon DEF Entry, SameNode
        <4> QED  BY <4>1, <4>2, Zenon
      <3> HIDE DEF e
      <3>3. DOMAIN g = DOMAIN f /\ \A x \in DOMAIN f : SameNode(g[x], e[x])  BY <3>1, <3>2, Zenon DEF Entry, SameNode
      <3> QED  BY <3>1, <3>2, <3>3, Zenon DEF SameNode
    <2>2. m2 = [m EXCEPT !.dirties = g]  BY <1>4, Zenon DEF unlink
    <2> HIDE DEF g
    <2>3. m2.dirties = g /\ m2.size = m.size /\ m2.wraps = m.wraps  BY <2>2, Zenon DEF Memory
    <2> HIDE DEF m2
    <2>4. Sized(m2)  BY <2>1, <2>3, SizedFrame, Zenon DEF SameNode
    <2> QED  BY <2>4, Zenon DEF m2
  <1> QED  BY <1>2, <1>3, <1>4, Zenon


\* What Cap's walk has before it: the entries from walk.next on
Rest(pos) == {h \in Cached(mem) : walk.next # Meta /\ pos[walk.next] <= pos[h]}
Before(pos) ==
    /\ Linked(mem, Cached(mem), pos)
    /\ walk.size + Lost(mem) = MetaSize * Cardinality(Rest(pos)) + Cardinality(Bytes(mem, Rest(pos)))

\* The size field is exact but for the overflows. In Cap the running size is that of the entries
\* from walk.next on, and the walk ends at the limit or at the end of the list.
SizeInv ==
    /\ Sized(mem)
    /\ pc \in capPcs => \E pos \in [Nodes -> Nat] : Before(pos)
    /\ pc \in {"capEnd", "capClean"} => walk.size <= walk.limit \/ walk.next = Meta

\* What the steps below need of the invariant.
LEMMA MemFacts ==
  ASSUME Inv
  PROVE  /\ mem \in Memory /\ Meta \in DOMAIN mem.dirties /\ (mem.oldest # Meta => mem.newest \in DOMAIN mem.dirties)
         /\ Cached(mem) \subseteq Nodes /\ Meta \notin Nodes
  BY CacheFacts, ShapeAssumption, Zenon DEF Inv, OrderInv, CacheInv

\* Outside Cap only the cache matters.
LEMMA SizeFrame ==
  ASSUME Sized(mem'), pc' \notin capPcs
  PROVE  SizeInv'
  BY Zenon DEF SizeInv, capPcs

\* Committing a trie to the cache begins.
LEMMA CommitTrieSize ==
  ASSUME Inv, SizeInv, NEW root \in Roots, NEW changed \in SUBSET Nodes, CommitTrie(root, changed)
  PROVE  SizeInv'
  <1>1. mem' = [mem EXCEPT !.preimages = @ \cup KeysOf[root]] /\ pc' = "store"  BY Zenon DEF CommitTrie
  <1>2. mem'.dirties = mem.dirties /\ mem'.size = mem.size /\ mem'.wraps = mem.wraps  BY <1>1, MemFacts, Zenon DEF Memory
  <1>3. Sized(mem')  BY <1>2, MemFacts, SizedFrame, Zenon DEF SizeInv
  <1> QED  BY <1>1, <1>3, SizeFrame, Zenon DEF capPcs

\* The trie stores one node, or one external reference.
LEMMA StoreStepSize ==
  ASSUME Inv, SizeInv, StoreStep
  PROVE  SizeInv'
  <1>1. pc = "store" /\ pc' \notin capPcs /\ store \in [todo : SUBSET Nodes, node : Hashes, refs : SUBSET Nodes]
    BY Zenon DEF StoreStep, Inv, Types, capPcs
  <1>2. ASSUME NEW c \in store.refs, mem' = reference(mem, c, store.node)  PROVE Sized(mem')
    <2>1. store.node \in Cached(mem) /\ c \in Refs[store.node] /\ c \in Nodes  BY <1>1, <1>2, Zenon DEF Inv, StoreInv
    <2>2. store.node \in Nodes /\ store.node \in DOMAIN mem.dirties  BY <2>1, MemFacts, Zenon DEF Cached
    <2>3. c # store.node
      <3>1. Height[c] < Height[store.node] /\ Height[c] \in Nat  BY <2>1, <2>2, ShapeAssumption, Zenon DEF Children
      <3> QED  BY <3>1, SMTT(30)
    <2> QED  BY <1>2, <2>1, <2>2, <2>3, MemFacts, ReferenceStepSized, Zenon DEF SizeInv
  <1>3. ASSUME NEW h \in store.todo, mem' = insert(mem, h)  PROVE Sized(mem')
    BY <1>1, <1>3, MemFacts, InsertStepSized, Zenon DEF SizeInv
  <1>4. ASSUME UNCHANGED mem  PROVE Sized(mem')  BY <1>4, Zenon DEF SizeInv
  <1>5. Sized(mem')  BY <1>2, <1>3, <1>4, Zenon DEF StoreStep
  <1> QED  BY <1>1, <1>5, SizeFrame, Zenon

\* Reference of a root.
LEMMA ReferenceSize ==
  ASSUME Inv, SizeInv, NEW root \in Roots, Reference(root)
  PROVE  SizeInv'
  <1>1. root \in Nodes /\ root # Meta  BY UseAssumption, ShapeAssumption, Zenon
  <1>2. Sized(reference(mem, root, Meta))  BY <1>1, MemFacts, ReferenceStepSized, Zenon DEF SizeInv
  <1> QED  BY <1>2, SizeFrame, Zenon DEF Reference, capPcs

\* dereference(child, parent)
LEMMA DereferenceCallSize ==
  ASSUME Inv, SizeInv, NEW child \in Nodes, NEW parent \in DOMAIN mem.dirties, child # parent, NEW calls,
         dereference(child, parent, calls)
  PROVE  SizeInv'
  <1> DEFINE m == release(mem, child, parent)
             dead == child \in DOMAIN m.dirties /\ m.dirties[child].parents = 0
  <1>1. mem' = (IF dead THEN unlink(m, child) ELSE m) /\ pc' \notin capPcs  BY Zenon DEF dereference, capPcs
  <1>2. Released(mem, m, child, parent)  BY MemFacts, ReleaseEffect, Zenon
  <1>3. Sized(m)  BY <1>2, MemFacts, ReleaseSized, Zenon DEF SizeInv
  <1>4. m \in Memory /\ Meta \in DOMAIN m.dirties  BY <1>2, MemFacts, Zenon DEF Released
  <1> HIDE DEF m
  <1>5. Sized(mem')
    <2>1. CASE dead
      <3>1. child \in Cached(m)  BY <2>1, ShapeAssumption, Zenon DEF Cached
      <3> QED  BY <1>1, <1>3, <1>4, <2>1, <3>1, UnlinkSized, Zenon
    <2>2. CASE ~dead  BY <1>1, <1>3, <2>2, Zenon
    <2> QED  BY <2>1, <2>2, Zenon
  <1> QED  BY <1>1, <1>5, SizeFrame, Zenon

\* Dereference of a root.
LEMMA DereferenceSize ==
  ASSUME Inv, SizeInv, NEW root \in Roots, Dereference(root)
  PROVE  SizeInv'
  <1>1. root \in Nodes /\ root # Meta  BY UseAssumption, ShapeAssumption, Zenon
  <1> QED  BY <1>1, MemFacts, DereferenceCallSize, Zenon DEF Dereference

\* One step of the recursion of dereference.
LEMMA DereferenceStepSize ==
  ASSUME Inv, SizeInv, DereferenceStep
  PROVE  SizeInv'
  <1>1. pc = "deref" /\ Calls = stack /\ Hole = {} /\ stack # << >> /\ stack \in Seq(CallType)
    BY DEF DereferenceStep, Calls, Hole, Inv, PcInv, Types, idleStore
  <1>2. PICK pos \in [Nodes -> Nat] : CacheInv(mem, stack, disk, {}, pos)  BY <1>1, Zenon DEF Inv, OrderInv
  <1>3. /\ Len(stack) \in DOMAIN stack /\ top \in CallType /\ top.node \in Cached(mem)
        /\ top.ext = DOMAIN mem.dirties[top.node].children /\ top.node \in DOMAIN mem.dirties
    <2>1. Len(stack) \in DOMAIN stack /\ stack[Len(stack)] \in CallType  BY <1>1, SMTT(30)
    <2>2. Dying(mem, stack) /\ Cached(mem) \subseteq DOMAIN mem.dirties  BY <1>2, CacheFacts, Zenon DEF CacheInv
    <2>3. /\ stack[Len(stack)].node \in Cached(mem)
          /\ stack[Len(stack)].ext = DOMAIN mem.dirties[stack[Len(stack)].node].children
      BY <2>1, <2>2, Zenon DEF Dying
    <2> QED  BY <2>1, <2>2, <2>3, Zenon DEF top
  <1>4. ASSUME NEW c \in following, dereference(c, top.node, turned(c))
        PROVE  SizeInv'
    <2>1. Turned(stack, turned(c), c)  BY <1>1, <1>4, TurnedStack, Zenon
    <2>2. c \in Nodes /\ Height[c] < Height[top.node] /\ Height[c] \in Nat
      BY <1>2, <1>3, <2>1, TurnedBelow, ShapeAssumption, Zenon DEF top
    <2>3. c # top.node  BY <2>2, SMTT(30)
    <2> QED  BY <1>3, <1>4, <2>2, <2>3, DereferenceCallSize, Zenon
  <1>5. ASSUME following = {},
               mem' = [mem EXCEPT !.dirties = Delete(@, top.node),
                                  !.size = @ - NodeSize[top.node] -
                                           IF mem.dirties[top.node].tracked THEN ChildrenSize ELSE 0],
               pc' = IF stack' = << >> THEN "idle" ELSE pc
        PROVE  SizeInv'
    <2> DEFINE e == Delete(mem.dirties, top.node)
               v == mem.size - NodeSize[top.node] - IF mem.dirties[top.node].tracked THEN ChildrenSize ELSE 0
    <2>1. DOMAIN e = DOMAIN mem.dirties \ {top.node} /\ \A x \in DOMAIN e : e[x] = mem.dirties[x]
      BY Zenon DEF Delete
    <2>2. v = mem.size - entrySize(mem, top.node)
      <3>1. DOMAIN mem.dirties[top.node].children = {}  BY <1>3, <1>5, Zenon DEF following
      <3>2. Cardinality(DOMAIN mem.dirties[top.node].children) = 0  BY <3>1, FS_EmptySet, Zenon
      <3>3. /\ mem.size \in Int /\ NodeSize[top.node] \in Int /\ ChildrenSize \in Int /\ RefSize \in Int
        <4>1. mem.size \in Int /\ NodeSize[top.node] \in Nat /\ ChildrenSize \in Nat /\ RefSize \in Nat
          BY <1>3, MemFacts, NodeSizes, SizeAssumption, Zenon DEF Memory
        <4> QED  BY <4>1, SMTT(30)
      <3>4. entrySize(mem, top.node) =
               NodeSize[top.node] + IF mem.dirties[top.node].tracked THEN ChildrenSize + RefSize * 0 ELSE 0
        BY <3>2, Zenon DEF entrySize
      <3>5. RefSize * 0 = 0  BY <3>3, SMTT(30)
      <3> QED  BY <3>3, <3>4, <3>5, SMTT(30)
    <2>3. mem' = [mem EXCEPT !.dirties = e, !.size = v]  BY <1>5, Zenon
    <2> HIDE DEF e, v
    <2>4. mem'.dirties = e /\ mem'.size = v /\ mem'.wraps = mem.wraps  BY <2>3, MemFacts, Zenon DEF Memory
    <2>5. Deleted(mem, mem', top.node)  BY <2>1, <2>4, Zenon DEF Deleted, SameNode
    <2>6. Sized(mem')  BY <1>3, <2>2, <2>4, <2>5, MemFacts, RemoveSized, Zenon DEF SizeInv
    <2> QED  BY <1>1, <1>5, <2>6, SizeFrame, Zenon DEF capPcs
  <1> QED  BY <1>4, <1>5, Zenon DEF DereferenceStep

\* The steps that leave the cache and the walk as they are
LEMMA WalkFrame ==
  ASSUME SizeInv, UNCHANGED <<mem, walk>>, pc' \in capPcs => pc \in capPcs,
         pc' \in {"capEnd", "capClean"} =>
            pc \in {"capEnd", "capClean"} \/ walk.size <= walk.limit \/ walk.next = Meta
  PROVE  SizeInv'
  BY Zenon DEF SizeInv, Before, Rest

\* Cap begins: its running size is that of all entries.
LEMMA CapSize ==
  ASSUME Inv, SizeInv, NEW limit \in Limits, Cap(limit)
  PROVE  SizeInv'
  <1>1. /\ pc = "idle" /\ pc' = "capPreimages" /\ UNCHANGED mem
        /\ walk'.next = mem.oldest /\ walk'.size = Size(mem)
    BY Zenon DEF Cap
  <1>2. PICK pos \in [Nodes -> Nat] : Linked(mem, Cached(mem), pos)
    <2>1. Calls = << >>  BY <1>1, Zenon DEF Calls
    <2> QED  BY <2>1, NoCalls, Zenon DEF Inv, OrderInv, CacheInv
  <1> DEFINE S == Cached(mem)
             b == Cardinality(Bytes(mem, S))
             r == RefSize * Cardinality(DOMAIN mem.dirties[Meta].children)
             k == MetaSize * Cardinality(S)
  <1>3. {h \in S : mem.oldest # Meta /\ pos[mem.oldest] <= pos[h]} = S  BY <1>2, MemFacts, SMTT(30) DEF Linked
  <1>4. Rest(pos)' = S  BY <1>1, <1>3, Zenon DEF Rest
  <1>5. b \in Nat /\ r \in Nat /\ k \in Nat
    <2>1. IsFiniteSet(S)  BY MemFacts, CachedNodes, Zenon
    <2>2. Cardinality(S) \in Nat  BY <2>1, FS_CardinalityType, Zenon
    <2> QED  BY <2>2, MemFacts, EntrySizes, EntryChildren, SizeAssumption, SMTT(30)
  <1>6. mem.size + Lost(mem) = b + r /\ mem.size \in Int /\ Lost(mem) \in Int
    BY MemFacts, LostType, Zenon DEF SizeInv, Sized
  <1>7. Size(mem) = mem.size + k - r  BY Zenon DEF Size
  <1>8. Size(mem) + Lost(mem) = k + b
    <2> HIDE DEF b, r, k
    <2> QED  BY <1>5, <1>6, <1>7, SMTT(30)
  <1>9. Before(pos)'  BY <1>1, <1>2, <1>4, <1>8, Zenon DEF Before
  <1> QED  BY <1>1, <1>9, Zenon DEF SizeInv

\* The walk of Cap: the running size becomes that of the entries after the one it passes.
LEMMA CapStepSize ==
  ASSUME Inv, SizeInv, CapStep
  PROVE  SizeInv'
  <1>1. pc = "cap" /\ UNCHANGED mem  BY Zenon DEF CapStep
  <1>2. ASSUME walk.next # Meta, pc' = pc,
               walk' = [walk EXCEPT !.next = mem.dirties[@].flushNext,
                                    !.size = @ - MetaSize - entrySize(mem, walk.next)]
        PROVE  SizeInv'
    <2> DEFINE h == walk.next
               n == mem.dirties[h].flushNext
               z == walk.size - MetaSize - entrySize(mem, h)
               S == Cached(mem)
    <2>1. PICK pos \in [Nodes -> Nat] : Before(pos)  BY <1>1, Zenon DEF SizeInv, capPcs
    <2>2. h \in S /\ h \in Nodes /\ S \in SUBSET Nodes /\ Meta \notin S /\ \A x \in S : pos[x] \in Nat
      <3>1. h \in S \cup {Meta}  BY <1>1, Zenon DEF Inv, OrderInv, CapInv
      <3> QED  BY <1>2, <3>1, MemFacts, Zenon
    <2>3. walk'.next = n /\ walk'.size = z
      <3>1. walk \in [next : Hashes, size : Int, limit : Int, flushPreimages : BOOLEAN]  BY Zenon DEF Inv, Types
      <3> QED  BY <1>2, <3>1, Zenon
    <2> DEFINE R == {x \in S : pos[h] <= pos[x]}
               R2 == {x \in S : n # Meta /\ pos[n] <= pos[x]}
    <2>4. Rest(pos) = R /\ Rest(pos)' = R2  BY <1>1, <1>2, <2>3, Zenon DEF Rest
    <2>5. R2 = R \ {h}
      <3>1. CASE h = mem.newest
        <4>1. n = Meta /\ \A x \in S : pos[x] <= pos[h] /\ (pos[x] = pos[h] => x = h)
          BY <2>1, <2>2, <3>1, Zenon DEF Before, Linked
        <4> HIDE DEF n
        <4> QED  BY <2>2, <4>1, SMTT(30)
      <3>2. CASE h # mem.newest
        <4>1. /\ n \in S /\ pos[h] < pos[n]
              /\ \A x \in S : (pos[x] <= pos[h] \/ pos[n] <= pos[x]) /\ (pos[x] = pos[h] => x = h)
          BY <2>1, <2>2, <3>2, Zenon DEF Before, Linked
        <4> HIDE DEF n
        <4> QED  BY <2>2, <4>1, SMTT(30)
      <3> QED  BY <3>1, <3>2, Zenon
    <2>6. h \in R /\ R \in SUBSET Nodes /\ IsFiniteSet(R) /\ R \subseteq S
      <3>1. h \in R /\ R \subseteq S  BY <2>2, SMTT(30)
      <3> HIDE DEF R
      <3> QED  BY <2>2, <3>1, ShapeAssumption, FS_Subset, Zenon
    <2> HIDE DEF R, R2, n
    <2> DEFINE b == Cardinality(Bytes(mem, R))
               b2 == Cardinality(Bytes(mem, R2))
               k == Cardinality(R)
               k2 == Cardinality(R2)
    <2>7. b = b2 + entrySize(mem, h) /\ b2 \in Nat /\ entrySize(mem, h) \in Nat
      <3>1. \A x \in R : entrySize(mem, x) \in Nat  BY <2>6, MemFacts, EntrySizes, Zenon
      <3> QED  BY <2>5, <2>6, <3>1, BytesRemove, Zenon
    <2>8. k2 = k - 1 /\ k \in Nat  BY <2>5, <2>6, FS_RemoveElement, FS_CardinalityType, SMTT(30)
    <2>9. walk.size + Lost(mem) = MetaSize * k + b  BY <2>1, <2>4, Zenon DEF Before
    <2> HIDE DEF b, b2, k, k2
    <2>10. z + Lost(mem) = MetaSize * k2 + b2
      <3>1. MetaSize \in Nat  BY SizeAssumption, Zenon
      <3>2. MetaSize * (k - 1) = MetaSize * k - MetaSize /\ MetaSize * k \in Int  BY <2>8, <3>1, SMTT(30)
      <3> DEFINE x == MetaSize * k
                 w == entrySize(mem, h)
                 s == walk.size
                 l == Lost(mem)
      <3>3. walk.size + Lost(mem) = x + b /\ x \in Int /\ MetaSize * k2 = x - MetaSize  BY <2>8, <2>9, <3>2, Zenon
      <3>4. z = walk.size - MetaSize - w /\ w \in Nat /\ b = b2 + w /\ b2 \in Nat  BY <2>7, Zenon
      <3>5. s \in Int /\ l \in Int  BY MemFacts, LostType, Zenon DEF Inv, Types
      <3>6. s + l = x + (b2 + w)  BY <3>3, <3>4, Zenon
      <3> HIDE DEF x, w, z, s, l
      <3>7. (s - MetaSize - w) + l = (x - MetaSize) + b2  BY <3>1, <3>3, <3>4, <3>5, <3>6, SMTT(30)
      <3> QED  BY <3>3, <3>4, <3>7, Zenon DEF s, l
    <2> HIDE DEF z
    <2>11. Before(pos)'
      <3>1. walk'.size + Lost(mem) = MetaSize * Cardinality(R2) + Cardinality(Bytes(mem, R2))  BY <2>3, <2>10, Zenon DEF k2, b2
      <3> QED  BY <1>1, <2>1, <2>4, <3>1, Zenon DEF Before
    <2> QED  BY <1>1, <1>2, <2>11, Zenon DEF SizeInv
  <1>3. ASSUME ~(walk.size > walk.limit /\ walk.next # Meta), pc' = "capEnd", UNCHANGED walk
        PROVE  SizeInv'
    <2>1. walk.size <= walk.limit \/ walk.next = Meta
      <3>1. walk.size \in Int /\ walk.limit \in Int  BY Zenon DEF Inv, Types
      <3> QED  BY <1>3, <3>1, SMTT(30)
    <2> QED  BY <1>1, <1>3, <2>1, WalkFrame, Zenon DEF capPcs
  <1> QED  BY <1>2, <1>3, Zenon DEF CapStep

\* Cap takes the oldest entry out of the cache, which its walk has passed.
LEMMA CapCleanSize ==
  ASSUME Inv, SizeInv, CapClean
  PROVE  SizeInv'
  <1> DEFINE h == mem.oldest
  <1>1. pc = "capClean"  BY Zenon DEF CapClean
  <1>2. ASSUME h # walk.next,
               mem' = [mem EXCEPT !.dirties = Delete(@, h), !.oldest = mem.dirties[h].flushNext,
                                  !.size = @ - entrySize(mem, h)], UNCHANGED <<pc, walk>>
        PROVE  SizeInv'
    <2> DEFINE e == Delete(mem.dirties, h)
               z == mem.size - entrySize(mem, h)
               S == Cached(mem)
    <2>1. PICK pos \in [Nodes -> Nat] : Before(pos)  BY <1>1, Zenon DEF SizeInv, capPcs
    <2>2. walk.next \in S \cup {Meta} /\ S \in SUBSET Nodes /\ Meta \notin S /\ \A x \in S : pos[x] \in Nat
      <3>1. walk.next \in S \cup {Meta}  BY <1>1, Zenon DEF Inv, OrderInv, CapInv
      <3> QED  BY <3>1, MemFacts, Zenon
    <2>3. h \in S  BY <1>2, <2>1, <2>2, Zenon DEF Before, Linked
    <2>4. DOMAIN e = DOMAIN mem.dirties \ {h} /\ \A x \in DOMAIN e : e[x] = mem.dirties[x]  BY Zenon DEF Delete
    <2>5. mem' = [mem EXCEPT !.dirties = e, !.oldest = mem.dirties[h].flushNext, !.size = z]  BY <1>2, Zenon
    <2> HIDE DEF e, z
    <2>6. /\ mem'.dirties = e /\ mem'.size = z /\ mem'.wraps = mem.wraps
          /\ mem'.oldest = mem.dirties[h].flushNext /\ mem'.newest = mem.newest
      BY <2>5, MemFacts, Zenon DEF Memory
    <2>7. Deleted(mem, mem', h)  BY <2>4, <2>6, Zenon DEF Deleted, SameNode
    <2>8. Sized(mem')  BY <2>3, <2>6, <2>7, MemFacts, RemoveSized, Zenon DEF SizeInv, z
    <2>9. Cached(mem') = S \ {h} /\ S \subseteq DOMAIN mem.dirties  BY <2>4, <2>6, Zenon DEF Cached
    <2>10. Linked(mem', Cached(mem'), pos)
      <3>1. \A x \in S \ {mem.oldest} : mem'.dirties[x] = mem.dirties[x]  BY <2>4, <2>6, <2>9, Zenon
      <3>2. Linked(mem, S, pos)  BY <2>1, Zenon DEF Before
      <3>3. Linked(mem', S \ {mem.oldest}, pos)  BY <2>2, <2>3, <2>6, <3>1, <3>2, FlushLinked, Zenon
      <3> QED  BY <2>9, <3>3, Zenon
    <2>11. Rest(pos)' = Rest(pos)
      <3>1. walk.next # Meta => ~(pos[walk.next] <= pos[h])
        <4>1. walk.next # Meta => pos[h] <= pos[walk.next] /\ (pos[h] = pos[walk.next] => walk.next = h)
          BY <2>1, <2>2, <2>3, Zenon DEF Before, Linked
        <4>2. walk.next # Meta => pos[h] \in Nat /\ pos[walk.next] \in Nat  BY <2>2, <2>3, Zenon
        <4> QED  BY <1>2, <4>1, <4>2, SMTT(30)
      <3> QED  BY <1>2, <2>9, <3>1, Zenon DEF Rest
    <2>12. Bytes(mem', Rest(pos)) = Bytes(mem, Rest(pos))
      <3>1. Rest(pos) \subseteq Cached(mem')  BY <2>11, Zenon DEF Rest
      <3>2. \A x \in Rest(pos) : SameNode(mem'.dirties[x], mem.dirties[x])  BY <2>4, <2>6, <2>9, <3>1, Zenon DEF SameNode
      <3> QED  BY <3>2, BytesFrame, Zenon
    <2>13. Before(pos)'  BY <1>2, <2>1, <2>6, <2>10, <2>11, <2>12, Zenon DEF Before, Lost
    <2> QED  BY <1>1, <1>2, <2>8, <2>13, Zenon DEF SizeInv
  <1>3. ASSUME Reset,
               mem' = [mem EXCEPT !.dirties = IF h = Meta THEN @ ELSE [@ EXCEPT ![h].flushPrev = Meta],
                                  !.preimages = IF walk.flushPreimages THEN {} ELSE @]
        PROVE  SizeInv'
    <2> DEFINE f == mem.dirties
               e == IF h = Meta THEN f ELSE [f EXCEPT ![h].flushPrev = Meta]
               v == IF walk.flushPreimages THEN {} ELSE mem.preimages
    <2>1. mem' = [mem EXCEPT !.dirties = e, !.preimages = v]  BY <1>3, Zenon
    <2>2. DOMAIN e = DOMAIN f /\ \A x \in DOMAIN f : e[x].children = f[x].children /\ e[x].tracked = f[x].tracked
      <3>1. \A x \in DOMAIN f : f[x] \in Entry  BY MemFacts, CachedNodes, Zenon
      <3>2. CASE h = Meta  BY <3>2, Zenon
      <3>3. CASE h # Meta  BY <3>1, <3>3, Zenon DEF Entry
      <3> QED  BY <3>2, <3>3, Zenon
    <2> HIDE DEF e, v
    <2>3. mem'.dirties = e /\ mem'.size = mem.size /\ mem'.wraps = mem.wraps  BY <2>1, MemFacts, Zenon DEF Memory
    <2>4. Sized(mem')  BY <2>2, <2>3, MemFacts, SizedFrame, Zenon DEF SizeInv
    <2> QED  BY <1>3, <2>4, SizeFrame, Zenon DEF Reset, capPcs
  <1> QED  BY <1>2, <1>3, Zenon DEF CapClean

\* uncache is called for one write of the batch.
LEMMA ReplaySize ==
  ASSUME Inv, SizeInv, Replay
  PROVE  SizeInv'
  <1> DEFINE h == Head(batch)
  <1>1. pc \in {"commitReplay", "commitClean"} /\ pc' = pc /\ batch # << >> /\ mem' = uncache(mem, h)
    BY Zenon DEF Replay
  <1>2. h # Meta
    <2>1. h \in Nodes \cup Preimages  BY <1>1, RangeTail, Zenon DEF Inv, Types
    <2> QED  BY <2>1, ShapeAssumption, Zenon DEF Hashes
  <1>3. PICK pos \in [Nodes -> Nat] : CacheInv(mem, << >>, disk, {}, pos)
    <2>1. Calls = << >> /\ Hole = {}  BY <1>1 DEF Inv, PcInv, Calls, Hole, idleStore
    <2> QED  BY <2>1, Zenon DEF Inv, OrderInv
  <1>4. Sized(mem')  BY <1>1, <1>2, <1>3, UncacheSized, Zenon DEF SizeInv
  <1> QED  BY <1>1, <1>4, SizeFrame, Zenon DEF capPcs

\* Commit forgets the preimages it has written.
LEMMA CommitCleanSize ==
  ASSUME Inv, SizeInv, CommitClean
  PROVE  SizeInv'
  <1>1. Reset /\ mem' = [mem EXCEPT !.preimages = {}]  BY Zenon DEF CommitClean
  <1>2. mem'.dirties = mem.dirties /\ mem'.size = mem.size /\ mem'.wraps = mem.wraps  BY <1>1, MemFacts, Zenon DEF Memory
  <1>3. Sized(mem')  BY <1>2, MemFacts, SizedFrame, Zenon DEF SizeInv
  <1> QED  BY <1>1, <1>3, SizeFrame, Zenon DEF Reset, capPcs

\* The mutator's other steps: the loops that write, and the ends of operations
LEMMA WriteSize ==
  ASSUME Inv, SizeInv, \/ \E r \in Roots : Commit(r)
                       \/ PutPreimage \/ CommitStep \/ WriteBatch \/ WriteFails \/ CommitReplay
  PROVE  SizeInv'
  <1>1. ASSUME NEW r \in Roots, Commit(r)  PROVE SizeInv'
    BY <1>1, WalkFrame, Zenon DEF Commit, capPcs
  <1>2. CASE PutPreimage
    <2>1. UNCHANGED <<mem, walk>> /\ pc \in {"capPreimages", "commitPreimages"}
          /\ (pc' = pc \/ pc' = IF pc = "capPreimages" THEN "cap" ELSE "commitPreimagesEnd")
      BY <1>2, Zenon DEF PutPreimage
    <2> QED  BY <2>1, WalkFrame, Zenon DEF capPcs
  <1>3. CASE CommitStep
    <2>1. UNCHANGED <<mem, walk>> /\ pc' \in {"commit", "commitEnd"}  BY <1>3, Zenon DEF CommitStep
    <2> QED  BY <2>1, WalkFrame, Zenon DEF capPcs
  <1>4. CASE WriteBatch
    <2>1. UNCHANGED <<mem, walk>> /\ pc' = AfterWrite[pc] /\ Writing  BY <1>4, Zenon DEF WriteBatch
    <2>2. pc \in {"capPreimages", "cap", "capEnd", "commitPreimages", "commitPreimagesEnd", "commit", "commitEnd"}
      BY <2>1, Zenon DEF Inv, PcInv, Writing
    <2>3. (pc' \in capPcs => pc \in capPcs) /\ (pc' \in {"capEnd", "capClean"} => pc = "capEnd")
      BY <2>1, <2>2, SMTT(30) DEF AfterWrite, capPcs
    <2> QED  BY <2>1, <2>3, WalkFrame, Zenon
  <1>5. CASE WriteFails  BY <1>5, SizeFrame, Zenon DEF WriteFails, Reset, capPcs, SizeInv
  <1>6. CASE CommitReplay  BY <1>6, WalkFrame, Zenon DEF CommitReplay, capPcs
  <1> QED  BY <1>1, <1>2, <1>3, <1>4, <1>5, <1>6, Zenon

\* The invariant is inductive.
LEMMA NextSize ==
  ASSUME Inv, SizeInv, [Next]_vars
  PROVE  SizeInv'
  <1>1. CASE UNCHANGED vars  BY <1>1, WalkFrame, Zenon DEF vars
  <1>2. ASSUME NEW r \in Roots, NEW d \in SUBSET Nodes, CommitTrie(r, d)  PROVE SizeInv'
    BY <1>2, CommitTrieSize, Zenon
  <1>3. ASSUME NEW r \in Roots, Reference(r)  PROVE SizeInv'  BY <1>3, ReferenceSize, Zenon
  <1>4. ASSUME NEW r \in Roots, Dereference(r)  PROVE SizeInv'  BY <1>4, DereferenceSize, Zenon
  <1>5. ASSUME NEW limit \in Limits, Cap(limit)  PROVE SizeInv'  BY <1>5, CapSize, Zenon
  <1>6. ASSUME NEW r \in Roots, NEW h \in Below[r], Node(r, h)  PROVE SizeInv'
    BY <1>6, WalkFrame, Zenon DEF Node
  <1>7. CASE NodeFromDisk  BY <1>7, WalkFrame, Zenon DEF NodeFromDisk
  <1>8. CASE StoreStep  BY <1>8, StoreStepSize, Zenon
  <1>9. CASE DereferenceStep  BY <1>9, DereferenceStepSize, Zenon
  <1>10. CASE CapStep  BY <1>10, CapStepSize, Zenon
  <1>11. CASE CapClean  BY <1>11, CapCleanSize, Zenon
  <1>12. CASE Replay  BY <1>12, ReplaySize, Zenon
  <1>13. CASE CommitClean  BY <1>13, CommitCleanSize, Zenon
  <1>14. CASE Crash  BY <1>14, FreshSized, SizeFrame, Zenon DEF Crash, Reset, capPcs
  <1>15. CASE (\E r \in Roots : Commit(r)) \/ PutPreimage \/ CommitStep \/ WriteBatch \/ WriteFails \/ CommitReplay
    BY <1>15, WriteSize, Zenon
  <1> QED
    BY <1>1, <1>2, <1>3, <1>4, <1>5, <1>6, <1>7, <1>8, <1>9, <1>10, <1>11, <1>12, <1>13, <1>14, <1>15, Zenon
    DEF Next

\* The size is exact in every state, in the middle of Cap and dereference too.
THEOREM SizeInvariance == Spec => [](Inv /\ SizeInv)
  <1>1. ASSUME Init  PROVE SizeInv
    <2>1. mem = NewDatabase /\ pc = "idle"  BY <1>1, Zenon DEF Init
    <2>2. Sized(mem)  BY <2>1, FreshSized, Zenon
    <2> QED  BY <2>1, <2>2, Zenon DEF SizeInv, capPcs
  <1>2. Inv /\ SizeInv /\ [Next]_vars => SizeInv'  BY NextSize, Zenon
  <1> QED  BY <1>1, <1>2, Invariance, PTL DEF Spec

\* The sum of dirtiesSize and childrenSize is what the entries and the references of the metaroot
\* take, less 2^16 for every insert whose uint16 sum overflowed: no operation counts an entry twice
\* or forgets one, although insert, reference, dereference, uncache and the last loop of Cap each
\* do their own arithmetic, in integers of different width.
THEOREM SizeTotal == Spec => []SizeIsTotal
  <1>1. ASSUME Inv, SizeInv  PROVE SizeIsTotal
    <2> DEFINE b == Cardinality(Bytes(mem, Cached(mem)))
               r == RefSize * Cardinality(DOMAIN mem.dirties[Meta].children)
               l == Width * mem.wraps
    <2>1. mem.size + l = b + r /\ mem.size \in Int /\ l \in Int
      BY <1>1, MemFacts, LostType, Zenon DEF SizeInv, Sized, Lost
    <2>2. b \in Int /\ r \in Int  BY <1>1, MemFacts, EntrySizes, EntryChildren, SizeAssumption, SMTT(30)
    <2> HIDE DEF b, r, l
    <2>3. mem.size = b + r - l  BY <2>1, <2>2, SMTT(30)
    <2> QED  BY <2>3, Zenon DEF SizeIsTotal, b, r, l
  <1> QED  BY <1>1, SizeInvariance, PTL

\* When Cap returns, what Size reports is at most its limit, or nothing is left in the cache: the running
\* size of its walk agrees with the size that the entries left behind have.
THEOREM CapLimit == Spec => CapMeetsLimit
  <1> DEFINE A == pc = "capClean" /\ pc' = "idle" => Size(mem') <= walk.limit \/ Cached(mem') = {}
  <1>1. ASSUME Inv, SizeInv, [Next]_vars  PROVE [A]_vars
    <2>1. SUFFICES ASSUME Next, pc = "capClean", pc' = "idle"
                   PROVE  Size(mem') <= walk.limit \/ Cached(mem') = {}
      BY <1>1, Zenon
    <2>2. CASE Crash
      <3>1. mem' = NewDatabase  BY <2>2, Zenon DEF Crash
      <3> QED  BY <3>1, FreshCache, Zenon
    <2>3. CASE ~Crash
      <3> DEFINE h == mem.oldest
                 S == Cached(mem)
                 f == mem.dirties
                 e == IF h = Meta THEN f ELSE [f EXCEPT ![h].flushPrev = Meta]
      <3>1. ~full /\ ~Writing  BY <1>1, <2>1, Zenon DEF Inv, PcInv, Writing
      <3>2. CapClean
        BY <2>1, <2>3, <3>1, Zenon
        DEF Next, CommitTrie, Reference, Dereference, Commit, Cap, StoreStep, DereferenceStep, PutPreimage, CapStep,
            CommitStep, WriteBatch, WriteFails, Replay, CommitReplay, CommitClean, Node, NodeFromDisk
      <3>3. /\ h = walk.next
            /\ mem' = [mem EXCEPT !.dirties = e, !.preimages = IF walk.flushPreimages THEN {} ELSE @]
        BY <2>1, <3>2, Zenon DEF CapClean
      <3>4. PICK pos \in [Nodes -> Nat] : Before(pos)  BY <1>1, <2>1, Zenon DEF SizeInv, capPcs
      <3>5. DOMAIN e = DOMAIN f  BY Zenon
      <3> HIDE DEF e
      <3>6. mem'.dirties = e /\ mem'.wraps = mem.wraps  BY <1>1, <3>3, MemFacts, Zenon DEF Memory
      <3>7. Cached(mem') = S  BY <3>5, <3>6, Zenon DEF Cached
      <3>8. CASE S = {}  BY <3>7, <3>8, Zenon
      <3>9. CASE S # {}
        <4>1. h \in S /\ h # Meta /\ \A x \in S : pos[h] <= pos[x]
          BY <1>1, <3>4, <3>9, MemFacts, SMTT(30) DEF Before, Linked
        <4>2. Rest(pos) = S  BY <3>3, <4>1, Zenon DEF Rest
        <4>3. walk.size <= walk.limit  BY <1>1, <2>1, <3>3, <4>1, Zenon DEF SizeInv
        <4>4. walk.size + Lost(mem) = MetaSize * Cardinality(S) + Cardinality(Bytes(mem, S))  BY <3>4, <4>2, Zenon DEF Before
        <4>5. Size(mem') = walk.size
          <5>1. Inv' /\ SizeInv'  BY <1>1, NextInv, NextSize, Zenon
          <5>2. \A x \in DOMAIN f : f[x] \in Entry  BY <1>1, MemFacts, CachedNodes, Zenon
          <5>3. \A x \in DOMAIN f : SameNode(e[x], f[x])
            BY <5>2, Zenon DEF e, Entry, SameNode
          <5>4. \A x \in S : SameNode(mem'.dirties[x], mem.dirties[x])  BY <3>6, <5>3, Zenon DEF Cached
          <5>5. Bytes(mem', S) = Bytes(mem, S)  BY <5>4, BytesFrame, Zenon
          <5> DEFINE b == Cardinality(Bytes(mem, S))
                     k == MetaSize * Cardinality(S)
                     r == RefSize * Cardinality(DOMAIN mem'.dirties[Meta].children)
          <5>6. mem'.size + Lost(mem) = b + r  BY <3>6, <3>7, <5>1, <5>5, Zenon DEF SizeInv, Sized, Lost
          <5>7. Size(mem') = mem'.size + k - r  BY <3>7, Zenon DEF Size
          <5>8. b \in Nat /\ k \in Nat /\ r \in Nat
            <6>1. IsFiniteSet(S)  BY <1>1, MemFacts, CachedNodes, Zenon
            <6>2. Cardinality(S) \in Nat  BY <6>1, FS_CardinalityType, Zenon
            <6>3. mem' \in Memory /\ Meta \in DOMAIN mem'.dirties
              BY <5>1, Zenon DEF Inv, OrderInv, CacheInv
            <6> QED  BY <1>1, <6>2, <6>3, MemFacts, EntrySizes, EntryChildren, SizeAssumption, SMTT(30)
          <5>9. walk.size + Lost(mem) = k + b  BY <4>4, Zenon
          <5>10. walk.size \in Int /\ Lost(mem) \in Int /\ mem'.size \in Int
            BY <1>1, <5>1, MemFacts, LostType, Zenon DEF Inv, Types, OrderInv, CacheInv, Memory
          <5> HIDE DEF b, k, r
          <5> QED  BY <5>6, <5>7, <5>8, <5>9, <5>10, SMTT(30)
        <4> QED  BY <4>3, <4>5, Zenon
      <3> QED  BY <3>8, <3>9, Zenon
    <2> QED  BY <2>2, <2>3, Zenon
  <1>2. Spec => [][A]_vars  BY <1>1, SizeInvariance, PTL DEF Spec
  <1> QED  BY <1>2, Zenon DEF CapMeetsLimit
=============================================================================
