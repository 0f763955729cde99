-------------------------------- MODULE Trie --------------------------------
(***************************************************************************)
(* The Merkle Patricia trie: proton/trie/trie.go, hasher.go, node.go and   *)
(* proof.go.                                                               *)
(*                                                                         *)
(* One trie is updated, read, hashed, committed to its node database and   *)
(* opened again at a committed root.  Its nodes are loaded on demand,      *)
(* carry a cached hash and a dirty flag, and are replaced by their hash    *)
(* when a commit meets them clean.  A hash is represented by the encoding  *)
(* it is the hash of, since hashes do not collide; the node database is    *)
(* the set of hashes it can resolve.  It keeps what the trie stores in it, *)
(* which is what module TrieDatabase shows of the nodes of a live root, so *)
(* no MissingNodeError occurs here.                                        *)
(***************************************************************************)
EXTENDS TrieEncoding, FiniteSets, SequencesExt

CONSTANTS
    Keys,        \* the keys in use, as bytes
    ValuesOf,    \* the non-empty values a key may have
    NoValue,     \* the empty byte string: no value
    ValueSize,   \* the encoded size of a value
    HashLen,     \* the size below which a node is stored inside its parent (32)
    MaxCommits   \* bound: commits in a behaviour

ASSUME KeyAssumption ==
    /\ Keys \subseteq Seq(Byte)
    /\ \A k \in Keys : NoValue \notin ValuesOf[k]
    /\ HashLen \in Nat /\ MaxCommits \in Nat

VARIABLES
    root,        \* Trie.root
    db,          \* the hashes the node database can resolve
    content,     \* what the caller stored: key -> value
    committed    \* the commits so far: root hash and content

vars == <<root, db, content, committed>>

Values == UNION {ValuesOf[k] : k \in Keys}

-----------------------------------------------------------------------------
(* Nodes *)

nilNode == [kind |-> "nil"]
valueNode(v) == [kind |-> "value", v |-> v]
hashNode(enc) == [kind |-> "hash", of |-> enc]
shortNode(key, val, flags) == [kind |-> "short", key |-> key, val |-> val, flags |-> flags]
fullNode(children, flags) == [kind |-> "full", children |-> children, flags |-> flags]

nodeFlag(hash, dirty) == [hash |-> hash, dirty |-> dirty]
newFlag == nodeFlag(nilNode, TRUE)
NoChildren == [i \in 0 .. Terminator |-> nilNode]

\* Nodes with flags; value and hash nodes have nothing cached.
Cacheable(n) == n.kind \in {"short", "full"}

RECURSIVE EncodeRLP(_)
\* The encoding of a collapsed node: its content, without the flags.
EncodeRLP(n) ==
    CASE n.kind = "short" -> [kind |-> "short", key |-> n.key, val |-> EncodeRLP(n.val)]
      [] n.kind = "full" -> [kind |-> "full",
                             children |-> [i \in 0 .. Terminator |-> EncodeRLP(n.children[i])]]
      [] OTHER -> n

RECURSIVE Size(_)
\* The length of an encoding: one byte of header per item
Size(enc) ==
    CASE enc.kind = "nil" -> 1
      [] enc.kind = "value" -> ValueSize[enc.v]
      [] enc.kind = "hash" -> HashLen + 1
      [] enc.kind = "short" -> 1 + Len(enc.key) + Size(enc.val)
      [] enc.kind = "full" -> 1 + FoldSet(LAMBDA i, s : s + Size(enc.children[i]), 0, 0 .. Terminator)

RECURSIVE decodeNode(_, _)
\* The node an encoding stands for.  Nodes embedded in it have no hash of their own.
decodeNode(hash, enc) ==
    CASE enc.kind = "short" ->
            shortNode(compactToHex(enc.key), decodeNode(nilNode, enc.val), nodeFlag(hash, FALSE))
      [] enc.kind = "full" ->
            fullNode([i \in 0 .. Terminator |-> decodeNode(nilNode, enc.children[i])],
                     nodeFlag(hash, FALSE))
      [] OTHER -> enc

\* Trie.resolve and resolveHash: the node behind a hash
resolve(n) == IF n.kind = "hash" THEN decodeNode(n, n.of) ELSE n

-----------------------------------------------------------------------------
(* hasher.go *)

\* hasher.store: small nodes stay inside their parent, the others are replaced by
\* their hash and, in commit mode, written to the database.
store(collapsed, commit, force) ==
    LET enc == EncodeRLP(collapsed)
        hash == IF collapsed.flags.hash # nilNode THEN collapsed.flags.hash ELSE hashNode(enc)
    IN  IF Size(enc) < HashLen /\ ~force
        THEN [hashed |-> collapsed, stored |-> {}]
        ELSE [hashed |-> hash, stored |-> IF commit THEN {hash} ELSE {}]

RECURSIVE hasher(_, _, _)
\* hasher.hashChildren: the node with its children hashed, once to be encoded and
\* once to be kept in memory, and the hashes its subtrees stored.
hashChildren(n, commit) ==
    LET child(c) == IF Cacheable(c) THEN hasher(c, commit, FALSE)
                    ELSE [hashed |-> c, cached |-> c, stored |-> {}]
    IN  IF n.kind = "short"
        THEN LET c == child(n.val)
             IN  [collapsed |-> shortNode(hexToCompact(n.key), c.hashed, n.flags),
                  cached |-> shortNode(n.key, c.cached, n.flags),
                  stored |-> c.stored]
        ELSE LET c == [i \in 0 .. Terminator |-> child(n.children[i])]
             IN  [collapsed |-> fullNode([i \in 0 .. Terminator |-> c[i].hashed], n.flags),
                  cached |-> fullNode([i \in 0 .. Terminator |-> c[i].cached], n.flags),
                  stored |-> UNION {c[i].stored : i \in 0 .. Terminator}]

\* Mutant: Hash marks the nodes clean as Commit does.
hasherCleans(n, commit, force) ==
    IF n.flags.hash # nilNode /\ (~commit \/ ~n.flags.dirty)
    THEN [hashed |-> n.flags.hash,
          cached |-> IF commit THEN n.flags.hash ELSE n,
          stored |-> {}]
    ELSE LET c == hashChildren(n, commit)
             s == store(c.collapsed, commit, force)
         IN  [hashed |-> s.hashed,
              cached |-> [c.cached EXCEPT
                             !.flags = nodeFlag(IF s.hashed.kind = "hash" THEN s.hashed ELSE nilNode, FALSE)],
              stored |-> c.stored \cup s.stored]

\* hasher.hash of a short or full node.  Cached hashes are used as they are when
\* nothing is stored; in commit mode a clean node is dropped from memory.
hasher(n, commit, force) ==
    IF n.flags.hash # nilNode /\ (~commit \/ ~n.flags.dirty)
    THEN [hashed |-> n.flags.hash,
          cached |-> IF commit THEN n.flags.hash ELSE n,
          stored |-> {}]
    ELSE LET c == hashChildren(n, commit)
             s == store(c.collapsed, commit, force)
         IN  [hashed |-> s.hashed,
              cached |-> [c.cached EXCEPT
                             !.flags = nodeFlag(IF s.hashed.kind = "hash" THEN s.hashed ELSE nilNode,
                                                n.flags.dirty /\ ~commit)],
              stored |-> c.stored \cup s.stored]

\* Trie.hashRoot.  A root that is still a hash is returned by store as it is; the
\* empty trie has the hash of the empty encoding.
hashRoot(commit) ==
    CASE root.kind = "nil" -> [hashed |-> hashNode(nilNode), cached |-> nilNode, stored |-> {}]
      [] root.kind = "hash" -> [hashed |-> root, cached |-> root, stored |-> {}]
      [] OTHER -> hasher(root, commit, TRUE)

-----------------------------------------------------------------------------
(* trie.go: get, insert and delete below a node *)

RECURSIVE tryGet(_, _)
\* The value at key below n, and n with the nodes on the way loaded
tryGet(n, key) ==
    CASE n.kind = "nil" -> [value |-> NoValue, node |-> n]
      [] n.kind = "value" -> [value |-> n.v, node |-> n]
      [] n.kind = "short" ->
            IF ~IsPrefix(n.key, key) THEN [value |-> NoValue, node |-> n]
            ELSE LET r == tryGet(n.val, Drop(key, Len(n.key)))
                 IN  [value |-> r.value, node |-> [n EXCEPT !.val = r.node]]
      [] n.kind = "full" ->
            LET r == tryGet(n.children[key[1]], Tail(key))
            IN  [value |-> r.value, node |-> [n EXCEPT !.children[key[1]] = r.node]]
      [] n.kind = "hash" -> tryGet(resolve(n), key)

Clean(n) == [dirty |-> FALSE, node |-> n]
Changed(n) == [dirty |-> TRUE, node |-> n]

RECURSIVE insert(_, _, _)
insert(n, key, value) ==
    IF key = <<>> THEN IF n = value THEN Clean(value) ELSE Changed(value)
    ELSE CASE n.kind = "short" /\ prefixLen(key, n.key) = Len(n.key) ->
                LET r == insert(n.val, Drop(key, Len(n.key)), value)
                IN  IF r.dirty THEN Changed(shortNode(n.key, r.node, newFlag)) ELSE Clean(n)
           [] n.kind = "short" /\ prefixLen(key, n.key) < Len(n.key) ->
                LET m == prefixLen(key, n.key)
                    old == insert(nilNode, Drop(n.key, m + 1), n.val).node
                    new == insert(nilNode, Drop(key, m + 1), value).node
                    branch == fullNode([NoChildren EXCEPT ![n.key[m + 1]] = old, ![key[m + 1]] = new],
                                       newFlag)
                IN  Changed(IF m = 0 THEN branch ELSE shortNode(Take(key, m), branch, newFlag))
           [] n.kind = "full" ->
                LET r == insert(n.children[key[1]], Tail(key), value)
                IN  IF r.dirty
                    THEN Changed(fullNode([n.children EXCEPT ![key[1]] = r.node], newFlag))
                    ELSE Clean(n)
           [] n.kind = "nil" -> Changed(shortNode(key, value, newFlag))
           [] n.kind = "hash" -> insert(resolve(n), key, value)

\* Mutant: the nibble of the remaining child is lost.
reduceLosesNibble(children) ==
    LET left == {i \in 0 .. Terminator : children[i] # nilNode}
        pos == CHOOSE i \in left : TRUE
        cnode == resolve(children[pos])
    IN  IF Cardinality(left) # 1 THEN fullNode(children, newFlag)
        ELSE IF pos # Terminator /\ cnode.kind = "short"
        THEN shortNode(cnode.key, cnode.val, newFlag)
        ELSE shortNode(<<pos>>, children[pos], newFlag)

\* Mutant: the remaining child is not looked at.
reduceNoMerge(children) ==
    LET left == {i \in 0 .. Terminator : children[i] # nilNode}
        pos == CHOOSE i \in left : TRUE
    IN  IF Cardinality(left) # 1 THEN fullNode(children, newFlag)
        ELSE shortNode(<<pos>>, children[pos], newFlag)

\* The end of delete on a full node: one with a single child left becomes a short
\* node, and takes a short child in.
reduce(children) ==
    LET left == {i \in 0 .. Terminator : children[i] # nilNode}
        pos == CHOOSE i \in left : TRUE
        cnode == resolve(children[pos])
    IN  IF Cardinality(left) # 1 THEN fullNode(children, newFlag)
        ELSE IF pos # Terminator /\ cnode.kind = "short"
        THEN shortNode(<<pos>> \o cnode.key, cnode.val, newFlag)
        ELSE shortNode(<<pos>>, children[pos], newFlag)

RECURSIVE delete(_, _)
delete(n, key) ==
    CASE n.kind = "short" /\ prefixLen(key, n.key) < Len(n.key) -> Clean(n)
      [] n.kind = "short" /\ key = n.key -> Changed(nilNode)
      [] n.kind = "short" /\ IsStrictPrefix(n.key, key) ->
            LET r == delete(n.val, Drop(key, Len(n.key)))
            IN  IF ~r.dirty THEN Clean(n)
                ELSE IF r.node.kind = "short"
                THEN Changed(shortNode(n.key \o r.node.key, r.node.val, newFlag))
                ELSE Changed(shortNode(n.key, r.node, newFlag))
      [] n.kind = "full" ->
            LET r == delete(n.children[key[1]], Tail(key))
            IN  IF r.dirty THEN Changed(reduce([n.children EXCEPT ![key[1]] = r.node])) ELSE Clean(n)
      [] n.kind = "value" -> Changed(nilNode)
      [] n.kind = "nil" -> Clean(n)
      [] n.kind = "hash" -> delete(resolve(n), key)

-----------------------------------------------------------------------------
(* proof.go *)

RECURSIVE pathNodes(_, _)
\* The first loop of Prove: the nodes from n down to the end of key
pathNodes(n, key) ==
    IF key = <<>> THEN <<>>
    ELSE CASE n.kind = "short" ->
                IF IsPrefix(n.key, key) THEN <<n>> \o pathNodes(n.val, Drop(key, Len(n.key)))
                ELSE <<n>>
           [] n.kind = "full" -> <<n>> \o pathNodes(n.children[key[1]], Tail(key))
           [] n.kind = "hash" -> pathNodes(resolve(n), key)
           [] n.kind = "nil" -> <<>>

\* Mutant: a small root is left out of the proof.
ProveWithoutRoot(key) ==
    LET nodes == pathNodes(root, keybytesToHex(key))
        encoded == [i \in DOMAIN nodes |-> store(hashChildren(nodes[i], FALSE).collapsed, FALSE, FALSE)]
    IN  {encoded[i].hashed : i \in {j \in DOMAIN nodes : encoded[j].hashed.kind = "hash"}}

\* Trie.Prove from level 0: the encodings of the nodes on the path that are not
\* stored inside their parent
Prove(key) ==
    LET nodes == pathNodes(root, keybytesToHex(key))
        encoded == [i \in DOMAIN nodes |-> store(hashChildren(nodes[i], FALSE).collapsed, FALSE, i = 1)]
    IN  {encoded[i].hashed : i \in {j \in DOMAIN nodes : encoded[j].hashed.kind = "hash"}}

RECURSIVE get(_, _)
\* Follows key inside one decoded proof node: what it ends at and the rest of key
get(n, key) ==
    CASE n.kind = "short" ->
            IF IsPrefix(n.key, key) THEN get(n.val, Drop(key, Len(n.key)))
            ELSE [node |-> nilNode, rest |-> <<>>]
      [] n.kind = "full" -> get(n.children[key[1]], Tail(key))
      [] OTHER -> [node |-> n, rest |-> key]

RECURSIVE verify(_, _, _)
\* The loop of VerifyProof on a HEX key.  A node the proof lacks gives no answer.
verify(wantHash, key, proof) ==
    IF wantHash \notin proof THEN [ok |-> FALSE, value |-> NoValue]
    ELSE LET r == get(resolve(wantHash), key)
         IN  CASE r.node.kind = "nil" -> [ok |-> TRUE, value |-> NoValue]
               [] r.node.kind = "value" -> [ok |-> TRUE, value |-> r.node.v]
               [] r.node.kind = "hash" -> verify(r.node, r.rest, proof)

VerifyProof(rootHash, key, proof) == verify(rootHash, keybytesToHex(key), proof)

-----------------------------------------------------------------------------
(* The operations of a trie *)

\* New(emptyRoot, db)
Init ==
    /\ root = nilNode /\ db = {}
    /\ content = [k \in Keys |-> NoValue]
    /\ committed = {}

\* TryGet keeps the nodes it loaded.
TryGet(k) ==
    /\ root' = tryGet(root, keybytesToHex(k)).node
    /\ UNCHANGED <<db, content, committed>>

\* TryUpdate with a value; the empty value goes to delete.
TryUpdate(k, v) ==
    /\ root' = insert(root, keybytesToHex(k), valueNode(v)).node
    /\ content' = [content EXCEPT ![k] = v]
    /\ UNCHANGED <<db, committed>>

TryDelete(k) ==
    /\ root' = delete(root, keybytesToHex(k)).node
    /\ content' = [content EXCEPT ![k] = NoValue]
    /\ UNCHANGED <<db, committed>>

Hash ==
    /\ root' = hashRoot(FALSE).cached
    /\ UNCHANGED <<db, content, committed>>

Commit ==
    /\ Cardinality(committed) < MaxCommits
    /\ LET h == hashRoot(TRUE)
       IN  /\ root' = h.cached
           /\ db' = db \cup h.stored
           /\ committed' = committed \cup {[root |-> h.hashed, content |-> content]}
    /\ UNCHANGED content

\* New(root, db) at a root that was committed earlier
Open(c) ==
    /\ root' = IF c.root = hashNode(nilNode) THEN nilNode ELSE resolve(c.root)
    /\ content' = c.content
    /\ UNCHANGED <<db, committed>>

Next ==
    \/ \E k \in Keys : TryGet(k) \/ TryDelete(k) \/ \E v \in ValuesOf[k] : TryUpdate(k, v)
    \/ Hash
    \/ Commit
    \/ \E c \in committed : Open(c)

Spec == Init /\ [][Next]_vars

-----------------------------------------------------------------------------
(* What the trie promises *)

RECURSIVE Canonical(_)
\* The encoding of a set of HEX keys with their values, from the definition of the
\* trie: a lone key is a leaf, a common prefix an extension, anything else a branch.
\* Children of HashLen or more are referred to by their hash.
Canonical(S) ==
    LET Ref(T) == LET enc == Canonical(T)
                  IN  IF enc.kind \in {"short", "full"} /\ Size(enc) >= HashLen
                      THEN hashNode(enc) ELSE enc
        p == LongestCommonPrefix({e[1] : e \in S})
        Below(q) == {<<Drop(e[1], Len(q)), e[2]>> : e \in {d \in S : IsPrefix(q, d[1])}}
    IN  IF S = {} THEN nilNode
        ELSE IF \E e \in S : e[1] = <<>> THEN valueNode((CHOOSE e \in S : TRUE)[2])
        ELSE IF p # <<>>
        THEN [kind |-> "short", key |-> hexToCompact(p), val |-> Ref(Below(p))]
        ELSE [kind |-> "full", children |-> [i \in 0 .. Terminator |-> Ref(Below(<<i>>))]]

ContentSet(c) == {<<keybytesToHex(k), c[k]>> : k \in {j \in Keys : c[j] # NoValue}}

\* Get answers what was stored last, whatever was loaded, hashed, committed,
\* deleted or opened again in between ("Subsequent calls to Get will return value").
GetIsContent ==
    \A k \in Keys : tryGet(root, keybytesToHex(k)).value = content[k]

\* The root hash depends on the content alone: any history of inserts, deletes,
\* commits and loads ends in the trie the content defines, so two nodes with the same
\* state agree on its root.
RootIsCanonical == hashRoot(FALSE).hashed = hashNode(Canonical(ContentSet(content)))

RECURSIVE HashesIn(_), NodesIn(_)
\* The hash nodes a node holds, embedded nodes included
HashesIn(n) ==
    CASE n.kind = "hash" -> {n}
      [] n.kind = "short" -> HashesIn(n.val)
      [] n.kind = "full" -> UNION {HashesIn(n.children[i]) : i \in 0 .. Terminator}
      [] OTHER -> {}

\* A node in memory and the nodes loaded below it
NodesIn(n) ==
    CASE n.kind = "short" -> {n} \cup NodesIn(n.val)
      [] n.kind = "full" -> {n} \cup UNION {NodesIn(n.children[i]) : i \in 0 .. Terminator}
      [] OTHER -> {}

\* A node the next Commit will not store is stored already, with all it refers to:
\* no later load of a committed or a live trie meets a hash the database lacks.
CleanIsStored ==
    /\ HashesIn(root) \subseteq db
    /\ \A n \in NodesIn(root) : ~n.flags.dirty /\ n.flags.hash # nilNode => n.flags.hash \in db
    /\ \A h \in db : HashesIn(h.of) \subseteq db
    /\ \A c \in committed : c.root \in db \cup {hashNode(nilNode)}

\* A proof taken from the trie verifies against its root hash and yields the value,
\* or the absence, of the key.
ProofsVerify ==
    LET rootHash == hashRoot(FALSE).hashed
    IN  root.kind # "nil" =>
            \A k \in Keys : VerifyProof(rootHash, k, Prove(k)) = [ok |-> TRUE, value |-> content[k]]

=============================================================================
