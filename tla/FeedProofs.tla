------------------------------ MODULE FeedProofs ------------------------------
(***************************************************************************)
(* Proofs about Feed, for any number of senders, subscriptions and         *)
(* channels: what inbox and sendCases hold together, and that a Send gives *)
(* its value to the subscriptions that are there.                          *)
(***************************************************************************)
EXTENDS Feed, FiniteSetTheorems, WellFoundedInduction, TLAPS

-----------------------------------------------------------------------------
(* Counting cases *)

\* A set of numbers that is not empty has a least one.
LEMMA Least ==
  ASSUME NEW S \in SUBSET Nat, NEW n \in S
  PROVE  \E m \in S : \A k \in S : m <= k
  <1> DEFINE R == {ss \in Nat \X Nat : ss[1] < ss[2]}
  <1>1. IsWellFoundedOn(R, Nat)  BY NatLessThanWellFounded, Zenon DEF OpToRel
  <1>2. PICK m \in S : \A k \in S : <<k, m>> \notin R
    <2> HIDE DEF R
    <2> QED  BY <1>1, WFMin, Zenon
  <1>3. ASSUME NEW k \in S  PROVE m <= k
    <2>1. <<k, m>> \in Nat \X Nat /\ <<k, m>>[1] = k /\ <<k, m>>[2] = m  BY Zenon
    <2>2. ~(k < m)  BY <1>2, <2>1, Zenon
    <2> QED  BY <2>2
  <1> QED  BY <1>3, Zenon

\* How often c is in cs at the positions in I
Count(cs, I, c) == Cardinality({i \in I : cs[i] = c})

\* Counting the positions of a channel gives a number.
LEMMA CountType ==
  ASSUME NEW cs, NEW I, IsFiniteSet(I), NEW c
  PROVE  Count(cs, I, c) \in Nat
  <1> DEFINE S == {i \in I : cs[i] = c}
  <1>1. S \subseteq I  BY Zenon
  <1> HIDE DEF S
  <1>2. IsFiniteSet(S)  BY <1>1, FS_Subset, Zenon
  <1>3. Cardinality(S) \in Nat  BY <1>2, FS_CardinalityType, Zenon
  <1> QED  BY <1>3, Zenon DEF Count, S

\* I consists of J and K, which have nothing in common.
Parted(I, J, K) == IsFiniteSet(I) /\ I = J \cup K /\ J \cap K = {}

\* Positions in two parts are counted one part after the other.
LEMMA CountSplit ==
  ASSUME NEW cs, NEW I, NEW J, NEW K, Parted(I, J, K), NEW c
  PROVE  /\ Count(cs, I, c) = Count(cs, J, c) + Count(cs, K, c)
         /\ Count(cs, J, c) \in Nat /\ Count(cs, K, c) \in Nat
  <1> DEFINE S == {i \in J : cs[i] = c}
             T == {i \in K : cs[i] = c}
  <1>1. {i \in I : cs[i] = c} = S \cup T /\ S \cap T = {}  BY Zenon DEF Parted
  <1>2. S \subseteq I /\ T \subseteq I /\ IsFiniteSet(I)  BY Zenon DEF Parted
  <1> HIDE DEF S, T
  <1>3. IsFiniteSet(S) /\ IsFiniteSet(T)  BY <1>2, FS_Subset, Zenon
  <1>4. Cardinality(S) \in Nat /\ Cardinality(T) \in Nat  BY <1>3, FS_CardinalityType, Zenon
  <1>5. Cardinality(S \cup T) = Cardinality(S) + Cardinality(T) - Cardinality(S \cap T)  BY <1>3, FS_Union, Zenon
  <1>6. Cardinality(S \cap T) = 0  BY <1>1, FS_EmptySet, Zenon
  <1>7. Cardinality(S \cup T) = Cardinality(S) + Cardinality(T)  BY <1>4, <1>5, <1>6
  <1> QED  BY <1>1, <1>4, <1>7, Zenon DEF Count, S, T

\* One position
One(x, c) == IF x = c THEN 1 ELSE 0

\* Counting at one position.
LEMMA CountOne ==
  ASSUME NEW cs, NEW k, NEW c
  PROVE  Count(cs, {k}, c) = One(cs[k], c)
  <1>1. CASE cs[k] = c
    <2>1. {i \in {k} : cs[i] = c} = {k}  BY <1>1, Zenon
    <2> QED  BY <1>1, <2>1, FS_Singleton, Zenon DEF Count, One
  <1>2. CASE cs[k] # c
    <2>1. {i \in {k} : cs[i] = c} = {}  BY <1>2, Zenon
    <2> QED  BY <1>2, <2>1, FS_EmptySet, Zenon DEF Count, One
  <1> QED  BY <1>1, <1>2, Zenon

\* The values of cs at I are those of r at J, d places further on.
Moved(cs, I, r, J) ==
    /\ I \subseteq Int /\ J \subseteq Int /\ IsFiniteSet(I)
    /\ \E d \in Int : /\ \A i \in I : i + d \in J /\ r[i + d] = cs[i]
                      /\ \A j \in J : j - d \in I

\* Channels that move together are counted as before.
LEMMA CountMoved ==
  ASSUME NEW cs, NEW r, NEW I, NEW J, Moved(cs, I, r, J), NEW c
  PROVE  Count(r, J, c) = Count(cs, I, c)
  <1>1. PICK d \in Int : /\ \A i \in I : i + d \in J /\ r[i + d] = cs[i]
                         /\ \A j \in J : j - d \in I
    BY Zenon DEF Moved
  <1> DEFINE S == {i \in I : cs[i] = c}
             T == {i \in J : r[i] = c}
             f == [i \in S |-> i + d]
  <1>2. I \subseteq Int /\ J \subseteq Int /\ IsFiniteSet(I)  BY Zenon DEF Moved
  <1>3. \A i \in S : i \in Int /\ i + d \in T  BY <1>1, <1>2, Zenon
  <1>4. ASSUME NEW j \in T  PROVE j - d \in S /\ (j - d) + d = j
    <2>1. j \in Int /\ j - d \in I  BY <1>1, <1>2, Zenon
    <2>2. (j - d) + d = j  BY <2>1
    <2>3. r[(j - d) + d] = cs[j - d]  BY <1>1, <2>1, Zenon
    <2> QED  BY <2>1, <2>2, <2>3, Zenon
  <1>5. S \subseteq I  BY Zenon
  <1> HIDE DEF S, T
  <1>6. f \in Bijection(S, T)
    <2>1. f \in [S -> T]  BY <1>3, Zenon
    <2>2. \A i, j \in S : f[i] = f[j] => i = j
      <3>1. SUFFICES ASSUME NEW i \in S, NEW j \in S, f[i] = f[j]  PROVE i = j  BY Zenon
      <3>2. i + d = j + d  BY <3>1, Zenon
      <3>3. i \in Int /\ j \in Int  BY <1>3, Zenon
      <3> HIDE DEF f
      <3> QED  BY <3>2, <3>3
    <2>3. \A j \in T : \E i \in S : f[i] = j
      <3>1. TAKE j \in T
      <3>2. f[j - d] = j  BY <1>4, Zenon
      <3> QED  BY <1>4, <3>2, Zenon
    <2> QED  BY <2>1, <2>2, <2>3, Zenon DEF Bijection, Injection, Surjection, IsInjective
  <1>7. IsFiniteSet(S)  BY <1>2, <1>5, FS_Subset, Zenon
  <1>8. Cardinality(T) = Cardinality(S)  BY <1>6, <1>7, FS_Bijection, Zenon DEF ExistsBijection
  <1> QED  BY <1>8, Zenon DEF Count, S, T

\* Channels that stay where they are are counted as before.
LEMMA CountSame ==
  ASSUME NEW cs, NEW r, NEW I, \A i \in I : r[i] = cs[i], NEW c
  PROVE  Count(r, I, c) = Count(cs, I, c)
  <1>1. {i \in I : r[i] = c} = {i \in I : cs[i] = c}  BY Zenon
  <1> QED  BY <1>1, Zenon DEF Count

\* More positions do not have fewer occurrences.
LEMMA CountMonotone ==
  ASSUME NEW cs, NEW I, NEW J, IsFiniteSet(J), I \subseteq J, NEW c
  PROVE  Count(cs, I, c) <= Count(cs, J, c) /\ Count(cs, I, c) \in Nat /\ Count(cs, J, c) \in Nat
  <1> DEFINE K == J \ I
  <1>1. Parted(J, I, K)  BY Zenon DEF Parted
  <1> HIDE DEF K
  <1>2. /\ Count(cs, J, c) = Count(cs, I, c) + Count(cs, K, c)
        /\ Count(cs, I, c) \in Nat /\ Count(cs, K, c) \in Nat
    BY <1>1, CountSplit, Zenon
  <1> QED  BY <1>2

\* occurrences counts at all positions.
LEMMA CountAll ==
  ASSUME NEW cs \in Seq(Channels), NEW c
  PROVE  occurrences(cs, c) = Count(cs, 1 .. Len(cs), c) /\ occurrences(cs, c) \in Nat
  <1>1. DOMAIN cs = 1 .. Len(cs) /\ Len(cs) \in Int /\ 1 \in Int  OBVIOUS
  <1>2. occurrences(cs, c) = Count(cs, 1 .. Len(cs), c)  BY <1>1, Zenon DEF occurrences, Count
  <1>3. IsFiniteSet(1 .. Len(cs))  BY <1>1, FS_Interval, Zenon
  <1> QED  BY <1>2, <1>3, CountType, Zenon

\* r is cs without the value at k.
Removed(cs, r, k) ==
    /\ r \in Seq(Channels) /\ Len(r) = Len(cs) - 1
    /\ \A i \in 1 .. k - 1 : r[i] = cs[i]
    /\ \A i \in k + 1 .. Len(cs) : r[i - 1] = cs[i]

\* caseList.delete takes one case out and keeps the order of the others.
LEMMA RemoveEffect ==
  ASSUME NEW cs \in Seq(Channels), NEW k \in DOMAIN cs
  PROVE  Removed(cs, delete(cs, k), k)
  <1> DEFINE s == SubSeq(cs, 1, k - 1)
             t == SubSeq(cs, k + 1, Len(cs))
  <1>1. k \in 1 .. Len(cs) /\ Len(cs) \in Nat  OBVIOUS
  <1>2. s \in Seq(Channels) /\ Len(s) = k - 1 /\ \A i \in 1 .. k - 1 : s[i] = cs[i]  BY <1>1
  <1>3. t \in Seq(Channels) /\ Len(t) = Len(cs) - k /\ \A i \in 1 .. Len(cs) - k : t[i] = cs[k + i]  BY <1>1
  <1> HIDE DEF s, t
  <1>4. s \o t \in Seq(Channels) /\ Len(s \o t) = Len(cs) - 1  BY <1>1, <1>2, <1>3
  <1>5. \A i \in 1 .. k - 1 : (s \o t)[i] = cs[i]  BY <1>1, <1>2, <1>3
  <1>6. ASSUME NEW i \in k + 1 .. Len(cs)  PROVE (s \o t)[i - 1] = cs[i]
    <2>1. i - k \in 1 .. Len(cs) - k /\ k + (i - k) = i  BY <1>1
    <2>2. t[i - k] = cs[i]  BY <1>3, <2>1, Zenon
    <2>3. (s \o t)[i - 1] = t[(i - 1) - (k - 1)]
      <3>1. s \in Seq(Channels) /\ t \in Seq(Channels) /\ Len(s) = k - 1  BY <1>2, <1>3, Zenon
      <3>2. i - 1 \in Len(s) + 1 .. Len(s) + Len(t)  BY <1>1, <1>2, <1>3, SMTT(30)
      <3> QED  BY <3>1, <3>2, SMTT(30)
    <2>4. (i - 1) - (k - 1) = i - k  BY <1>1
    <2> QED  BY <2>2, <2>3, <2>4, Zenon
  <1>7. delete(cs, k) = s \o t  BY Zenon DEF delete, s, t
  <1> QED  BY <1>4, <1>5, <1>6, <1>7, Zenon DEF Removed

\* caseList.find returns a position of the channel, if there is one.
LEMMA FindIndex ==
  ASSUME NEW cs \in Seq(Channels), NEW c
  PROVE  /\ find(cs, c) = 0 => occurrences(cs, c) = 0
         /\ find(cs, c) # 0 => find(cs, c) \in DOMAIN cs /\ cs[find(cs, c)] = c
  <1>1. DOMAIN cs = 1 .. Len(cs) /\ Len(cs) \in Nat  OBVIOUS
  <1>2. CASE c \in Range(cs)
    <2> DEFINE S == {i \in DOMAIN cs : cs[i] = c}
               P(i) == cs[i] = c /\ \A j \in 1 .. i - 1 : cs[j] # c
    <2>1. PICK n \in DOMAIN cs : cs[n] = c  BY <1>2, Zenon DEF Range
    <2>2. S \in SUBSET Nat /\ n \in S  BY <1>1, <2>1
    <2>3. PICK m \in S : \A k \in S : m <= k
      <3> HIDE DEF S
      <3> QED  BY <2>2, Least, Zenon
    <2>4. \A j \in 1 .. m - 1 : cs[j] # c  BY <1>1, <2>3
    <2>5. m \in DOMAIN cs /\ P(m)  BY <2>3, <2>4, Zenon
    <2>6. find(cs, c) = CHOOSE i \in DOMAIN cs : P(i)  BY <1>2, Zenon DEF find
    <2> HIDE DEF P
    <2>7. find(cs, c) \in DOMAIN cs /\ P(find(cs, c))  BY <2>5, <2>6, Zenon
    <2> QED  BY <1>1, <2>7 DEF P
  <1>3. CASE c \notin Range(cs)
    <2>1. find(cs, c) = 0  BY <1>3, Zenon DEF find
    <2>2. {i \in DOMAIN cs : cs[i] = c} = {}  BY <1>3, Zenon DEF Range
    <2> QED  BY <2>1, <2>2, FS_EmptySet, Zenon DEF occurrences
  <1> QED  BY <1>2, <1>3, Zenon

\* The value at k leaves the positions around it,
LEMMA RemovedAround ==
  ASSUME NEW cs \in Seq(Channels), NEW k \in DOMAIN cs, NEW r, Removed(cs, r, k),
         NEW a \in 1 .. k, NEW n \in k .. Len(cs), NEW c
  PROVE  Count(r, a .. n - 1, c) = Count(cs, a .. n, c) - One(cs[k], c)
  <1> DEFINE A == a .. k - 1
             B == k + 1 .. n
             C == k .. n - 1
             F == a .. n
             G == a .. n - 1
             H == A \cup {k}
  <1>1. k \in 1 .. Len(cs) /\ Len(cs) \in Nat /\ n \in Nat /\ a \in Nat  BY DEF Removed
  <1>2. IsFiniteSet(F) /\ IsFiniteSet(G) /\ IsFiniteSet(B)
    <2>1. a \in Int /\ n \in Int /\ n - 1 \in Int /\ k + 1 \in Int  BY <1>1
    <2> QED  BY <2>1, FS_Interval, Zenon
  <1>3. Parted(F, H, B)  BY <1>1, <1>2 DEF Parted
  <1>4. Parted(H, A, {k})
    <2>1. H \subseteq F /\ A \cap {k} = {}  BY <1>1
    <2>2. IsFiniteSet(H)
      <3> HIDE DEF H, F
      <3> QED  BY <1>2, <2>1, FS_Subset, Zenon
    <2> QED  BY <2>1, <2>2, Zenon DEF Parted
  <1>5. Parted(G, A, C)  BY <1>1, <1>2 DEF Parted
  <1>6. Moved(cs, B, r, C)
    <2>1. B \subseteq Int /\ C \subseteq Int /\ B \subseteq k + 1 .. Len(cs) /\ -1 \in Int  BY <1>1
    <2>2. \A i \in B : i + (-1) \in C /\ r[i + (-1)] = cs[i]  BY <1>1 DEF Removed
    <2>3. \A j \in C : j - (-1) \in B  BY <1>1
    <2> HIDE DEF B, C
    <2> QED  BY <1>2, <2>1, <2>2, <2>3, Zenon DEF Moved
  <1>7. \A i \in A : r[i] = cs[i]  BY <1>1 DEF Removed
  <1> HIDE DEF A, B, C, F, G, H
  <1>8. Count(r, C, c) = Count(cs, B, c)  BY <1>6, CountMoved
  <1>9. Count(r, A, c) = Count(cs, A, c)  BY <1>7, CountSame
  <1>10. Count(cs, {k}, c) = One(cs[k], c)  BY CountOne, Zenon
  <1>11. /\ Count(cs, F, c) = Count(cs, H, c) + Count(cs, B, c)
         /\ Count(cs, H, c) \in Nat /\ Count(cs, B, c) \in Nat
    BY <1>3, CountSplit, Zenon
  <1>12. /\ Count(cs, H, c) = Count(cs, A, c) + Count(cs, {k}, c)
         /\ Count(cs, A, c) \in Nat /\ Count(cs, {k}, c) \in Nat
    BY <1>4, CountSplit, Zenon
  <1>13. Count(r, G, c) = Count(r, A, c) + Count(r, C, c)  BY <1>5, CountSplit
  <1>14. Count(r, G, c) = Count(cs, F, c) - One(cs[k], c)  BY <1>8, <1>9, <1>10, <1>11, <1>12, <1>13
  <1> QED  BY <1>14, Zenon DEF F, G

\* those before it stay as they are,
LEMMA RemovedBefore ==
  ASSUME NEW cs \in Seq(Channels), NEW k \in DOMAIN cs, NEW r, Removed(cs, r, k), NEW n \in 0 .. k - 1, NEW c
  PROVE  Count(r, 1 .. n, c) = Count(cs, 1 .. n, c)
  <1> DEFINE A == 1 .. n
  <1>1. \A i \in A : r[i] = cs[i]  BY DEF Removed
  <1> HIDE DEF A
  <1>2. Count(r, A, c) = Count(cs, A, c)  BY <1>1, CountSame
  <1> QED  BY <1>2, Zenon DEF A

\* and those after it move down.
LEMMA RemovedAfter ==
  ASSUME NEW cs \in Seq(Channels), NEW k \in DOMAIN cs, NEW r, Removed(cs, r, k), NEW n \in k .. Len(cs), NEW c
  PROVE  Count(r, n .. Len(r), c) = Count(cs, n + 1 .. Len(cs), c)
  <1> DEFINE D == n + 1 .. Len(cs)
             E == n .. Len(r)
  <1>1. k \in 1 .. Len(cs) /\ Len(cs) \in Nat /\ n \in Nat /\ Len(r) = Len(cs) - 1  BY DEF Removed
  <1>2. IsFiniteSet(D)
    <2>1. n + 1 \in Int /\ Len(cs) \in Int  BY <1>1
    <2> QED  BY <2>1, FS_Interval, Zenon
  <1>3. D \subseteq Int /\ E \subseteq Int /\ D \subseteq k + 1 .. Len(cs) /\ -1 \in Int  BY <1>1
  <1>4. \A i \in D : i + (-1) \in E /\ r[i + (-1)] = cs[i]  BY <1>1 DEF Removed
  <1>5. \A j \in E : j - (-1) \in D  BY <1>1
  <1> HIDE DEF D, E
  <1>6. Moved(cs, D, r, E)  BY <1>2, <1>3, <1>4, <1>5, Zenon DEF Moved
  <1>7. Count(r, E, c) = Count(cs, D, c)  BY <1>6, CountMoved
  <1> QED  BY <1>7, Zenon DEF D, E

\* deactivate moves the case at k out of the first n.
LEMMA DeactivateEffect ==
  ASSUME NEW cs \in Seq(Channels), NEW n \in 1 .. Len(cs), NEW k \in 1 .. n, NEW r, r = deactivate(cs, n, k), NEW c
  PROVE  /\ r \in Seq(Channels) /\ Len(r) = Len(cs)
         /\ Count(r, 1 .. n - 1, c) = Count(cs, 1 .. n, c) - One(cs[k], c)
         /\ Count(r, n .. Len(r), c) = Count(cs, n + 1 .. Len(cs), c) + One(cs[k], c)
         /\ Count(r, 1 .. Len(r), c) = Count(cs, 1 .. Len(cs), c)
  <1> DEFINE X == 1 .. n - 1
             A == X \ {k}
             F == 1 .. n
             D == n + 1 .. Len(cs)
             E == n .. Len(cs)
             W == 1 .. Len(cs)
  <1>1. n \in Nat /\ k \in Nat /\ Len(cs) \in Nat  OBVIOUS
  <1>2. r \in Seq(Channels) /\ Len(r) = Len(cs)  BY <1>1 DEF deactivate
  <1>3. r[n] = cs[k] /\ r[k] = cs[n] /\ \A i \in W \ {n, k} : r[i] = cs[i]  BY <1>1 DEF deactivate
  <1>4. IsFiniteSet(F) /\ IsFiniteSet(W) /\ IsFiniteSet(E) /\ IsFiniteSet(X)
    <2>1. 1 \in Int /\ n \in Int /\ n - 1 \in Int /\ Len(cs) \in Int  BY <1>1
    <2> QED  BY <2>1, FS_Interval, Zenon
  <1>5. Parted(F, X, {n}) /\ Parted(E, {n}, D) /\ Parted(W, X, E) /\ Parted(W, F, D)
    <2>1. Parted(F, X, {n}) /\ Parted(E, {n}, D)  BY <1>1, <1>4 DEF Parted
    <2>2. Parted(W, X, E) /\ Parted(W, F, D)  BY <1>1, <1>4 DEF Parted
    <2> QED  BY <2>1, <2>2, Zenon
  <1>6. \A i \in D : r[i] = cs[i]  BY <1>1, <1>3
  <1>7. \A i \in A : r[i] = cs[i]  BY <1>1, <1>3
  <1>8. k = n => A = X  BY <1>1
  <1>9. k # n => Parted(X, A, {k})  BY <1>1, <1>4 DEF Parted
  <1> HIDE DEF X, A, F, D, E, W
  <1>10. Count(r, D, c) = Count(cs, D, c) /\ Count(r, A, c) = Count(cs, A, c)  BY <1>6, <1>7, CountSame
  <1>11. /\ Count(cs, {n}, c) = One(cs[n], c) /\ Count(cs, {k}, c) = One(cs[k], c)
         /\ Count(r, {n}, c) = One(cs[k], c) /\ Count(r, {k}, c) = One(cs[n], c)
    <2>1. Count(cs, {n}, c) = One(cs[n], c) /\ Count(cs, {k}, c) = One(cs[k], c)  BY CountOne, Zenon
    <2>2. Count(r, {n}, c) = One(r[n], c) /\ Count(r, {k}, c) = One(r[k], c)  BY CountOne, Zenon
    <2> QED  BY <1>3, <2>1, <2>2, Zenon
  <1>12. One(cs[k], c) \in Nat /\ One(cs[n], c) \in Nat  BY Zenon DEF One
  <1>13. Count(r, X, c) = Count(cs, F, c) - One(cs[k], c) /\ Count(r, X, c) \in Nat
    <2>1. Count(cs, F, c) = Count(cs, X, c) + Count(cs, {n}, c)  BY <1>5, CountSplit
    <2>2. CASE k = n
      <3>1. Count(r, X, c) = Count(cs, X, c)  BY <1>8, <1>10, <2>2, Zenon
      <3>2. Count(cs, X, c) \in Nat  BY <1>5, CountSplit, Zenon
      <3> QED  BY <1>11, <1>12, <2>1, <2>2, <3>1, <3>2
    <2>3. CASE k # n
      <3>1. Count(cs, X, c) = Count(cs, A, c) + Count(cs, {k}, c) /\ Count(cs, A, c) \in Nat
        BY <1>9, <2>3, CountSplit
      <3>2. Count(r, X, c) = Count(r, A, c) + Count(r, {k}, c)  BY <1>9, <2>3, CountSplit
      <3> QED  BY <1>10, <1>11, <1>12, <2>1, <3>1, <3>2
    <2> QED  BY <2>2, <2>3, Zenon
  <1>14. Count(r, E, c) = Count(cs, D, c) + One(cs[k], c)
    <2>1. /\ Count(r, E, c) = Count(r, {n}, c) + Count(r, D, c)
          /\ Count(r, D, c) \in Nat
      BY <1>5, CountSplit
    <2> QED  BY <1>10, <1>11, <1>12, <2>1
  <1>15. Count(r, W, c) = Count(cs, W, c)
    <2>1. Count(r, W, c) = Count(r, X, c) + Count(r, E, c)  BY <1>5, CountSplit
    <2>2. /\ Count(cs, W, c) = Count(cs, F, c) + Count(cs, D, c)
          /\ Count(cs, F, c) \in Nat /\ Count(cs, D, c) \in Nat
      BY <1>5, CountSplit, Zenon
    <2> QED  BY <1>12, <1>13, <1>14, <2>1, <2>2
  <1> QED  BY <1>2, <1>13, <1>14, <1>15, Zenon DEF X, F, D, E, W

\* The cases of two lists together
LEMMA CountConcat ==
  ASSUME NEW cs \in Seq(Channels), NEW ds \in Seq(Channels), NEW c
  PROVE  occurrences(cs \o ds, c) = occurrences(cs, c) + occurrences(ds, c)
  <1> DEFINE r == cs \o ds
             A == 1 .. Len(cs)
             B == 1 .. Len(ds)
             C == Len(cs) + 1 .. Len(r)
             W == 1 .. Len(r)
  <1>1. /\ Len(cs) \in Nat /\ Len(ds) \in Nat /\ r \in Seq(Channels) /\ Len(r) = Len(cs) + Len(ds)
    OBVIOUS
  <1>2. \A i \in A : r[i] = cs[i]  OBVIOUS
  <1>3. \A i \in B : i + Len(cs) \in C /\ r[i + Len(cs)] = ds[i]
    <2>1. TAKE i \in B
    <2>2. i \in Int /\ i + Len(cs) \in C /\ (i + Len(cs)) - Len(cs) = i /\ i + Len(cs) \in 1 .. Len(cs) + Len(ds)
      BY <1>1
    <2>3. r[i + Len(cs)] = ds[(i + Len(cs)) - Len(cs)]  BY <1>1, <2>2
    <2> QED  BY <2>2, <2>3, Zenon
  <1> HIDE DEF r
  <1>4. IsFiniteSet(W) /\ IsFiniteSet(B)
    <2>1. 1 \in Int /\ Len(r) \in Int /\ Len(ds) \in Int  BY <1>1
    <2> QED  BY <2>1, FS_Interval, Zenon
  <1>5. Parted(W, A, C)  BY <1>1, <1>4 DEF Parted
  <1>6. Moved(ds, B, r, C)
    <2>1. \A j \in C : j - Len(cs) \in B  BY <1>1
    <2>2. B \subseteq Int /\ C \subseteq Int /\ Len(cs) \in Int  BY <1>1
    <2> HIDE DEF B, C
    <2> QED  BY <1>3, <1>4, <2>1, <2>2, Zenon DEF Moved
  <1>7. /\ occurrences(r, c) = Count(r, W, c) /\ occurrences(cs, c) = Count(cs, A, c)
        /\ occurrences(ds, c) = Count(ds, B, c)
    BY <1>1, CountAll, Zenon
  <1> HIDE DEF A, B, C, W
  <1>8. Count(r, W, c) = Count(r, A, c) + Count(r, C, c)  BY <1>5, CountSplit
  <1>9. Count(r, A, c) = Count(cs, A, c) /\ Count(r, C, c) = Count(ds, B, c)  BY <1>2, <1>6, CountSame, CountMoved
  <1>10. occurrences(r, c) = occurrences(cs, c) + occurrences(ds, c)  BY <1>7, <1>8, <1>9, Zenon
  <1> QED  BY <1>10, Zenon DEF r

-----------------------------------------------------------------------------
(* The invariant *)

\* The types, and cases is a prefix of sendCases.
FeedTypeInv ==
    /\ sendCases \in Seq(Channels) /\ inbox \in Seq(Channels) /\ sendLock \in BOOLEAN
    /\ active \in Nat /\ active <= Len(sendCases) /\ next \in Nat \ {0}
    /\ send \in [Senders -> {"idle", "lock", "merge", "try", "select", "unlock"}]
    /\ sub \in [Subs -> {"none", "subscribed", "remove", "select", "locked", "close"}]
    /\ buffered \in [Channels -> Nat]
    /\ expected \in [Senders -> SUBSET Subs] /\ reachable \subseteq Subs /\ copies \in [Channels -> Nat]

\* Where a Send holds sendLock
Holding == {"merge", "try", "select", "unlock"}
\* sendLock is one token: a Send, a remove or the channel has it.
TokenInv ==
    /\ sendLock => (\A s \in Senders : send[s] \notin Holding) /\ \A u \in Subs : sub[u] # "locked"
    /\ \A s, t \in Senders : send[s] \in Holding /\ send[t] \in Holding => s = t
    /\ \A s \in Senders, u \in Subs : send[s] \in Holding => sub[u] # "locked"
    /\ \A u, v \in Subs : sub[u] = "locked" /\ sub[v] = "locked" => u = v

\* The subscriptions that still have a case, and those that wait to be taken from sendCases
Live == {u \in Subs : isLive(u)}
Leaving == {u \in Subs : sub[u] \in {"select", "locked"}}
\* Every channel has as many cases as subscriptions, and the subscriptions that are no longer
\* looked for in the inbox have theirs in sendCases.
CountInv ==
    \A c \in Channels :
        /\ occurrences(sendCases, c) + occurrences(inbox, c) = subscribers(Live, c)
        /\ occurrences(sendCases, c) >= subscribers(Leaving, c)

\* Where a Send delivers, with the inbox merged
Delivering == {"try", "select", "unlock"}
\* The cases behind the active ones have had the value.  A channel gets no more copies than it had
\* subscriptions, and the subscriptions owed the value keep their cases.
Serves(s) ==
    \A c \in Channels :
        /\ Count(sendCases, active + 1 .. Len(sendCases), c) <= copies[c]
        /\ copies[c] + Count(sendCases, 1 .. active, c) <= subscribers(reachable, c)
        /\ occurrences(sendCases, c) >= subscribers(expected[s] \cup Leaving, c)
\* A Send in progress serves its cases; between two of them nothing is left over.
SendInv ==
    /\ \A s \in Senders : /\ \A u \in expected[s] : sub[u] = "subscribed"
                          /\ send[s] \in Delivering => Serves(s)
                          /\ send[s] = "unlock" => active = 0
    /\ (\A s \in Senders : send[s] \notin Delivering) => active = 0 /\ \A c \in Channels : copies[c] = 0

\* The inductive invariant of Feed
FeedInv == FeedTypeInv /\ TokenInv /\ CountInv /\ SendInv

\* One subscription more is one more on its channel.
LEMMA SubscribersAdd ==
  ASSUME NEW U \in SUBSET Subs, NEW u \in Subs, u \notin U, NEW c
  PROVE  /\ subscribers(U \cup {u}, c) = subscribers(U, c) + One(ChanOf[u], c)
         /\ subscribers(U, c) \in Nat
  <1> DEFINE V == U \cup {u}
  <1>1. IsFiniteSet(V)  BY FeedAssumption, FS_Subset
  <1>2. Parted(V, U, {u})  BY <1>1, Zenon DEF Parted
  <1> HIDE DEF V
  <1>3. Count(ChanOf, V, c) = Count(ChanOf, U, c) + Count(ChanOf, {u}, c) /\ Count(ChanOf, U, c) \in Nat
    BY <1>2, CountSplit
  <1>4. Count(ChanOf, {u}, c) = One(ChanOf[u], c)  BY CountOne, Zenon
  <1>5. subscribers(V, c) = Count(ChanOf, V, c) /\ subscribers(U, c) = Count(ChanOf, U, c)
    BY Zenon DEF subscribers, Count
  <1>6. subscribers(V, c) = subscribers(U, c) + One(ChanOf[u], c) /\ subscribers(U, c) \in Nat
    BY <1>3, <1>4, <1>5, Zenon
  <1> QED  BY <1>6, Zenon DEF V

\* More subscriptions do not have fewer on a channel.
LEMMA SubscribersMonotone ==
  ASSUME NEW V \in SUBSET Subs, NEW U \in SUBSET V, NEW c
  PROVE  subscribers(U, c) <= subscribers(V, c) /\ subscribers(U, c) \in Nat /\ subscribers(V, c) \in Nat
  <1>1. IsFiniteSet(V)  BY FeedAssumption, FS_Subset, Zenon
  <1>2. Count(ChanOf, U, c) <= Count(ChanOf, V, c) /\ Count(ChanOf, U, c) \in Nat /\ Count(ChanOf, V, c) \in Nat
    BY <1>1, CountMonotone, Zenon
  <1> QED  BY <1>2, Zenon DEF subscribers, Count

\* One is a number.
LEMMA OneType == ASSUME NEW x, NEW c  PROVE One(x, c) \in Nat
  BY Zenon DEF One

\* A new feed satisfies the invariant.
LEMMA FeedInit == Init => FeedInv
  <1> SUFFICES ASSUME Init  PROVE FeedInv  BY Zenon
  <1> USE DEF Init
  <1>1. FeedTypeInv  BY DEF FeedTypeInv
  <1>2. TokenInv  BY Zenon DEF TokenInv, Holding
  <1>3. CountInv
    <2>1. SUFFICES ASSUME NEW c \in Channels
                   PROVE  /\ occurrences(<< >>, c) + occurrences(<< >>, c) = subscribers({}, c)
                          /\ occurrences(<< >>, c) >= subscribers({}, c)
      <3>1. Live = {} /\ Leaving = {}  BY Zenon DEF Live, Leaving, isLive
      <3> QED  BY <3>1, Zenon DEF CountInv
    <2>2. {i \in DOMAIN << >> : << >>[i] = c} = {} /\ {u \in {} : ChanOf[u] = c} = {}  OBVIOUS
    <2>3. occurrences(<< >>, c) = 0 /\ subscribers({}, c) = 0  BY <2>2, FS_EmptySet, Zenon DEF occurrences, subscribers
    <2> QED  BY <2>3
  <1>4. SendInv  BY Zenon DEF SendInv, Delivering, Serves
  <1> QED  BY <1>1, <1>2, <1>3, <1>4, Zenon DEF FeedInv

\* One case more, at the end of the inbox.
LEMMA CountAppend ==
  ASSUME NEW cs \in Seq(Channels), NEW x \in Channels, NEW c
  PROVE  occurrences(Append(cs, x), c) = occurrences(cs, c) + One(x, c)
  <1> DEFINE ds == <<x>>
  <1>1. Append(cs, x) = cs \o ds /\ ds \in Seq(Channels) /\ Len(ds) = 1 /\ ds[1] = x  OBVIOUS
  <1> HIDE DEF ds
  <1>2. occurrences(ds, c) = Count(ds, 1 .. 1, c)  BY <1>1, CountAll, Zenon
  <1>3. 1 .. 1 = {1}  OBVIOUS
  <1>4. Count(ds, {1}, c) = One(ds[1], c)  BY CountOne, Zenon
  <1>5. occurrences(ds, c) = One(x, c)  BY <1>1, <1>2, <1>3, <1>4, Zenon
  <1>6. occurrences(cs \o ds, c) = occurrences(cs, c) + occurrences(ds, c)  BY <1>1, CountConcat, Zenon
  <1> QED  BY <1>1, <1>5, <1>6, Zenon

\* Subscribe: a case and a subscription more.
LEMMA SubscribeInv ==
  ASSUME FeedInv, NEW u \in Subs, Subscribe(u)
  PROVE  FeedInv'
  <1> USE DEF Subscribe, ghosts
  <1>1. FeedTypeInv /\ TokenInv /\ CountInv /\ SendInv  BY Zenon DEF FeedInv
  <1>2. ChanOf[u] \in Channels  BY FeedAssumption, Zenon
  <1>3. FeedTypeInv'  BY <1>1, <1>2 DEF FeedTypeInv
  <1>4. TokenInv'  BY <1>1, Zenon DEF TokenInv, FeedTypeInv
  <1>5. Live' = Live \cup {u} /\ u \notin Live /\ Live \subseteq Subs  BY <1>1, Zenon DEF Live, isLive, FeedTypeInv
  <1>6. Leaving' = Leaving  BY <1>1, Zenon DEF Leaving, FeedTypeInv
  <1>7. CountInv'
    <2>1. SUFFICES ASSUME NEW c \in Channels
                   PROVE  /\ occurrences(sendCases', c) + occurrences(inbox', c) = subscribers(Live', c)
                          /\ occurrences(sendCases', c) >= subscribers(Leaving', c)
      BY Zenon DEF CountInv, occurrences, subscribers
    <2>2. occurrences(inbox', c) = occurrences(inbox, c) + One(ChanOf[u], c)
      BY <1>1, <1>2, CountAppend, Zenon DEF FeedTypeInv
    <2>3. /\ subscribers(Live', c) = subscribers(Live, c) + One(ChanOf[u], c)
          /\ subscribers(Live, c) \in Nat
      BY <1>5, SubscribersAdd, Zenon
    <2>4. One(ChanOf[u], c) \in Nat /\ occurrences(sendCases, c) \in Nat /\ occurrences(inbox, c) \in Nat
      BY <1>1, OneType, CountAll, Zenon DEF FeedTypeInv
    <2>5. /\ occurrences(sendCases, c) + occurrences(inbox, c) = subscribers(Live, c)
          /\ occurrences(sendCases, c) >= subscribers(Leaving, c)
      BY <1>1, Zenon DEF CountInv
    <2>6. sendCases' = sendCases  BY Zenon
    <2>7. occurrences(sendCases', c) = occurrences(sendCases, c)  BY <2>6, Zenon
    <2>8. subscribers(Leaving', c) = subscribers(Leaving, c)  BY <1>6, Zenon
    <2> QED  BY ONLY <2>2, <2>3, <2>4, <2>5, <2>7, <2>8
  <1>8. SendInv'
    <2>1. \A s \in Senders : \A v \in expected[s] : sub'[v] = "subscribed"  BY <1>1, Zenon DEF SendInv, Serves, FeedTypeInv
    <2> QED  BY <1>1, <1>6, <2>1, Zenon DEF SendInv, Serves, Delivering
  <1> QED  BY <1>3, <1>4, <1>7, <1>8, Zenon DEF FeedInv

\* The subscription is cancelled, its case is still there.
LEMMA UnsubscribeInv ==
  ASSUME FeedInv, NEW u \in Subs, Unsubscribe(u)
  PROVE  FeedInv'
  <1> USE DEF Unsubscribe
  <1>1. FeedTypeInv /\ TokenInv /\ CountInv /\ SendInv  BY Zenon DEF FeedInv
  <1>2. FeedTypeInv'  BY <1>1, Zenon DEF FeedTypeInv
  <1>3. TokenInv'  BY <1>1, Zenon DEF TokenInv, FeedTypeInv
  <1>4. Live' = Live /\ Leaving' = Leaving  BY <1>1, Zenon DEF Live, Leaving, isLive, FeedTypeInv
  <1>5. CountInv'  BY <1>1, <1>4, Zenon DEF CountInv
  <1>t. \A i, j, k \in Nat : i >= j /\ k <= j => i >= k  BY ONLY SMT
  <1>6. SendInv'
    <2>1. \A s \in Senders : \A v \in expected'[s] : sub'[v] = "subscribed"  BY <1>1, Zenon DEF SendInv, Serves, FeedTypeInv
    <2>2. ASSUME NEW s \in Senders, NEW c \in Channels, send[s] \in Delivering
          PROVE  occurrences(sendCases, c) >= subscribers(expected'[s] \cup Leaving, c)
      <3> DEFINE U == expected'[s] \cup Leaving
                 V == expected[s] \cup Leaving
      <3>1. occurrences(sendCases, c) >= subscribers(V, c)  BY <1>1, <2>2, Zenon DEF SendInv, Serves
      <3>2. occurrences(sendCases, c) \in Nat  BY <1>1, CountAll, Zenon DEF FeedTypeInv
      <3>3. U \subseteq V /\ V \subseteq Subs  BY <1>1, Zenon DEF FeedTypeInv, Leaving
      <3> HIDE DEF U, V
      <3>4. subscribers(U, c) <= subscribers(V, c) /\ subscribers(U, c) \in Nat /\ subscribers(V, c) \in Nat
        BY <3>3, SubscribersMonotone, Zenon
      <3>5. occurrences(sendCases, c) >= subscribers(U, c)  BY <1>t, <3>1, <3>2, <3>4, Zenon
      <3> QED  BY <3>5, Zenon DEF U
    <2> QED  BY <1>1, <1>4, <2>1, <2>2, Zenon DEF SendInv, Serves
  <1> QED  BY <1>2, <1>3, <1>5, <1>6, Zenon DEF FeedInv

\* A channel that is in the list is found and taken out of it once.
LEMMA DeleteEffect ==
  ASSUME NEW cs \in Seq(Channels), NEW x, find(cs, x) # 0 \/ occurrences(cs, x) # 0
  PROVE  /\ find(cs, x) \in DOMAIN cs /\ cs[find(cs, x)] = x
         /\ Removed(cs, deleteFound(cs, x), find(cs, x))
         /\ \A c : occurrences(deleteFound(cs, x), c) = occurrences(cs, c) - One(x, c)
  <1> DEFINE k == find(cs, x)
             r == deleteFound(cs, x)
  <1>1. k # 0 /\ k \in DOMAIN cs /\ cs[k] = x  BY FindIndex, Zenon
  <1>2. r = delete(cs, k)  BY <1>1, Zenon DEF deleteFound
  <1> HIDE DEF k, r
  <1>3. Removed(cs, r, k)  BY <1>1, <1>2, RemoveEffect, Zenon
  <1>4. ASSUME NEW c  PROVE occurrences(r, c) = occurrences(cs, c) - One(x, c)
    <2>1. k \in 1 .. Len(cs) /\ Len(cs) \in Nat /\ Len(cs) - 1 = Len(r) /\ r \in Seq(Channels)
      BY <1>1, <1>3 DEF Removed
    <2>2. 1 \in 1 .. k /\ Len(cs) \in k .. Len(cs)  BY <2>1
    <2>3. Count(r, 1 .. Len(cs) - 1, c) = Count(cs, 1 .. Len(cs), c) - One(cs[k], c)
      BY <1>1, <1>3, <2>2, RemovedAround
    <2>4. occurrences(r, c) = Count(r, 1 .. Len(r), c) /\ occurrences(cs, c) = Count(cs, 1 .. Len(cs), c)
      BY <2>1, CountAll, Zenon
    <2> QED  BY <1>1, <2>1, <2>3, <2>4, Zenon
  <1> QED  BY <1>1, <1>3, <1>4, Zenon DEF k, r

\* remove finds the case in the inbox; otherwise it is in sendCases, with all the others of its channel.
LEMMA RemoveFromInboxInv ==
  ASSUME FeedInv, NEW u \in Subs, RemoveFromInbox(u)
  PROVE  FeedInv'
  <1>1. FeedTypeInv /\ TokenInv /\ CountInv /\ SendInv  BY Zenon DEF FeedInv
  <1>2. ChanOf[u] \in Channels  BY FeedAssumption, Zenon
  <1>3. CASE find(inbox, ChanOf[u]) # 0
    <2>1. /\ sub[u] = "remove" /\ inbox' = deleteFound(inbox, ChanOf[u]) /\ sub' = [sub EXCEPT ![u] = "close"]
          /\ UNCHANGED <<sendCases, sendLock, active, next, send, buffered, ghosts>>
      BY <1>3, Zenon DEF RemoveFromInbox
    <2>2. inbox' \in Seq(Channels) /\ \A c : occurrences(inbox', c) = occurrences(inbox, c) - One(ChanOf[u], c)
      <3>1. inbox \in Seq(Channels)  BY <1>1, Zenon DEF FeedTypeInv
      <3>2. /\ Removed(inbox, inbox', find(inbox, ChanOf[u]))
            /\ \A c : occurrences(inbox', c) = occurrences(inbox, c) - One(ChanOf[u], c)
        BY <1>3, <2>1, <3>1, DeleteEffect, Zenon
      <3> QED  BY <3>2, Zenon DEF Removed
    <2>3. FeedTypeInv'  BY <1>1, <2>1, <2>2, Zenon DEF FeedTypeInv, ghosts
    <2>4. TokenInv'  BY <1>1, <2>1, Zenon DEF TokenInv, FeedTypeInv
    <2>5. Live = Live' \cup {u} /\ u \notin Live' /\ Live' \subseteq Subs  BY <1>1, <2>1, Zenon DEF Live, isLive, FeedTypeInv
    <2>6. Leaving' = Leaving  BY <1>1, <2>1, Zenon DEF Leaving, FeedTypeInv
    <2>7. CountInv'
      <3>1. SUFFICES ASSUME NEW c \in Channels
                     PROVE  /\ occurrences(sendCases', c) + occurrences(inbox', c) = subscribers(Live', c)
                            /\ occurrences(sendCases', c) >= subscribers(Leaving', c)
        BY Zenon DEF CountInv, occurrences, subscribers
      <3>2. occurrences(inbox', c) = occurrences(inbox, c) - One(ChanOf[u], c)  BY <2>2, Zenon
      <3>3. /\ subscribers(Live, c) = subscribers(Live', c) + One(ChanOf[u], c)
            /\ subscribers(Live', c) \in Nat
        BY <2>5, SubscribersAdd, Zenon
      <3>4. One(ChanOf[u], c) \in Nat /\ occurrences(sendCases, c) \in Nat /\ occurrences(inbox, c) \in Nat
        BY <1>1, OneType, CountAll, Zenon DEF FeedTypeInv
      <3>5. /\ occurrences(sendCases, c) + occurrences(inbox, c) = subscribers(Live, c)
            /\ occurrences(sendCases, c) >= subscribers(Leaving, c)
        BY <1>1, Zenon DEF CountInv
      <3>6. sendCases' = sendCases  BY <2>1, Zenon
      <3> QED  BY <2>6, <3>2, <3>3, <3>4, <3>5, <3>6
    <2>8. SendInv'
      <3>1. \A s \in Senders : \A v \in expected[s] : sub'[v] = "subscribed"  BY <1>1, <2>1, Zenon DEF SendInv, Serves, FeedTypeInv
      <3> QED  BY <1>1, <2>1, <2>6, <3>1, Zenon DEF SendInv, Serves, Delivering, ghosts
    <2> QED  BY <2>3, <2>4, <2>7, <2>8, Zenon DEF FeedInv
  <1>4. CASE find(inbox, ChanOf[u]) = 0
    <2>1. /\ sub[u] = "remove" /\ sub' = [sub EXCEPT ![u] = "select"]
          /\ UNCHANGED <<inbox, sendCases, sendLock, active, next, send, buffered, ghosts>>
      BY <1>4, Zenon DEF RemoveFromInbox
    <2>2. occurrences(inbox, ChanOf[u]) = 0  BY <1>1, <1>4, FindIndex, Zenon DEF FeedTypeInv
    <2>3. FeedTypeInv'  BY <1>1, <2>1, Zenon DEF FeedTypeInv, ghosts
    <2>4. TokenInv'  BY <1>1, <2>1, Zenon DEF TokenInv, FeedTypeInv
    <2>5. Live' = Live /\ Live \subseteq Subs  BY <1>1, <2>1, Zenon DEF Live, isLive, FeedTypeInv
    <2>6. Leaving' = Leaving \cup {u} /\ u \notin Leaving /\ Leaving' \subseteq Live
      BY <1>1, <2>1, Zenon DEF Leaving, Live, isLive, FeedTypeInv
    \* The cases hold all the subscriptions to the channel, and these include U.
    <2>7. ASSUME NEW c \in Channels, NEW U \in SUBSET Live, u \notin U,
                 occurrences(sendCases, c) >= subscribers(U, c)
          PROVE  occurrences(sendCases, c) >= subscribers(U \cup {u}, c)
      <3> DEFINE V == U \cup {u}
      <3>1. occurrences(sendCases, c) \in Nat  BY <1>1, CountAll, Zenon DEF FeedTypeInv
      <3>2. CASE ChanOf[u] = c
        <4>1. occurrences(sendCases, c) + 0 = subscribers(Live, c)  BY <1>1, <2>2, <3>2, Zenon DEF CountInv
        <4>2. V \subseteq Live  BY <1>1, <2>1, Zenon DEF Live, isLive
        <4> HIDE DEF V
        <4>3. subscribers(V, c) <= subscribers(Live, c) /\ subscribers(V, c) \in Nat /\ subscribers(Live, c) \in Nat
          BY <2>5, <4>2, SubscribersMonotone, Zenon
        <4> QED  BY <3>1, <4>1, <4>3 DEF V
      <3>3. CASE ChanOf[u] # c
        <4>1. subscribers(V, c) = subscribers(U, c) + One(ChanOf[u], c) /\ subscribers(U, c) \in Nat
          BY <2>5, <2>7, SubscribersAdd, Zenon
        <4>2. One(ChanOf[u], c) = 0  BY <3>3, Zenon DEF One
        <4> HIDE DEF V
        <4> QED  BY <2>7, <4>1, <4>2 DEF V
      <3> QED  BY <3>2, <3>3, Zenon
    <2>8. CountInv'
      <3>1. ASSUME NEW c \in Channels  PROVE occurrences(sendCases, c) >= subscribers(Leaving', c)
        <4>1. occurrences(sendCases, c) >= subscribers(Leaving, c)  BY <1>1, Zenon DEF CountInv
        <4> QED  BY <2>6, <2>7, <4>1, Zenon
      <3> QED  BY <1>1, <2>1, <2>5, <3>1, Zenon DEF CountInv
    <2>9. SendInv'
      <3>1. \A s \in Senders : \A v \in expected[s] : sub'[v] = "subscribed"  BY <1>1, <2>1, Zenon DEF SendInv, Serves, FeedTypeInv
      <3>2. ASSUME NEW s \in Senders, NEW c \in Channels, send[s] \in Delivering
            PROVE  occurrences(sendCases, c) >= subscribers(expected[s] \cup Leaving', c)
        <4> DEFINE U == expected[s] \cup Leaving
        <4>1. occurrences(sendCases, c) >= subscribers(U, c)  BY <1>1, <3>2, Zenon DEF SendInv, Serves
        <4>2. U \subseteq Live /\ u \notin U
          BY <1>1, <2>1, Zenon DEF SendInv, Serves, FeedTypeInv, Live, isLive, Leaving
        <4>3. expected[s] \cup Leaving' = U \cup {u}  BY <2>6, Zenon
        <4> HIDE DEF U
        <4> QED  BY <2>7, <4>1, <4>2, <4>3, Zenon
      <3> QED  BY <1>1, <2>1, <3>1, <3>2, Zenon DEF SendInv, Serves, ghosts
    <2> QED  BY <2>3, <2>4, <2>8, <2>9, Zenon DEF FeedInv
  <1> QED  BY <1>3, <1>4, Zenon

\* remove has the token.
LEMMA RemoveTakeLockInv ==
  ASSUME FeedInv, NEW u \in Subs, RemoveTakeLock(u)
  PROVE  FeedInv'
  <1> USE DEF RemoveTakeLock, ghosts
  <1>1. FeedTypeInv /\ TokenInv /\ CountInv /\ SendInv  BY Zenon DEF FeedInv
  <1>2. FeedTypeInv'  BY <1>1, Zenon DEF FeedTypeInv
  <1>3. TokenInv'  BY <1>1, Zenon DEF TokenInv, FeedTypeInv
  <1>4. Live' = Live /\ Leaving' = Leaving  BY <1>1, Zenon DEF Live, Leaving, isLive, FeedTypeInv
  <1>5. CountInv'  BY <1>1, <1>4, Zenon DEF CountInv
  <1>6. SendInv'
    <2>1. \A s \in Senders : \A v \in expected[s] : sub'[v] = "subscribed"  BY <1>1, Zenon DEF SendInv, Serves, FeedTypeInv
    <2> QED  BY <1>1, <1>4, <2>1, Zenon DEF SendInv, Serves, Delivering
  <1> QED  BY <1>2, <1>3, <1>5, <1>6, Zenon DEF FeedInv

\* Unsubscribe returns.
LEMMA CloseErrInv ==
  ASSUME FeedInv, NEW u \in Subs, CloseErr(u)
  PROVE  FeedInv'
  <1> USE DEF CloseErr, ghosts
  <1>1. FeedTypeInv /\ TokenInv /\ CountInv /\ SendInv  BY Zenon DEF FeedInv
  <1>2. FeedTypeInv'  BY <1>1, Zenon DEF FeedTypeInv
  <1>3. TokenInv'  BY <1>1, Zenon DEF TokenInv, FeedTypeInv
  <1>4. Live' = Live /\ Leaving' = Leaving  BY <1>1, Zenon DEF Live, Leaving, isLive, FeedTypeInv
  <1>5. CountInv'  BY <1>1, <1>4, Zenon DEF CountInv
  <1>6. SendInv'
    <2>1. \A s \in Senders : \A v \in expected[s] : sub'[v] = "subscribed"  BY <1>1, Zenon DEF SendInv, Serves, FeedTypeInv
    <2> QED  BY <1>1, <1>4, <2>1, Zenon DEF SendInv, Serves, Delivering
  <1> QED  BY <1>2, <1>3, <1>5, <1>6, Zenon DEF FeedInv

\* Reading a channel frees its buffer only.
LEMMA ReceiveInv ==
  ASSUME FeedInv, NEW c \in Channels, Receive(c)
  PROVE  FeedInv'
  <1> USE DEF Receive, ghosts
  <1>1. FeedTypeInv /\ TokenInv /\ CountInv /\ SendInv  BY Zenon DEF FeedInv
  <1>2. FeedTypeInv'  BY <1>1 DEF FeedTypeInv
  <1>3. Live' = Live /\ Leaving' = Leaving  BY Zenon DEF Live, Leaving, isLive
  <1>4. TokenInv' /\ CountInv' /\ SendInv'  BY <1>1, <1>3, Zenon DEF TokenInv, CountInv, SendInv, Serves
  <1> QED  BY <1>2, <1>4, Zenon DEF FeedInv

\* The leaving subscription has a case: the list shrinks by it, and by nothing else.
LEMMA LeavingEffect ==
  ASSUME FeedInv, NEW u \in Leaving, sendCases' = deleteFound(sendCases, ChanOf[u]),
         inbox' = inbox, sub' = [sub EXCEPT ![u] = "close"]
  PROVE  /\ find(sendCases, ChanOf[u]) \in DOMAIN sendCases
         /\ sendCases[find(sendCases, ChanOf[u])] = ChanOf[u]
         /\ Removed(sendCases, sendCases', find(sendCases, ChanOf[u]))
         /\ Leaving = Leaving' \cup {u} /\ u \notin Leaving'
         /\ \A c : occurrences(sendCases', c) = occurrences(sendCases, c) - One(ChanOf[u], c)
         /\ CountInv'
  <1>1. FeedTypeInv /\ CountInv  BY Zenon DEF FeedInv
  <1>2. u \in Subs /\ ChanOf[u] \in Channels  BY FeedAssumption, Zenon DEF Leaving
  <1>3. /\ Leaving = Leaving' \cup {u} /\ u \notin Leaving' /\ Leaving' \subseteq Subs
        /\ Live = Live' \cup {u} /\ u \notin Live' /\ Live' \subseteq Subs
    BY <1>1, <1>2, Zenon DEF Leaving, Live, isLive, FeedTypeInv
  <1>4. ASSUME NEW c \in Channels
        PROVE  /\ occurrences(sendCases, c) \in Nat /\ occurrences(inbox, c) \in Nat
               /\ occurrences(sendCases, c) + occurrences(inbox, c) = subscribers(Live, c)
               /\ occurrences(sendCases, c) >= subscribers(Leaving, c)
               /\ subscribers(Leaving, c) = subscribers(Leaving', c) + One(ChanOf[u], c)
               /\ subscribers(Live, c) = subscribers(Live', c) + One(ChanOf[u], c)
               /\ subscribers(Leaving', c) \in Nat /\ subscribers(Live', c) \in Nat
               /\ One(ChanOf[u], c) \in Nat
    <2>1. occurrences(sendCases, c) \in Nat /\ occurrences(inbox, c) \in Nat  BY <1>1, CountAll, Zenon DEF FeedTypeInv
    <2>2. /\ occurrences(sendCases, c) + occurrences(inbox, c) = subscribers(Live, c)
          /\ occurrences(sendCases, c) >= subscribers(Leaving, c)
      BY <1>1, Zenon DEF CountInv
    <2>3. /\ subscribers(Leaving, c) = subscribers(Leaving', c) + One(ChanOf[u], c)
          /\ subscribers(Leaving', c) \in Nat
      BY <1>2, <1>3, SubscribersAdd, Zenon
    <2>4. /\ subscribers(Live, c) = subscribers(Live', c) + One(ChanOf[u], c)
          /\ subscribers(Live', c) \in Nat
      BY <1>2, <1>3, SubscribersAdd, Zenon
    <2> QED  BY <2>1, <2>2, <2>3, <2>4, OneType, Zenon
  <1>5. occurrences(sendCases, ChanOf[u]) # 0
    <2>1. One(ChanOf[u], ChanOf[u]) = 1  BY Zenon DEF One
    <2> QED  BY <1>2, <1>4, <2>1
  <1>6. /\ find(sendCases, ChanOf[u]) \in DOMAIN sendCases
        /\ sendCases[find(sendCases, ChanOf[u])] = ChanOf[u]
        /\ Removed(sendCases, sendCases', find(sendCases, ChanOf[u]))
        /\ \A c : occurrences(sendCases', c) = occurrences(sendCases, c) - One(ChanOf[u], c)
    BY <1>1, <1>5, DeleteEffect, Zenon DEF FeedTypeInv
  <1>7. CountInv'
    <2>1. SUFFICES ASSUME NEW c \in Channels
                   PROVE  /\ occurrences(sendCases', c) + occurrences(inbox', c) = subscribers(Live', c)
                          /\ occurrences(sendCases', c) >= subscribers(Leaving', c)
      BY Zenon DEF CountInv, occurrences, subscribers
    <2>2. occurrences(sendCases', c) = occurrences(sendCases, c) - One(ChanOf[u], c)  BY <1>6, Zenon
    <2> QED  BY <1>4, <2>2
  <1> QED  BY <1>3, <1>6, <1>7, Zenon

\* remove takes the case out itself while nobody sends.
LEMMA RemoveLockedInv ==
  ASSUME FeedInv, NEW u \in Subs, RemoveLocked(u)
  PROVE  FeedInv'
  <1> USE DEF RemoveLocked, ghosts
  <1>1. FeedTypeInv /\ TokenInv /\ CountInv /\ SendInv  BY Zenon DEF FeedInv
  <1>2. u \in Leaving  BY Zenon DEF Leaving
  <1>3. /\ Removed(sendCases, sendCases', find(sendCases, ChanOf[u]))
        /\ find(sendCases, ChanOf[u]) \in DOMAIN sendCases /\ CountInv'
    BY <1>2, LeavingEffect, Zenon
  <1>4. \A s \in Senders : send[s] \notin Holding  BY <1>1, Zenon DEF TokenInv
  <1>5. active = 0 /\ \A s \in Senders : send[s] \notin Delivering  BY <1>1, <1>4, Zenon DEF SendInv, Serves, Delivering, Holding
  <1>6. sendCases' \in Seq(Channels) /\ 0 <= Len(sendCases')
    <2>1. sendCases' \in Seq(Channels)  BY <1>3, Zenon DEF Removed
    <2> QED  BY ONLY <2>1
  <1>7. FeedTypeInv'  BY <1>1, <1>5, <1>6, Zenon DEF FeedTypeInv
  <1>8. TokenInv'  BY <1>1, <1>4, Zenon DEF TokenInv, FeedTypeInv
  <1>9. SendInv'
    <2>1. \A s \in Senders : \A v \in expected[s] : sub'[v] = "subscribed"  BY <1>1, Zenon DEF SendInv, Serves, FeedTypeInv
    <2> QED  BY <1>1, <1>5, <2>1, Zenon DEF SendInv, Serves
  <1> QED  BY <1>3, <1>7, <1>8, <1>9, Zenon DEF FeedInv

\* Send takes the case out, before or behind the end of the active ones.
LEMMA RemoveBySendInv ==
  ASSUME FeedInv, NEW u \in Subs, NEW s \in Senders, RemoveBySend(u, s)
  PROVE  FeedInv'
  <1> DEFINE k == find(sendCases, ChanOf[u])
  <1>1. FeedTypeInv /\ TokenInv /\ CountInv /\ SendInv  BY Zenon DEF FeedInv
  <1>2. /\ sub[u] = "select" /\ send[s] = "select" /\ sendCases' = deleteFound(sendCases, ChanOf[u])
        /\ sub' = [sub EXCEPT ![u] = "close"] /\ send' = [send EXCEPT ![s] = "try"] /\ next' = 1
        /\ UNCHANGED <<inbox, sendLock, buffered, expected, reachable, copies>>
        /\ active' = IF k \in 1 .. active THEN active - 1 ELSE active
    BY Zenon DEF RemoveBySend, ghosts
  <1>3. u \in Leaving  BY <1>2, Zenon DEF Leaving
  <1>4. /\ k \in DOMAIN sendCases /\ sendCases[k] = ChanOf[u] /\ Removed(sendCases, sendCases', k)
        /\ Leaving = Leaving' \cup {u} /\ u \notin Leaving'
        /\ \A c : occurrences(sendCases', c) = occurrences(sendCases, c) - One(ChanOf[u], c)
        /\ CountInv'
    BY <1>2, <1>3, LeavingEffect, Zenon
  <1> HIDE DEF k
  <1>5. /\ sendCases' \in Seq(Channels) /\ Len(sendCases') = Len(sendCases) - 1 /\ Len(sendCases) \in Nat
        /\ k \in 1 .. Len(sendCases) /\ active \in Nat /\ active <= Len(sendCases) /\ sendCases \in Seq(Channels)
    <2>1. sendCases' \in Seq(Channels) /\ Len(sendCases') = Len(sendCases) - 1  BY <1>4, Zenon DEF Removed
    <2>2. sendCases \in Seq(Channels) /\ active \in Nat /\ active <= Len(sendCases)  BY <1>1, Zenon DEF FeedTypeInv
    <2> QED  BY ONLY <1>4, <2>1, <2>2
  <1>6. active' \in Nat /\ active' <= Len(sendCases')  BY <1>2, <1>5
  <1>0. sendCases \in Seq(Channels) /\ k \in DOMAIN sendCases /\ Removed(sendCases, sendCases', k)  BY <1>4, <1>5, Zenon
  <1>7. FeedTypeInv'
    <2>1. sub' \in [Subs -> {"none", "subscribed", "remove", "select", "locked", "close"}]  BY <1>1, <1>2, Zenon DEF FeedTypeInv
    <2>2. send' \in [Senders -> {"idle", "lock", "merge", "try", "select", "unlock"}]  BY <1>1, <1>2, Zenon DEF FeedTypeInv
    <2>3. next' \in Nat \ {0}  BY <1>2
    <2>4. UNCHANGED <<inbox, sendLock, buffered, expected, reachable, copies>>  BY <1>2, Zenon
    <2> QED  BY <1>1, <1>5, <1>6, <2>1, <2>2, <2>3, <2>4, Zenon DEF FeedTypeInv
  <1>8. TokenInv'
    <2>1. \A t \in Senders : send'[t] \in Holding <=> send[t] \in Holding  BY <1>1, <1>2, Zenon DEF FeedTypeInv, Holding
    <2>2. \A v \in Subs : sub'[v] = "locked" <=> sub[v] = "locked"  BY <1>1, <1>2, Zenon DEF FeedTypeInv
    <2> QED  BY <1>1, <1>2, <2>1, <2>2, Zenon DEF TokenInv
  <1>9. SendInv'
    <2>1. \A t \in Senders : \A v \in expected[t] : sub'[v] = "subscribed"  BY <1>1, <1>2, Zenon DEF SendInv, Serves, FeedTypeInv
    <2>2. \A t \in Senders \ {s} : send'[t] \notin Holding  BY <1>1, <1>2, Zenon DEF TokenInv, FeedTypeInv, Holding
    <2>3. send'[s] = "try"  BY <1>1, <1>2, Zenon DEF FeedTypeInv
    <2>4. ASSUME NEW c \in Channels
          PROVE  /\ Count(sendCases', active' + 1 .. Len(sendCases'), c) <= copies[c]
                 /\ copies[c] + Count(sendCases', 1 .. active', c) <= subscribers(reachable, c)
      <3> DEFINE A == Count(sendCases, 1 .. active, c)
                 B == Count(sendCases, active + 1 .. Len(sendCases), c)
                 x == One(ChanOf[u], c)
      <3>1. B <= copies[c] /\ copies[c] + A <= subscribers(reachable, c)
        BY <1>1, <1>2, Zenon DEF SendInv, Serves, Delivering
      <3>2. A \in Nat /\ B \in Nat /\ x \in Nat /\ copies[c] \in Nat /\ subscribers(reachable, c) \in Nat
        <4>1. IsFiniteSet(1 .. active) /\ IsFiniteSet(active + 1 .. Len(sendCases))
          <5>1. 1 \in Int /\ active \in Int /\ active + 1 \in Int /\ Len(sendCases) \in Int  BY <1>5
          <5> QED  BY <5>1, FS_Interval, Zenon
        <4>2. A \in Nat /\ B \in Nat  BY <4>1, CountType, Zenon
        <4>3. subscribers(reachable, c) \in Nat  BY <1>1, SubscribersMonotone, Zenon DEF FeedTypeInv
        <4> QED  BY <1>1, <4>2, <4>3, OneType, Zenon DEF FeedTypeInv
      <3>3. CASE k <= active
        <4>1. active' = active - 1 /\ active' + 1 = active /\ active \in k .. Len(sendCases) /\ 1 \in 1 .. k
          BY <1>2, <1>5, <3>3
        <4>2. Count(sendCases', 1 .. active - 1, c) = A - One(sendCases[k], c)
          BY <1>0, <4>1, RemovedAround
        <4>3. Count(sendCases', active .. Len(sendCases'), c) = B
          BY <1>0, <4>1, RemovedAfter
        <4>4. Count(sendCases', 1 .. active', c) = A - x /\ Count(sendCases', active' + 1 .. Len(sendCases'), c) = B
          BY <1>4, <4>1, <4>2, <4>3, Zenon
        <4> HIDE DEF A, B, x
        <4> QED  BY <3>1, <3>2, <4>4
      <3>4. CASE k > active
        <4>1. active' = active /\ active \in 0 .. k - 1 /\ active + 1 \in 1 .. k /\ Len(sendCases) \in k .. Len(sendCases)
          BY <1>2, <1>5, <3>4
        <4>2. Count(sendCases', 1 .. active, c) = A
          BY <1>0, <4>1, RemovedBefore
        <4>3. Count(sendCases', active + 1 .. Len(sendCases) - 1, c) = B - One(sendCases[k], c)
          <5> DEFINE a == active + 1
                     m == Len(sendCases)
          <5>1. a \in 1 .. k /\ m \in k .. Len(sendCases) /\ sendCases \in Seq(Channels)  BY <1>1, <4>1, Zenon DEF FeedTypeInv
          <5> HIDE DEF a, m
          <5>2. Count(sendCases', a .. m - 1, c) = Count(sendCases, a .. m, c) - One(sendCases[k], c)
            BY <1>0, <5>1, RemovedAround
          <5> QED  BY <5>2, Zenon DEF a, m
        <4>4. Count(sendCases', 1 .. active', c) = A /\ Count(sendCases', active' + 1 .. Len(sendCases'), c) = B - x
          BY <1>4, <1>5, <4>1, <4>2, <4>3, Zenon
        <4> HIDE DEF A, B, x
        <4> QED  BY <3>1, <3>2, <4>4
      <3> QED  BY <1>5, <3>3, <3>4
    <2>5. ASSUME NEW c \in Channels
          PROVE  occurrences(sendCases', c) >= subscribers(expected[s] \cup Leaving', c)
      <3> DEFINE U == expected[s] \cup Leaving'
                 V == expected[s] \cup Leaving
      <3>1. V = U \cup {u} /\ u \notin U /\ U \subseteq Subs
        BY <1>1, <1>2, <1>4, Zenon DEF SendInv, Serves, FeedTypeInv, Leaving
      <3>2. occurrences(sendCases, c) >= subscribers(V, c)  BY <1>1, <1>2, Zenon DEF SendInv, Serves, Delivering
      <3>3. occurrences(sendCases', c) = occurrences(sendCases, c) - One(ChanOf[u], c)  BY <1>4, Zenon
      <3>4. occurrences(sendCases, c) \in Nat  BY <1>1, CountAll, Zenon DEF FeedTypeInv
      <3> HIDE DEF U, V
      <3>5. subscribers(V, c) = subscribers(U, c) + One(ChanOf[u], c) /\ subscribers(U, c) \in Nat
        BY <3>1, SubscribersAdd, Zenon
      <3>6. One(ChanOf[u], c) \in Nat  BY OneType, Zenon
      <3>7. occurrences(sendCases', c) >= subscribers(U, c)  BY <3>2, <3>3, <3>4, <3>5, <3>6
      <3> QED  BY <3>7, Zenon DEF U
    <2>6. UNCHANGED <<expected, reachable, copies>>  BY <1>2, Zenon
    <2>7. "try" \in Delivering /\ "try" # "unlock" /\ Delivering \subseteq Holding /\ "unlock" \in Holding  BY Zenon DEF Delivering, Holding
    <2>8. Serves(s)'  BY <2>4, <2>5, <2>6, Zenon DEF Serves, Count, occurrences, subscribers
    <2>9. \A t \in Senders : send'[t] # "unlock"  BY <2>2, <2>3, <2>7, Zenon
    <2>10. \E t \in Senders : send'[t] \in Delivering  BY <2>3, <2>7, Zenon
    <2>11. \A t \in Senders : \A v \in expected'[t] : sub'[v] = "subscribed"  BY <2>1, <2>6, Zenon
    <2> QED  BY <2>2, <2>7, <2>8, <2>9, <2>10, <2>11, Zenon DEF SendInv
  <1> QED  BY <1>4, <1>7, <1>8, <1>9, Zenon DEF FeedInv

\* Send is called.
LEMMA SendInvariant ==
  ASSUME FeedInv, NEW s \in Senders, Send(s)
  PROVE  FeedInv'
  <1> USE DEF Send
  <1>1. FeedTypeInv /\ TokenInv /\ CountInv /\ SendInv  BY Zenon DEF FeedInv
  <1>2. FeedTypeInv'  BY <1>1, Zenon DEF FeedTypeInv
  <1>3. TokenInv'  BY <1>1, Zenon DEF TokenInv, FeedTypeInv, Holding
  <1>4. Live' = Live /\ Leaving' = Leaving  BY <1>1, Zenon DEF Live, Leaving, isLive, FeedTypeInv
  <1>5. CountInv'  BY <1>1, <1>4, Zenon DEF CountInv
  <1>6. SendInv'
    <2>1. \A t \in Senders : \A v \in expected'[t] : sub'[v] = "subscribed"  BY <1>1, Zenon DEF SendInv, FeedTypeInv
    <2>2. \A t \in Senders : send'[t] \in Delivering <=> send[t] \in Delivering  BY <1>1, Zenon DEF FeedTypeInv, Delivering
    <2>3. ASSUME NEW t \in Senders, send'[t] \in Delivering
          PROVE  Serves(t)' /\ (send'[t] = "unlock" => active = 0)
      <3>1. send[t] \in Delivering /\ send'[t] = send[t] /\ expected'[t] = expected[t]  BY <1>1, <2>3, Zenon DEF FeedTypeInv, Delivering
      <3> QED  BY <1>1, <1>4, <3>1, Zenon DEF SendInv, Serves
    <2>4. \A t \in Senders : send'[t] = "unlock" => send'[t] \in Delivering  BY Zenon DEF Delivering
    <2> QED  BY <1>1, <2>1, <2>2, <2>3, <2>4, Zenon DEF SendInv
  <1> QED  BY <1>2, <1>3, <1>5, <1>6, Zenon DEF FeedInv

\* Send has the token.
LEMMA TakeSendLockInv ==
  ASSUME FeedInv, NEW s \in Senders, TakeSendLock(s)
  PROVE  FeedInv'
  <1> USE DEF TakeSendLock, ghosts
  <1>1. FeedTypeInv /\ TokenInv /\ CountInv /\ SendInv  BY Zenon DEF FeedInv
  <1>2. FeedTypeInv'  BY <1>1, Zenon DEF FeedTypeInv
  <1>3. TokenInv'  BY <1>1, Zenon DEF TokenInv, FeedTypeInv, Holding
  <1>4. Live' = Live /\ Leaving' = Leaving  BY <1>1, Zenon DEF Live, Leaving, isLive, FeedTypeInv
  <1>5. CountInv'  BY <1>1, <1>4, Zenon DEF CountInv
  <1>6. SendInv'
    <2>1. \A t \in Senders : send[t] \notin Delivering /\ send'[t] \notin Delivering
      BY <1>1, Zenon DEF FeedTypeInv, TokenInv, Delivering, Holding
    <2>2. \A t \in Senders : send'[t] # "unlock"  BY <2>1, Zenon DEF Delivering
    <2> QED  BY <1>1, <2>1, <2>2, Zenon DEF SendInv
  <1> QED  BY <1>2, <1>3, <1>5, <1>6, Zenon DEF FeedInv

\* Send returns, all active cases served.
LEMMA ReturnSendLockInv ==
  ASSUME FeedInv, NEW s \in Senders, ReturnSendLock(s)
  PROVE  FeedInv'
  <1> USE DEF ReturnSendLock
  <1>1. FeedTypeInv /\ TokenInv /\ CountInv /\ SendInv  BY Zenon DEF FeedInv
  <1>2. FeedTypeInv'  BY <1>1 DEF FeedTypeInv
  <1>3. \A t \in Senders : send'[t] \notin Holding  BY <1>1, Zenon DEF TokenInv, FeedTypeInv, Holding
  <1>4. TokenInv'  BY <1>1, <1>3, Zenon DEF TokenInv, Holding
  <1>5. Live' = Live  BY Zenon DEF Live, isLive
  <1>6. Leaving' = Leaving  BY Zenon DEF Leaving
  <1>7. CountInv'  BY <1>1, <1>5, <1>6, Zenon DEF CountInv
  <1>8. SendInv'
    <2>1. \A t \in Senders : \A v \in expected'[t] : sub'[v] = "subscribed"  BY <1>1, Zenon DEF SendInv, FeedTypeInv
    <2>2. \A t \in Senders : send'[t] \notin Delivering /\ send'[t] # "unlock"  BY <1>3, Zenon DEF Delivering, Holding
    <2>3. active' = 0 /\ \A c \in Channels : copies'[c] = 0  BY <1>1, Zenon DEF SendInv
    <2> QED  BY <2>1, <2>2, <2>3, Zenon DEF SendInv
  <1> QED  BY <1>2, <1>4, <1>7, <1>8, Zenon DEF FeedInv

\* Send merges the inbox: all live subscriptions have their cases in sendCases.
LEMMA TakeInboxInv ==
  ASSUME FeedInv, NEW s \in Senders, TakeInbox(s)
  PROVE  FeedInv'
  <1> USE DEF TakeInbox
  <1>1. FeedTypeInv /\ TokenInv /\ CountInv /\ SendInv  BY Zenon DEF FeedInv
  <1>2. sendCases' \in Seq(Channels) /\ inbox' \in Seq(Channels) /\ active' \in Nat /\ active' = Len(sendCases')
    BY <1>1 DEF FeedTypeInv
  <1>3. FeedTypeInv'  BY <1>1, <1>2 DEF FeedTypeInv
  <1>4. TokenInv'  BY <1>1, Zenon DEF TokenInv, FeedTypeInv, Holding
  <1>5. Live' = Live /\ Live \subseteq Subs  BY Zenon DEF Live, isLive
  <1>6. Leaving' = Leaving /\ Leaving \subseteq Live  BY Zenon DEF Leaving, Live, isLive
  <1>7. ASSUME NEW c \in Channels
        PROVE  /\ occurrences(sendCases', c) = subscribers(Live, c) /\ occurrences(inbox', c) = 0
               /\ occurrences(sendCases', c) = Count(sendCases', 1 .. Len(sendCases'), c)
               /\ subscribers(Live, c) \in Nat
    <2>1. occurrences(sendCases', c) = occurrences(sendCases, c) + occurrences(inbox, c)
      BY <1>1, CountConcat, Zenon DEF FeedTypeInv
    <2>2. {i \in DOMAIN inbox' : inbox'[i] = c} = {}  OBVIOUS
    <2>3. occurrences(inbox', c) = 0  BY <2>2, FS_EmptySet, Zenon DEF occurrences
    <2>4. occurrences(sendCases', c) = Count(sendCases', 1 .. Len(sendCases'), c)  BY <1>2, CountAll, Zenon
    <2>5. subscribers(Live, c) \in Nat  BY <1>5, SubscribersMonotone, Zenon
    <2> QED  BY <1>1, <2>1, <2>3, <2>4, <2>5, Zenon DEF CountInv
  <1>8. \A t \in Senders \ {s} : send'[t] \notin Holding  BY <1>1, Zenon DEF TokenInv, FeedTypeInv, Holding
  <1>9. CountInv'
    <2>1. SUFFICES ASSUME NEW c \in Channels
                   PROVE  /\ occurrences(sendCases', c) + occurrences(inbox', c) = subscribers(Live', c)
                          /\ occurrences(sendCases', c) >= subscribers(Leaving', c)
      BY Zenon DEF CountInv, occurrences, subscribers
    <2>2. subscribers(Leaving, c) <= subscribers(Live, c)  BY <1>5, <1>6, SubscribersMonotone, Zenon
    <2> QED  BY <1>5, <1>6, <1>7, <2>2
  <1>10. SendInv'
    <2>1. \A t \in Senders : \A v \in expected'[t] : sub'[v] = "subscribed"  BY <1>1, Zenon DEF SendInv, FeedTypeInv
    <2>2. send'[s] = "try"  BY <1>1, Zenon DEF FeedTypeInv
    <2>3. \A t \in Senders : send[t] \notin Delivering  BY <1>1, Zenon DEF TokenInv, FeedTypeInv, Holding, Delivering
    <2>4. \A c \in Channels : copies[c] = 0  BY <1>1, <2>3, Zenon DEF SendInv
    <2>5. ASSUME NEW c \in Channels
          PROVE  /\ Count(sendCases', active' + 1 .. Len(sendCases'), c) <= copies'[c]
                 /\ copies'[c] + Count(sendCases', 1 .. active', c) <= subscribers(reachable', c)
                 /\ occurrences(sendCases', c) >= subscribers(expected'[s] \cup Leaving', c)
      <3> DEFINE U == expected'[s] \cup Leaving'
      <3>1. {i \in active' + 1 .. Len(sendCases') : sendCases'[i] = c} = {}  BY <1>2
      <3>2. Count(sendCases', active' + 1 .. Len(sendCases'), c) = 0  BY <3>1, FS_EmptySet, Zenon DEF Count
      <3>3. copies'[c] = 0  BY <2>4, Zenon
      <3>4. reachable' = Live  BY Zenon DEF Live
      <3>5. U \subseteq Live  BY <1>1, <1>6, Zenon DEF SendInv, FeedTypeInv, Live, isLive
      <3> HIDE DEF U
      <3>6. subscribers(U, c) <= subscribers(Live, c)  BY <1>5, <3>5, SubscribersMonotone, Zenon
      <3>7. active' = Len(sendCases')  BY <1>2, Zenon
      <3> HIDE DEF TakeInbox
      <3>8. Count(sendCases', 1 .. active', c) = subscribers(Live, c)  BY <1>7, <3>7, Zenon
      <3>9. occurrences(sendCases', c) >= subscribers(U, c)
        <4>1. subscribers(U, c) \in Nat  BY <1>5, <3>5, SubscribersMonotone, Zenon
        <4> QED  BY <1>7, <3>6, <4>1, Zenon
      <3>10. copies'[c] + Count(sendCases', 1 .. active', c) <= subscribers(reachable', c)
        <4>1. 0 + subscribers(Live, c) <= subscribers(Live, c)  BY <1>7
        <4> QED  BY <3>3, <3>4, <3>8, <4>1, Zenon
      <3>11. 0 <= copies'[c]  BY <3>3
      <3> QED  BY <3>2, <3>9, <3>10, <3>11, Zenon DEF U
    <2>6. Serves(s)'  BY <2>5, Zenon DEF Serves, Count, occurrences, subscribers
    <2>7. "try" \in Delivering /\ "try" # "unlock" /\ Delivering \subseteq Holding /\ "unlock" \in Holding  BY Zenon DEF Delivering, Holding
    <2>8. \A t \in Senders : send'[t] # "unlock"  BY <1>8, <2>2, <2>7, Zenon
    <2>9. \E t \in Senders : send'[t] \in Delivering  BY <2>2, <2>7, Zenon
    <2> HIDE DEF TakeInbox
    <2> QED  BY <1>8, <2>1, <2>6, <2>7, <2>8, <2>9, Zenon DEF SendInv
  <1> QED  BY <1>3, <1>4, <1>9, <1>10, Zenon DEF FeedInv

\* What moves from the cases to serve to the copies keeps the bounds on both.
LEMMA Shifted ==
  ASSUME NEW A \in Nat, NEW B \in Nat, NEW x \in Nat, NEW p \in Nat, NEW most \in Nat,
         NEW X, X = A - x, NEW Y, Y = B + x, NEW q, q = p + x, B <= p, p + A <= most
  PROVE  Y <= q /\ q + X <= most
  OBVIOUS

\* A value for a channel is one case less to serve and one copy more.
LEMMA DeliverEffect ==
  ASSUME FeedInv, NEW s \in Senders, send[s] \in Delivering, NEW index \in 1 .. active, Deliver(index),
         UNCHANGED <<inbox, sub, expected, reachable>>
  PROVE  /\ sendCases' \in Seq(Channels) /\ active' \in Nat /\ active' <= Len(sendCases')
         /\ buffered' \in [Channels -> Nat] /\ copies' \in [Channels -> Nat]
         /\ CountInv' /\ Serves(s)'
  <1> DEFINE dest == sendCases[index]
  <1>1. FeedTypeInv /\ CountInv /\ Serves(s)  BY Zenon DEF FeedInv, SendInv
  <1>2. /\ buffered' = [buffered EXCEPT ![dest] = @ + 1] /\ copies' = [copies EXCEPT ![dest] = @ + 1]
        /\ sendCases' = deactivate(sendCases, active, index) /\ active' = active - 1
    BY Zenon DEF Deliver
  <1>3. /\ sendCases \in Seq(Channels) /\ active \in 1 .. Len(sendCases) /\ Len(sendCases) \in Nat
        /\ active \in Nat /\ index \in Nat /\ index <= Len(sendCases) /\ 1 <= index
    BY <1>1 DEF FeedTypeInv
  <1>4. dest \in Channels  BY <1>3
  <1>5. sendCases' \in Seq(Channels) /\ Len(sendCases') = Len(sendCases)  BY <1>2, <1>3, DeactivateEffect, Zenon
  <1>6. active' \in Nat /\ active' <= Len(sendCases') /\ active' + 1 = active  BY <1>2, <1>3, <1>5
  <1> HIDE DEF dest
  <1>7. buffered' \in [Channels -> Nat] /\ copies' \in [Channels -> Nat]
    <2>1. buffered \in [Channels -> Nat] /\ copies \in [Channels -> Nat]  BY <1>1, Zenon DEF FeedTypeInv
    <2> QED  BY <1>2, <1>4, <2>1
  <1>8. ASSUME NEW c \in Channels
        PROVE  /\ Count(sendCases', 1 .. active - 1, c) = Count(sendCases, 1 .. active, c) - One(dest, c)
               /\ Count(sendCases', active .. Len(sendCases'), c)
                    = Count(sendCases, active + 1 .. Len(sendCases), c) + One(dest, c)
               /\ occurrences(sendCases', c) = occurrences(sendCases, c)
               /\ copies'[c] = copies[c] + One(dest, c)
    <2>1. /\ Count(sendCases', 1 .. active - 1, c) = Count(sendCases, 1 .. active, c) - One(sendCases[index], c)
          /\ Count(sendCases', active .. Len(sendCases'), c)
               = Count(sendCases, active + 1 .. Len(sendCases), c) + One(sendCases[index], c)
          /\ Count(sendCases', 1 .. Len(sendCases'), c) = Count(sendCases, 1 .. Len(sendCases), c)
      <3>1. index \in 1 .. active  BY Zenon
      <3>2. /\ sendCases \in Seq(Channels) /\ active \in 1 .. Len(sendCases)
            /\ sendCases' = deactivate(sendCases, active, index)
        BY <1>2, <1>3, Zenon
      <3> QED  BY <3>1, <3>2, DeactivateEffect
    <2>2. /\ occurrences(sendCases', c) = Count(sendCases', 1 .. Len(sendCases'), c)
          /\ occurrences(sendCases, c) = Count(sendCases, 1 .. Len(sendCases), c)
      BY <1>3, <1>5, CountAll, Zenon
    <2>3. copies'[c] = copies[c] + One(dest, c)  BY <1>1, <1>2, <1>4, SMTT(30) DEF One, FeedTypeInv
    <2> QED  BY <2>1, <2>2, <2>3, Zenon DEF dest
  <1>9. Live' = Live /\ Leaving' = Leaving  BY Zenon DEF Live, isLive, Leaving
  <1>10. CountInv'
    <2>1. SUFFICES ASSUME NEW c \in Channels
                   PROVE  /\ occurrences(sendCases', c) + occurrences(inbox', c) = subscribers(Live', c)
                          /\ occurrences(sendCases', c) >= subscribers(Leaving', c)
      BY Zenon DEF CountInv, occurrences, subscribers
    <2>2. occurrences(sendCases', c) = occurrences(sendCases, c)  BY <1>8, Zenon
    <2> QED  BY <1>1, <1>9, <2>2, Zenon DEF CountInv
  <1>11. ASSUME NEW c \in Channels
         PROVE  /\ Count(sendCases', active' + 1 .. Len(sendCases'), c) <= copies'[c]
                /\ copies'[c] + Count(sendCases', 1 .. active', c) <= subscribers(reachable', c)
                /\ occurrences(sendCases', c) >= subscribers(expected'[s] \cup Leaving', c)
    <2> DEFINE A == Count(sendCases, 1 .. active, c)
               B == Count(sendCases, active + 1 .. Len(sendCases), c)
               X == Count(sendCases', 1 .. active', c)
               Y == Count(sendCases', active' + 1 .. Len(sendCases'), c)
               x == One(dest, c)
    <2>1. B <= copies[c] /\ copies[c] + A <= subscribers(reachable, c)  BY <1>1, Zenon DEF Serves
    <2>2. A \in Nat /\ B \in Nat /\ x \in Nat /\ copies[c] \in Nat /\ subscribers(reachable, c) \in Nat
      <3>1. IsFiniteSet(1 .. active) /\ IsFiniteSet(active + 1 .. Len(sendCases))
        <4>1. 1 \in Int /\ active \in Int /\ active + 1 \in Int /\ Len(sendCases) \in Int  BY <1>3
        <4> QED  BY <4>1, FS_Interval, Zenon
      <3>2. A \in Nat /\ B \in Nat  BY <3>1, CountType, Zenon
      <3>3. subscribers(reachable, c) \in Nat  BY <1>1, SubscribersMonotone, Zenon DEF FeedTypeInv
      <3> QED  BY <1>1, <3>2, <3>3, OneType, Zenon DEF FeedTypeInv
    <2>3. active' = active - 1 /\ active' + 1 = active  BY <1>2, <1>6, Zenon
    <2>4. X = A - x /\ Y = B + x /\ copies'[c] = copies[c] + x  BY <1>8, <2>3, Zenon
    <2>5. occurrences(sendCases', c) >= subscribers(expected'[s] \cup Leaving', c)  BY <1>1, <1>8, <1>9, Zenon DEF Serves
    <2>6. reachable' = reachable  BY Zenon
    <2> HIDE DEF A, B, X, Y, x
    <2>7. Y <= copies'[c] /\ copies'[c] + X <= subscribers(reachable', c)
      <3> DEFINE before == copies[c]
                 after == copies'[c]
                 most == subscribers(reachable, c)
      <3>1. /\ before \in Nat /\ most \in Nat /\ after = before + x /\ B <= before /\ before + A <= most
            /\ most = subscribers(reachable', c)
        BY <2>1, <2>2, <2>4, <2>6, Zenon
      <3> HIDE DEF before, after, most
      <3>2. Y <= after /\ after + X <= most  BY ONLY <2>2, <2>4, <3>1, Shifted
      <3> QED  BY <3>1, <3>2, Zenon DEF after
    <2> QED  BY <2>5, <2>7, Zenon DEF X, Y
  <1>12. Serves(s)'  BY <1>11, Zenon DEF Serves, Count, occurrences, subscribers
  <1> QED  BY <1>5, <1>6, <1>7, <1>10, <1>12, Zenon

\* What a step of the Send with the lock has to leave in order: the sender goes on with its cases, or is done.
LEMMA SenderInv ==
  ASSUME FeedInv, NEW s \in Senders, send[s] \in {"try", "select"}, NEW step \in {"try", "select", "unlock"},
         send' = [send EXCEPT ![s] = step], step = "unlock" => active' = 0,
         UNCHANGED <<inbox, sendLock, sub, expected, reachable>>, next' \in Nat \ {0},
         sendCases' \in Seq(Channels), active' \in Nat, active' <= Len(sendCases'),
         buffered' \in [Channels -> Nat], copies' \in [Channels -> Nat], CountInv', Serves(s)'
  PROVE  FeedInv'
  <1>1. FeedTypeInv /\ TokenInv /\ CountInv /\ SendInv  BY Zenon DEF FeedInv
  <1>2. FeedTypeInv'  BY <1>1, Zenon DEF FeedTypeInv
  <1>3. \A t \in Senders : send'[t] \in Holding <=> send[t] \in Holding  BY <1>1, Zenon DEF FeedTypeInv, Holding
  <1>4. TokenInv'  BY <1>1, <1>3, Zenon DEF TokenInv
  <1>5. \A t \in Senders \ {s} : send'[t] \notin Holding  BY <1>1, <1>3, Zenon DEF TokenInv, Holding
  <1>6. send'[s] = step /\ step \in Delivering /\ Delivering \subseteq Holding /\ "unlock" \in Holding
    BY <1>1, Zenon DEF FeedTypeInv, Delivering, Holding
  <1>7. SendInv'
    <2>1. \A t \in Senders : \A v \in expected'[t] : sub'[v] = "subscribed"  BY <1>1, Zenon DEF SendInv
    <2>2. \A t \in Senders : send'[t] \in Delivering => Serves(t)'  BY <1>5, <1>6, Zenon
    <2>3. \A t \in Senders : send'[t] = "unlock" => active' = 0  BY <1>5, <1>6, Zenon
    <2>4. \E t \in Senders : send'[t] \in Delivering  BY <1>6, Zenon
    <2> QED  BY <2>1, <2>2, <2>3, <2>4, Zenon DEF SendInv
  <1> QED  BY <1>2, <1>4, <1>7, Zenon DEF FeedInv

\* One turn of the TrySend loop.
LEMMA TrySendInv ==
  ASSUME FeedInv, NEW s \in Senders, TrySend(s)
  PROVE  FeedInv'
  <1>1. FeedTypeInv /\ CountInv /\ SendInv  BY Zenon DEF FeedInv
  <1>2. /\ send[s] \in {"try", "select"} /\ send[s] = "try" /\ send[s] \in Delivering
        /\ UNCHANGED <<inbox, sendLock, sub, expected, reachable>>
    BY Zenon DEF TrySend, Delivering
  <1>3. Live' = Live /\ Leaving' = Leaving  BY <1>2, Zenon DEF Live, isLive, Leaving
  <1>4. send = [send EXCEPT ![s] = "try"] /\ "try" # "unlock"  BY <1>1, <1>2, Zenon DEF FeedTypeInv
  <1>5. CASE next <= active /\ Deliver(next) /\ UNCHANGED <<next, send>>
    <2>1. next \in 1 .. active /\ next' \in Nat \ {0}  BY <1>1, <1>5 DEF FeedTypeInv
    <2>2. /\ sendCases' \in Seq(Channels) /\ active' \in Nat /\ active' <= Len(sendCases')
          /\ buffered' \in [Channels -> Nat] /\ copies' \in [Channels -> Nat]
          /\ CountInv' /\ Serves(s)'
      BY <1>2, <1>5, <2>1, DeliverEffect, Zenon
    <2>3. send' = [send EXCEPT ![s] = "try"]  BY <1>4, <1>5, Zenon
    <2> QED  BY <1>2, <1>4, <2>1, <2>2, <2>3, SenderInv, Zenon
  <1>6. CASE next' = next + 1 /\ UNCHANGED <<sendCases, active, buffered, copies, send>>
    <2>1. next' \in Nat \ {0}  BY <1>1, <1>6 DEF FeedTypeInv
    <2>2. CountInv' /\ Serves(s)'  BY <1>1, <1>2, <1>3, <1>6, Zenon DEF CountInv, SendInv, Serves
    <2>3. /\ sendCases' \in Seq(Channels) /\ active' \in Nat /\ active' <= Len(sendCases')
          /\ buffered' \in [Channels -> Nat] /\ copies' \in [Channels -> Nat]
      BY <1>1, <1>6, Zenon DEF FeedTypeInv
    <2>4. send' = [send EXCEPT ![s] = "try"]  BY <1>4, <1>6, Zenon
    <2> QED  BY <1>2, <1>4, <2>1, <2>2, <2>3, <2>4, SenderInv, Zenon
  <1>7. CASE /\ send' = [send EXCEPT ![s] = IF active = 0 THEN "unlock" ELSE "select"]
             /\ UNCHANGED <<sendCases, active, buffered, copies, next>>
    <2> DEFINE step == IF active = 0 THEN "unlock" ELSE "select"
    <2>1. next' \in Nat \ {0}  BY <1>1, <1>7, Zenon DEF FeedTypeInv
    <2>2. CountInv' /\ Serves(s)'  BY <1>1, <1>2, <1>3, <1>7, Zenon DEF CountInv, SendInv, Serves
    <2>3. /\ sendCases' \in Seq(Channels) /\ active' \in Nat /\ active' <= Len(sendCases')
          /\ buffered' \in [Channels -> Nat] /\ copies' \in [Channels -> Nat]
      BY <1>1, <1>7, Zenon DEF FeedTypeInv
    <2>4. send' = [send EXCEPT ![s] = step]  BY <1>7, Zenon
    <2>5. step \in {"try", "select", "unlock"} /\ (step = "unlock" => active' = 0)  BY <1>7, Zenon
    <2> HIDE DEF step
    <2> QED  BY <1>2, <2>1, <2>2, <2>3, <2>4, <2>5, SenderInv, Zenon
  <1> QED  BY <1>5, <1>6, <1>7, Zenon DEF TrySend

\* The blocking select has sent a value.
LEMMA SelectSendInv ==
  ASSUME FeedInv, NEW s \in Senders, SelectSend(s)
  PROVE  FeedInv'
  <1>1. PICK index \in 1 .. active : Deliver(index)  BY Zenon DEF SelectSend
  <1>2. /\ send[s] \in {"try", "select"} /\ send[s] \in Delivering
        /\ send' = [send EXCEPT ![s] = "try"] /\ next' = 1 /\ "try" # "unlock"
        /\ UNCHANGED <<inbox, sendLock, sub, expected, reachable>>
    BY Zenon DEF SelectSend, Delivering
  <1>3. /\ sendCases' \in Seq(Channels) /\ active' \in Nat /\ active' <= Len(sendCases')
        /\ buffered' \in [Channels -> Nat] /\ copies' \in [Channels -> Nat]
        /\ CountInv' /\ Serves(s)'
    BY <1>1, <1>2, DeliverEffect, Zenon
  <1>4. next' \in Nat \ {0}  BY <1>2
  <1> QED  BY <1>2, <1>3, <1>4, SenderInv, Zenon

\* A step of something else.
LEMMA FeedStutter ==
  ASSUME FeedInv, UNCHANGED vars
  PROVE  FeedInv'
  <1> USE DEF vars, ghosts
  <1>1. FeedTypeInv'  BY Zenon DEF FeedInv, FeedTypeInv
  <1>2. TokenInv'  BY Zenon DEF FeedInv, TokenInv
  <1>3. Live' = Live /\ Leaving' = Leaving  BY Zenon DEF Live, isLive, Leaving
  <1>4. CountInv'  BY <1>3, Zenon DEF FeedInv, CountInv
  <1>5. SendInv'  BY <1>3, Zenon DEF FeedInv, SendInv, Serves
  <1> QED  BY <1>1, <1>2, <1>4, <1>5, Zenon DEF FeedInv

\* Every step preserves the invariant.
LEMMA FeedNext == FeedInv /\ [Next]_vars => FeedInv'
  <1> SUFFICES ASSUME FeedInv, [Next]_vars  PROVE FeedInv'  BY Zenon
  <1>1. ASSUME NEW u \in Subs, Subscribe(u) \/ Unsubscribe(u)  PROVE FeedInv'
    BY <1>1, SubscribeInv, UnsubscribeInv, Zenon
  <1>2. ASSUME NEW u \in Subs, RemoveStep(u)  PROVE FeedInv'
    BY <1>2, RemoveFromInboxInv, RemoveLockedInv, CloseErrInv, Zenon DEF RemoveStep
  <1>3. ASSUME NEW u \in Subs, RemoveWait(u)  PROVE FeedInv'
    BY <1>3, RemoveTakeLockInv, RemoveBySendInv, Zenon DEF RemoveWait
  <1>4. ASSUME NEW s \in Senders, Send(s) \/ TakeSendLock(s)  PROVE FeedInv'
    BY <1>4, SendInvariant, TakeSendLockInv, Zenon
  <1>5. ASSUME NEW s \in Senders, SendStep(s)  PROVE FeedInv'
    BY <1>5, TakeInboxInv, TrySendInv, SelectSendInv, ReturnSendLockInv, Zenon DEF SendStep
  <1>6. ASSUME NEW c \in Channels, Receive(c)  PROVE FeedInv'
    BY <1>6, ReceiveInv, Zenon
  <1>7. CASE UNCHANGED vars  BY <1>7, FeedStutter, Zenon
  <1> QED  BY <1>1, <1>2, <1>3, <1>4, <1>5, <1>6, <1>7, Zenon DEF Next

\* The invariant holds in every reachable state, for any senders, subscriptions and channels.
THEOREM FeedInvariance == Spec => []FeedInv
  BY FeedInit, FeedNext, PTL DEF Spec

\* The cases of sendCases and of the inbox are those of the live subscriptions, each once,
\* whichever way removals went, and neither list is ever asked for a case it does not have.
THEOREM CasesCorrect == Spec => []CasesAreSubscriptions
  <1>1. FeedInv => CasesAreSubscriptions
    <2> SUFFICES ASSUME FeedInv  PROVE CasesAreSubscriptions  BY Zenon
    <2>1. sendCases \in Seq(Channels) /\ inbox \in Seq(Channels)  BY Zenon DEF FeedInv, FeedTypeInv
    <2>2. Panicked \notin Seq(Channels)
      <3>1. Panicked[1] = "panic" /\ 1 \in 1 .. Len(Panicked)  BY DEF Panicked
      <3> HIDE DEF Panicked
      <3> QED  BY <3>1, FeedAssumption
    <2>3. ASSUME NEW c \in Channels
          PROVE  occurrences(sendCases \o inbox, c) = subscribers({u \in Subs : isLive(u)}, c)
      <3>1. occurrences(sendCases \o inbox, c) = occurrences(sendCases, c) + occurrences(inbox, c)
        BY <2>1, CountConcat, Zenon
      <3>2. occurrences(sendCases, c) + occurrences(inbox, c) = subscribers(Live, c)  BY Zenon DEF FeedInv, CountInv
      <3>3. Live = {u \in Subs : isLive(u)}  BY Zenon DEF Live
      <3> QED  BY <3>1, <3>2, <3>3, Zenon
    <2> QED  BY <2>1, <2>2, <2>3, Zenon DEF CasesAreSubscriptions
  <1> QED  BY <1>1, FeedInvariance, PTL

\* When a Send returns, every subscription that was there when it was called and is not being
\* cancelled has had the value; no Send delivers more copies to a channel than it has subscriptions.
THEOREM DeliveryCorrect == Spec => []DeliveredOnce
  <1>1. FeedInv => DeliveredOnce
    <2> SUFFICES ASSUME FeedInv, NEW s \in Senders, NEW c \in Channels, send[s] \in Delivering
                 PROVE  /\ send[s] = "unlock" => copies[c] >= subscribers(expected[s], c)
                        /\ copies[c] <= subscribers(reachable, c)
      BY Zenon DEF DeliveredOnce, Delivering
    <2> DEFINE A == Count(sendCases, 1 .. active, c)
               U == expected[s] \cup Leaving
    <2>1. /\ FeedTypeInv /\ Serves(s) /\ (send[s] = "unlock" => active = 0)  BY Zenon DEF FeedInv, SendInv
    <2>2. copies[c] \in Nat /\ subscribers(reachable, c) \in Nat /\ Len(sendCases) \in Nat /\ active \in Nat
      BY <2>1, SubscribersMonotone, SMTT(30) DEF FeedTypeInv
    <2>3. A \in Nat
      <3>1. IsFiniteSet(1 .. active)
        <4>1. 1 \in Int /\ active \in Int  BY <2>2
        <4> QED  BY <4>1, FS_Interval, Zenon
      <3> QED  BY <3>1, CountType, Zenon
    <2>4. copies[c] + A <= subscribers(reachable, c)  BY <2>1, Zenon DEF Serves
    <2>5. ASSUME send[s] = "unlock"  PROVE copies[c] >= subscribers(expected[s], c)
      <3>1. active + 1 = 1  BY <2>1, <2>5
      <3>2. Count(sendCases, 1 .. Len(sendCases), c) <= copies[c]  BY <2>1, <3>1, Zenon DEF Serves
      <3>3. occurrences(sendCases, c) = Count(sendCases, 1 .. Len(sendCases), c) /\ occurrences(sendCases, c) \in Nat
        BY <2>1, CountAll, Zenon DEF FeedTypeInv
      <3>4. occurrences(sendCases, c) >= subscribers(U, c)  BY <2>1, Zenon DEF Serves
      <3>5. expected[s] \subseteq U /\ U \subseteq Subs  BY <2>1, Zenon DEF FeedTypeInv, Leaving
      <3> HIDE DEF U
      <3>6. /\ subscribers(expected[s], c) <= subscribers(U, c)
            /\ subscribers(expected[s], c) \in Nat /\ subscribers(U, c) \in Nat
        BY <3>5, SubscribersMonotone, Zenon
      <3> QED  BY <2>2, <3>2, <3>3, <3>4, <3>6
    <2> HIDE DEF A
    <2> QED  BY <2>2, <2>3, <2>4, <2>5, SMTT(30)
  <1> QED  BY <1>1, FeedInvariance, PTL

=============================================================================
