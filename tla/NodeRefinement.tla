--------------------------- MODULE NodeRefinement ---------------------------
(***************************************************************************)
(* Proof that the inode array of a node (Node) implements the abstract     *)
(* leaf map (LeafMap) under the mapping "the set of inodes": read_in loads *)
(* the committed page, put overwrites or inserts exactly the entry of its  *)
(* key, del removes exactly that entry, and drop discards the writes.      *)
(* The step proofs rest on the invariant of NodeProofs: the array is       *)
(* strictly sorted, so no two inodes share a key.                          *)
(***************************************************************************)
EXTENDS NodeProofs

-----------------------------------------------------------------------------
(* The entries of a sorted array.                                          *)

\* In a strictly sorted array no two positions hold the same key.
LEMMA KeysDistinct ==
    ASSUME NEW s \in Seq(INode), IsSorted(s),
           NEW m \in 1..Len(s), NEW n \in 1..Len(s), s[m].key = s[n].key
    PROVE  m = n
<1>1. s[m].key \in Nat /\ s[n].key \in Nat
  BY KeysNat
<1>2. m < n => s[m].key < s[n].key
  BY DEF IsSorted
<1>3. n < m => s[n].key < s[m].key
  BY DEF IsSorted
<1>. QED  BY <1>1, <1>2, <1>3

\* The entries of a sorted array other than those of the key at i are the
\* entries at every other position.
LEMMA WithoutAt ==
    ASSUME NEW s \in Seq(INode), IsSorted(s), NEW i \in 1..Len(s)
    PROVE  LM!Without(Range(s), s[i].key) = {s[n] : n \in (1..Len(s)) \ {i}}
<1>1. DOMAIN s = 1..Len(s)
  OBVIOUS
<1>2. ASSUME NEW n \in 1..Len(s), s[n].key # s[i].key PROVE n # i
  BY <1>2
<1>3. ASSUME NEW n \in (1..Len(s)) \ {i} PROVE s[n].key # s[i].key
  BY KeysDistinct
<1>. QED  BY <1>1, <1>2, <1>3 DEF LM!Without, Range

\* A set none of whose entries has key k loses nothing when k is removed.
LEMMA WithoutAbsent ==
    ASSUME NEW S, NEW k, \A x \in S : x.key # k
    PROVE  LM!Without(S, k) = S
BY DEF LM!Without

\* The entries of an array with position i overwritten.
LEMMA ReplaceRange ==
    ASSUME NEW s \in Seq(INode), NEW i \in 1..Len(s), NEW e
    PROVE  Range([s EXCEPT ![i] = e]) = {s[n] : n \in (1..Len(s)) \ {i}} \cup {e}
BY DEF Range

\* When the partition point of the search is not an exact hit, the key is
\* in no entry: the keys before the point are below it, the key at the
\* point is not it, and the keys after the point are above the key there.
LEMMA MissNoKey ==
    ASSUME NEW s \in Seq(INode), IsSorted(s), NEW k \in Nat,
           NEW i \in 1..Len(s) + 1,
           \A j \in 1..i - 1 : s[j].key < k,
           \A j \in i..Len(s) : s[j].key >= k,
           ~(i <= Len(s) /\ s[i].key = k)
    PROVE  \A x \in Range(s) : x.key # k
<1> SUFFICES ASSUME NEW j \in 1..Len(s) PROVE s[j].key # k
  BY DEF Range
<1>1. \A n \in 1..Len(s) : s[n].key \in Nat
  BY KeysNat
<1>2. CASE j < i
  BY <1>1, <1>2
<1>3. CASE j = i
  BY <1>1, <1>3
<1>4. CASE j > i
  <2>1. s[i].key < s[j].key /\ s[i].key >= k
    BY <1>4 DEF IsSorted
  <2>. QED  BY <1>1, <1>4, <2>1
<1>. QED  BY <1>2, <1>3, <1>4

-----------------------------------------------------------------------------
(* Each step of the node is a step of the leaf map or leaves it alone.     *)

\* An inode array is not Option::None: the mapping sees a read-in node as
\* loaded.
LEMMA StoreOfNode ==
    ASSUME NEW s \in Seq(INode)
    PROVE  s # NONE
BY NoneAssumption

\* NodeW::read_in is Load.
LEMMA ReadInStep == IInv /\ read_in => LM!Load
<1> SUFFICES ASSUME IInv, read_in PROVE LM!Load
  OBVIOUS
<1>1. inodes = NONE /\ inodes' = page /\ page' = page
  BY DEF read_in
<1>2. page \in Seq(INode)
  BY PageEntryIsINode DEF IInv, TypeOK
<1>3. page # NONE
  BY <1>2, StoreOfNode
<1>. QED  BY <1>1, <1>3 DEF LM!Load

\* NodeMut::put(k) is Set of the inode it writes.
LEMMA PutStep ==
    ASSUME IInv, NEW k \in Keys, NEW f \in {0, BUCKET_LEAF_FLAG}, put(k, f)
    PROVE  LM!Set([key |-> k, vlen |-> k, flags |-> f])
<1> DEFINE s == inodes
           r == binary_search(s, k)
           new == [key |-> k, vlen |-> k, flags |-> f]
           hit == r.index <= Len(s) /\ s[r.index].key = k
<1>1. s \in Seq(INode) /\ IsSorted(s) /\ s # NONE
  BY DEF IInv, put, TypeOK, Sorted
<1>2. k \in Nat /\ new \in INode /\ new.key = k
  BY NodeAssumption DEF INode
<1>3. /\ r.index \in 1..Len(s) + 1
      /\ \A j \in 1..r.index - 1 : s[j].key < k
      /\ \A j \in r.index..Len(s) : s[j].key >= k
  BY <1>1, <1>2, BinarySearchSplits
<1>4. r.found = hit
  BY <1>1, <1>2, BinarySearchSplits
<1>5. inodes' = IF r.found
                THEN [s EXCEPT ![r.index] = new]
                ELSE SubSeq(s, 1, r.index - 1) \o << new >> \o SubSeq(s, r.index, Len(s))
  BY DEF put
<1>6. UNCHANGED page
  BY DEF put
<1> HIDE DEF s, r, new, hit
<1>7. Range(inodes') = LM!Without(Range(s), k) \cup {new} /\ inodes' \in Seq(INode)
  <2>1. CASE hit
    <3>1. inodes' = [s EXCEPT ![r.index] = new]
      BY <1>4, <1>5, <2>1, Zenon
    <3>2. r.index \in 1..Len(s) /\ s[r.index].key = k
      BY <1>3, <2>1 DEF hit
    <3>3. Range(inodes') = {s[n] : n \in (1..Len(s)) \ {r.index}} \cup {new}
      BY <1>1, <3>1, <3>2, ReplaceRange
    <3>4. inodes' \in Seq(INode)
      BY <1>1, <1>2, <3>1, <3>2, ExceptSeq
    <3>5. LM!Without(Range(s), k) = {s[n] : n \in (1..Len(s)) \ {r.index}}
      BY <1>1, <3>2, WithoutAt
    <3>. QED  BY <3>3, <3>4, <3>5
  <2>2. CASE ~hit
    <3>1. inodes' = Splice(s, r.index, new)
      BY <1>4, <1>5, <2>2, Zenon DEF Splice
    <3>2. Range(inodes') = Range(s) \cup {new} /\ inodes' \in Seq(INode)
      <4>1. Range(Splice(s, r.index, new)) = Range(s) \cup {new}
            /\ Splice(s, r.index, new) \in Seq(INode)
        BY <1>1, <1>2, <1>3, InsertSorted
      <4>. QED  BY <3>1, <4>1
    <3>3. \A x \in Range(s) : x.key # k
      BY <1>1, <1>2, <1>3, <2>2, MissNoKey DEF hit
    <3>4. LM!Without(Range(s), k) = Range(s)
      BY <3>3, WithoutAbsent
    <3>. QED  BY <3>2, <3>4
  <2>. QED  BY <2>1, <2>2
<1>8. inodes' # NONE
  BY <1>7, StoreOfNode
<1>. QED  BY <1>1, <1>2, <1>6, <1>7, <1>8 DEF LM!Set, s, new

\* NodeMut::del(k) is Remove(k).
LEMMA DelStep ==
    ASSUME IInv, NEW k \in Keys, del(k)
    PROVE  LM!Remove(k)
<1> DEFINE s == inodes
           r == binary_search(s, k)
           hit == r.index <= Len(s) /\ s[r.index].key = k
<1>1. s \in Seq(INode) /\ IsSorted(s) /\ s # NONE /\ k \in Nat
  BY NodeAssumption DEF IInv, del, TypeOK, Sorted
<1>2. /\ r.index \in 1..Len(s) + 1
      /\ \A j \in 1..r.index - 1 : s[j].key < k
      /\ \A j \in r.index..Len(s) : s[j].key >= k
      /\ r.found = hit
  BY <1>1, BinarySearchSplits
<1>3. inodes' = IF r.found
                THEN SubSeq(s, 1, r.index - 1) \o SubSeq(s, r.index + 1, Len(s))
                ELSE s
  BY DEF del
<1>4. UNCHANGED page
  BY DEF del
<1> HIDE DEF s, r, hit
<1>5. Range(inodes') = LM!Without(Range(s), k) /\ inodes' \in Seq(INode)
  <2>1. CASE hit
    <3>1. inodes' = SubSeq(s, 1, r.index - 1) \o SubSeq(s, r.index + 1, Len(s))
      BY <1>2, <1>3, <2>1, Zenon
    <3>2. r.index \in 1..Len(s) /\ s[r.index].key = k
      BY <1>2, <2>1 DEF hit
    <3>3. Range(inodes') = {s[n] : n \in (1..Len(s)) \ {r.index}} /\ inodes' \in Seq(INode)
      <4>1. inodes' = Cut(s, r.index)  BY <3>1 DEF Cut
      <4>2. Range(Cut(s, r.index)) = {s[n] : n \in (1..Len(s)) \ {r.index}}
            /\ Cut(s, r.index) \in Seq(INode)
        BY <1>1, <3>2, RemoveAt
      <4>. QED  BY <4>1, <4>2
    <3>4. LM!Without(Range(s), k) = {s[n] : n \in (1..Len(s)) \ {r.index}}
      BY <1>1, <3>2, WithoutAt
    <3>. QED  BY <3>3, <3>4
  <2>2. CASE ~hit
    <3>1. inodes' = s
      BY <1>2, <1>3, <2>2, Zenon
    <3>2. \A x \in Range(s) : x.key # k
      BY <1>1, <1>2, <2>2, MissNoKey DEF hit
    <3>. QED  BY <1>1, <3>1, <3>2, WithoutAbsent
  <2>. QED  BY <2>1, <2>2
<1>6. inodes' # NONE
  BY <1>5, StoreOfNode
<1>. QED  BY <1>1, <1>4, <1>5, <1>6 DEF LM!Remove, s

\* Dropping the node cache is Discard.
LEMMA DropStep == IInv /\ drop => LM!Discard
<1> SUFFICES ASSUME IInv, drop PROVE LM!Discard
  OBVIOUS
<1>1. inodes \in Seq(INode) /\ inodes' = NONE /\ page' = page
  BY DEF IInv, TypeOK, drop
<1>. QED  BY <1>1, StoreOfNode DEF LM!Discard

\* A step of the node is a step of the leaf map, or none of its variables
\* changes.
LEMMA NextStep == IInv /\ [Next]_vars => [LM!LMNext]_LM!lmvars
<1> SUFFICES ASSUME IInv, [Next]_vars PROVE [LM!LMNext]_LM!lmvars
  OBVIOUS
<1>1. CASE read_in
  BY <1>1, ReadInStep DEF LM!LMNext
<1>2. CASE \E k \in Keys, f \in {0, BUCKET_LEAF_FLAG} : put(k, f)
  <2>1. PICK k \in Keys, f \in {0, BUCKET_LEAF_FLAG} : put(k, f)
    BY <1>2
  <2>2. [key |-> k, vlen |-> k, flags |-> f] \in Entry
    BY DEF Entry, BUCKET_LEAF_FLAG
  <2>. QED  BY <2>1, <2>2, PutStep DEF LM!LMNext
<1>3. CASE \E k \in Keys : del(k)
  <2>1. PICK k \in Keys : del(k)
    BY <1>3
  <2>2. k \in {e.key : e \in Entry}
    <3>1. [key |-> k, vlen |-> k, flags |-> 0] \in Entry
      BY DEF Entry
    <3>. QED  BY <3>1
  <2>. QED  BY <2>1, <2>2, DelStep DEF LM!LMNext
<1>4. CASE drop
  BY <1>4, DropStep DEF LM!LMNext
<1>5. CASE UNCHANGED vars
  BY <1>5 DEF vars, LM!lmvars
<1>. QED  BY <1>1, <1>2, <1>3, <1>4, <1>5 DEF Next

\* The node implements the leaf map: every behaviour of read_in, put, del
\* and drop on a node (NodeW / NodeMut in node.rs) is, seen as the set of
\* its inodes, a behaviour of a map in which a write replaces the entry of
\* its key and a delete removes it; for every set of keys and pages.
THEOREM NodeImplementsLeafMap == Spec => ImplementsLeafMap
<1>1. Init => LM!LMInit
  BY DEF Init, LM!LMInit
<1>2. Spec => []IInv
  BY InitInv, NextInv, PTL DEF Spec
<1>. QED  BY <1>1, <1>2, NextStep, PTL DEF Spec, ImplementsLeafMap, LM!LMSpec

=============================================================================
