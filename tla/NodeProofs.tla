----------------------------- MODULE NodeProofs -----------------------------
(***************************************************************************)
(* Proofs, for every value of the constants, that the inode array of a    *)
(* node stays of its type and strictly sorted through NodeMut::put and    *)
(* NodeMut::del (src/src/node.rs), both of which place or find the inode  *)
(* with binary_search_by.                                                  *)
(***************************************************************************)
EXTENDS Node, WellFoundedInduction, SequenceTheorems, TLAPS

-----------------------------------------------------------------------------
(* Edits of a sorted inode array.                                          *)

\* Concatenation, element-wise (ConcatProperties, in a form whose
\* instances the provers find).
LEMMA CatAt ==
    ASSUME NEW S, NEW c \in Seq(S), NEW d \in Seq(S)
    PROVE  /\ c \o d \in Seq(S)
           /\ Len(c \o d) = Len(c) + Len(d)
           /\ \A n \in 1..Len(c) + Len(d) :
                 (c \o d)[n] = IF n <= Len(c) THEN c[n] ELSE d[n - Len(c)]
BY ConcatProperties

\* The array NodeMut::put leaves with insert(closest): e put in at i.
Splice(s, i, e) == SubSeq(s, 1, i - 1) \o << e >> \o SubSeq(s, i, Len(s))

\* insert(closest) as NodeMut::put uses it: inserting e at i into a sorted
\* array gives an inode array, sorted when e is above every key before i
\* and below every key from i on.
LEMMA InsertSorted ==
    ASSUME NEW s \in Seq(INode), IsSorted(s), NEW e \in INode,
           NEW i \in 1..Len(s) + 1
    PROVE  /\ Splice(s, i, e) \in Seq(INode)
           /\ (/\ \A j \in 1..i - 1 : s[j].key < e.key
               /\ \A j \in i..Len(s) : s[j].key > e.key) => IsSorted(Splice(s, i, e))
           /\ Range(Splice(s, i, e)) = Range(s) \cup {e}
<1> DEFINE a == SubSeq(s, 1, i - 1)
           b == SubSeq(s, i, Len(s))
           c == a \o << e >>
<1>1. a \in Seq(INode) /\ Len(a) = i - 1 /\ \A n \in 1..i - 1 : a[n] = s[n]
  BY SubSeqProperties
<1>2. b \in Seq(INode) /\ Len(b) = Len(s) - i + 1
      /\ \A n \in 1..Len(s) - i + 1 : b[n] = s[i + n - 1]
  BY SubSeqProperties
<1> HIDE DEF a, b
<1>3. << e >> \in Seq(INode) /\ Len(<< e >>) = 1 /\ << e >>[1] = e
  OBVIOUS
<1>4. /\ c \in Seq(INode)
      /\ Len(c) = Len(a) + Len(<< e >>)
      /\ \A n \in 1..Len(a) + Len(<< e >>) :
            c[n] = IF n <= Len(a) THEN a[n] ELSE << e >>[n - Len(a)]
  BY <1>1, <1>3, CatAt, Zenon
<1> HIDE DEF c
<1>5. Len(c) = i /\ \A n \in 1..i : c[n] = IF n < i THEN s[n] ELSE e
  BY <1>1, <1>3, <1>4
<1>6. /\ c \o b \in Seq(INode)
      /\ Len(c \o b) = Len(c) + Len(b)
      /\ \A n \in 1..Len(c) + Len(b) :
            (c \o b)[n] = IF n <= Len(c) THEN c[n] ELSE b[n - Len(c)]
  <2>1. c \in Seq(INode) /\ b \in Seq(INode)
    BY <1>2, <1>4
  <2>. QED  BY <2>1, CatAt, Zenon
<1>7. \A n \in 1..Len(s) + 1 :
         (c \o b)[n] = IF n < i THEN s[n] ELSE IF n = i THEN e ELSE s[n - 1]
  <2> SUFFICES ASSUME NEW n \in 1..Len(s) + 1
               PROVE  (c \o b)[n] = IF n < i THEN s[n] ELSE IF n = i THEN e ELSE s[n - 1]
    OBVIOUS
  <2>1. CASE n <= i
    <3>1. n \in 1..Len(c) + Len(b) /\ n <= Len(c)
      BY <1>2, <1>5, <2>1
    <3>2. (c \o b)[n] = c[n]
      BY <1>6, <3>1
    <3>3. c[n] = IF n < i THEN s[n] ELSE e
      BY <1>5, <2>1
    <3>. QED  BY <2>1, <3>2, <3>3
  <2>2. CASE n > i
    <3>1. n - Len(c) \in 1..Len(s) - i + 1 /\ n \in 1..Len(c) + Len(b)
      BY <1>2, <1>5, <2>2
    <3>2. (c \o b)[n] = b[n - Len(c)]
      BY <1>5, <1>6, <2>2, <3>1
    <3>3. b[n - Len(c)] = s[n - 1]
      BY <1>2, <1>5, <3>1
    <3>. QED  BY <2>2, <3>2, <3>3
  <2>3. n <= i \/ n > i
    OBVIOUS
  <2>. QED  BY <2>1, <2>2, <2>3, Zenon
<1>8. Len(c \o b) = Len(s) + 1
  BY <1>2, <1>5, <1>6
<1>9. ASSUME \A j \in 1..i - 1 : s[j].key < e.key,
             \A j \in i..Len(s) : s[j].key > e.key
      PROVE  IsSorted(c \o b)
  <2> SUFFICES ASSUME NEW x \in 1..Len(c \o b), NEW y \in 1..Len(c \o b), x < y
               PROVE  (c \o b)[x].key < (c \o b)[y].key
    BY DEF IsSorted
  <2> DEFINE u == c \o b
  <2>1. \A m, n \in 1..Len(s) : m < n => s[m].key < s[n].key
    BY DEF IsSorted
  <2>2. x \in 1..Len(s) + 1 /\ y \in 1..Len(s) + 1
    BY <1>8
  <2> HIDE DEF u
  <2>3. CASE y < i
    <3>1. u[x] = s[x] /\ u[y] = s[y] /\ x \in 1..Len(s) /\ y \in 1..Len(s)
      BY <1>7, <2>2, <2>3 DEF u
    <3>. QED  BY <2>1, <3>1 DEF u
  <2>4. CASE x < i /\ y = i
    <3>1. u[x] = s[x] /\ u[y] = e /\ x \in 1..i - 1
      BY <1>7, <2>2, <2>4 DEF u
    <3>. QED  BY <1>9, <3>1 DEF u
  <2>5. CASE x < i /\ y > i
    <3>1. u[x] = s[x] /\ u[y] = s[y - 1] /\ x \in 1..Len(s) /\ y - 1 \in 1..Len(s)
          /\ x < y - 1
      BY <1>7, <2>2, <2>5 DEF u
    <3>. QED  BY <2>1, <3>1 DEF u
  <2>6. CASE x = i
    <3>1. u[x] = e /\ u[y] = s[y - 1] /\ y - 1 \in i..Len(s)
      BY <1>7, <2>2, <2>6 DEF u
    <3>. QED  BY <1>9, <3>1 DEF u
  <2>7. CASE x > i
    <3>1. u[x] = s[x - 1] /\ u[y] = s[y - 1] /\ x - 1 \in 1..Len(s)
          /\ y - 1 \in 1..Len(s) /\ x - 1 < y - 1
      BY <1>7, <2>2, <2>7 DEF u
    <3>. QED  BY <2>1, <3>1 DEF u
  <2>. QED  BY <2>3, <2>4, <2>5, <2>6, <2>7
<1>10. Range(c \o b) = Range(s) \cup {e}
  <2> DEFINE u == c \o b
  <2>1. DOMAIN u = 1..Len(s) + 1 /\ DOMAIN s = 1..Len(s)
    BY <1>6, <1>8
  <2>0. \A n \in 1..Len(s) + 1 :
           u[n] = IF n < i THEN s[n] ELSE IF n = i THEN e ELSE s[n - 1]
    BY <1>7
  <2> HIDE DEF u
  <2>2. ASSUME NEW n \in 1..Len(s) + 1 PROVE u[n] \in Range(s) \cup {e}
    <3>0. u[n] = IF n < i THEN s[n] ELSE IF n = i THEN e ELSE s[n - 1]
      BY <2>0
    <3>1. CASE n < i
      <4>1. u[n] = s[n] /\ n \in DOMAIN s
        BY <2>1, <3>0, <3>1
      <4>. QED  BY <4>1 DEF Range
    <3>2. CASE n = i
      BY <3>0, <3>2
    <3>3. CASE n > i
      <4>1. u[n] = s[n - 1] /\ n - 1 \in DOMAIN s
        BY <2>1, <3>0, <3>3
      <4>. QED  BY <4>1 DEF Range
    <3>. QED  BY <3>1, <3>2, <3>3
  <2>3. ASSUME NEW m \in 1..Len(s) PROVE s[m] \in Range(u)
    <3>1. CASE m < i
      <4>0. u[m] = IF m < i THEN s[m] ELSE IF m = i THEN e ELSE s[m - 1]
        BY <2>0
      <4>1. u[m] = s[m] /\ m \in DOMAIN u
        BY <2>1, <4>0, <3>1
      <4>. QED  BY <4>1 DEF Range
    <3>2. CASE m >= i
      <4>0. u[m + 1] = IF m + 1 < i THEN s[m + 1] ELSE IF m + 1 = i THEN e ELSE s[m + 1 - 1]
        BY <2>0
      <4>1. u[m + 1] = s[m] /\ m + 1 \in DOMAIN u
        BY <2>1, <4>0, <3>2
      <4>. QED  BY <4>1 DEF Range
    <3>. QED  BY <3>1, <3>2
  <2>4. e \in Range(u)
    <3>0. u[i] = IF i < i THEN s[i] ELSE IF i = i THEN e ELSE s[i - 1]
      BY <2>0
    <3>1. u[i] = e /\ i \in DOMAIN u
      BY <2>1, <3>0
    <3>. QED  BY <3>1 DEF Range
  <2>5. Range(u) \subseteq Range(s) \cup {e}
    BY <2>1, <2>2 DEF Range
  <2>6. Range(s) \cup {e} \subseteq Range(u)
    BY <2>1, <2>3, <2>4 DEF Range
  <2>. QED  BY <2>5, <2>6 DEF u
<1>. QED  BY <1>6, <1>9, <1>10 DEF a, b, c, Splice

\* The array del leaves with remove(exact): s without its i-th inode.
Cut(s, i) == SubSeq(s, 1, i - 1) \o SubSeq(s, i + 1, Len(s))

\* The element-wise content of the array del leaves with remove(exact).
LEMMA RemoveAt ==
    ASSUME NEW s \in Seq(INode), NEW i \in 1..Len(s)
    PROVE  /\ Cut(s, i) \in Seq(INode)
           /\ Len(Cut(s, i)) = Len(s) - 1
           /\ \A n \in 1..Len(s) - 1 : Cut(s, i)[n] = IF n < i THEN s[n] ELSE s[n + 1]
           /\ Range(Cut(s, i)) = {s[n] : n \in (1..Len(s)) \ {i}}
<1> DEFINE a == SubSeq(s, 1, i - 1)
           b == SubSeq(s, i + 1, Len(s))
<1>1. a \in Seq(INode) /\ Len(a) = i - 1 /\ \A n \in 1..i - 1 : a[n] = s[n]
  BY SubSeqProperties
<1>2. b \in Seq(INode) /\ Len(b) = Len(s) - i
      /\ \A n \in 1..Len(s) - i : b[n] = s[i + n]
  BY SubSeqProperties
<1> HIDE DEF a, b
<1>3. /\ a \o b \in Seq(INode)
      /\ Len(a \o b) = Len(a) + Len(b)
      /\ \A n \in 1..Len(a) + Len(b) :
            (a \o b)[n] = IF n <= Len(a) THEN a[n] ELSE b[n - Len(a)]
  BY <1>1, <1>2, CatAt, Zenon
<1>4. \A n \in 1..Len(s) - 1 : (a \o b)[n] = IF n < i THEN s[n] ELSE s[n + 1]
  <2> SUFFICES ASSUME NEW n \in 1..Len(s) - 1
               PROVE  (a \o b)[n] = IF n < i THEN s[n] ELSE s[n + 1]
    OBVIOUS
  <2>1. CASE n < i
    BY <1>1, <1>2, <1>3, <2>1
  <2>2. CASE n >= i
    <3>1. n - Len(a) \in 1..Len(s) - i /\ n \in 1..Len(a) + Len(b)
      BY <1>1, <1>2, <2>2
    <3>2. (a \o b)[n] = b[n - Len(a)]
      BY <1>1, <1>3, <2>2, <3>1
    <3>3. b[n - Len(a)] = s[n + 1]
      BY <1>1, <1>2, <3>1
    <3>. QED  BY <2>2, <3>2, <3>3
  <2>3. n < i \/ n >= i
    OBVIOUS
  <2>. QED  BY <2>1, <2>2, <2>3, Zenon
<1>5. Len(a \o b) = Len(s) - 1
  BY <1>1, <1>2, <1>3
<1>6. Range(a \o b) = {s[n] : n \in (1..Len(s)) \ {i}}
  <2> DEFINE u == a \o b
             R == {s[n] : n \in (1..Len(s)) \ {i}}
  <2>1. DOMAIN u = 1..Len(s) - 1
    BY <1>3, <1>5
  <2>0. \A n \in 1..Len(s) - 1 : u[n] = IF n < i THEN s[n] ELSE s[n + 1]
    BY <1>4
  <2> HIDE DEF u
  <2>2. ASSUME NEW n \in 1..Len(s) - 1 PROVE u[n] \in R
    <3>0. u[n] = IF n < i THEN s[n] ELSE s[n + 1]
      BY <2>0
    <3>1. CASE n < i
      <4>1. u[n] = s[n] /\ n \in (1..Len(s)) \ {i}
        BY <3>0, <3>1
      <4>. QED  BY <4>1
    <3>2. CASE n >= i
      <4>1. u[n] = s[n + 1] /\ n + 1 \in (1..Len(s)) \ {i}
        BY <3>0, <3>2
      <4>. QED  BY <4>1
    <3>. QED  BY <3>1, <3>2
  <2>3. ASSUME NEW m \in (1..Len(s)) \ {i} PROVE s[m] \in Range(u)
    <3>1. CASE m < i
      <4>0. u[m] = IF m < i THEN s[m] ELSE s[m + 1]
        BY <2>0, <3>1
      <4>1. u[m] = s[m] /\ m \in DOMAIN u
        BY <2>1, <4>0, <3>1
      <4>. QED  BY <4>1 DEF Range
    <3>2. CASE m > i
      <4>0. u[m - 1] = IF m - 1 < i THEN s[m - 1] ELSE s[m - 1 + 1]
        BY <2>0, <3>2
      <4>1. u[m - 1] = s[m] /\ m - 1 \in DOMAIN u
        BY <2>1, <4>0, <3>2
      <4>. QED  BY <4>1 DEF Range
    <3>. QED  BY <3>1, <3>2
  <2>4. Range(u) \subseteq R
    BY <2>1, <2>2 DEF Range
  <2>5. R \subseteq Range(u)
    BY <2>3
  <2>. QED  BY <2>4, <2>5 DEF u, R
<1>. QED  BY <1>3, <1>4, <1>5, <1>6 DEF a, b, Cut

-----------------------------------------------------------------------------
(* binary_search_by on a sorted array.                                     *)

\* On a sorted inode array the search returns the partition point: a
\* position from 1 to Len + 1 with every key before it below the probe and
\* no key from it on below it; it is a hit when the key there is the probe.
\* The point exists because < is well-founded on Nat.
LEMMA BinarySearchSplits ==
    ASSUME NEW s \in Seq(INode), IsSorted(s), NEW key \in Nat
    PROVE  LET r == binary_search(s, key) IN
           /\ r.index \in 1..Len(s) + 1
           /\ \A j \in 1..r.index - 1 : s[j].key < key
           /\ \A j \in r.index..Len(s) : s[j].key >= key
           /\ r.found = (r.index <= Len(s) /\ s[r.index].key = key)
<1> DEFINE P(i) == /\ \A j \in 1..i - 1 : s[j].key < key
                   /\ i <= Len(s) => s[i].key >= key
           idx == CHOOSE i \in 1..Len(s) + 1 : P(i)
<1>0. \A j \in 1..Len(s) : s[j].key \in Nat
  <2> SUFFICES ASSUME NEW j \in 1..Len(s) PROVE s[j].key \in Nat
    OBVIOUS
  <2>1. s[j] \in INode
    BY ElementOfSeq
  <2>. QED  BY <2>1, NodeAssumption DEF INode
<1>1. \E i \in 1..Len(s) + 1 : P(i)
  <2> DEFINE T == {i \in 1..Len(s) + 1 : i = Len(s) + 1 \/ s[i].key >= key}
  <2>1. T \subseteq Nat /\ T # {}
    <3>1. Len(s) + 1 \in T
      BY DEF T
    <3>. QED  BY <3>1 DEF T
  <2>2. PICK x \in T : \A y \in T : ~(<<y, x>> \in OpToRel(<, Nat))
    BY <2>1, NatLessThanWellFounded, WFMin
  <2>3. \A j \in 1..x - 1 : s[j].key < key
    <3> SUFFICES ASSUME NEW j \in 1..x - 1 PROVE s[j].key < key
      OBVIOUS
    <3>1. j \notin T
      <4>1. j \in Nat /\ x \in Nat /\ j < x
        OBVIOUS
      <4>2. <<j, x>> \in OpToRel(<, Nat)
        BY <4>1 DEF OpToRel
      <4>. QED  BY <2>2, <4>2
    <3>. QED  BY <1>0, <3>1
  <2>4. x <= Len(s) => s[x].key >= key
    OBVIOUS
  <2>. QED  BY <2>3, <2>4
<1>2. idx \in 1..Len(s) + 1 /\ P(idx)
  BY <1>1
<1>3. \A j \in idx..Len(s) : s[j].key >= key
  <2> SUFFICES ASSUME NEW j \in idx..Len(s) PROVE s[j].key >= key
    OBVIOUS
  <2>1. CASE j = idx
    BY <1>2, <2>1
  <2>2. CASE j # idx
    <3>1. s[idx].key < s[j].key
      BY <1>2, <2>2 DEF IsSorted
    <3>. QED  BY <1>0, <1>2, <3>1
  <2>. QED  BY <2>1, <2>2
<1>. QED  BY <1>2, <1>3 DEF binary_search

-----------------------------------------------------------------------------
(* put and del keep the array sorted.                                      *)

\* The keys of an inode array are naturals.
LEMMA KeysNat ==
    ASSUME NEW s \in Seq(INode)
    PROVE  \A j \in 1..Len(s) : s[j].key \in Nat
<1> SUFFICES ASSUME NEW j \in 1..Len(s) PROVE s[j].key \in Nat
  OBVIOUS
<1>1. s[j] \in INode
  BY ElementOfSeq
<1>. QED  BY <1>1, NodeAssumption DEF INode

\* An array that is a sorted one with the element at i removed is sorted.
LEMMA ShiftOutSorted ==
    ASSUME NEW s \in Seq(INode), IsSorted(s), NEW i \in 1..Len(s),
           NEW t, Len(t) = Len(s) - 1,
           \A n \in 1..Len(s) - 1 : t[n] = IF n < i THEN s[n] ELSE s[n + 1]
    PROVE  IsSorted(t)
<1> SUFFICES ASSUME NEW a \in 1..Len(t), NEW b \in 1..Len(t), a < b
             PROVE  t[a].key < t[b].key
  BY DEF IsSorted
<1>1. \A x, y \in 1..Len(s) : x < y => s[x].key < s[y].key
  BY DEF IsSorted
<1>2. CASE b < i
  <2>1. t[a] = s[a] /\ t[b] = s[b] /\ a \in 1..Len(s) /\ b \in 1..Len(s)
    BY <1>2
  <2>. QED  BY <1>1, <2>1
<1>3. CASE a < i /\ b >= i
  <2>1. t[a] = s[a] /\ t[b] = s[b + 1] /\ a \in 1..Len(s) /\ b + 1 \in 1..Len(s)
        /\ a < b + 1
    BY <1>3
  <2>. QED  BY <1>1, <2>1
<1>4. CASE a >= i
  <2>1. t[a] = s[a + 1] /\ t[b] = s[b + 1] /\ a + 1 \in 1..Len(s)
        /\ b + 1 \in 1..Len(s) /\ a + 1 < b + 1
    BY <1>4
  <2>. QED  BY <1>1, <2>1
<1>. QED  BY <1>2, <1>3, <1>4

\* Overwriting an element with one of the same key keeps an array sorted.
LEMMA ReplaceSorted ==
    ASSUME NEW s \in Seq(INode), IsSorted(s), NEW i \in 1..Len(s),
           NEW e \in INode, e.key = s[i].key
    PROVE  [s EXCEPT ![i] = e] \in Seq(INode) /\ IsSorted([s EXCEPT ![i] = e])
<1>1. [s EXCEPT ![i] = e] \in Seq(INode)
  BY ExceptSeq
<1>2. Len([s EXCEPT ![i] = e]) = Len(s)
  BY ExceptSeq
<1>3. \A n \in 1..Len(s) : [s EXCEPT ![i] = e][n].key = s[n].key
  OBVIOUS
<1>. QED  BY <1>1, <1>2, <1>3 DEF IsSorted

-----------------------------------------------------------------------------
(* The inductive invariant.                                                *)

\* TypeOK and Sorted, with the page the node is read from among the
\* committed pages (which are sorted).
IInv == TypeOK /\ page \in Pages /\ Sorted

\* A committed leaf page is an inode array.
LEMMA PageEntryIsINode ==
    Seq(PageEntry) \subseteq Seq(INode)
<1>1. PageEntry \subseteq INode
  <2>1. [key : Keys, vlen : ValLens, flags : {0}] \subseteq INode
    BY NodeAssumption DEF INode
  <2>2. [key : Keys, vlen : {IN_BUCKET_SIZE}, flags : {BUCKET_LEAF_FLAG}] \subseteq INode
    BY DEF INode, IN_BUCKET_SIZE, BUCKET_LEAF_FLAG
  <2>. QED  BY <2>1, <2>2 DEF PageEntry
<1>. QED  BY <1>1, SeqMonotonic

LEMMA InitInv == Init => IInv
BY PagesAssumption DEF Init, IInv, TypeOK, Sorted

\* NodeW::read_in copies a committed, sorted page.
LEMMA ReadInInv == IInv /\ read_in => IInv'
BY PagesAssumption, PageEntryIsINode DEF IInv, read_in, TypeOK, Sorted

\* NodeMut::put keeps the array sorted, whether it overwrites or inserts.
LEMMA PutInv ==
    ASSUME IInv, NEW k \in Keys, NEW f \in {0, BUCKET_LEAF_FLAG}, put(k, f)
    PROVE  IInv'
<1> DEFINE s == inodes
           r == binary_search(s, k)
           new == [key |-> k, vlen |-> k, flags |-> f]
           hit == r.index <= Len(s) /\ s[r.index].key = k
<1>1. s \in Seq(INode) /\ IsSorted(s) /\ page \in Pages
  BY DEF IInv, put, TypeOK, Sorted
<1>2. k \in Nat /\ new \in INode /\ new.key = k
  BY NodeAssumption DEF INode
<1>3. /\ r.index \in 1..Len(s) + 1
      /\ \A j \in 1..r.index - 1 : s[j].key < k
      /\ \A j \in r.index..Len(s) : s[j].key >= k
  BY <1>1, <1>2, BinarySearchSplits
<1>4. r.found = hit
  BY <1>1, <1>2, BinarySearchSplits
<1>5. inodes' = IF r.found
                THEN [s EXCEPT ![r.index] = new]
                ELSE SubSeq(s, 1, r.index - 1) \o << new >> \o SubSeq(s, r.index, Len(s))
  BY DEF put
<1>6. UNCHANGED <<page, is_leaf, unbalanced>> /\ is_leaf \in BOOLEAN
      /\ unbalanced \in BOOLEAN /\ page \in Seq(PageEntry)
  BY DEF put, IInv, TypeOK
<1>7. ~hit => \A j \in r.index..Len(s) : s[j].key > k
  <2>1. \A j \in r.index..Len(s) : j # r.index => s[r.index].key < s[j].key
    BY <1>1, <1>3 DEF IsSorted
  <2>2. \A j \in 1..Len(s) : s[j].key \in Nat
    BY <1>1, KeysNat
  <2>. QED  BY <1>2, <1>3, <2>1, <2>2
<1> HIDE DEF s, r, new, hit
<1>8. inodes' \in Seq(INode) /\ IsSorted(inodes')
  <2>1. CASE hit
    <3>1. inodes' = [s EXCEPT ![r.index] = new]
      BY <1>4, <1>5, <2>1, Zenon
    <3>2. r.index \in 1..Len(s) /\ new.key = s[r.index].key
      BY <1>2, <1>3, <2>1 DEF hit
    <3>. QED  BY <1>1, <1>2, <3>1, <3>2, ReplaceSorted
  <2>2. CASE ~hit
    <3>1. inodes' = Splice(s, r.index, new)
      BY <1>4, <1>5, <2>2, Zenon DEF Splice
    <3>2. \A j \in r.index..Len(s) : s[j].key > new.key
      BY <1>2, <1>7, <2>2
    <3>3. \A j \in 1..r.index - 1 : s[j].key < new.key
      BY <1>2, <1>3
    <3>4. r.index \in 1..Len(s) + 1
      BY <1>3
    <3>5. Splice(s, r.index, new) \in Seq(INode) /\ IsSorted(Splice(s, r.index, new))
      BY <1>1, <1>2, <3>2, <3>3, <3>4, InsertSorted
    <3>. QED  BY <3>1, <3>5
  <2>. QED  BY <2>1, <2>2
<1>. QED  BY <1>1, <1>6, <1>8 DEF IInv, TypeOK, Sorted

\* NodeMut::del keeps the array sorted.
LEMMA DelInv ==
    ASSUME IInv, NEW k \in Keys, del(k)
    PROVE  IInv'
<1> DEFINE s == inodes
           r == binary_search(s, k)
<1>1. s \in Seq(INode) /\ IsSorted(s) /\ page \in Pages
  BY DEF IInv, del, TypeOK, Sorted
<1>2. /\ r.index \in 1..Len(s) + 1
      /\ r.found = (r.index <= Len(s) /\ s[r.index].key = k)
  BY <1>1, NodeAssumption, BinarySearchSplits
<1>3. inodes' = IF r.found
                THEN SubSeq(s, 1, r.index - 1) \o SubSeq(s, r.index + 1, Len(s))
                ELSE s
  BY DEF del
<1>4. UNCHANGED <<page, is_leaf>> /\ unbalanced' = TRUE /\ is_leaf \in BOOLEAN
      /\ page \in Seq(PageEntry)
  BY DEF del, IInv, TypeOK
<1> HIDE DEF s, r
<1>5. inodes' \in Seq(INode) /\ IsSorted(inodes')
  <2>1. CASE r.found
    <3>1. r.index \in 1..Len(s)
      <4>1. r.index <= Len(s)
        BY <1>2, <2>1, Zenon
      <4>. QED  BY <1>2, <4>1
    <3>2. inodes' = SubSeq(s, 1, r.index - 1) \o SubSeq(s, r.index + 1, Len(s))
      BY <1>3, <2>1, Zenon
    <3>3. /\ inodes' \in Seq(INode)
          /\ Len(inodes') = Len(s) - 1
          /\ \A n \in 1..Len(s) - 1 :
                inodes'[n] = IF n < r.index THEN s[n] ELSE s[n + 1]
      <4>1. inodes' = Cut(s, r.index)  BY <3>2 DEF Cut
      <4>2. /\ Cut(s, r.index) \in Seq(INode)
            /\ Len(Cut(s, r.index)) = Len(s) - 1
            /\ \A n \in 1..Len(s) - 1 :
                  Cut(s, r.index)[n] = IF n < r.index THEN s[n] ELSE s[n + 1]
        BY <1>1, <3>1, RemoveAt
      <4>. QED  BY <4>1, <4>2
    <3>4. IsSorted(inodes')
      BY <1>1, <3>1, <3>2, <3>3, ShiftOutSorted
    <3>. QED  BY <3>3, <3>4
  <2>2. CASE ~r.found
    <3>1. inodes' = s
      BY <1>3, <2>2, Zenon
    <3>. QED  BY <1>1, <3>1
  <2>. QED  BY <2>1, <2>2
<1>. QED  BY <1>1, <1>4, <1>5 DEF IInv, TypeOK, Sorted

LEMMA DropInv == IInv /\ drop => IInv'
BY DEF IInv, drop, TypeOK, Sorted

LEMMA NextInv == IInv /\ [Next]_vars => IInv'
<1> SUFFICES ASSUME IInv, [Next]_vars PROVE IInv'
  OBVIOUS
<1>1. CASE read_in
  BY <1>1, ReadInInv
<1>2. CASE \E k \in Keys, f \in {0, BUCKET_LEAF_FLAG} : put(k, f)
  BY <1>2, PutInv
<1>3. CASE \E k \in Keys : del(k)
  BY <1>3, DelInv
<1>4. CASE drop
  BY <1>4, DropInv
<1>5. CASE UNCHANGED vars
  BY <1>5 DEF IInv, vars, TypeOK, Sorted
<1>. QED  BY <1>1, <1>2, <1>3, <1>4, <1>5 DEF Next

\* The inode array of a node stays strictly sorted through every put and
\* del (NodeMut::put, NodeMut::del), for every set of keys and pages.
THEOREM SortedInvariant == Spec => []Sorted
<1>1. IInv => Sorted
  BY DEF IInv
<1>. QED  BY InitInv, NextInv, <1>1, PTL DEF Spec

\* Every variable of the node keeps its type.
THEOREM NodeTypeCorrect == Spec => []TypeOK
<1>1. IInv => TypeOK
  BY DEF IInv
<1>. QED  BY InitInv, NextInv, <1>1, PTL DEF Spec

=============================================================================
