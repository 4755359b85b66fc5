---------------------------- MODULE NodeSizeProofs ----------------------------
(***************************************************************************)
(* Proofs, for every value of the constants, of what the size loops of    *)
(* src/src/node.rs compute: NodeW::size_less_than agrees with NodeW::size  *)
(* (for pages that hold four headers), and NodeW::split_index cuts where   *)
(* spill expects it.                                                       *)
(*                                                                         *)
(* PrefixSize is the recursive function of the loop's running size.  Its  *)
(* equations are not available to the provers as they stand: a recursive  *)
(* function definition denotes CHOOSE f : f = [i \in 0..n |-> ...], and   *)
(* that such an f exists, and that it agrees with the one for a shorter    *)
(* prefix, is shown here by taking the least counterexample (WFMin on <    *)
(* over Nat), which needs no induction rule with an operator parameter.    *)
(***************************************************************************)
EXTENDS NodeProofs, WellFoundedInduction

\* The right-hand side of the loop's recursion: the header, or the size
\* before inode i plus its element, key and value bytes.
Step(s, leaf, g, i) ==
    IF i = 0 THEN PAGE_HEADER_SIZE
    ELSE g[i - 1] + page_element_size(leaf) + s[i].key + s[i].vlen

\* The function PrefixSize(s, leaf, n) reads its result from.
PF(s, leaf, n) == CHOOSE f : f = [i \in 0..n |-> Step(s, leaf, f, i)]

\* PrefixSize is PF read at n.
LEMMA PrefixIsPF ==
    ASSUME NEW s, NEW leaf, NEW n
    PROVE  PrefixSize(s, leaf, n) = PF(s, leaf, n)[n]
BY DEF PrefixSize, PF, Step

\* The least element of a non-empty set of naturals.
LEMMA NatLeast ==
    ASSUME NEW T \in SUBSET Nat, T # {}
    PROVE  \E x \in T : \A y \in T : x <= y
<1>1. PICK x \in T : \A y \in T : ~(<<y, x>> \in OpToRel(<, Nat))
  BY NatLessThanWellFounded, WFMin
<1>2. \A y \in T : x <= y
  <2> SUFFICES ASSUME NEW y \in T PROVE x <= y  OBVIOUS
  <2>1. x \in Nat /\ y \in Nat  OBVIOUS
  <2>2. ~(<<y, x>> \in OpToRel(<, Nat))  BY <1>1
  <2>. QED  BY <2>1, <2>2 DEF OpToRel
<1>. QED  BY <1>2

\* g is a function on 0..n that meets the loop's equations.
Solves(g, s, leaf, n) == g = [i \in 0..n |-> Step(s, leaf, g, i)]

\* The running-size loop has a result for every number of inodes.
LEMMA PFExists ==
    ASSUME NEW s, NEW leaf, NEW n \in Nat
    PROVE  \E g : Solves(g, s, leaf, n)
<1> DEFINE T == {m \in Nat : ~\E g : Solves(g, s, leaf, m)}
<1> SUFFICES T = {}  OBVIOUS
<1>1. SUFFICES ASSUME T # {} PROVE FALSE  OBVIOUS
<1>2. PICK x \in T : \A y \in T : x <= y  BY <1>1, NatLeast
<1>3. CASE x = 0
  <2> DEFINE g == [i \in 0..0 |-> PAGE_HEADER_SIZE]
  <2>1. Solves(g, s, leaf, 0)  BY DEF Solves, Step
  <2>. QED  BY <1>2, <1>3, <2>1
<1>4. CASE x # 0
  <2>1. x - 1 \notin T  BY <1>2, <1>4
  <2>2. PICK g : Solves(g, s, leaf, x - 1)  BY <1>2, <1>4, <2>1
  <2> DEFINE h == [i \in 0..x |-> IF i < x THEN g[i]
                                  ELSE g[x - 1] + page_element_size(leaf)
                                       + s[x].key + s[x].vlen]
  <2>3. \A i \in 0..x : h[i] = Step(s, leaf, h, i)
    <3> SUFFICES ASSUME NEW i \in 0..x PROVE h[i] = Step(s, leaf, h, i)
      OBVIOUS
    <3>1. CASE i = 0
      <4>1. g[0] = PAGE_HEADER_SIZE
        <5>1. 0 \in 0..x - 1  BY <1>2, <1>4
        <5>2. g[0] = Step(s, leaf, g, 0)  BY <2>2, <5>1 DEF Solves
        <5>. QED  BY <5>2 DEF Step
      <4>. QED  BY <1>2, <1>4, <3>1, <4>1 DEF Step
    <3>2. CASE i # 0 /\ i < x
      <4>1. g[i] = g[i - 1] + page_element_size(leaf) + s[i].key + s[i].vlen
        <5>1. i \in 0..x - 1  BY <1>2, <3>2
        <5>2. g[i] = Step(s, leaf, g, i)  BY <2>2, <5>1 DEF Solves
        <5>. QED  BY <3>2, <5>2 DEF Step
      <4>2. h[i] = g[i] /\ h[i - 1] = g[i - 1]  BY <1>2, <3>2
      <4>. QED  BY <3>2, <4>1, <4>2 DEF Step
    <3>3. CASE i = x
      BY <1>2, <1>4, <3>3 DEF Step
    <3>. QED  BY <1>2, <3>1, <3>2, <3>3
  <2>4. Solves(h, s, leaf, x)
    BY <2>3 DEF Solves
  <2>. QED  BY <1>2, <2>4
<1>. QED  BY <1>3, <1>4

\* g meets the loop's equations at 0..m.
SolvesOn(g, s, leaf, m) == \A i \in 0..m : g[i] = Step(s, leaf, g, i)

\* Two solutions of the loop's equations over 0..m agree there.
LEMMA SolvesAgree ==
    ASSUME NEW s, NEW leaf, NEW m \in Nat, NEW g, NEW h,
           SolvesOn(g, s, leaf, m), SolvesOn(h, s, leaf, m)
    PROVE  \A i \in 0..m : g[i] = h[i]
<1> USE DEF SolvesOn
<1> DEFINE T == {i \in 0..m : g[i] # h[i]}
<1> SUFFICES T = {}  OBVIOUS
<1>1. SUFFICES ASSUME T # {} PROVE FALSE  OBVIOUS
<1>2. PICK x \in T : \A y \in T : x <= y
  <2>1. T \in SUBSET Nat  OBVIOUS
  <2>. QED  BY <1>1, <2>1, NatLeast
<1>3. CASE x = 0
  BY <1>2, <1>3 DEF Step
<1>4. CASE x # 0
  <2>1. g[x - 1] = h[x - 1]  BY <1>2, <1>4
  <2>2. g[x] = Step(s, leaf, g, x) /\ h[x] = Step(s, leaf, h, x)  BY <1>2
  <2>. QED  BY <1>2, <1>4, <2>1, <2>2 DEF Step
<1>. QED  BY <1>3, <1>4

\* PF(n) solves the equations over 0..n.
LEMMA PFSolves ==
    ASSUME NEW s, NEW leaf, NEW n \in Nat
    PROVE  \A i \in 0..n : PF(s, leaf, n)[i] = Step(s, leaf, PF(s, leaf, n), i)
<1>1. Solves(PF(s, leaf, n), s, leaf, n)  BY PFExists DEF PF, Solves
<1>. QED  BY <1>1 DEF Solves

\* The running size of NodeW::size: the header, then one element and the
\* key and value bytes of each inode in turn.
LEMMA PrefixRec ==
    ASSUME NEW s, NEW leaf
    PROVE  /\ PrefixSize(s, leaf, 0) = PAGE_HEADER_SIZE
           /\ \A n \in Nat \ {0} :
                 PrefixSize(s, leaf, n) = PrefixSize(s, leaf, n - 1)
                     + page_element_size(leaf) + s[n].key + s[n].vlen
<1>1. PrefixSize(s, leaf, 0) = PAGE_HEADER_SIZE
  <2>1. PF(s, leaf, 0)[0] = Step(s, leaf, PF(s, leaf, 0), 0)  BY PFSolves
  <2>. QED  BY <2>1, PrefixIsPF DEF Step
<1>2. ASSUME NEW n \in Nat \ {0}
      PROVE  PrefixSize(s, leaf, n) = PrefixSize(s, leaf, n - 1)
                 + page_element_size(leaf) + s[n].key + s[n].vlen
  <2> DEFINE g == PF(s, leaf, n)
             h == PF(s, leaf, n - 1)
  <2>1. \A i \in 0..n : g[i] = Step(s, leaf, g, i)  BY PFSolves
  <2>2. \A i \in 0..n - 1 : h[i] = Step(s, leaf, h, i)  BY PFSolves
  <2>3. \A i \in 0..n - 1 : g[i] = Step(s, leaf, g, i)  BY <2>1
  <2>4. g[n - 1] = h[n - 1]
    <3>0. n - 1 \in Nat  OBVIOUS
    <3>1. \A i \in 0..n - 1 : g[i] = h[i]
      <4>1. SolvesOn(g, s, leaf, n - 1) /\ SolvesOn(h, s, leaf, n - 1)
        BY <2>2, <2>3 DEF SolvesOn
      <4> HIDE DEF g, h
      <4>. QED  BY <3>0, <4>1, SolvesAgree
    <3>. QED  BY <3>1
  <2>5. g[n] = g[n - 1] + page_element_size(leaf) + s[n].key + s[n].vlen
    BY <2>1 DEF Step
  <2>6. PrefixSize(s, leaf, n) = g[n] /\ PrefixSize(s, leaf, n - 1) = h[n - 1]
    BY PrefixIsPF
  <2> HIDE DEF g, h
  <2>. QED  BY <2>4, <2>5, <2>6
<1>. QED  BY <1>1, <1>2
\* Over an inode array, the running size is a natural that never
\* decreases: every inode adds an element and its key and value bytes.
LEMMA PrefixMono ==
    ASSUME NEW s \in Seq(INode), NEW leaf
    PROVE  \A j \in 0..Len(s) :
              \A i \in 0..j : /\ PrefixSize(s, leaf, i) \in Nat
                             /\ PrefixSize(s, leaf, i) <= PrefixSize(s, leaf, j)
<1> DEFINE P(n) == PrefixSize(s, leaf, n)
           Good(j) == \A i \in 0..j : P(i) \in Nat /\ P(i) <= P(j)
           T == {j \in 0..Len(s) : ~Good(j)}
<1> SUFFICES T = {}  OBVIOUS
<1>1. SUFFICES ASSUME T # {} PROVE FALSE  OBVIOUS
<1>2. PICK x \in T : \A y \in T : x <= y
  <2>1. T \in SUBSET Nat  OBVIOUS
  <2>. QED  BY <1>1, <2>1, NatLeast
<1>3. P(0) = PAGE_HEADER_SIZE  BY PrefixRec
<1>4. CASE x = 0
  BY <1>2, <1>3, <1>4 DEF PAGE_HEADER_SIZE
<1>5. CASE x # 0
  <2>1. Good(x - 1)  BY <1>2, <1>5
  <2>2. P(x) = P(x - 1) + page_element_size(leaf) + s[x].key + s[x].vlen
    BY <1>2, <1>5, PrefixRec
  <2>3. page_element_size(leaf) = 16 /\ s[x].key \in Nat /\ s[x].vlen \in Nat
    <3>1. s[x] \in INode  BY <1>2, <1>5
    <3>2. s[x].key \in Nat /\ s[x].vlen \in Nat  BY <3>1, NodeAssumption DEF INode
    <3>3. page_element_size(leaf) = 16
      BY Zenon DEF page_element_size, LEAF_PAGE_ELEMENT_SIZE, BRANCH_PAGE_ELEMENT_SIZE
    <3>. QED  BY <3>2, <3>3
  <2>4. Good(x)
    <3> HIDE DEF P
    <3>1. x \in Nat \ {0}  BY <1>2, <1>5
    <3>2. \A i \in 0..x - 1 : P(i) \in Nat /\ P(i) <= P(x - 1)
      BY <2>1, Zenon
    <3>3. P(x) \in Nat /\ P(x - 1) <= P(x)
      <4> DEFINE a == s[x].key
                 b == s[x].vlen
                 e == page_element_size(leaf)
      <4>1. P(x - 1) \in Nat  BY <3>1, <3>2
      <4>2. P(x) = P(x - 1) + e + a + b /\ e = 16 /\ a \in Nat /\ b \in Nat
        BY <2>2, <2>3
      <4> HIDE DEF a, b, e
      <4>. QED  BY <4>1, <4>2
    <3>4. \A i \in 0..x : P(i) \in Nat /\ P(i) <= P(x)
      <4> SUFFICES ASSUME NEW i \in 0..x PROVE P(i) \in Nat /\ P(i) <= P(x)
        OBVIOUS
      <4>1. CASE i = x  BY <3>3, <4>1
      <4>2. CASE i # x
        <5>1. i \in 0..x - 1  BY <3>1, <4>2
        <5>2. P(i) \in Nat /\ P(i) <= P(x - 1)  BY <3>2, <5>1
        <5>3. P(x - 1) \in Nat  BY <3>1, <3>2
        <5>. QED  BY <3>3, <5>2, <5>3
      <4>. QED  BY <4>1, <4>2
    <3>. QED  BY <3>4
  <2>. QED  BY <1>2, <2>4
<1>. QED  BY <1>4, <1>5
\* NodeW::size_less_than, which returns false at the first prefix above v,
\* answers size() <= v for any limit that holds at least the page header.
LEMMA SizeLessThanOn ==
    ASSUME NEW s \in Seq(INode), NEW leaf, NEW v \in Nat, v >= PAGE_HEADER_SIZE
    PROVE  size_less_than(s, leaf, v) = (size(s, leaf) <= v)
<1> DEFINE P(n) == PrefixSize(s, leaf, n)
<1>1. (\A i \in 1..Len(s) : P(i) <= v) <=> P(Len(s)) <= v
  <2>1. CASE Len(s) = 0
    <3>1. P(0) = PAGE_HEADER_SIZE  BY PrefixRec
    <3>. QED  BY <2>1, <3>1
  <2>2. CASE Len(s) # 0
    <3>1. \A i \in 0..Len(s) : P(i) \in Nat /\ P(i) <= P(Len(s))
      <4>1. Len(s) \in 0..Len(s)  OBVIOUS
      <4>. QED  BY <4>1, PrefixMono
    <3>2. (\A i \in 1..Len(s) : P(i) <= v) => P(Len(s)) <= v
      BY <2>2
    <3>3. P(Len(s)) <= v => \A i \in 1..Len(s) : P(i) <= v
      BY <3>1
    <3>. QED  BY <3>2, <3>3
  <2>. QED  BY <2>1, <2>2
<1>2. size_less_than(s, leaf, v) <=> size(s, leaf) <= v
  BY <1>1 DEF size, size_less_than
<1>3. size_less_than(s, leaf, v) \in BOOLEAN /\ (size(s, leaf) <= v) \in BOOLEAN
  BY DEF size_less_than
<1>. QED  BY <1>2, <1>3

\* For a page size of at least 64 bytes, every limit the code compares a
\* node with (the page, the split threshold and max_inline_bucket_size, a
\* quarter page) holds the 16-byte page header.
LEMMA LimitsHoldHeader ==
    ASSUME PageSize >= 4 * PAGE_HEADER_SIZE
    PROVE  \A v \in Limits : v \in Nat /\ v >= PAGE_HEADER_SIZE
BY NodeAssumption DEF Limits, SplitThreshold, max_inline_bucket_size, PAGE_HEADER_SIZE

\* The early return of NodeW::size_less_than never changes its answer: in
\* every reachable state, for each limit the code uses, it is true exactly
\* when the node's full size() fits.  An empty node makes size() the
\* 16-byte header while size_less_than is vacuously true, so the limits
\* must hold the header: max_inline_bucket_size is a quarter page, hence
\* the hypothesis of at least 64 bytes a page.
THEOREM SizeLessThanAgreesHolds ==
    ASSUME PageSize >= 4 * PAGE_HEADER_SIZE
    PROVE  Spec => []SizeLessThanAgrees
<1>1. TypeOK => SizeLessThanAgrees
  <2> SUFFICES ASSUME TypeOK, inodes # NONE, NEW v \in Limits
               PROVE  size_less_than(inodes, is_leaf, v) = (size(inodes, is_leaf) <= v)
    BY DEF SizeLessThanAgrees
  <2>1. inodes \in Seq(INode)  BY DEF TypeOK
  <2>2. v \in Nat /\ v >= PAGE_HEADER_SIZE  BY LimitsHoldHeader
  <2>. QED  BY <2>1, <2>2, SizeLessThanOn
<1>. QED  BY <1>1, NodeTypeCorrect, PTL
\* NodeW::split_index on an array of more than 2 * MIN_KEYS_PER_PAGE
\* inodes, for any threshold: the index it returns leaves at least
\* MIN_KEYS_PER_PAGE inodes on each side, the first part fits unless it
\* is the minimum, and the next inode would not have fitted.
LEMMA SplitIndexOn ==
    ASSUME NEW s \in Seq(INode), Len(s) > 2 * MIN_KEYS_PER_PAGE,
           NEW leaf, NEW th \in Nat
    PROVE  LET i == split_index(s, leaf, th)[1]
               prefix(j) == PrefixSize(s, leaf, j)
           IN  /\ MIN_KEYS_PER_PAGE <= i
               /\ Len(s) - i >= MIN_KEYS_PER_PAGE
               /\ i > MIN_KEYS_PER_PAGE => prefix(i) <= th
               /\ i < Len(s) - MIN_KEYS_PER_PAGE - 1 => prefix(i + 1) > th
<1> DEFINE P(j) == PrefixSize(s, leaf, j)
           n == Len(s) - MIN_KEYS_PER_PAGE
           el(i) == page_element_size(leaf) + s[i + 1].key + s[i + 1].vlen
           stops == {i \in 0..n - 1 : i >= MIN_KEYS_PER_PAGE
                                      /\ PrefixSize(s, leaf, i) + el(i) > th}
           first == CHOOSE i \in stops : \A j \in stops : i <= j
           idx == split_index(s, leaf, th)[1]
<1> SUFFICES /\ MIN_KEYS_PER_PAGE <= idx
             /\ Len(s) - idx >= MIN_KEYS_PER_PAGE
             /\ idx > MIN_KEYS_PER_PAGE => P(idx) <= th
             /\ idx < Len(s) - MIN_KEYS_PER_PAGE - 1 => P(idx + 1) > th
  OBVIOUS
<1>0. Len(s) \in Nat /\ n \in Nat /\ n > MIN_KEYS_PER_PAGE
  BY DEF MIN_KEYS_PER_PAGE
<1>1. idx = IF stops # {} THEN first ELSE n - 1
  <2>1. ~(Len(s) <= MIN_KEYS_PER_PAGE)  BY <1>0 DEF MIN_KEYS_PER_PAGE
  <2>2. split_index(s, leaf, th)
        = IF stops # {} THEN <<first, PrefixSize(s, leaf, first)>>
          ELSE <<n - 1, PrefixSize(s, leaf, n)>>
    BY <2>1, Zenon DEF split_index
  <2>. QED  BY <2>2
<1>2. \A j \in 0..Len(s) : P(j) \in Nat
  <2>1. Len(s) \in 0..Len(s)  BY <1>0
  <2>. QED  BY <2>1, PrefixMono
<1>3. \A j \in 0..n - 1 : el(j) \in Nat /\ P(j + 1) = P(j) + el(j)
  <2> SUFFICES ASSUME NEW j \in 0..n - 1 PROVE el(j) \in Nat /\ P(j + 1) = P(j) + el(j)
    OBVIOUS
  <2>1. s[j + 1] \in INode  BY <1>0 DEF MIN_KEYS_PER_PAGE
  <2>2. s[j + 1].key \in Nat /\ s[j + 1].vlen \in Nat
    BY <2>1, NodeAssumption DEF INode
  <2>3. page_element_size(leaf) = 16
    BY Zenon DEF page_element_size, LEAF_PAGE_ELEMENT_SIZE, BRANCH_PAGE_ELEMENT_SIZE
  <2>4. P(j + 1) = P(j) + page_element_size(leaf) + s[j + 1].key + s[j + 1].vlen
    <3>1. j + 1 \in Nat \ {0} /\ (j + 1) - 1 = j  OBVIOUS
    <3>. QED  BY <3>1, PrefixRec
  <2>5. P(j) \in Nat
    <3>1. j \in 0..Len(s)  BY <1>0 DEF MIN_KEYS_PER_PAGE
    <3>. QED  BY <3>1, <1>2
  <2> DEFINE a == s[j + 1].key
            b == s[j + 1].vlen
  <2>6. el(j) = 16 + a + b  BY <2>3
  <2>7. P(j + 1) = P(j) + 16 + a + b  BY <2>3, <2>4
  <2>8. a \in Nat /\ b \in Nat  BY <2>2
  <2> HIDE DEF P, el, a, b
  <2>9. el(j) \in Nat  BY <2>8, <2>6
  <2>10. P(j + 1) = P(j) + el(j)  BY <2>8, <2>5, <2>6, <2>7
  <2>. QED  BY <2>9, <2>10
\* The index before a cut that is not the minimum did not stop the walk.
<1>4. ASSUME NEW c \in MIN_KEYS_PER_PAGE + 1..n - 1, c - 1 \notin stops
      PROVE  P(c) <= th
  <2>1. c - 1 \in 0..n - 1 /\ c - 1 >= MIN_KEYS_PER_PAGE
    BY <1>0 DEF MIN_KEYS_PER_PAGE
  <2>2. el(c - 1) \in Nat /\ P(c) = P(c - 1) + el(c - 1)
    <3>1. (c - 1) + 1 = c  OBVIOUS
    <3>. QED  BY <2>1, <3>1, <1>3
  <2>3. P(c - 1) \in Nat
    <3>1. c - 1 \in 0..Len(s)  BY <2>1, <1>0 DEF MIN_KEYS_PER_PAGE
    <3>. QED  BY <3>1, <1>2
  <2>4. ~(P(c - 1) + el(c - 1) > th)  BY <1>4, <2>1
  <2> HIDE DEF P, el
  <2>. QED  BY <2>2, <2>3, <2>4
<1>5. CASE stops # {}
  <2>1. first \in stops /\ \A k \in stops : first <= k
    <3>1. stops \in SUBSET Nat  OBVIOUS
    <3>2. \E x \in stops : \A k \in stops : x <= k  BY <1>5, <3>1, NatLeast
    <3>. QED  BY <3>2
  <2>2. idx = first  BY <1>1, <1>5
  <2>3. first \in 0..n - 1 /\ first >= MIN_KEYS_PER_PAGE  BY <2>1
  <2>4. first > MIN_KEYS_PER_PAGE => P(first) <= th
    <3> HAVE first > MIN_KEYS_PER_PAGE
    <3>1. first - 1 \notin stops
      <4>1. first \in Nat /\ ~(first <= first - 1)  BY <2>3
      <4>. QED  BY <2>1, <4>1
    <3>2. first \in MIN_KEYS_PER_PAGE + 1..n - 1  BY <2>3 DEF MIN_KEYS_PER_PAGE
    <3>. QED  BY <3>1, <3>2, <1>4
  <2>5. P(first) + el(first) > th  BY <2>1
  <2>6. el(first) \in Nat /\ P(first + 1) = P(first) + el(first)
    BY <2>3, <1>3
  <2>7. P(first) \in Nat
    <3>1. first \in 0..Len(s)  BY <2>3, <1>0 DEF MIN_KEYS_PER_PAGE
    <3>. QED  BY <3>1, <1>2
  <2> HIDE DEF P, el, stops, first, idx
  <2>. QED  BY <1>0, <2>2, <2>3, <2>4, <2>5, <2>6, <2>7 DEF MIN_KEYS_PER_PAGE
<1>6. CASE stops = {}
  <2>1. idx = n - 1  BY <1>1, <1>6
  <2>2. n - 1 > MIN_KEYS_PER_PAGE => P(n - 1) <= th
    <3> HAVE n - 1 > MIN_KEYS_PER_PAGE
    <3>1. n - 1 \in MIN_KEYS_PER_PAGE + 1..n - 1  BY <1>0 DEF MIN_KEYS_PER_PAGE
    <3>2. (n - 1) - 1 \notin stops  BY <1>6
    <3>. QED  BY <3>1, <3>2, <1>4
  <2> HIDE DEF P, el, stops, first, idx
  <2>. QED  BY <1>0, <2>1, <2>2 DEF MIN_KEYS_PER_PAGE
<1>. QED  BY <1>5, <1>6

\* NodeW::split_index, in every reachable state whose node holds more
\* than 2 * MIN_KEYS_PER_PAGE inodes, cuts where spill expects it: both
\* parts keep MIN_KEYS_PER_PAGE inodes, the first fits the split threshold
\* unless it is the minimum, and it ends at the first inode that would
\* cross the threshold.  This holds for every page size.
THEOREM SplitIndexCorrectHolds == Spec => []SplitIndexCorrect
<1>1. TypeOK => SplitIndexCorrect
  <2> SUFFICES ASSUME TypeOK, inodes # NONE, Len(inodes) > 2 * MIN_KEYS_PER_PAGE
               PROVE  LET i == split_index(inodes, is_leaf, SplitThreshold)[1]
                          prefix(j) == PrefixSize(inodes, is_leaf, j)
                      IN  /\ MIN_KEYS_PER_PAGE <= i
                          /\ Len(inodes) - i >= MIN_KEYS_PER_PAGE
                          /\ i > MIN_KEYS_PER_PAGE => prefix(i) <= SplitThreshold
                          /\ i < Len(inodes) - MIN_KEYS_PER_PAGE - 1
                                => prefix(i + 1) > SplitThreshold
    BY DEF SplitIndexCorrect
  <2>1. inodes \in Seq(INode)  BY DEF TypeOK
  <2>2. SplitThreshold \in Nat  BY NodeAssumption DEF SplitThreshold
  <2>. QED  BY <2>1, <2>2, SplitIndexOn
<1>. QED  BY <1>1, NodeTypeCorrect, PTL
=============================================================================
