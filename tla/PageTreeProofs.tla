--------------------------- MODULE PageTreeProofs ---------------------------
(***************************************************************************)
(* Proof of ParentLinks: the writer's node cache is a tree under the       *)
(* bucket's root, for every MaxPgId that satisfies PageAssumption.         *)
(*                                                                         *)
(* ParentLinks is not inductive: whether child_at, next_sibling or         *)
(* prev_sibling keep the cache a tree depends on the pages they read.  The *)
(* inductive invariant TInv adds to IInv of PageProofs what Init commits   *)
(* and no write disturbs: the root page is a leaf, or a branch over the    *)
(* leaves 4 and 5; page 0 is the meta page; none of these pages is free    *)
(* and all lie below the high-water mark, so allocate never hands one out; *)
(* and every cached node is read_in of a page of that tree, with the root  *)
(* as its parent unless it is the root, whose node is then cached too.     *)
(*                                                                         *)
(* NodeMut::root is a recursive function over the cached nodes, so to the  *)
(* prover a CHOOSE of a function that solves its defining equation.  On a  *)
(* tree of height two the function that maps every cached node to the root *)
(* solves it, and every solution maps a child through its parent to the    *)
(* root.                                                                   *)
(*                                                                         *)
(* Besides PageAssumption the proof rests on NoneNotPage and NoneNotNode:  *)
(* Option::None is neither a page id nor a node, so the root, whose parent *)
(* is None, is told apart from its children, and a node read in is cached. *)
(***************************************************************************)
EXTENDS PageProofs, FiniteSetTheorems

\* The committed pages of Init: the two leaves and the branch over them.
Leaf12 == <<E(1, 0), E(2, 0)>>
Leaf34 == <<E(3, 0), E(4, 0)>>
Branch == <<E(1, 4), E(3, 5)>>

\* The pages of the bucket's tree.
TreePages == IF body[ROOT].fmt = "branch" THEN {ROOT, 4, 5} ELSE {ROOT}

\* The committed file of Init, which no write reaches.
CommittedTree ==
    /\ 7 <= hwm
    /\ ({0} \cup TreePages) \cap freed = {}
    /\ body[0].fmt = "meta"
    /\ \/ body[ROOT] = [fmt |-> "leaf", elems |-> Leaf12]
       \/ /\ body[ROOT] = [fmt |-> "branch", elems |-> Branch]
          /\ body[4] = [fmt |-> "leaf", elems |-> Leaf12]
          /\ body[5] = [fmt |-> "leaf", elems |-> Leaf34]

\* The parent the code gives a node of the tree: none for the root, which
\* BucketImpl::node(root, None) reads, else the root, of which child_at
\* reads it.
TreeParent(c) == IF c = ROOT THEN NONE ELSE ROOT

\* Every cached node is a page of the tree, read in under its parent, and
\* the root is cached before any child.
CacheInTree ==
    \A c \in PgIds :
        nodes[c] # NONE =>
            /\ c \in TreePages
            /\ nodes[c] = read_in(c, TreeParent(c))
            /\ nodes[ROOT] # NONE

TInv == IInv /\ CommittedTree /\ CacheInTree

-----------------------------------------------------------------------------
(* The initial states.                                                     *)

LEMMA TreeInit == Init => CommittedTree /\ CacheInTree
  <1> SUFFICES ASSUME Init PROVE CommittedTree /\ CacheInTree  OBVIOUS
  <1>1. PICK tree \in {"leaf", "branch"}, stale \in [4..6 -> {"leaf", "branch"}] :
          LET inTree(p) == p = ROOT \/ (tree = "branch" /\ p \in {4, 5})
              fmt(p) == CASE p \in {0, 1} -> "meta"
                          [] p = 2 -> "freelist"
                          [] p = ROOT -> tree
                          [] p \in 4..6 /\ inTree(p) -> "leaf"
                          [] p \in 4..6 /\ ~ inTree(p) -> stale[p]
                          [] OTHER -> "none"
              elems(p) == CASE fmt(p) = "branch" -> <<E(1, 4), E(3, 5)>>
                            [] fmt(p) = "leaf" /\ p = 5 -> <<E(3, 0), E(4, 0)>>
                            [] fmt(p) = "leaf" /\ p # 5 -> <<E(1, 0), E(2, 0)>>
                            [] OTHER -> <<>>
          IN  /\ freed = {p \in 4..6 : ~ inTree(p)}
              /\ body = [p \in PgIds |-> [fmt |-> fmt(p), elems |-> elems(p)]]
    BY DEF Init
  <1> DEFINE inTree(p) == p = ROOT \/ (tree = "branch" /\ p \in {4, 5})
             fmt(p) == CASE p \in {0, 1} -> "meta"
                         [] p = 2 -> "freelist"
                         [] p = ROOT -> tree
                         [] p \in 4..6 /\ inTree(p) -> "leaf"
                         [] p \in 4..6 /\ ~ inTree(p) -> stale[p]
                         [] OTHER -> "none"
             elems(p) == CASE fmt(p) = "branch" -> <<E(1, 4), E(3, 5)>>
                           [] fmt(p) = "leaf" /\ p = 5 -> <<E(3, 0), E(4, 0)>>
                           [] fmt(p) = "leaf" /\ p # 5 -> <<E(1, 0), E(2, 0)>>
                           [] OTHER -> <<>>
  <1>2. /\ freed = {p \in 4..6 : ~ inTree(p)}
        /\ body = [p \in PgIds |-> [fmt |-> fmt(p), elems |-> elems(p)]]
    BY <1>1
  <1>3. {0, 1, 2, 3, 4, 5} \subseteq PgIds /\ hwm = 7
    BY PageAssumption DEF Init, PgIds
  <1>4. fmt(0) = "meta" /\ fmt(ROOT) = tree  BY DEF ROOT
  <1>5. ASSUME tree = "leaf" PROVE CommittedTree
    <2>1. elems(ROOT) = Leaf12  BY <1>4, <1>5 DEF ROOT, Leaf12
    <2>2. body[ROOT] = [fmt |-> "leaf", elems |-> Leaf12]
      BY <1>2, <1>3, <1>4, <1>5, <2>1 DEF ROOT
    <2>3. TreePages = {ROOT}  BY <2>2 DEF TreePages
    <2>4. body[0].fmt = "meta"  BY <1>2, <1>3, <1>4
    <2>5. ({0} \cup TreePages) \cap freed = {}  BY <1>2, <2>3 DEF ROOT
    <2>. QED  BY <1>3, <2>2, <2>4, <2>5 DEF CommittedTree
  <1>6. ASSUME tree = "branch" PROVE CommittedTree
    <2>1. fmt(4) = "leaf" /\ fmt(5) = "leaf"  BY <1>6 DEF ROOT
    <2>2. elems(ROOT) = Branch  BY <1>4, <1>6 DEF ROOT, Branch
    <2>3. elems(4) = Leaf12  BY <2>1 DEF Leaf12
    <2>4. elems(5) = Leaf34  BY <2>1 DEF Leaf34
    <2> HIDE DEF fmt, elems
    <2>5. /\ body[ROOT] = [fmt |-> "branch", elems |-> Branch]
          /\ body[4] = [fmt |-> "leaf", elems |-> Leaf12]
          /\ body[5] = [fmt |-> "leaf", elems |-> Leaf34]
          /\ body[0].fmt = "meta"
      BY <1>2, <1>3, <1>4, <1>6, <2>1, <2>2, <2>3, <2>4 DEF ROOT
    <2>6. TreePages = {ROOT, 4, 5}  BY <2>5 DEF TreePages
    <2>7. ({0} \cup TreePages) \cap freed = {}
      BY <1>2, <1>6, <2>6 DEF ROOT, inTree
    <2>. QED  BY <1>3, <2>5, <2>7 DEF CommittedTree
  <1>7. CommittedTree  BY <1>1, <1>5, <1>6
  <1>8. CacheInTree  BY DEF Init, CacheInTree
  <1>. QED  BY <1>7, <1>8


-----------------------------------------------------------------------------
(* What the invariant says of the pages a node can be read from.           *)

\* The pages of the tree and the meta lie below the high-water mark.
LEMMA TreeBelowMark ==
    ASSUME TInv
    PROVE  /\ TreePages \subseteq {3, 4, 5}
           /\ {0, 3, 4, 5} \subseteq PgIds
           /\ \A p \in {0, 3, 4, 5} : p < hwm
  <1>1. TreePages \subseteq {3, 4, 5}  BY DEF TreePages, ROOT
  <1>2. 7 <= hwm /\ hwm \in 0..MaxPgId - 1  BY DEF TInv, CommittedTree, IInv, TypeOK
  <1>. QED  BY <1>1, <1>2, PageAssumption DEF PgIds

\* Page 0 is a meta page: BucketImpl::node(0, _) finds no node cached and
\* panics, since the page is neither a leaf nor a branch.
LEMMA MetaPage ==
    ASSUME TInv
    PROVE  /\ nodes[0] = NONE
           /\ ~is_leaf(pages[0]) /\ ~is_branch(pages[0])
  <1>1. 0 \in PgIds /\ 0 < hwm  BY TreeBelowMark
  <1>2. body[0].fmt = "meta"  BY DEF TInv, CommittedTree
  <1>3. pages[0] = Formatted(0, "meta")
    BY <1>1, <1>2 DEF TInv, IInv, PageFormat
  <1>4. "meta" \in Formats  BY DEF Formats
  <1>5. ~is_leaf(pages[0]) /\ ~is_branch(pages[0])
    BY <1>3, <1>4, FlagOf DEF Formatted
  <1>6. 0 \notin TreePages  BY TreeBelowMark
  <1>. QED  BY <1>1, <1>5, <1>6 DEF TInv, CacheInTree

\* A cached node is a read_in of a tree page: not a leaf, with the page's
\* elements as inodes and its parent in the tree as parent.
LEMMA Cached ==
    ASSUME TInv, NEW c \in PgIds, nodes[c] # NONE
    PROVE  /\ c \in TreePages
           /\ nodes[ROOT] # NONE
           /\ nodes[c].is_leaf = FALSE
           /\ nodes[c].inodes = body[c].elems
           /\ nodes[c].parent = TreeParent(c)
           /\ nodes[c].key = IF Len(body[c].elems) > 0
                             THEN body[c].elems[1].key ELSE 0
  <1>1. /\ c \in TreePages
        /\ nodes[ROOT] # NONE
        /\ nodes[c] = read_in(c, TreeParent(c))
    BY DEF TInv, CacheInTree
  <1>. QED  BY <1>1 DEF read_in

\* The inodes of every cached node point to the meta page 0 (a leaf's
\* elements have no pgid) or are the root branch's children 4 and 5.
LEMMA ChildPgid ==
    ASSUME TInv, NEW p \in PgIds, nodes[p] # NONE,
           NEW i \in 1..Len(nodes[p].inodes)
    PROVE  \/ nodes[p].inodes[i].pgid = 0
           \/ /\ p = ROOT
              /\ body[ROOT].fmt = "branch"
              /\ nodes[p].inodes[i].pgid \in {4, 5}
  <1>1. p \in TreePages /\ nodes[p].inodes = body[p].elems  BY Cached
  <1>2. /\ \A j \in 1..Len(Leaf12) : Leaf12[j].pgid = 0
        /\ \A j \in 1..Len(Leaf34) : Leaf34[j].pgid = 0
        /\ \A j \in 1..Len(Branch) : Branch[j].pgid \in {4, 5}
    BY DEF Leaf12, Leaf34, Branch, E
  <1>3. CASE body[ROOT] = [fmt |-> "leaf", elems |-> Leaf12]
    <2>1. p = ROOT  BY <1>1, <1>3 DEF TreePages
    <2>. QED  BY <1>1, <1>2, <1>3, <2>1
  <1>4. CASE /\ body[ROOT] = [fmt |-> "branch", elems |-> Branch]
             /\ body[4] = [fmt |-> "leaf", elems |-> Leaf12]
             /\ body[5] = [fmt |-> "leaf", elems |-> Leaf34]
    <2>1. p \in {ROOT, 4, 5}  BY <1>1, <1>4 DEF TreePages
    <2>. QED  BY <1>1, <1>2, <1>4, <2>1 DEF ROOT
  <1>. QED  BY <1>3, <1>4 DEF TInv, CommittedTree

\* The inodes of a node are strictly sorted by key.
KeysSorted(s) == \A i, j \in 1..Len(s) : i < j => s[i].key < s[j].key

\* What NodeMut::child_index computes: in an array of inodes strictly
\* sorted by key, the number of keys below the j-th key is j - 1, so the
\* count plus one, which binary_search_by gives as Ok or Err, is the
\* index of the inode that holds the key.
LEMMA CountBelow ==
    ASSUME NEW S, NEW s \in Seq(S), NEW j \in 1..Len(s),
           \A i \in 1..Len(s) : s[i].key \in Int,
           KeysSorted(s)
    PROVE  Cardinality({i \in DOMAIN s : s[i].key < s[j].key}) + 1 = j
  <1> DEFINE Below == {i \in DOMAIN s : s[i].key < s[j].key}
  <1>1. Below = 1..(j - 1)
    <2>1. DOMAIN s = 1..Len(s)  OBVIOUS
    <2>2. \A i \in 1..Len(s) : i < j => s[i].key < s[j].key
      BY DEF KeysSorted
    <2>3. \A i \in 1..Len(s) : j < i => s[j].key < s[i].key
      BY DEF KeysSorted
    <2>. QED  BY <2>1, <2>2, <2>3
  <1>2. Cardinality(1..(j - 1)) = j - 1  BY FS_Interval
  <1>3. Cardinality(Below) = j - 1
    <2> HIDE DEF Below
    <2>. QED  BY <1>1, <1>2, Zenon
  <1>. QED  BY <1>3

\* A cached node with a parent is the root branch's child 4 or 5, under
\* the cached root, and NodeMut::child_index finds it at its own inode:
\* the number of the root's keys below its first key, plus one.
LEMMA ChildIndex ==
    ASSUME TInv, NEW c \in PgIds, nodes[c] # NONE, nodes[c].parent # NONE
    PROVE  /\ c \in {4, 5}
           /\ nodes[c].parent = ROOT
           /\ nodes[ROOT] # NONE
           /\ nodes[ROOT].inodes = Branch
           /\ child_index(ROOT, c) = c - 3
  <1>1. /\ c \in TreePages
        /\ nodes[ROOT] # NONE
        /\ nodes[c].parent = TreeParent(c)
        /\ nodes[c].key = IF Len(body[c].elems) > 0
                          THEN body[c].elems[1].key ELSE 0
    BY Cached
  <1>2. c # ROOT /\ nodes[c].parent = ROOT  BY <1>1 DEF TreeParent
  <1>3. body[ROOT].fmt = "branch" /\ c \in {4, 5}
    BY <1>1, <1>2 DEF TreePages, ROOT
  <1>4. /\ body[ROOT] = [fmt |-> "branch", elems |-> Branch]
        /\ body[4] = [fmt |-> "leaf", elems |-> Leaf12]
        /\ body[5] = [fmt |-> "leaf", elems |-> Leaf34]
    BY <1>3 DEF TInv, CommittedTree
  <1>5. nodes[ROOT].inodes = Branch
    <2>1. ROOT \in PgIds  BY PageAssumption DEF ROOT, PgIds
    <2>2. nodes[ROOT].inodes = body[ROOT].elems  BY <1>1, <2>1, Cached
    <2>. QED  BY <1>4, <2>2
  <1>6. nodes[c].key = Branch[c - 3].key
    BY <1>1, <1>3, <1>4 DEF Leaf12, Leaf34, Branch, E
  <1>7. /\ Branch \in Seq([key : KeyVals, pgid : PgIds])
        /\ c - 3 \in 1..Len(Branch)
        /\ \A i \in 1..Len(Branch) : Branch[i].key \in Int
        /\ KeysSorted(Branch)
    BY <1>3, PageAssumption DEF Branch, E, KeyVals, PgIds, KeysSorted
  <1>8. child_index(ROOT, c) = c - 3
    <2>1. child_index(ROOT, c)
            = Cardinality({i \in DOMAIN Branch : Branch[i].key < Branch[c - 3].key}) + 1
      BY <1>5, <1>6 DEF child_index
    <2>. QED  BY <1>7, <2>1, CountBelow
  <1>. QED  BY <1>1, <1>2, <1>3, <1>5, <1>8

-----------------------------------------------------------------------------
(* The steps.                                                               *)

\* BucketImpl::node keeps the cache a tree when it is asked for the root
\* with no parent, for a child of the tree with the cached root as parent,
\* or for the meta page 0, on which it panics.
LEMMA TreeNodeStep ==
    ASSUME TInv, NEW pgid, NEW parent,
           \/ pgid = ROOT /\ parent = NONE
           \/ pgid \in TreePages \ {ROOT} /\ parent = ROOT /\ nodes[ROOT] # NONE
           \/ pgid = 0,
           node(pgid, parent),
           UNCHANGED <<pages, body, hwm, freed, wrote>>
    PROVE  (CommittedTree /\ CacheInTree)'
  <1>1. CommittedTree'  BY DEF TInv, CommittedTree, TreePages
  <1>2. TreePages' = TreePages  BY DEF TreePages
  <1>3. \A c, par : read_in(c, par)' = read_in(c, par)
    BY DEF read_in
  <1>4. CASE nodes[pgid] # NONE /\ UNCHANGED <<nodes, panicked>>
    BY <1>1, <1>2, <1>3, <1>4 DEF TInv, CacheInTree
  <1>5. CASE /\ nodes[pgid] = NONE
             /\ is_leaf(pages[pgid]) \/ is_branch(pages[pgid])
             /\ nodes' = [nodes EXCEPT ![pgid] = read_in(pgid, parent)]
             /\ UNCHANGED panicked
    <2>0. DOMAIN nodes = PgIds  BY DEF TInv, IInv, TypeOK
    <2>1. pgid # 0  BY <1>5, MetaPage
    <2>2. pgid \in TreePages /\ parent = TreeParent(pgid)
      BY <2>1 DEF TreePages, TreeParent
    <2>3. pgid \in PgIds /\ parent \in PgIds \cup {NONE}
      BY <2>2, TreeBelowMark, PageAssumption DEF TreeParent, ROOT, PgIds
    <2>4. pgid < hwm  BY <2>2, <2>3, TreeBelowMark
    <2>5. body[pgid].fmt \in Formats  BY <2>3, <2>4 DEF TInv, IInv, PageFormat
    <2>6. read_in(pgid, parent) # NONE
      BY <2>3, <2>5, ReadInNode, NoneNotNode DEF TInv, IInv
    <2>7. ASSUME NEW c \in PgIds, nodes'[c] # NONE
          PROVE  /\ c \in TreePages'
                 /\ nodes'[c] = read_in(c, TreeParent(c))'
                 /\ nodes'[ROOT] # NONE
      <3>1. nodes'[ROOT] # NONE
        <4>1. ROOT \in PgIds  BY PageAssumption DEF ROOT, PgIds
        <4>2. CASE pgid = ROOT  BY <1>5, <2>0, <2>3, <2>6, <4>2
        <4>3. CASE pgid # ROOT
          <5>1. nodes[ROOT] # NONE  BY <2>1, <4>3
          <5>. QED  BY <1>5, <2>0, <4>1, <4>3, <5>1
        <4>. QED  BY <4>2, <4>3
      <3>2. CASE c = pgid  BY <1>2, <1>3, <1>5, <2>0, <2>2, <2>3, <3>1, <3>2
      <3>3. CASE c # pgid
        <4>1. nodes'[c] = nodes[c]  BY <1>5, <2>0, <3>3
        <4>2. c \in TreePages /\ nodes[c] = read_in(c, TreeParent(c))
          BY <2>7, <4>1 DEF TInv, CacheInTree
        <4>3. TreeParent(c) \in PgIds \cup {NONE}
          BY PageAssumption DEF TreeParent, ROOT, PgIds
        <4>. QED  BY <1>2, <1>3, <3>1, <4>1, <4>2, <4>3
      <3>. QED  BY <3>2, <3>3
    <2>. QED  BY <1>1, <2>7 DEF CacheInTree
  <1>6. CASE /\ nodes[pgid] = NONE
             /\ ~ (is_leaf(pages[pgid]) \/ is_branch(pages[pgid]))
             /\ panicked' = TRUE
             /\ UNCHANGED nodes
    BY <1>1, <1>2, <1>3, <1>6 DEF TInv, CacheInTree
  <1>. QED  BY <1>1, <1>4, <1>5, <1>6 DEF node

\* NodeMut::child_at on a cached node, at an index of one of its inodes,
\* keeps the cache a tree: the node is no leaf, so the call reads the
\* inode's page with this node as parent.
LEMMA TreeChildAt ==
    ASSUME TInv, NEW p \in PgIds, nodes[p] # NONE,
           NEW i \in 1..Len(nodes[p].inodes), ChildAt(p, i),
           UNCHANGED <<pages, body, hwm, freed, wrote>>
    PROVE  (CommittedTree /\ CacheInTree)'
  <1>1. node(nodes[p].inodes[i].pgid, p)  BY Cached DEF ChildAt
  <1>2. \/ nodes[p].inodes[i].pgid = 0
        \/ /\ p = ROOT
           /\ nodes[p].inodes[i].pgid \in TreePages \ {ROOT}
    BY ChildPgid DEF TreePages, ROOT
  <1>. QED  BY <1>1, <1>2, TreeNodeStep

\* NodeMut::write keeps the committed tree and the cache: allocate hands
\* out a page of the freelist or the page at the high-water mark, neither
\* of which is the meta page 0 or a page of the tree, so their bodies, and
\* what read_in would read from them, stay as they were.
LEMMA TreeWrite ==
    ASSUME TInv, NEW p \in PgIds, NEW q \in PgIds, write(p, q)
    PROVE  (CommittedTree /\ CacheInTree)'
  <1>1. q \notin {0} \cup TreePages
    <2>1. CASE q \in freed  BY <2>1 DEF TInv, CommittedTree
    <2>2. CASE q = hwm  BY <2>2, TreeBelowMark DEF TInv, CommittedTree
    <2>. QED  BY <2>1, <2>2 DEF write, allocate
  <1>2. /\ body' = [body EXCEPT ![q] = [fmt |-> IF nodes[p].is_leaf THEN "leaf"
                                                ELSE "branch",
                                        elems |-> nodes[p].inodes]]
        /\ UNCHANGED nodes
    BY DEF write
  <1>3. DOMAIN body = PgIds /\ hwm \in Nat  BY DEF TInv, IInv, TypeOK
  <1>4. \A r \in {0} \cup TreePages : body'[r] = body[r]
    BY <1>1, <1>2, <1>3, TreeBelowMark
  <1>5. TreePages' = TreePages
    <2>1. ROOT \in TreePages  BY DEF TreePages
    <2>. QED  BY <1>4, <2>1 DEF TreePages
  <1>6. hwm' \in {hwm, hwm + 1} /\ freed' \subseteq freed  BY DEF write, allocate
  <1>7. CommittedTree'
    <2>1. /\ 7 <= hwm'
          /\ ({0} \cup TreePages') \cap freed' = {}
          /\ body'[0].fmt = "meta"
      <3>1. 7 <= hwm'  BY <1>3, <1>6 DEF TInv, CommittedTree
      <3>2. ({0} \cup TreePages') \cap freed' = {}
        BY <1>5, <1>6 DEF TInv, CommittedTree
      <3>3. body'[0].fmt = "meta"  BY <1>4 DEF TInv, CommittedTree
      <3>. QED  BY <3>1, <3>2, <3>3
    <2>2. CASE body[ROOT] = [fmt |-> "leaf", elems |-> Leaf12]
      <3>1. body'[ROOT] = body[ROOT]  BY <1>4 DEF TreePages
      <3>. QED  BY <2>1, <2>2, <3>1 DEF CommittedTree
    <2>3. CASE /\ body[ROOT] = [fmt |-> "branch", elems |-> Branch]
               /\ body[4] = [fmt |-> "leaf", elems |-> Leaf12]
               /\ body[5] = [fmt |-> "leaf", elems |-> Leaf34]
      <3>1. TreePages = {ROOT, 4, 5}  BY <2>3 DEF TreePages
      <3>2. body'[ROOT] = body[ROOT] /\ body'[4] = body[4] /\ body'[5] = body[5]
        BY <1>4, <3>1
      <3>. QED  BY <2>1, <2>3, <3>2 DEF CommittedTree
    <2>. QED  BY <2>2, <2>3 DEF TInv, CommittedTree
  <1>8. CacheInTree'
    <2> SUFFICES ASSUME NEW c \in PgIds, nodes'[c] # NONE
                 PROVE  /\ c \in TreePages'
                        /\ nodes'[c] = read_in(c, TreeParent(c))'
                        /\ nodes'[ROOT] # NONE
      BY DEF CacheInTree
    <2>1. /\ c \in TreePages
          /\ nodes[c] = read_in(c, TreeParent(c))
          /\ nodes[ROOT] # NONE
      BY <1>2 DEF TInv, CacheInTree
    <2>2. body'[c] = body[c]  BY <1>4, <2>1
    <2>. QED  BY <1>2, <1>5, <2>1, <2>2 DEF read_in
  <1>. QED  BY <1>7, <1>8

\* Every step of the writer keeps the committed tree and the cache a tree
\* under it.  next_sibling and prev_sibling reach NodeMut::child_at of the
\* root at the index child_index gives, one up or one down, which is an
\* index of the root's inodes by the guard on the index.
LEMMA NextTree == TInv /\ [Next]_vars => (CommittedTree /\ CacheInTree)'
  <1> SUFFICES ASSUME TInv, [Next]_vars PROVE (CommittedTree /\ CacheInTree)'
    OBVIOUS
  <1>0. ROOT \in PgIds /\ Len(Branch) = 2
    BY PageAssumption DEF ROOT, PgIds, Branch
  <1>1. CASE root_node_read
    BY <1>1, TreeNodeStep DEF root_node_read
  <1>2. ASSUME NEW p \in PgIds, NEW i \in 1..2, child_at(p, i)
        PROVE  (CommittedTree /\ CacheInTree)'
    BY <1>2, TreeChildAt DEF child_at, num_children
  <1>3. ASSUME NEW c \in PgIds, next_sibling(c)
        PROVE  (CommittedTree /\ CacheInTree)'
    <2>1. nodes[c] # NONE /\ nodes[c].parent # NONE  BY <1>3 DEF next_sibling
    <2>2. /\ nodes[c].parent = ROOT
          /\ nodes[ROOT] # NONE
          /\ nodes[ROOT].inodes = Branch
          /\ child_index(ROOT, c) = c - 3
          /\ c \in {4, 5}
      BY <2>1, ChildIndex
    <2>3. /\ child_index(ROOT, c) < num_children(ROOT)
          /\ ChildAt(ROOT, child_index(ROOT, c) + 1)
          /\ UNCHANGED <<pages, body, hwm, freed, wrote>>
      BY <1>3, <2>2 DEF next_sibling
    <2>4. child_index(ROOT, c) + 1 \in 1..Len(nodes[ROOT].inodes)
      BY <1>0, <2>2, <2>3 DEF num_children
    <2>. QED  BY <1>0, <2>2, <2>3, <2>4, TreeChildAt
  <1>4. ASSUME NEW c \in PgIds, prev_sibling(c)
        PROVE  (CommittedTree /\ CacheInTree)'
    <2>1. nodes[c] # NONE /\ nodes[c].parent # NONE  BY <1>4 DEF prev_sibling
    <2>2. /\ nodes[c].parent = ROOT
          /\ nodes[ROOT] # NONE
          /\ nodes[ROOT].inodes = Branch
          /\ child_index(ROOT, c) = c - 3
          /\ c \in {4, 5}
      BY <2>1, ChildIndex
    <2>3. /\ child_index(ROOT, c) > 1
          /\ ChildAt(ROOT, child_index(ROOT, c) - 1)
          /\ UNCHANGED <<pages, body, hwm, freed, wrote>>
      BY <1>4, <2>2 DEF prev_sibling
    <2>4. child_index(ROOT, c) - 1 \in 1..Len(nodes[ROOT].inodes)
      <3>1. child_index(ROOT, c) = 2  BY <2>2, <2>3
      <3>2. Len(nodes[ROOT].inodes) = 2  BY <2>2 DEF Branch
      <3>. QED  BY <3>1, <3>2
    <2>. QED  BY <1>0, <2>2, <2>3, <2>4, TreeChildAt
  <1>5. ASSUME NEW p \in PgIds, NEW q \in PgIds, write(p, q)
        PROVE  (CommittedTree /\ CacheInTree)'
    BY <1>5, TreeWrite
  <1>6. CASE UNCHANGED vars
    BY <1>6 DEF vars, TInv, CommittedTree, CacheInTree, TreePages, read_in
  <1>. QED  BY <1>1, <1>2, <1>3, <1>4, <1>5, <1>6 DEF Next

\* The initial states satisfy the invariant.
LEMMA TInvInit == Init => TInv
  BY InitInv, TreeInit DEF TInv

\* The invariant is inductive.
LEMMA TInvStep == TInv /\ [Next]_vars => TInv'
  BY NextInv, NextTree DEF TInv

-----------------------------------------------------------------------------
(* ParentLinks.                                                             *)

\* NodeMut::root follows the parent links of the cache, a function defined
\* by recursion on them; it is the CHOOSE of a solution of its equation.
\* The function that maps every cached node to the root solves it, since
\* the root is cached with no parent and every other cached node has the
\* root as parent; so the chosen solution also satisfies the equation, and
\* its value at the root, and then at every other cached node, is the root.
LEMMA TreeParentLinks == TInv => ParentLinks
  <1> SUFFICES ASSUME TInv, NEW c \in PgIds, nodes[c] # NONE
               PROVE  /\ root(c) = ROOT
                      /\ nodes[c].parent # NONE =>
                            LET p == nodes[c].parent IN
                            /\ nodes[p] # NONE
                            /\ nodes[p].inodes[child_index(p, c)].pgid = c
    BY DEF ParentLinks
  <1>1. nodes[c].parent # NONE =>
          LET p == nodes[c].parent IN
          /\ nodes[p] # NONE
          /\ nodes[p].inodes[child_index(p, c)].pgid = c
    <2> SUFFICES ASSUME nodes[c].parent # NONE
                 PROVE  /\ nodes[ROOT] # NONE
                        /\ nodes[ROOT].inodes[child_index(ROOT, c)].pgid = c
      BY ChildIndex
    <2>1. /\ c \in {4, 5}
          /\ nodes[ROOT] # NONE
          /\ nodes[ROOT].inodes = Branch
          /\ child_index(ROOT, c) = c - 3
      BY ChildIndex
    <2>. QED  BY <2>1 DEF Branch, E
  <1>2. root(c) = ROOT
    <2> DEFINE S == {x \in PgIds : nodes[x] # NONE}
               F(f) == [m \in S |-> IF nodes[m].parent = NONE THEN m
                                    ELSE f[nodes[m].parent]]
               up == CHOOSE f : f = F(f)
               W == [m \in S |-> ROOT]
    <2>1. root(c) = up[c]  BY DEF root
    <2>2. /\ ROOT \in PgIds /\ ROOT # NONE
          /\ nodes[ROOT] # NONE /\ nodes[ROOT].parent = NONE
      <3>1. ROOT \in PgIds  BY PageAssumption DEF ROOT, PgIds
      <3>2. nodes[ROOT] # NONE  BY Cached
      <3>3. nodes[ROOT].parent = TreeParent(ROOT)  BY <3>1, <3>2, Cached
      <3>. QED  BY <3>1, <3>2, <3>3, NoneNotPage DEF TreeParent
    <2>3. \A m \in S : nodes[m].parent = IF m = ROOT THEN NONE ELSE ROOT
      BY Cached DEF TreeParent
    <2>4. W = F(W)
      <3>1. \A m \in S : W[m] = F(W)[m]  BY <2>2, <2>3
      <3>. QED  BY <3>1
    <2>5. up = F(up)  BY <2>4
    <2> HIDE DEF up
    <2>6. up[ROOT] = ROOT  BY <2>2, <2>5
    <2>7. up[c] = ROOT  BY <2>2, <2>3, <2>5, <2>6
    <2>. QED  BY <2>1, <2>7
  <1>. QED  BY <1>1, <1>2

\* The writer's node cache stays a tree under the bucket's root after any
\* sequence of BucketImpl::node, NodeMut::child_at, next_sibling,
\* prev_sibling and write calls, for every file size: the parent of every
\* cached node is cached, child_index finds the node among its parent's
\* inodes, and NodeMut::root of every cached node is the root node.
THEOREM ParentLinksHolds == Spec => []ParentLinks
  BY TInvInit, TInvStep, TreeParentLinks, PTL DEF Spec

=============================================================================
