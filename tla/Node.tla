-------------------------------- MODULE Node --------------------------------
(***************************************************************************)
(* The writable image of one page (src/src/node.rs, NodeW / NodeMut): its  *)
(* inode array, the writes of a bucket through it, and the size            *)
(* arithmetic that decides splitting and inlining (NodeW::size,            *)
(* size_less_than, split_index; BucketImpl::inlineable in bucket.rs).      *)
(*                                                                         *)
(* An inode is a record of its key, the length of its value and its flags. *)
(* Keys are positive naturals; key k stands for the byte string of k equal *)
(* bytes, so the byte order of keys is the order of naturals and a key's   *)
(* length is the key itself.  Only lengths enter the size arithmetic, so a *)
(* value is represented by its length.                                     *)
(***************************************************************************)
EXTENDS Naturals, Sequences, Functions

CONSTANTS
    Keys,       \* the keys, as positive naturals (key k has length k)
    ValLens,    \* lengths of the plain values a committed page holds
    PageSize,   \* the database page size
    Pages,      \* the committed leaf pages a node can be read from
    NONE        \* Option::None

ASSUME NodeAssumption ==
    /\ Keys \subseteq Nat \ {0}
    /\ ValLens \subseteq Nat
    /\ PageSize \in Nat

\* src/src/common/page.rs.
PAGE_HEADER_SIZE == 16
MIN_KEYS_PER_PAGE == 2
BUCKET_LEAF_FLAG == 1

\* The element descriptors of common/tree.rs (not among the sources): a
\* leaf element is flags, pos, ksize, vsize; a branch element is pos, ksize
\* and a 64-bit pgid.  Both take 16 bytes.
LEAF_PAGE_ELEMENT_SIZE == 16
BRANCH_PAGE_ELEMENT_SIZE == 16

\* An InBucket header: root pgid and sequence.
IN_BUCKET_SIZE == 16

\* bucket.rs: DEFAULT_FILL_PERCENT = 0.5 of the page size.
SplitThreshold == PageSize \div 2

INode == [key : Keys, vlen : Nat, flags : {0, BUCKET_LEAF_FLAG}]

\* Keys strictly ascending, as binary search needs.
IsSorted(s) == \A i, j \in 1..Len(s) : i < j => s[i].key < s[j].key

\* What a committed leaf entry can be: a plain value of one of the given
\* lengths, or a bucket entry holding an InBucket header.
PageEntry == [key : Keys, vlen : ValLens, flags : {0}]
             \cup [key : Keys, vlen : {IN_BUCKET_SIZE}, flags : {BUCKET_LEAF_FLAG}]

\* Option::None is not an inode array.
ASSUME NoneAssumption == NONE \notin Seq(INode)

ASSUME PagesAssumption ==
    \A p \in Pages : p \in Seq(PageEntry) /\ IsSorted(p)

VARIABLES
    page,       \* the committed page the node is read from
    inodes,     \* NodeW.inodes, or NONE before BucketImpl::node reads it in
    is_leaf,    \* NodeW.is_leaf
    unbalanced  \* NodeW.unbalanced

vars == <<page, inodes, is_leaf, unbalanced>>

\* BucketW.root_node: nothing assigns it but api_delete_bucket, which sets
\* it to None.
root_node == NONE

-----------------------------------------------------------------------------
(* Size arithmetic.                                                        *)

\* NodeW::page_element_size.
page_element_size(leaf) ==
    IF leaf THEN LEAF_PAGE_ELEMENT_SIZE ELSE BRANCH_PAGE_ELEMENT_SIZE

\* The running size of the loops of size, size_less_than and split_index
\* after the first n inodes.
PrefixSize(s, leaf, n) ==
    LET f[i \in 0..n] ==
            IF i = 0 THEN PAGE_HEADER_SIZE
            ELSE f[i - 1] + page_element_size(leaf) + s[i].key + s[i].vlen
    IN  f[n]

\* NodeW::size.
size(s, leaf) == PrefixSize(s, leaf, Len(s))

\* Mutant: the comparison of the Go original, `sz >= v`.
size_less_than_strict(s, leaf, v) == \A i \in 1..Len(s) : PrefixSize(s, leaf, i) < v

\* NodeW::size_less_than: false as soon as the running size exceeds v.
size_less_than(s, leaf, v) == \A i \in 1..Len(s) : PrefixSize(s, leaf, i) <= v

\* Mutant: the stop test `index > MIN_KEYS_PER_PAGE`.
split_index_late(s, leaf, threshold) ==
    LET n == Len(s) - MIN_KEYS_PER_PAGE
        el(i) == page_element_size(leaf) + s[i + 1].key + s[i + 1].vlen
        stops == {i \in 0..n - 1 : i > MIN_KEYS_PER_PAGE
                                   /\ PrefixSize(s, leaf, i) + el(i) > threshold}
        first == CHOOSE i \in stops : \A j \in stops : i <= j
    IN  IF Len(s) <= MIN_KEYS_PER_PAGE THEN <<0, PAGE_HEADER_SIZE>>
        ELSE IF stops # {} THEN <<first, PrefixSize(s, leaf, first)>>
        ELSE <<n - 1, PrefixSize(s, leaf, n)>>

\* NodeW::split_index: walk all but the last MIN_KEYS_PER_PAGE inodes and
\* stop at the first index >= MIN_KEYS_PER_PAGE whose inode would take the
\* running size past the threshold; without a stop the index is the last
\* one walked and its inode is counted.  Indices are 0-based as in Rust.
split_index(s, leaf, threshold) ==
    LET n == Len(s) - MIN_KEYS_PER_PAGE
        el(i) == page_element_size(leaf) + s[i + 1].key + s[i + 1].vlen
        stops == {i \in 0..n - 1 : i >= MIN_KEYS_PER_PAGE
                                   /\ PrefixSize(s, leaf, i) + el(i) > threshold}
        first == CHOOSE i \in stops : \A j \in stops : i <= j
    IN  IF Len(s) <= MIN_KEYS_PER_PAGE THEN <<0, PAGE_HEADER_SIZE>>
        ELSE IF stops # {} THEN <<first, PrefixSize(s, leaf, first)>>
        ELSE <<n - 1, PrefixSize(s, leaf, n)>>

\* BucketIAPI::max_inline_bucket_size.
max_inline_bucket_size == PageSize \div 4

\* BucketImpl::inlineable: only a bucket whose root node is materialised;
\* `if node_ref.is_leaf { return false }`; then no sub-bucket and the
\* running size (with leaf elements) within max_inline_bucket_size.
inlineable ==
    /\ root_node # NONE
    /\ ~is_leaf
    /\ \A i \in 1..Len(inodes) :
          /\ inodes[i].flags # BUCKET_LEAF_FLAG
          /\ PrefixSize(inodes, TRUE, i) <= max_inline_bucket_size

-----------------------------------------------------------------------------
(* Operations.                                                             *)

\* Mutant: the search compares with <=, landing after an equal key.
binary_search_upper(s, key) ==
    LET idx == CHOOSE i \in 1..Len(s) + 1 :
                  /\ \A j \in 1..i - 1 : s[j].key <= key
                  /\ i <= Len(s) => s[i].key > key
    IN  [found |-> idx <= Len(s) /\ s[idx].key = key, index |-> idx]

\* slice::binary_search_by on a sorted array: Ok(exact) or Err(closest),
\* here as the 1-based position and whether it is an exact hit.  On a
\* sorted array both are the partition point: every key before it is
\* below the probe, the key at it (if any) is not.
binary_search(s, key) ==
    LET idx == CHOOSE i \in 1..Len(s) + 1 :
                  /\ \A j \in 1..i - 1 : s[j].key < key
                  /\ i <= Len(s) => s[i].key >= key
    IN  [found |-> idx <= Len(s) /\ s[idx].key = key, index |-> idx]

\* Mutant: one element more than page.count is read, from zeroed memory.
read_in_past_count ==
    /\ inodes = NONE
    /\ inodes' = page \o << [key |-> 0, vlen |-> 0, flags |-> 0] >>
    /\ is_leaf' = FALSE
    /\ unbalanced' = FALSE
    /\ UNCHANGED page

\* BucketImpl::node / NodeW::read_in: read every element of the page,
\* always with is_leaf = false, into a fresh node.
read_in ==
    /\ inodes = NONE
    /\ inodes' = page
    /\ is_leaf' = FALSE
    /\ unbalanced' = FALSE
    /\ UNCHANGED page

\* Mutant: the exact-hit branch is lost; the new inode is always inserted.
put_insert_always(k, flags) ==
    /\ inodes # NONE
    /\ LET r == binary_search(inodes, k)
           new == [key |-> k, vlen |-> k, flags |-> flags]
       IN  /\ \/ flags = 0 /\ r.found /\ inodes[r.index].flags = 0
              \/ flags = BUCKET_LEAF_FLAG /\ ~r.found
           /\ inodes' = SubSeq(inodes, 1, r.index - 1) \o << new >>
                            \o SubSeq(inodes, r.index, Len(inodes))
    /\ UNCHANGED <<page, is_leaf, unbalanced>>

\* NodeMut::put(key, key, value, ZERO_PGID, flags) as the bucket calls it:
\* api_put over a present plain entry (flags 0), api_create_bucket over an
\* absent key (BUCKET_LEAF_FLAG).  The pgid is below the high water mark
\* and the keys are not empty, so no panic.  The new inode holds old_key
\* where the value goes.
put(k, flags) ==
    /\ inodes # NONE
    /\ LET r == binary_search(inodes, k)
           new == [key |-> k, vlen |-> k, flags |-> flags]
       IN  /\ \/ flags = 0 /\ r.found /\ inodes[r.index].flags = 0
              \/ flags = BUCKET_LEAF_FLAG /\ ~r.found
           /\ inodes' = IF r.found
                        THEN [inodes EXCEPT ![r.index] = new]
                        ELSE SubSeq(inodes, 1, r.index - 1) \o << new >>
                                \o SubSeq(inodes, r.index, Len(inodes))
    /\ UNCHANGED <<page, is_leaf, unbalanced>>

\* NodeMut::del: remove on an exact hit; unbalanced either way.
del(k) ==
    /\ inodes # NONE
    /\ LET r == binary_search(inodes, k)
       IN  inodes' = IF r.found
                     THEN SubSeq(inodes, 1, r.index - 1)
                             \o SubSeq(inodes, r.index + 1, Len(inodes))
                     ELSE inodes
    /\ unbalanced' = TRUE
    /\ UNCHANGED <<page, is_leaf>>

\* Dropping the transaction discards the node cache (the arena goes back
\* to the pool); the next writer reads the page in again.
drop ==
    /\ inodes # NONE
    /\ inodes' = NONE
    /\ unbalanced' = FALSE
    /\ UNCHANGED <<page, is_leaf>>

Init ==
    /\ page \in Pages
    /\ inodes = NONE
    /\ is_leaf = FALSE
    /\ unbalanced = FALSE

Next ==
    \/ read_in
    \/ \E k \in Keys, f \in {0, BUCKET_LEAF_FLAG} : put(k, f)
    \/ \E k \in Keys : del(k)
    \/ drop

Spec == Init /\ [][Next]_vars

-----------------------------------------------------------------------------
(* Properties.                                                             *)

\* Every variable holds a value of its type.
TypeOK ==
    /\ page \in Seq(PageEntry)
    /\ inodes \in Seq(INode) \cup {NONE}
    /\ is_leaf \in BOOLEAN
    /\ unbalanced \in BOOLEAN

\* The inode array stays strictly sorted by key through every put and del:
\* binary_search_by is only meaningful on a sorted array, and put inserts
\* at the closest position it returns.
Sorted == inodes # NONE => IsSorted(inodes)

\* The limits the code compares node sizes with: the page, the split
\* threshold and the inline limit.
Limits == {PageSize, SplitThreshold, max_inline_bucket_size}

\* size_less_than(v), with its early return, agrees with comparing the
\* full size: it is true exactly when size() <= v (spec 4.D).
SizeLessThanAgrees ==
    inodes # NONE =>
        \A v \in Limits :
            size_less_than(inodes, is_leaf, v) = (size(inodes, is_leaf) <= v)

\* split_index on a node with more than 2 * MIN_KEYS_PER_PAGE inodes
\* (spec 4.D split): it leaves at least MIN_KEYS_PER_PAGE inodes on each
\* side; the first part fits the threshold unless it is the minimum; and
\* it stops at the first index where the next inode would not fit.
SplitIndexCorrect ==
    inodes # NONE /\ Len(inodes) > 2 * MIN_KEYS_PER_PAGE =>
        LET i == split_index(inodes, is_leaf, SplitThreshold)[1]
            prefix(j) == PrefixSize(inodes, is_leaf, j)
        IN  /\ MIN_KEYS_PER_PAGE <= i
            /\ Len(inodes) - i >= MIN_KEYS_PER_PAGE
            /\ i > MIN_KEYS_PER_PAGE => prefix(i) <= SplitThreshold
            /\ i < Len(inodes) - MIN_KEYS_PER_PAGE - 1 => prefix(i + 1) > SplitThreshold

\* The entries a node can hold: those of a committed page, and those put
\* writes (the value slot holds the key).
Entry == PageEntry \cup [key : Keys, vlen : Keys, flags : {0, BUCKET_LEAF_FLAG}]

\* The refinement mapping: the node as the set of its inodes.
LM == INSTANCE LeafMap WITH
        committed <- Range(page),
        loaded <- inodes # NONE,
        store <- IF inodes = NONE THEN {} ELSE Range(inodes),
        Committed <- {Range(p) : p \in Pages}

\* The inode array with binary_search_by, read_in, put, del and the drop of
\* the node cache implements a map: each put replaces exactly the entry of
\* its key (an exact hit is overwritten, never doubled), each del removes
\* exactly that entry and no other, and a reread sees the committed page.
ImplementsLeafMap == LM!LMSpec

(* Statement of the spec that the code does not meet (violation run).     *)

\* spec 3 inv. 4 and 8: a materialised leaf bucket with no sub-bucket whose
\* encoded size is at most page_size / 4 is inlineable.
InlineableSmallLeaf ==
    (/\ inodes # NONE
     /\ \A i \in 1..Len(inodes) : inodes[i].flags # BUCKET_LEAF_FLAG
     /\ size(inodes, TRUE) <= max_inline_bucket_size)
        => inlineable

=============================================================================
