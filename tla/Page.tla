-------------------------------- MODULE Page --------------------------------
(***************************************************************************)
(* The page header and its flags (src/src/common/page.rs), as the          *)
(* transaction reads pages (TxIAPI::api_page, tx.rs), materialises them as *)
(* nodes (NodeW::read_in), writes nodes back (NodeMut::write, node.rs) and *)
(* walks a bucket's pages and nodes (BucketImpl::for_each_page_node, in    *)
(* PageWalk).                                                              *)
(*                                                                         *)
(* A page is its header [id, flags] and its body, abstracted to the        *)
(* element format written there and the pgid field of each element (a     *)
(* leaf element has none: read_inodes_in gives it pgid 0).  count and      *)
(* overflow are copied through and left out.  The file is pages           *)
(* 0..hwm-1, hwm being the meta's high-water mark; pages 0 and 1 are the   *)
(* metas, 2 the freelist, 3 the bucket's root.  allocate and the freelist  *)
(* (page_is_free) are not among the sources and follow the spec.           *)
(***************************************************************************)
EXTENDS Naturals, Sequences, FiniteSets

CONSTANTS
    MaxPgId,  \* the file may grow to pages 0..MaxPgId-1
    NONE

ASSUME PageAssumption == MaxPgId \in Nat /\ MaxPgId >= 8

PgIds == 0..MaxPgId - 1

\* NONE stands for Option::None, the lack of a page or a parent node; it is
\* no page id.
ASSUME NoneNotPage == NONE \notin PgIds
ROOT == 3

BRANCH_PAGE_FLAG == 1
LEAF_PAGE_FLAG == 2
META_PAGE_FLAG == 4
FREE_LIST_PAGE_FLAG == 16

Formats == {"branch", "leaf", "meta", "freelist"}

VARIABLES
    pages,    \* pages[p]: the header of page p, [id, flags]
    body,     \* body[p]: [fmt, elems], the format and elements written there
    hwm,      \* the high-water mark: pages 0..hwm-1 are in the file
    freed,    \* the pages the freelist holds free
    nodes,    \* nodes[p]: the node the writer materialised from page p, or NONE
    wrote,    \* wrote[q]: the format of the page whose node was written to q
    panicked  \* the writer's thread has panicked

vars == <<pages, body, hwm, freed, nodes, wrote, panicked>>

\* Keys are naturals ordered as their byte strings; 0 is the empty key.
KeyVals == 0..4

\* The u16 flags word of the header.
U16 == 0..(2^16 - 1)

Header == [id : PgIds, flags : U16]
Elem == [key : KeyVals, pgid : PgIds]
Body == [fmt : Formats \cup {"none"}, elems : Seq(Elem)]
\* NodeW: is_leaf, key (the first inode's key), inodes, parent; from is
\* the format of the page the node was read from.
Node == [is_leaf : BOOLEAN, from : Formats, key : KeyVals,
         inodes : Seq(Elem), parent : PgIds \cup {NONE}]

\* Option::None is no Some(node): NONE is no node.
ASSUME NoneNotNode == NONE \notin Node

\* The pgid fields of a sequence of elements or inodes.
Pgids(s) == [i \in 1..Len(s) |-> s[i].pgid]

-----------------------------------------------------------------------------
(* The header, from page.rs.                                               *)

\* CoerciblePage::page_flag of MappedBranchPage, MappedLeafPage, ...
page_flag(k) ==
    [branch |-> BRANCH_PAGE_FLAG, leaf |-> LEAF_PAGE_FLAG,
     meta |-> META_PAGE_FLAG, freelist |-> FREE_LIST_PAGE_FLAG][k]

\* Page::set_branch, set_leaf, set_meta, set_free_list: the flags become
\* the kind's flag.
set_kind(h, k) == [h EXCEPT !.flags = page_flag(k)]

\* flags & f != 0 for a one-bit f.
HasFlag(flags, f) == (flags \div f) % 2 = 1

is_branch(h) == HasFlag(h.flags, BRANCH_PAGE_FLAG)
is_leaf(h) == HasFlag(h.flags, LEAF_PAGE_FLAG)
is_meta(h) == HasFlag(h.flags, META_PAGE_FLAG)
is_free_list(h) == HasFlag(h.flags, FREE_LIST_PAGE_FLAG)
is_undefined(h) == h.flags = 0

\* Page::page_type: the first flag bit set, in this order.
page_type(h) ==
    IF is_branch(h) THEN "branch"
    ELSE IF is_leaf(h) THEN "leaf"
    ELSE IF is_meta(h) THEN "meta"
    ELSE IF is_free_list(h) THEN "freelist"
    ELSE "unknown"

\* Page::fast_check(id): both of its assertions hold.
fast_check(h, id) ==
    /\ h.id = id
    /\ h.flags \in {BRANCH_PAGE_FLAG, LEAF_PAGE_FLAG, META_PAGE_FLAG,
                    FREE_LIST_PAGE_FLAG}

\* CoerciblePage::set_flag: page.flags = Self::page_flag().
set_flag(h, k) == [h EXCEPT !.flags = page_flag(k)]

\* CoerciblePage::mut_into: set the flag, then view the page as the kind.
mut_into(h, k) == set_flag(h, k)

\* CoerciblePage::coerce_ref: the view of kind k if the flags are exactly
\* its flag.
coerce_ref(h, k) == IF h.flags = page_flag(k) THEN k ELSE NONE

-----------------------------------------------------------------------------
(* Reading pages, from tx.rs and bucket.rs.                                *)

\* Mutant: api_page answers None only above the high-water mark.
api_page_past_end(id) ==
    IF id > hwm THEN NONE
    ELSE [id |-> pages[id].id,
          t |-> IF pages[id].id \in freed THEN "free" ELSE page_type(pages[id])]

\* TxIAPI::api_page: None at or above the high-water mark; otherwise the
\* header's id and its type, "free" if the freelist holds that id.
api_page(id) ==
    IF id >= hwm THEN NONE
    ELSE [id |-> pages[id].id,
          t |-> IF pages[id].id \in freed THEN "free" ELSE page_type(pages[id])]

\* BucketImpl::page_node for a bucket that is not inline: a writer's cached
\* node, else the page.
page_node(id, writeable) == writeable /\ nodes[id] # NONE

-----------------------------------------------------------------------------
(* The writer's nodes, from node.rs and bucket.rs.                         *)

\* Mutant: read_in reads one element past the page's count.
read_in_past_count(p, parent) ==
    [is_leaf |-> FALSE, from |-> body[p].fmt,
     key |-> IF Len(body[p].elems) > 0 THEN body[p].elems[1].key ELSE 0,
     inodes |-> body[p].elems \o <<[key |-> 0, pgid |-> MaxPgId]>>,
     parent |-> parent]

\* NodeW::read_in: the inodes of the page, key the first inode's key (or
\* empty), is_leaf false whatever the page.
read_in(p, parent) ==
    [is_leaf |-> FALSE, from |-> body[p].fmt,
     key |-> IF Len(body[p].elems) > 0 THEN body[p].elems[1].key ELSE 0,
     inodes |-> body[p].elems,
     parent |-> parent]

\* BucketImpl::node(pgid, parent) of a bucket that is not inline: the
\* cached node, else NodeMut::read_in of the page, cached; read_in's
\* assert!(page.is_leaf() || page.is_branch()) panics on any other page.
node(pgid, parent) ==
    \/ nodes[pgid] # NONE /\ UNCHANGED <<nodes, panicked>>
    \/ /\ nodes[pgid] = NONE
       /\ is_leaf(pages[pgid]) \/ is_branch(pages[pgid])
       /\ nodes' = [nodes EXCEPT ![pgid] = read_in(pgid, parent)]
       /\ UNCHANGED panicked
    \/ /\ nodes[pgid] = NONE
       /\ ~ (is_leaf(pages[pgid]) \/ is_branch(pages[pgid]))
       /\ panicked' = TRUE
       /\ UNCHANGED nodes

\* NodeMut::child_index: binary_search_by on the child's key; Ok(index)
\* and Err(next_closest) both give the number of smaller keys (1-based
\* here).
child_index(p, c) ==
    Cardinality({i \in DOMAIN nodes[p].inodes : nodes[p].inodes[i].key < nodes[c].key}) + 1

\* Mutant: root stops at the node itself.
root_self(n) == n

\* NodeMut::root: follow the parents up from a node of the cache.
root(n) ==
    LET up[m \in {x \in PgIds : nodes[x] # NONE}] ==
            IF nodes[m].parent = NONE THEN m ELSE up[nodes[m].parent]
    IN  up[n]

\* NodeMut::num_children.
num_children(p) == Len(nodes[p].inodes)

Live == ~ panicked

\* The bucket materialises its root node: BucketImpl::node(root, None).
root_node_read ==
    /\ Live
    /\ node(ROOT, NONE)
    /\ UNCHANGED <<pages, body, hwm, freed, wrote>>

\* NodeMut::child_at(index): panic on a leaf, else BucketImpl::node of the
\* index-th inode's pgid with this node as parent.
ChildAt(p, i) ==
    IF nodes[p].is_leaf THEN panicked' = TRUE /\ UNCHANGED nodes
    ELSE node(nodes[p].inodes[i].pgid, p)

child_at(p, i) ==
    /\ Live
    /\ nodes[p] # NONE
    /\ i \in 1..num_children(p)
    /\ ChildAt(p, i)
    /\ UNCHANGED <<pages, body, hwm, freed, wrote>>

\* NodeMut::next_sibling: None for the root or the last child (index >=
\* num_children - 1), else child_at(index + 1) of the parent.
next_sibling(c) ==
    /\ Live
    /\ nodes[c] # NONE
    /\ nodes[c].parent # NONE
    /\ LET p == nodes[c].parent IN
       /\ child_index(p, c) < num_children(p)
       /\ ChildAt(p, child_index(p, c) + 1)
    /\ UNCHANGED <<pages, body, hwm, freed, wrote>>

\* NodeMut::prev_sibling: None for the root or the first child, else
\* child_at(index - 1) of the parent.
prev_sibling(c) ==
    /\ Live
    /\ nodes[c] # NONE
    /\ nodes[c].parent # NONE
    /\ LET p == nodes[c].parent IN
       /\ child_index(p, c) > 1
       /\ ChildAt(p, child_index(p, c) - 1)
    /\ UNCHANGED <<pages, body, hwm, freed, wrote>>

\* allocate (spec; TxRwCell::allocate is todo!()): a page of the freelist,
\* or the page at the high-water mark, which then moves up; the page's
\* header gets its id.
allocate(q) ==
    \/ q \in freed /\ freed' = freed \ {q} /\ UNCHANGED hwm
    \/ q = hwm /\ hwm + 1 < MaxPgId /\ hwm' = hwm + 1 /\ UNCHANGED freed

\* NodeMut::write of the node of page p onto the allocated page q:
\* mut_into the leaf or branch kind after is_leaf, then write_elements of
\* the inodes.
write(p, q) ==
    /\ Live
    /\ nodes[p] # NONE
    /\ allocate(q)
    /\ LET k == IF nodes[p].is_leaf THEN "leaf" ELSE "branch"
       IN  /\ pages' = [pages EXCEPT ![q] = mut_into([@ EXCEPT !.id = q], k)]
           /\ body' = [body EXCEPT ![q] = [fmt |-> k, elems |-> nodes[p].inodes]]
    /\ wrote' = [wrote EXCEPT ![q] = nodes[p].from]
    /\ UNCHANGED <<nodes, panicked>>

-----------------------------------------------------------------------------
(* A committed file: the metas, the freelist, the root (a leaf of keys 1   *)
(* and 2, or a branch over the leaves 4 (keys 1, 2) and 5 (keys 3, 4)),    *)
(* and the rest of the pages below hwm free with the header and body of    *)
(* what they last held.                                                    *)

E(k, p) == [key |-> k, pgid |-> p]

Init ==
    /\ hwm = 7
    /\ \E tree \in {"leaf", "branch"}, stale \in [4..6 -> {"leaf", "branch"}] :
          LET inTree(p) == p = ROOT \/ (tree = "branch" /\ p \in {4, 5})
              fmt(p) == CASE p \in {0, 1} -> "meta"
                          [] p = 2 -> "freelist"
                          [] p = ROOT -> tree
                          [] p \in 4..6 /\ inTree(p) -> "leaf"
                          [] p \in 4..6 /\ ~ inTree(p) -> stale[p]
                          [] OTHER -> "none"
              elems(p) == CASE fmt(p) = "branch" -> <<E(1, 4), E(3, 5)>>
                            [] fmt(p) = "leaf" /\ p = 5 -> <<E(3, 0), E(4, 0)>>
                            [] fmt(p) = "leaf" /\ p # 5 -> <<E(1, 0), E(2, 0)>>
                            [] OTHER -> <<>>
          IN  /\ freed = {p \in 4..6 : ~ inTree(p)}
              /\ body = [p \in PgIds |-> [fmt |-> fmt(p), elems |-> elems(p)]]
              /\ pages = [p \in PgIds |->
                            IF fmt(p) = "none" THEN [id |-> 0, flags |-> 0]
                            ELSE set_kind([id |-> p, flags |-> 0], fmt(p))]
    /\ nodes = [p \in PgIds |-> NONE]
    /\ wrote = [p \in PgIds |-> NONE]
    /\ panicked = FALSE

Next ==
    \/ root_node_read
    \/ \E p \in PgIds :
          \/ \E i \in 1..2 : child_at(p, i)
          \/ next_sibling(p)
          \/ prev_sibling(p)
    \/ \E p, q \in PgIds : write(p, q)

Spec == Init /\ [][Next]_vars

-----------------------------------------------------------------------------
(* Properties.                                                             *)

\* Every variable holds a value of its type.
TypeOK ==
    /\ pages \in [PgIds -> Header]
    /\ body \in [PgIds -> Body]
    /\ hwm \in 0..MaxPgId - 1
    /\ freed \subseteq PgIds
    /\ nodes \in [PgIds -> Node \cup {NONE}]
    /\ wrote \in [PgIds -> {"leaf", "branch", NONE}]
    /\ panicked \in BOOLEAN

\* TxApi::page reports None exactly for the ids at or above the high-water
\* mark and, for the others, the page's own id and "free" or the format
\* its body is written in.
PageInfoAgrees ==
    \A p \in PgIds :
        api_page(p) = IF p >= hwm THEN NONE
                      ELSE [id |-> p,
                            t |-> IF p \in freed THEN "free" ELSE body[p].fmt]

\* The writer's node cache is a tree hanging from the bucket's root: the
\* parent of every cached node is cached, its child_index of the node
\* finds the inode that points to it, and NodeMut::root of the node is
\* the root node, after any sequence of child_at, next_sibling and
\* prev_sibling calls.
ParentLinks ==
    \A c \in PgIds :
        nodes[c] # NONE =>
            /\ root(c) = ROOT
            /\ nodes[c].parent # NONE =>
                  LET p == nodes[c].parent IN
                  /\ nodes[p] # NONE
                  /\ nodes[p].inodes[child_index(p, c)].pgid = c

\* spec 4 (spill serialises the nodes): a node read from a leaf page is
\* written back as a leaf page, and one read from a branch page as a
\* branch page.
WriteKeepsFormat ==
    \A q \in PgIds : wrote[q] # NONE => body[q].fmt = wrote[q]

=============================================================================
