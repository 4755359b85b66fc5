----------------------------- MODULE PageProofs -----------------------------
(***************************************************************************)
(* Proofs about Page: the type invariant and PageInfoAgrees hold in every  *)
(* reachable state, for every MaxPgId that satisfies PageAssumption.       *)
(*                                                                         *)
(* PageInfoAgrees is not inductive alone: a write may land on any page the *)
(* freelist holds, and read_in copies the format of whatever page a node   *)
(* is read from.  The inductive invariant IInv says what every header and  *)
(* body is: below the high-water mark a header carries its page's id and   *)
(* exactly the flag of the format written in the body; at and above it the *)
(* page is untouched; the freelist lies below the mark; and a cached node  *)
(* was read from a leaf or a branch page.                                  *)
(***************************************************************************)
EXTENDS Page, TLAPS

\* The header the code leaves on a page of format f: its id, and the one
\* flag of f (set_kind, mut_into).
Formatted(p, f) == [id |-> p, flags |-> page_flag(f)]

PageFormat ==
    /\ freed \subseteq 0..hwm - 1
    /\ \A p \in PgIds :
          IF p < hwm
          THEN /\ body[p].fmt \in Formats
               /\ pages[p] = Formatted(p, body[p].fmt)
          ELSE /\ body[p].fmt = "none"
               /\ pages[p] = [id |-> 0, flags |-> 0]

NodesFromTree ==
    \A p \in PgIds : nodes[p] # NONE => nodes[p].from \in {"leaf", "branch"}

IInv == TypeOK /\ PageFormat /\ NodesFromTree

-----------------------------------------------------------------------------
(* The flags.                                                              *)

\* The flags a page can carry fit the u16 flags word.
LEMMA FlagBits == \A x \in {0, 1, 2, 4, 16} : x \in U16
  BY DEF U16

\* Every format sets one of the four flags.
LEMMA FlagRange ==
    ASSUME NEW f \in Formats
    PROVE  /\ page_flag(f) \in {BRANCH_PAGE_FLAG, LEAF_PAGE_FLAG,
                                META_PAGE_FLAG, FREE_LIST_PAGE_FLAG}
           /\ page_flag(f) \in U16
  <1>1. page_flag(f) \in {1, 2, 4, 16}
    BY DEF Formats, page_flag, BRANCH_PAGE_FLAG, LEAF_PAGE_FLAG,
           META_PAGE_FLAG, FREE_LIST_PAGE_FLAG
  <1>. QED  BY <1>1, FlagBits DEF BRANCH_PAGE_FLAG, LEAF_PAGE_FLAG,
                                  META_PAGE_FLAG, FREE_LIST_PAGE_FLAG

\* The predicates of page.rs read back the one flag a format sets.
LEMMA FlagOf ==
    ASSUME NEW f \in Formats, NEW id
    PROVE  LET h == [id |-> id, flags |-> page_flag(f)] IN
           /\ page_type(h) = f
           /\ is_leaf(h) <=> f = "leaf"
           /\ is_branch(h) <=> f = "branch"
  BY DEF Formats, page_flag, page_type, is_branch, is_leaf, is_meta,
         is_free_list, HasFlag, BRANCH_PAGE_FLAG, LEAF_PAGE_FLAG,
         META_PAGE_FLAG, FREE_LIST_PAGE_FLAG

\* A formatted header is a header.
LEMMA FormattedHeader ==
    ASSUME NEW p \in PgIds, NEW f \in Formats
    PROVE  Formatted(p, f) \in Header
  <1>1. page_flag(f) \in U16  BY FlagRange
  <1>. QED  BY <1>1 DEF Formatted, Header

\* Setting both fields of a header gives the header of those fields.
LEMMA SetHeader ==
    ASSUME NEW S, NEW T, NEW h \in [id : S, flags : T], NEW a, NEW b
    PROVE  [[h EXCEPT !.id = a] EXCEPT !.flags = b] = [id |-> a, flags |-> b]
  <1> DEFINE g == [[h EXCEPT !.id = a] EXCEPT !.flags = b]
             r == [id |-> a, flags |-> b]
  <1>1. DOMAIN h = {"id", "flags"}  OBVIOUS
  <1>2. DOMAIN g = {"id", "flags"} /\ g.id = a /\ g.flags = b  BY <1>1
  <1>3. DOMAIN r = {"id", "flags"} /\ r.id = a /\ r.flags = b  OBVIOUS
  <1>4. \A x \in {"id", "flags"} : g[x] = r[x]  BY <1>2, <1>3
  <1>5. g = [x \in DOMAIN g |-> g[x]] /\ r = [x \in DOMAIN r |-> r[x]]  OBVIOUS
  <1> HIDE DEF g, r
  <1>. QED  BY <1>2, <1>3, <1>4, <1>5, Zenon

\* A page with no flag is neither a leaf nor a branch.
LEMMA NoFlag ==
    ASSUME NEW h, h.flags = 0
    PROVE  ~is_leaf(h) /\ ~is_branch(h)
  BY DEF is_leaf, is_branch, HasFlag, BRANCH_PAGE_FLAG, LEAF_PAGE_FLAG

-----------------------------------------------------------------------------
(* The initial states.                                                     *)

LEMMA InitInv == Init => IInv
  <1> SUFFICES ASSUME Init PROVE IInv  OBVIOUS
  <1>1. PICK tree \in {"leaf", "branch"}, stale \in [4..6 -> {"leaf", "branch"}] :
          LET inTree(p) == p = ROOT \/ (tree = "branch" /\ p \in {4, 5})
              fmt(p) == CASE p \in {0, 1} -> "meta"
                          [] p = 2 -> "freelist"
                          [] p = ROOT -> tree
                          [] p \in 4..6 /\ inTree(p) -> "leaf"
                          [] p \in 4..6 /\ ~ inTree(p) -> stale[p]
                          [] OTHER -> "none"
              elems(p) == CASE fmt(p) = "branch" -> <<E(1, 4), E(3, 5)>>
                            [] fmt(p) = "leaf" /\ p = 5 -> <<E(3, 0), E(4, 0)>>
                            [] fmt(p) = "leaf" /\ p # 5 -> <<E(1, 0), E(2, 0)>>
                            [] OTHER -> <<>>
          IN  /\ freed = {p \in 4..6 : ~ inTree(p)}
              /\ body = [p \in PgIds |-> [fmt |-> fmt(p), elems |-> elems(p)]]
              /\ pages = [p \in PgIds |->
                            IF fmt(p) = "none" THEN [id |-> 0, flags |-> 0]
                            ELSE set_kind([id |-> p, flags |-> 0], fmt(p))]
    BY DEF Init
  <1> DEFINE inTree(p) == p = ROOT \/ (tree = "branch" /\ p \in {4, 5})
             fmt(p) == CASE p \in {0, 1} -> "meta"
                         [] p = 2 -> "freelist"
                         [] p = ROOT -> tree
                         [] p \in 4..6 /\ inTree(p) -> "leaf"
                         [] p \in 4..6 /\ ~ inTree(p) -> stale[p]
                         [] OTHER -> "none"
             elems(p) == CASE fmt(p) = "branch" -> <<E(1, 4), E(3, 5)>>
                           [] fmt(p) = "leaf" /\ p = 5 -> <<E(3, 0), E(4, 0)>>
                           [] fmt(p) = "leaf" /\ p # 5 -> <<E(1, 0), E(2, 0)>>
                           [] OTHER -> <<>>
  <1>2. /\ freed = {p \in 4..6 : ~ inTree(p)}
        /\ body = [p \in PgIds |-> [fmt |-> fmt(p), elems |-> elems(p)]]
        /\ pages = [p \in PgIds |->
                      IF fmt(p) = "none" THEN [id |-> 0, flags |-> 0]
                      ELSE set_kind([id |-> p, flags |-> 0], fmt(p))]
    BY <1>1
  <1>3. hwm = 7 /\ 8 <= MaxPgId /\ MaxPgId \in Nat
    BY PageAssumption DEF Init
  <1>4. ASSUME NEW p \in PgIds
        PROVE  /\ p < 7 => fmt(p) \in Formats
               /\ p >= 7 => fmt(p) = "none"
    BY <1>3 DEF PgIds, Formats, ROOT
  <1>5. ASSUME NEW p \in PgIds
        PROVE  elems(p) \in Seq(Elem)
    <2>1. {0, 1, 2, 3, 4, 5} \subseteq PgIds  BY <1>3 DEF PgIds
    <2>2. {<<E(1, 4), E(3, 5)>>, <<E(3, 0), E(4, 0)>>, <<E(1, 0), E(2, 0)>>, <<>>}
            \subseteq Seq(Elem)
      BY <2>1 DEF Elem, E, KeyVals
    <2>3. elems(p) \in {<<E(1, 4), E(3, 5)>>, <<E(3, 0), E(4, 0)>>,
                        <<E(1, 0), E(2, 0)>>, <<>>}
      OBVIOUS
    <2>. QED  BY <2>2, <2>3
  <1> HIDE DEF fmt, elems, inTree
  <1>6. TypeOK
    <2>1. pages \in [PgIds -> Header]
      <3>1. ASSUME NEW p \in PgIds, fmt(p) # "none"
            PROVE  set_kind([id |-> p, flags |-> 0], fmt(p)) \in Header
        <4>1. fmt(p) \in Formats  BY <1>4, <3>1, <1>3 DEF PgIds
        <4>2. set_kind([id |-> p, flags |-> 0], fmt(p)) = Formatted(p, fmt(p))
          BY DEF set_kind, Formatted
        <4>. QED  BY <4>1, <4>2, FormattedHeader
      <3>2. [id |-> 0, flags |-> 0] \in Header
        BY <1>3, FlagBits DEF Header, PgIds
      <3>. QED  BY <1>2, <3>1, <3>2
    <2>2. body \in [PgIds -> Body]
      <3>1. ASSUME NEW p \in PgIds PROVE fmt(p) \in Formats \cup {"none"}
        BY <1>4, <1>3 DEF PgIds
      <3>. QED  BY <1>2, <1>5, <3>1 DEF Body
    <2>3. hwm \in 0..MaxPgId - 1  BY <1>3
    <2>4. freed \subseteq PgIds  BY <1>2, <1>3 DEF PgIds
    <2>. QED  BY <2>1, <2>2, <2>3, <2>4 DEF Init, TypeOK
  <1>7. PageFormat
    <2>1. freed \subseteq 0..hwm - 1  BY <1>2, <1>3
    <2>2. ASSUME NEW p \in PgIds
          PROVE  IF p < hwm
                 THEN /\ body[p].fmt \in Formats
                      /\ pages[p] = Formatted(p, body[p].fmt)
                 ELSE /\ body[p].fmt = "none"
                      /\ pages[p] = [id |-> 0, flags |-> 0]
      <3>1. body[p].fmt = fmt(p)  BY <1>2
      <3>2. CASE p < 7
        <4>1. fmt(p) \in Formats  BY <1>4, <3>2
        <4>2. fmt(p) # "none"  BY <4>1 DEF Formats
        <4>. QED  BY <1>2, <1>3, <3>1, <3>2, <4>1, <4>2 DEF set_kind, Formatted
      <3>3. CASE ~(p < 7)
        <4>1. fmt(p) = "none"  BY <1>3, <1>4, <3>3 DEF PgIds
        <4>. QED  BY <1>2, <1>3, <3>1, <3>3, <4>1
      <3>. QED  BY <3>2, <3>3
    <2>. QED  BY <2>1, <2>2 DEF PageFormat
  <1>8. NodesFromTree  BY DEF Init, NodesFromTree
  <1>. QED  BY <1>6, <1>7, <1>8 DEF IInv

-----------------------------------------------------------------------------
(* The steps.                                                              *)

\* NodeW::read_in of a page of known format under a parent or none is a
\* node: its key is the first element's key or the empty key.
LEMMA ReadInNode ==
    ASSUME TypeOK, NEW p \in PgIds, NEW parent \in PgIds \cup {NONE},
           body[p].fmt \in Formats
    PROVE  read_in(p, parent) \in Node
  <1>1. body[p].elems \in Seq(Elem)  BY DEF TypeOK, Body
  <1>2. (IF Len(body[p].elems) > 0 THEN body[p].elems[1].key ELSE 0) \in KeyVals
    <2>1. CASE Len(body[p].elems) > 0
      <3>1. body[p].elems[1] \in Elem  BY <1>1, <2>1
      <3>. QED  BY <2>1, <3>1 DEF Elem
    <2>2. CASE ~(Len(body[p].elems) > 0)
      <3>1. 0 \in KeyVals  BY DEF KeyVals
      <3>. QED  BY <2>2, <3>1
    <2>. QED  BY <2>1, <2>2
  <1>. QED  BY <1>1, <1>2 DEF read_in, Node

\* BucketImpl::node(pgid, parent) keeps the invariant, whatever pgid an
\* inode holds: it returns a cached node, reads in a leaf or a branch page
\* (which lies below the high-water mark, since no other page has those
\* flags), or panics.
LEMMA NodeStep ==
    ASSUME IInv, NEW pgid, NEW parent \in PgIds \cup {NONE},
           node(pgid, parent),
           UNCHANGED <<pages, body, hwm, freed, wrote>>
    PROVE  IInv'
  <1> USE DEF IInv
  <1>1. CASE nodes[pgid] # NONE /\ UNCHANGED <<nodes, panicked>>
    BY <1>1 DEF TypeOK, PageFormat, NodesFromTree, Formatted
  <1>2. CASE /\ nodes[pgid] = NONE
             /\ is_leaf(pages[pgid]) \/ is_branch(pages[pgid])
             /\ nodes' = [nodes EXCEPT ![pgid] = read_in(pgid, parent)]
             /\ UNCHANGED panicked
    <2>1. CASE pgid \notin PgIds
      <3>1. nodes' = nodes  BY <1>2, <2>1 DEF TypeOK
      <3>. QED  BY <1>2, <3>1 DEF TypeOK, PageFormat, NodesFromTree, Formatted
    <2>2. CASE pgid \in PgIds
      <3>1. pgid < hwm
        <4>1. SUFFICES ASSUME ~(pgid < hwm) PROVE FALSE  OBVIOUS
        <4>2. pages[pgid].flags = 0  BY <2>2, <4>1 DEF PageFormat
        <4>. QED  BY <1>2, <4>2, NoFlag
      <3>2. /\ body[pgid].fmt \in Formats
            /\ pages[pgid] = Formatted(pgid, body[pgid].fmt)
        BY <2>2, <3>1 DEF PageFormat
      <3>3. body[pgid].fmt \in {"leaf", "branch"}
        BY <1>2, <3>2, FlagOf DEF Formatted
      <3>4. read_in(pgid, parent) \in Node  BY <2>2, <3>2, ReadInNode DEF IInv
      <3>5. (read_in(pgid, parent)).from \in {"leaf", "branch"}
        BY <3>3 DEF read_in
      <3>6. TypeOK'  BY <1>2, <2>2, <3>4 DEF TypeOK
      <3>7. NodesFromTree'  BY <1>2, <2>2, <3>5 DEF TypeOK, NodesFromTree
      <3>8. PageFormat'  BY <1>2 DEF PageFormat, Formatted
      <3>. QED  BY <3>6, <3>7, <3>8
    <2>. QED  BY <2>1, <2>2
  <1>3. CASE /\ nodes[pgid] = NONE
             /\ ~ (is_leaf(pages[pgid]) \/ is_branch(pages[pgid]))
             /\ panicked' = TRUE
             /\ UNCHANGED nodes
    BY <1>3 DEF TypeOK, PageFormat, NodesFromTree, Formatted
  <1>. QED  BY <1>1, <1>2, <1>3 DEF node

\* NodeMut::child_at, as child_at, next_sibling and prev_sibling reach it,
\* keeps the invariant: it panics on a leaf, else it is BucketImpl::node.
LEMMA ChildAtStep ==
    ASSUME IInv, NEW p \in PgIds, NEW i, ChildAt(p, i),
           UNCHANGED <<pages, body, hwm, freed, wrote>>
    PROVE  IInv'
  <1>1. CASE nodes[p].is_leaf
    BY <1>1 DEF ChildAt, IInv, TypeOK, PageFormat, NodesFromTree, Formatted
  <1>2. CASE ~nodes[p].is_leaf
    BY <1>2, NodeStep DEF ChildAt
  <1>. QED  BY <1>1, <1>2

\* NodeMut::write onto a page that allocate hands out keeps the
\* invariant: the page is one the freelist held, or the one at the mark,
\* which the mark then passes; its header gets its id and the flag of
\* the format its body is written in; the node was read from a leaf or a
\* branch page, which is what wrote records.
LEMMA WriteStep ==
    ASSUME IInv, NEW p \in PgIds, NEW q \in PgIds, write(p, q)
    PROVE  IInv'
  <1> USE DEF IInv
  <1> DEFINE k == IF nodes[p].is_leaf THEN "leaf" ELSE "branch"
  <1>1. nodes[p] \in Node /\ nodes[p].from \in {"leaf", "branch"}
    BY DEF write, TypeOK, NodesFromTree
  <1>2. k \in Formats  BY DEF Formats
  <1>3. pages' = [pages EXCEPT ![q] = Formatted(q, k)]
    <2>1. pages[q] \in Header  BY DEF TypeOK
    <2>2. pages[q] \in [id : PgIds, flags : U16]  BY <2>1 DEF Header
    <2>3. mut_into([pages[q] EXCEPT !.id = q], k) = Formatted(q, k)
      BY <2>2, SetHeader DEF mut_into, set_flag, Formatted
    <2>. QED  BY <2>3 DEF write
  <1>4. body' = [body EXCEPT ![q] = [fmt |-> k, elems |-> nodes[p].inodes]]
    BY DEF write
  <1>5. /\ wrote' = [wrote EXCEPT ![q] = nodes[p].from]
        /\ UNCHANGED <<nodes, panicked>>
    BY DEF write
  <1>6. \/ q \in freed /\ freed' = freed \ {q} /\ UNCHANGED hwm
        \/ q = hwm /\ hwm + 1 < MaxPgId /\ hwm' = hwm + 1 /\ UNCHANGED freed
    BY DEF write, allocate
  <1>7. hwm \in Nat /\ q < hwm'  BY <1>6 DEF TypeOK, PageFormat
  <1>8. TypeOK'
    <2>1. Formatted(q, k) \in Header  BY <1>2, FormattedHeader
    <2>2. [fmt |-> k, elems |-> nodes[p].inodes] \in Body
      BY <1>1, <1>2 DEF Node, Body
    <2>3. hwm' \in 0..MaxPgId - 1  BY <1>6, PageAssumption DEF TypeOK
    <2>. QED  BY <1>1, <1>3, <1>4, <1>5, <1>6, <2>1, <2>2, <2>3 DEF TypeOK
  <1>9. PageFormat'
    <2>1. freed' \subseteq 0..hwm' - 1
      <3>0. hwm \in Nat  BY DEF TypeOK
      <3>1. CASE q \in freed /\ freed' = freed \ {q} /\ UNCHANGED hwm
        BY <3>1 DEF PageFormat
      <3>2. CASE q = hwm /\ hwm + 1 < MaxPgId /\ hwm' = hwm + 1 /\ UNCHANGED freed
        <4>1. 0..hwm - 1 \subseteq 0..hwm' - 1  BY <3>0, <3>2
        <4>. QED  BY <3>2, <4>1 DEF PageFormat
      <3>. QED  BY <1>6, <3>1, <3>2
    <2>2. ASSUME NEW r \in PgIds
          PROVE  (IF r < hwm
                  THEN /\ body[r].fmt \in Formats
                       /\ pages[r] = Formatted(r, body[r].fmt)
                  ELSE /\ body[r].fmt = "none"
                       /\ pages[r] = [id |-> 0, flags |-> 0])'
      <3>1. CASE r = q
        BY <1>2, <1>3, <1>4, <1>7, <3>1 DEF TypeOK
      <3>2. CASE r # q
        <4>1. body'[r] = body[r] /\ pages'[r] = pages[r]
          BY <1>3, <1>4, <3>2 DEF TypeOK
        <4>2. (r < hwm') = (r < hwm)  BY <1>6, <3>2 DEF TypeOK, PgIds
        <4>. QED  BY <4>1, <4>2 DEF PageFormat
      <3>. QED  BY <3>1, <3>2
    <2>. QED  BY <2>1, <2>2 DEF PageFormat
  <1>10. NodesFromTree'  BY <1>5 DEF NodesFromTree
  <1>. QED  BY <1>8, <1>9, <1>10

-----------------------------------------------------------------------------
(* The invariant and the theorems.                                         *)

LEMMA NextInv == IInv /\ [Next]_vars => IInv'
  <1> SUFFICES ASSUME IInv, [Next]_vars PROVE IInv'  OBVIOUS
  <1>1. CASE root_node_read
    <2>1. ROOT \in PgIds  BY PageAssumption DEF PgIds, ROOT
    <2>. QED  BY <1>1, <2>1, NodeStep DEF root_node_read
  <1>2. ASSUME NEW p \in PgIds, NEW i \in 1..2, child_at(p, i)  PROVE IInv'
    BY <1>2, ChildAtStep DEF child_at
  <1>3. ASSUME NEW c \in PgIds, next_sibling(c)  PROVE IInv'
    <2>1. nodes[c].parent \in PgIds  BY <1>3 DEF next_sibling, IInv, TypeOK, Node
    <2>. QED  BY <1>3, <2>1, ChildAtStep DEF next_sibling
  <1>4. ASSUME NEW c \in PgIds, prev_sibling(c)  PROVE IInv'
    <2>1. nodes[c].parent \in PgIds  BY <1>4 DEF prev_sibling, IInv, TypeOK, Node
    <2>. QED  BY <1>4, <2>1, ChildAtStep DEF prev_sibling
  <1>5. ASSUME NEW p \in PgIds, NEW q \in PgIds, write(p, q)  PROVE IInv'
    BY <1>5, WriteStep
  <1>6. CASE UNCHANGED vars
    BY <1>6 DEF vars, IInv, TypeOK, PageFormat, NodesFromTree, Formatted
  <1>. QED  BY <1>1, <1>2, <1>3, <1>4, <1>5, <1>6 DEF Next

-----------------------------------------------------------------------------
(* The invariants the page_pass run checks, for every MaxPgId.             *)

\* The page layer only ever stores values of their types: headers with an
\* id and a u16 flags word, bodies of known format, a high-water mark
\* inside the file, nodes materialised from pages (BucketImpl::node).
THEOREM PageTypeCorrect == Spec => []TypeOK
  <1>1. IInv => TypeOK  BY DEF IInv
  <1>. QED  BY <1>1, InitInv, NextInv, PTL DEF Spec

\* TxIAPI::api_page answers None exactly at and above the high-water mark
\* and otherwise reports the page's own id and the format its body was
\* written in (or "free"), whatever pages were reused.
THEOREM PageInfoAgreesHolds == Spec => []PageInfoAgrees
  <1>1. IInv => PageInfoAgrees
    <2> SUFFICES ASSUME IInv, NEW p \in PgIds
                 PROVE  api_page(p) = IF p >= hwm THEN NONE
                                      ELSE [id |-> p,
                                            t |-> IF p \in freed THEN "free"
                                                  ELSE body[p].fmt]
      BY DEF PageInfoAgrees
    <2>1. hwm \in Nat /\ p \in Nat  BY DEF IInv, TypeOK, PgIds
    <2>2. CASE p >= hwm  BY <2>1, <2>2 DEF api_page
    <2>3. CASE ~(p >= hwm)
      <3>1. body[p].fmt \in Formats /\ pages[p] = Formatted(p, body[p].fmt)
        BY <2>1, <2>3 DEF IInv, PageFormat
      <3>2. pages[p].id = p  BY <3>1 DEF Formatted
      <3>3. page_type(pages[p]) = body[p].fmt  BY <3>1, FlagOf DEF Formatted
      <3>. QED  BY <2>3, <3>2, <3>3 DEF api_page
    <2>. QED  BY <2>2, <2>3
  <1>. QED  BY <1>1, InitInv, NextInv, PTL DEF Spec

=============================================================================
