------------------------------ MODULE PageWalk ------------------------------
(***************************************************************************)
(* The recursive part of Page: BucketImpl::for_each_page_node, which      *)
(* walks a bucket's pages and cached nodes depth first.  It is kept apart  *)
(* from Page so that the proofs about Page (PageProofs) reach no RECURSIVE *)
(* operator.                                                               *)
(***************************************************************************)
EXTENDS Page

\* BucketImpl::_for_each_page_node: the ids visited, depth first.  A node's
\* children are the pgids of all its inodes; a page's are the elements of
\* a page that coerces to a branch page.
RECURSIVE for_each_from(_, _), for_each_seq(_, _)
for_each_from(id, writeable) ==
    <<id>> \o
        IF page_node(id, writeable) THEN for_each_seq(Pgids(nodes[id].inodes), writeable)
        ELSE IF coerce_ref(pages[id], "branch") # NONE
             THEN for_each_seq(Pgids(body[id].elems), writeable)
        ELSE <<>>
for_each_seq(s, writeable) ==
    IF s = <<>> THEN <<>>
    ELSE for_each_from(Head(s), writeable) \o for_each_seq(Tail(s), writeable)

\* BucketImpl::for_each_page_node from the root of a bucket that is not
\* inline.
for_each_page_node(writeable) == for_each_from(ROOT, writeable)

-----------------------------------------------------------------------------
(* Properties.                                                             *)

\* A writer walking a bucket with for_each_page_node, before it changes
\* any node, visits the same pages as a reader walking the same file.
ForEachPageNodeSeesPages == for_each_page_node(TRUE) = for_each_page_node(FALSE)

=============================================================================
