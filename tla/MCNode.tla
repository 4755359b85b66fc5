------------------------------- MODULE MCNode -------------------------------
(***************************************************************************)
(* Node for TLC: keys of 1 to 6 bytes, so that a node is long enough to    *)
(* split (more than 2 * MIN_KEYS_PER_PAGE inodes); a page of 256 bytes,    *)
(* so that the split threshold (128) and the inline limit (64) fall inside *)
(* the sizes such nodes have.                                              *)
(***************************************************************************)
EXTENDS Node

MCKeys == 1..6
MCValLens == {24}
MCPageSize == 256

\* Every committed leaf over the keys S, built from the smallest key up:
\* that key is absent, or present with one of the entries a page holds.
RECURSIVE PagesOver(_)
PagesOver(S) ==
    IF S = {} THEN {<< >>}
    ELSE LET m == CHOOSE k \in S : \A j \in S : k <= j
             rest == PagesOver(S \ {m})
         IN  rest \cup { << e >> \o r : e \in {x \in PageEntry : x.key = m},
                                       r \in rest }

MCPages == PagesOver(MCKeys)
=============================================================================
