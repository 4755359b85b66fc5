------------------------------ MODULE LeafMap ------------------------------
(***************************************************************************)
(* What a leaf node promises the bucket above it, with no arrays and no    *)
(* search: a set of entries with at most one per key, read in whole from   *)
(* the committed page, where a write replaces whatever the key held, a     *)
(* delete removes it, and dropping the transaction forgets every write.    *)
(* Node implements this under the mapping "the set of inodes"; see         *)
(* Node!ImplementsLeafMap and NodeProofs!NodeImplementsLeafMap.            *)
(***************************************************************************)

CONSTANTS
    Entry,      \* the entries a node can hold; each has a field key
    Committed   \* the possible contents of the committed page

VARIABLES
    committed,  \* the entries of the committed page
    loaded,     \* whether the node is read in
    store       \* the entries of the node (none while it is not read in)

lmvars == <<committed, loaded, store>>

\* The store with key k removed.
Without(S, k) == {x \in S : x.key # k}

LMInit ==
    /\ committed \in Committed
    /\ loaded = FALSE
    /\ store = {}

\* The node is read in: it holds exactly the committed entries.
Load ==
    /\ ~loaded
    /\ loaded' = TRUE
    /\ store' = committed
    /\ UNCHANGED committed

\* A write of e replaces the entry of its key, if any.
Set(e) ==
    /\ loaded
    /\ store' = Without(store, e.key) \cup {e}
    /\ UNCHANGED <<committed, loaded>>

\* A delete of k removes the entry of k, if any.
Remove(k) ==
    /\ loaded
    /\ store' = Without(store, k)
    /\ UNCHANGED <<committed, loaded>>

\* The writes are discarded; the committed page is untouched.
Discard ==
    /\ loaded
    /\ loaded' = FALSE
    /\ store' = {}
    /\ UNCHANGED committed

LMNext ==
    \/ Load
    \/ Discard
    \/ \E k \in {e.key : e \in Entry} : Remove(k)
    \/ \E e \in Entry : Set(e)

LMSpec == LMInit /\ [][LMNext]_lmvars

=============================================================================
