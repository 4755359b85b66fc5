------------------------------- MODULE Bucket -------------------------------
(***************************************************************************)
(* One bucket as a writer transaction sees it (src/src/bucket.rs,          *)
(* BucketImpl over a BucketMut), together with the leaf node that its      *)
(* writes materialise (src/src/node.rs, NodeMut::put / NodeMut::del) and   *)
(* the transaction lifecycle around it (src/src/tx.rs, TxRwImpl).          *)
(*                                                                         *)
(* Data abstraction.  The bucket's B+tree is abstracted to the contents   *)
(* of the leaf its cursor lands on: a map from keys to entries.  The       *)
(* inode array of the code is kept sorted by binary search; a map is that  *)
(* array up to its order.  Keys are positive naturals ordered as their     *)
(* byte strings are; the empty key is 0.  A value is a model value of one *)
(* of four kinds: a plain value, a 16-byte InBucket header of a child with *)
(* its own root page, an InBucket header followed by an inline page, or a  *)
(* key (what NodeMut::put stores, see node_put).  Lengths are kept only   *)
(* where the code tests one: HdrKeys are the names that are exactly as     *)
(* long as an InBucket header.                                             *)
(***************************************************************************)
EXTENDS Naturals

CONSTANTS
    Keys,        \* the non-empty keys, as positive naturals
    Vals,        \* plain values
    HdrVals,     \* values that are exactly an InBucket header (root /= 0)
    InlineVals,  \* values that are an InBucket header and an inline page
    HdrKeys,     \* keys of exactly 16 bytes whose first 8 are not all zero
    BigKey,      \* a key longer than MAX_KEY_SIZE
    BigVal,      \* a value longer than MAX_VALUE_SIZE
    MaxSeq,      \* bound on the bucket sequence counter
    NONE,        \* Option::None
    ABSENT       \* no inode with this key

ASSUME BucketAssumption ==
    /\ Keys \subseteq Nat \ {0}
    /\ HdrKeys \subseteq Keys
    /\ MaxSeq \in Nat
    /\ NONE \notin Vals \cup HdrVals \cup InlineVals \cup Keys \cup {0}
    /\ ABSENT # NONE
    /\ BigKey \notin Keys \cup {0} /\ BigVal \notin Vals

\* BUCKET_LEAF_FLAG, src/src/common/page.rs.
BUCKET_LEAF_FLAG == 1

EmptyKey == 0
KeyInputs == {EmptyKey} \cup Keys
StoredVals == Vals \cup HdrVals \cup InlineVals \cup Keys
\* What an entry with BUCKET_LEAF_FLAG can hold: a child's header, with or
\* without its inline page, or the name NodeMut::put stores instead.
BucketVals == HdrVals \cup InlineVals \cup Keys
Entry == [flags : {0, BUCKET_LEAF_FLAG}, value : StoredVals]
Leaf == [Keys -> Entry \cup {ABSENT}]

\* Option::None is no leaf: a materialised node is always Some.
ASSUME NoneNotLeaf == NONE \notin Leaf

\* ABSENT stands for the lack of an inode, and is no inode.
ASSUME AbsentNotEntry == ABSENT \notin Entry

\* What a committed file can hold: plain values carry no flag, bucket
\* headers carry BUCKET_LEAF_FLAG.
DiskEntry == [flags : {0}, value : Vals]
             \cup [flags : {BUCKET_LEAF_FLAG}, value : HdrVals \cup InlineVals]
DiskLeaf == [Keys -> DiskEntry \cup {ABSENT}]

Errors == {"BucketNameRequired", "BucketExists", "BucketNotFound",
           "KeyRequired", "KeyTooLarge", "ValueTooLarge", "IncompatibleValue"}

VARIABLES
    page,       \* the leaf page of the snapshot the transaction reads
    node,       \* the materialised leaf node (the `nodes` cache) or NONE
    unbalanced, \* NodeW.unbalanced
    buckets,    \* the sub-bucket cache BucketW.buckets: name -> child or NONE
    sequence,   \* bucket_header.sequence
    status,     \* "active", "panicked" (unwinding) or "closed" (dropped)
    last        \* the last call and what it returned

vars == <<page, node, unbalanced, buckets, sequence, status, last>>

IsBucket(e) == e.flags = BUCKET_LEAF_FLAG

-----------------------------------------------------------------------------
(* Helpers.                                                                *)

\* BucketImpl::page_node: a cached node if there is one, else the page.
page_node == IF node = NONE THEN page ELSE node

\* BucketImpl::node: the memoised node, read in from the page on first use.
materialized == IF node = NONE THEN page ELSE node

\* The cursor's seek (src/src/cursor.rs is not part of the sources): the
\* first key >= k, or NONE past the end.
i_seek(m, k) ==
    LET ge == {j \in Keys : m[j] # ABSENT /\ j >= k}
    IN  IF ge = {} THEN NONE ELSE CHOOSE j \in ge : \A i \in ge : j <= i

\* NodeMut::put(old_key, new_key, value, pgid, flags): binary search by
\* old_key, replace on an exact hit, insert otherwise.  The inode is built
\* with INode::new_owned_in(flags, pgid, new_key, old_key, ..): old_key is
\* passed where the value goes and `value` is never read.
node_put(n, old_key, new_key, value, flags) ==
    [j \in Keys |-> IF j = new_key THEN [flags |-> flags, value |-> old_key]
                    ELSE IF j = old_key THEN ABSENT ELSE n[j]]

\* NodeMut::del: remove the inode on an exact hit.
node_del(n, key) == [n EXCEPT ![key] = ABSENT]

\* BucketImpl::open_bucket: bytemuck::from_bytes::<InBucket> panics unless
\* the value is exactly 16 bytes: a plain header, or a 16-byte name that
\* put stored as the value.  The header read from a name has the name's
\* first 8 bytes as its root; if they are all zero, the root is ZERO_PGID
\* and the assert that an inline page follows panics.
open_ok(v) == v \in HdrVals \cup HdrKeys

\* BucketImpl::api_bucket: cache first, then seek; a hit with the bucket
\* flag is opened and cached.
api_bucket_res(cache, m, name) ==
    IF name \in Keys /\ cache[name] # NONE
    THEN [res |-> cache[name], panic |-> FALSE, cache |-> cache]
    ELSE LET s == i_seek(m, name) IN
         IF s = NONE \/ s # name \/ ~IsBucket(m[s])
         THEN [res |-> NONE, panic |-> FALSE, cache |-> cache]
         ELSE IF open_ok(m[s].value)
         THEN [res |-> m[s].value, panic |-> FALSE,
               cache |-> [cache EXCEPT ![name] = m[s].value]]
         ELSE [res |-> NONE, panic |-> TRUE, cache |-> cache]

\* Outcomes of a call: record what was called and what it returned.
Call(op, k, v, out) == last' = [op |-> op, key |-> k, val |-> v, out |-> out]

\* A user-input error: returned before any state is touched.
Fail(op, k, v, err) ==
    /\ Call(op, k, v, err)
    /\ UNCHANGED <<page, node, unbalanced, buckets, sequence, status>>

\* A panic: the transaction unwinds with what was already changed.
Panic(op, k, v) ==
    /\ status' = "panicked"
    /\ Call(op, k, v, "panic")

-----------------------------------------------------------------------------
(* Operations.  Each action is one public call of a writer transaction.    *)

Active == status = "active"

\* BucketImpl::api_get.  i_seek(key).unwrap() panics past the last key.
api_get(k) ==
    /\ Active
    /\ LET m == page_node
           s == i_seek(m, k)
       IN  \/ /\ s = NONE
              /\ Panic("get", k, NONE)
              /\ UNCHANGED <<page, node, unbalanced, buckets, sequence>>
           \/ /\ s # NONE
              /\ Call("get", k, NONE,
                      IF IsBucket(m[s]) \/ s # k THEN NONE ELSE m[s].value)
              /\ UNCHANGED <<page, node, unbalanced, buckets, sequence, status>>

\* BucketImpl::api_put: size checks, seek, refuse a bucket or a key that
\* is not there, then put through the cursor's node.
api_put(k, v) ==
    /\ Active
    /\ \/ k = EmptyKey /\ Fail("put", k, v, "KeyRequired")
       \/ k = BigKey /\ Fail("put", k, v, "KeyTooLarge")
       \/ k \in Keys /\ v = BigVal /\ Fail("put", k, v, "ValueTooLarge")
       \/ /\ k \in Keys /\ v \in Vals
          /\ LET s == i_seek(page_node, k) IN
             \/ /\ s = NONE
                /\ Panic("put", k, v)
                /\ UNCHANGED <<page, node, unbalanced, buckets, sequence>>
             \/ /\ s # NONE
                /\ IsBucket(page_node[s]) \/ k # s
                /\ Fail("put", k, v, "IncompatibleValue")
             \/ /\ s = k /\ ~IsBucket(page_node[s])
                /\ node' = node_put(materialized, k, k, v, 0)
                /\ Call("put", k, v, "ok")
                /\ UNCHANGED <<page, unbalanced, buckets, sequence, status>>

\* Mutant: api_delete without the BUCKET_LEAF_FLAG check.
api_delete_any_flag(k) ==
    /\ Active
    /\ LET s == i_seek(page_node, k) IN
       \/ /\ s = NONE
          /\ Panic("delete", k, NONE)
          /\ UNCHANGED <<page, node, unbalanced, buckets, sequence>>
       \/ /\ s # NONE /\ s # k
          /\ Call("delete", k, NONE, "ok")
          /\ UNCHANGED <<page, node, unbalanced, buckets, sequence, status>>
       \/ /\ s = k
          /\ node' = node_del(materialized, k)
          /\ unbalanced' = TRUE
          /\ Call("delete", k, NONE, "ok")
          /\ UNCHANGED <<page, buckets, sequence, status>>

\* Mutant: api_delete without the `key != k` early return: it deletes
\* whatever the seek landed on.
api_delete_at_seek(k) ==
    /\ Active
    /\ LET s == i_seek(page_node, k) IN
       \/ /\ s = NONE
          /\ Panic("delete", k, NONE)
          /\ UNCHANGED <<page, node, unbalanced, buckets, sequence>>
       \/ /\ s # NONE /\ IsBucket(page_node[s])
          /\ Fail("delete", k, NONE, "IncompatibleValue")
       \/ /\ s # NONE /\ ~IsBucket(page_node[s])
          /\ node' = node_del(materialized, s)
          /\ unbalanced' = TRUE
          /\ Call("delete", k, NONE, "ok")
          /\ UNCHANGED <<page, buckets, sequence, status>>

\* BucketImpl::api_delete: no-op on a miss, refuse a bucket, else del.
api_delete(k) ==
    /\ Active
    /\ LET s == i_seek(page_node, k) IN
       \/ /\ s = NONE
          /\ Panic("delete", k, NONE)
          /\ UNCHANGED <<page, node, unbalanced, buckets, sequence>>
       \/ /\ s # NONE /\ s # k
          /\ Call("delete", k, NONE, "ok")
          /\ UNCHANGED <<page, node, unbalanced, buckets, sequence, status>>
       \/ /\ s = k /\ IsBucket(page_node[s])
          /\ Fail("delete", k, NONE, "IncompatibleValue")
       \/ /\ s = k /\ ~IsBucket(page_node[s])
          /\ node' = node_del(materialized, k)
          /\ unbalanced' = TRUE
          /\ Call("delete", k, NONE, "ok")
          /\ UNCHANGED <<page, buckets, sequence, status>>

\* Mutant: api_create_bucket without the check for an existing key.
CreateBucket_no_exists_check(op, k) ==
    LET n == node_put(materialized, k, k, NONE, BUCKET_LEAF_FLAG)
        r == api_bucket_res(buckets, n, k)
    IN  \/ k = EmptyKey /\ Fail(op, k, NONE, "BucketNameRequired")
        \/ /\ k \in Keys
           /\ node' = n
           /\ buckets' = r.cache
           /\ IF r.panic \/ r.res = NONE
              THEN Panic(op, k, NONE)
              ELSE /\ Call(op, k, NONE, r.res)
                   /\ UNCHANGED status
           /\ UNCHANGED <<page, unbalanced, sequence>>

\* BucketImpl::api_create_bucket: refuse the empty name and an existing
\* key, put an inline bucket value with BUCKET_LEAF_FLAG, then return
\* api_bucket(cell, key).unwrap().
CreateBucket(op, k) ==
    LET s == i_seek(page_node, k)
        n == node_put(materialized, k, k, NONE, BUCKET_LEAF_FLAG)
        r == api_bucket_res(buckets, n, k)
    IN  \/ k = EmptyKey /\ Fail(op, k, NONE, "BucketNameRequired")
        \/ /\ k \in Keys /\ s = k
           /\ Fail(op, k, NONE, IF IsBucket(page_node[s]) THEN "BucketExists"
                                                        ELSE "IncompatibleValue")
        \/ /\ k \in Keys /\ s # k
           /\ node' = n
           /\ buckets' = r.cache
           /\ IF r.panic \/ r.res = NONE
              THEN Panic(op, k, NONE)
              ELSE /\ Call(op, k, NONE, r.res)
                   /\ UNCHANGED status
           /\ UNCHANGED <<page, unbalanced, sequence>>

api_create_bucket(k) == Active /\ CreateBucket("create_bucket", k)

\* BucketImpl::api_create_bucket_if_not_exists: on BucketExists fall back
\* to api_bucket(cell, key).unwrap().
api_create_bucket_if_not_exists(k) ==
    /\ Active
    /\ LET s == i_seek(page_node, k)
           r == api_bucket_res(buckets, page_node, k)
       IN  \/ /\ ~(k \in Keys /\ s = k /\ IsBucket(page_node[s]))
              /\ CreateBucket("create_bucket_if_not_exists", k)
           \/ /\ k \in Keys /\ s = k /\ IsBucket(page_node[s])
              /\ buckets' = r.cache
              /\ IF r.panic \/ r.res = NONE
                 THEN Panic("create_bucket_if_not_exists", k, NONE)
                 ELSE /\ Call("create_bucket_if_not_exists", k, NONE, r.res)
                      /\ UNCHANGED status
              /\ UNCHANGED <<page, node, unbalanced, sequence>>

\* BucketImpl::api_delete_bucket: i_seek(key).unwrap(); BucketNotFound on
\* a miss; IncompatibleValue when `flags & BUCKET_LEAF_FLAG != 0`; else
\* open the child with api_bucket(cell, key).unwrap(), delete its
\* sub-buckets, drop it from the cache, free its pages and del the key.
\* The child's own sub-buckets are not modelled: a child is its header.
api_delete_bucket(k) ==
    /\ Active
    /\ LET s == i_seek(page_node, k)
           r == api_bucket_res(buckets, page_node, k)
       IN  \/ /\ s = NONE
              /\ Panic("delete_bucket", k, NONE)
              /\ UNCHANGED <<page, node, unbalanced, buckets, sequence>>
           \/ /\ s # NONE /\ s # k
              /\ Fail("delete_bucket", k, NONE, "BucketNotFound")
           \/ /\ s = k /\ IsBucket(page_node[s])
              /\ Fail("delete_bucket", k, NONE, "IncompatibleValue")
           \/ /\ s = k /\ ~IsBucket(page_node[s])
              /\ IF r.panic \/ r.res = NONE
                 THEN /\ Panic("delete_bucket", k, NONE)
                      /\ UNCHANGED <<page, node, unbalanced, buckets, sequence>>
                 ELSE /\ buckets' = [r.cache EXCEPT ![k] = NONE]
                      /\ node' = node_del(materialized, k)
                      /\ unbalanced' = TRUE
                      /\ Call("delete_bucket", k, NONE, "ok")
                      /\ UNCHANGED <<page, sequence, status>>

\* TxApi::bucket / BucketImpl::api_bucket as a call.
api_bucket(k) ==
    /\ Active
    /\ LET r == api_bucket_res(buckets, page_node, k) IN
       /\ buckets' = r.cache
       /\ IF r.panic
          THEN Panic("bucket", k, NONE)
          ELSE /\ Call("bucket", k, NONE, r.res)
               /\ UNCHANGED status
       /\ UNCHANGED <<page, node, unbalanced, sequence>>

\* BucketImpl::api_set_sequence: materialise the root node (root_node is
\* never assigned, so this always runs BucketImpl::node), then set.
api_set_sequence(v) ==
    /\ Active
    /\ node' = materialized
    /\ sequence' = v
    /\ Call("set_sequence", NONE, v, "ok")
    /\ UNCHANGED <<page, unbalanced, buckets, status>>

\* BucketImpl::api_next_sequence: materialise the root node, increment.
api_next_sequence ==
    /\ Active
    /\ sequence < MaxSeq
    /\ node' = materialized
    /\ sequence' = sequence + 1
    /\ Call("next_sequence", NONE, NONE, sequence + 1)
    /\ UNCHANGED <<page, unbalanced, buckets, status>>

\* TxRwIAPI::api_commit is todo!("api_commit"): committing panics.
api_commit ==
    /\ Active
    /\ Panic("commit", NONE, NONE)
    /\ UNCHANGED <<page, node, unbalanced, buckets, sequence>>

\* TxRwImpl::rollback sets is_rollback; dropping the TxRwImpl (also what
\* unwinding after a panic does) returns its arena and releases the write
\* lock.  Nothing of the transaction survives.
rollback ==
    /\ status \in {"active", "panicked"}
    /\ status' = "closed"
    /\ node' = NONE
    /\ unbalanced' = FALSE
    /\ buckets' = [j \in Keys |-> NONE]
    /\ Call("rollback", NONE, NONE, "ok")
    /\ UNCHANGED <<page, sequence>>

\* TxRwImpl::new: a fresh transaction over the last committed snapshot.
\* Since no commit succeeds, that snapshot is the one the run began with.
begin_rw ==
    /\ status = "closed"
    /\ status' = "active"
    /\ sequence' = 0
    /\ Call("begin_rw", NONE, NONE, "ok")
    /\ UNCHANGED <<page, node, unbalanced, buckets>>

-----------------------------------------------------------------------------

Init ==
    /\ page \in DiskLeaf
    /\ node = NONE
    /\ unbalanced = FALSE
    /\ buckets = [j \in Keys |-> NONE]
    /\ sequence = 0
    /\ status = "closed"
    /\ last = [op |-> "none", key |-> NONE, val |-> NONE, out |-> NONE]

Next ==
    \/ \E k \in KeyInputs :
          \/ api_get(k)
          \/ api_delete(k)
          \/ api_create_bucket(k)
          \/ api_create_bucket_if_not_exists(k)
          \/ api_delete_bucket(k)
          \/ api_bucket(k)
    \/ \E k \in KeyInputs \cup {BigKey}, v \in Vals \cup {BigVal} : api_put(k, v)
    \/ \E v \in 0..MaxSeq : api_set_sequence(v)
    \/ api_next_sequence
    \/ api_commit
    \/ rollback
    \/ begin_rw

Spec == Init /\ [][Next]_vars

-----------------------------------------------------------------------------
(* Properties.                                                             *)

OpNames == {"none", "get", "put", "delete", "create_bucket",
            "create_bucket_if_not_exists", "delete_bucket", "bucket",
            "set_sequence", "next_sequence", "commit", "rollback", "begin_rw"}

\* Every variable holds a value of its type.
TypeOK ==
    /\ page \in DiskLeaf
    /\ node \in Leaf \cup {NONE}
    /\ unbalanced \in BOOLEAN
    /\ buckets \in [Keys -> BucketVals \cup {NONE}]
    /\ sequence \in 0..MaxSeq
    /\ status \in {"active", "panicked", "closed"}
    /\ last.op \in OpNames

\* The sub-bucket cache of api_bucket never goes stale: a name it holds is,
\* in the leaf the transaction reads, a bucket entry whose header is the
\* cached child.  Broken if any write path (put, delete, create_bucket,
\* delete_bucket) changes a cached name's entry without evicting it.
CacheCoherent ==
    \A k \in Keys :
        buckets[k] # NONE =>
            /\ page_node[k] # ABSENT
            /\ IsBucket(page_node[k])
            /\ page_node[k].value = buckets[k]

\* Within a transaction, a key never changes between a plain value and a
\* sub-bucket while it is present: put refuses bucket keys and
\* create_bucket refuses existing keys (the IncompatibleValue and
\* BucketExists checks of bucket.rs).  Rollback discards the node and is
\* exempt.
KindStable ==
    [][\A k \in Keys :
          (page_node[k] # ABSENT /\ page_node'[k] # ABSENT /\ status' # "closed")
             => page_node'[k].flags = page_node[k].flags]_vars

\* In a live transaction a key disappears from what the bucket reads only
\* through a successful delete or delete_bucket of that very key; seek
\* lands on the next key on a miss, and nothing may be removed there.
OnlyDeleteRemoves ==
    [][\A k \in Keys :
          (page_node[k] # ABSENT /\ page_node'[k] = ABSENT /\ status' = "active")
             => /\ last'.op \in {"delete", "delete_bucket"}
                /\ last'.key = k
                /\ last'.out = "ok"]_vars

(* Statements of the spec that the code does not meet (violation runs).   *)

\* spec 4.E / 8.5: a successful put(k, v) stores v under k.
PutStoresValue ==
    [][(last'.op = "put" /\ last'.out = "ok")
          => page_node'[last'.key].value = last'.val]_vars

\* spec 4.E: put of a valid key that is not there inserts it.
PutInsertsNewKey ==
    [][(/\ last'.op = "put" /\ last'.key \in Keys /\ last'.val \in Vals
        /\ page_node[last'.key] = ABSENT)
          => last'.out = "ok"]_vars

\* spec 8 S6: delete_bucket of a sub-bucket succeeds and removes the key.
DeleteBucketRemoves ==
    [][(/\ last'.op = "delete_bucket" /\ last'.key \in Keys
        /\ page_node[last'.key] # ABSENT /\ IsBucket(page_node[last'.key]))
          => last'.out = "ok"]_vars

\* spec 4.E: bucket(name) returns the child or none, also for a child
\* stored inline in its parent.
BucketOpensInlineChild ==
    [][last'.op = "bucket" => last'.out # "panic"]_vars

=============================================================================
