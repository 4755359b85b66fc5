---------------------------- MODULE BucketProofs ----------------------------
(***************************************************************************)
(* Proofs, for every value of the constants, of the type invariant of      *)
(* Bucket and of the coherence of the sub-bucket cache of                  *)
(* BucketImpl::api_bucket (src/src/bucket.rs).                             *)
(***************************************************************************)
EXTENDS Bucket, WellFoundedInduction, TLAPS

-----------------------------------------------------------------------------
(* The cursor seek.                                                        *)

\* A seek that finds something lands on a present key.  The least element
\* of the candidates exists because < is well-founded on Nat.
LEMMA SeekFound ==
    ASSUME NEW m, NEW k, i_seek(m, k) # NONE
    PROVE  /\ i_seek(m, k) \in Keys
           /\ m[i_seek(m, k)] # ABSENT
<1> DEFINE ge == {j \in Keys : m[j] # ABSENT /\ j >= k}
<1>1. ge # {}
  BY DEF i_seek
<1>2. \E x \in ge : \A y \in ge : ~(<<y, x>> \in OpToRel(<, Nat))
  <2>1. ge \subseteq Nat
    BY BucketAssumption
  <2>. QED  BY <1>1, <2>1, NatLessThanWellFounded, WFMin
<1>3. \E x \in ge : \A y \in ge : x <= y
  <2>1. PICK x \in ge : \A y \in ge : ~(<<y, x>> \in OpToRel(<, Nat))
    BY <1>2
  <2>2. \A y \in ge : x <= y
    <3> SUFFICES ASSUME NEW y \in ge PROVE x <= y
      OBVIOUS
    <3>1. x \in Nat /\ y \in Nat
      BY BucketAssumption
    <3>2. ~(<<y, x>> \in OpToRel(<, Nat))
      BY <2>1
    <3>. QED  BY <3>1, <3>2 DEF OpToRel
  <2>. QED  BY <2>2
<1>4. i_seek(m, k) \in ge
  BY <1>1, <1>3 DEF i_seek
<1>. QED  BY <1>4

\* Seeking a present key lands on it: the least candidate is the key.
LEMMA SeekHit ==
    ASSUME NEW m, NEW k \in Keys, m[k] # ABSENT
    PROVE  i_seek(m, k) = k
<1> DEFINE ge == {j \in Keys : m[j] # ABSENT /\ j >= k}
<1>1. k \in ge /\ \A i \in ge : k <= i
  BY BucketAssumption
<1>2. \A c \in ge : (\A i \in ge : c <= i) => c = k
  BY <1>1, BucketAssumption
<1>. QED  BY <1>1, <1>2 DEF i_seek
-----------------------------------------------------------------------------
(* The lookup of api_bucket.                                               *)

\* api_bucket changes its cache at most at the name it looks up, and only
\* to the header of the present bucket entry of that name.
LEMMA BucketResCache ==
    ASSUME NEW cache \in [Keys -> BucketVals \cup {NONE}], NEW m \in Leaf,
           NEW name
    PROVE  LET r == api_bucket_res(cache, m, name) IN
           /\ r.cache \in [Keys -> BucketVals \cup {NONE}]
           /\ \A j \in Keys : r.cache[j] # cache[j] =>
                 /\ j = name
                 /\ m[j] # ABSENT
                 /\ IsBucket(m[j])
                 /\ r.cache[j] = m[j].value
<1> DEFINE s == i_seek(m, name)
<1>1. CASE name \in Keys /\ cache[name] # NONE
  BY <1>1 DEF api_bucket_res
<1>2. CASE ~(name \in Keys /\ cache[name] # NONE)
           /\ (s = NONE \/ s # name \/ ~IsBucket(m[s]))
  BY <1>2 DEF api_bucket_res
<1>3. CASE ~(name \in Keys /\ cache[name] # NONE)
           /\ ~(s = NONE \/ s # name \/ ~IsBucket(m[s]))
           /\ ~open_ok(m[s].value)
  BY <1>3 DEF api_bucket_res
<1>4. CASE ~(name \in Keys /\ cache[name] # NONE)
           /\ ~(s = NONE \/ s # name \/ ~IsBucket(m[s]))
           /\ open_ok(m[s].value)
  <2>1. s \in Keys /\ m[s] # ABSENT
    BY <1>4, SeekFound
  <2>2. api_bucket_res(cache, m, name).cache = [cache EXCEPT ![name] = m[s].value]
    BY <1>4 DEF api_bucket_res
  <2>3. m[s].value \in BucketVals  BY <1>4, BucketAssumption DEF open_ok, BucketVals
  <2>. QED  BY <1>4, <2>1, <2>2, <2>3
<1>. QED  BY <1>1, <1>2, <1>3, <1>4
-----------------------------------------------------------------------------
(* The node operations.                                                    *)

\* A committed leaf is a leaf.
LEMMA DiskLeafIsLeaf == DiskLeaf \subseteq Leaf
BY DEF DiskLeaf, DiskEntry, Leaf, Entry, StoredVals, BUCKET_LEAF_FLAG

\* What the bucket reads, and the node it materialises, are leaves.
LEMMA ViewIsLeaf ==
    ASSUME TypeOK
    PROVE  page_node \in Leaf /\ materialized \in Leaf /\ materialized = page_node
BY DiskLeafIsLeaf DEF TypeOK, page_node, materialized

\* NodeMut::put of a key under itself yields a leaf that differs from the
\* old one at that key only.
LEMMA NodePut ==
    ASSUME NEW n \in Leaf, NEW k \in Keys, NEW v, NEW f \in {0, BUCKET_LEAF_FLAG}
    PROVE  /\ node_put(n, k, k, v, f) \in Leaf
           /\ node_put(n, k, k, v, f)[k] = [flags |-> f, value |-> k]
           /\ \A j \in Keys \ {k} : node_put(n, k, k, v, f)[j] = n[j]
BY DEF node_put, Leaf, Entry, StoredVals

\* NodeMut::del yields a leaf that differs from the old one at that key only.
LEMMA NodeDel ==
    ASSUME NEW n \in Leaf, NEW k \in Keys
    PROVE  /\ node_del(n, k) \in Leaf
           /\ node_del(n, k)[k] = ABSENT
           /\ \A j \in Keys \ {k} : node_del(n, k)[j] = n[j]
BY DEF node_del, Leaf

\* Once a node is materialised, it is what the bucket reads.
LEMMA NodeIsView ==
    ASSUME NEW n \in Leaf, node' = n
    PROVE  page_node' = n
BY NoneNotLeaf DEF page_node

-----------------------------------------------------------------------------
(* Type correctness.                                                       *)

\* The recorded call of every action is one of the operations.
LEMMA TypeGet ==
    ASSUME TypeOK, NEW k \in KeyInputs, api_get(k) PROVE TypeOK'
BY DEF api_get, TypeOK, Panic, Call, OpNames

LEMMA TypePut ==
    ASSUME TypeOK, NEW k \in KeyInputs \cup {BigKey}, NEW v \in Vals \cup {BigVal},
           api_put(k, v)
    PROVE  TypeOK'
<1>1. materialized \in Leaf
  BY ViewIsLeaf
<1>2. k \in Keys => node_put(materialized, k, k, v, 0) \in Leaf
  BY <1>1, NodePut, BUCKET_LEAF_FLAG # 0 DEF BUCKET_LEAF_FLAG
<1>. QED  BY <1>2 DEF api_put, TypeOK, Fail, Panic, Call, OpNames

LEMMA TypeDelete ==
    ASSUME TypeOK, NEW k \in KeyInputs, api_delete(k) PROVE TypeOK'
<1> DEFINE s == i_seek(page_node, k)
<1>1. CASE s = k /\ ~IsBucket(page_node[s])
  <2>1. k \in Keys
    BY <1>1, SeekFound, BucketAssumption DEF KeyInputs, EmptyKey
  <2>2. node' = node_del(materialized, k) /\ last'.op = "delete"
        /\ UNCHANGED <<page, buckets, sequence, status>> /\ unbalanced' = TRUE
    BY <1>1, <2>1, BucketAssumption DEF api_delete, Call
  <2>3. node_del(materialized, k) \in Leaf
    BY <2>1, ViewIsLeaf, NodeDel
  <2>. QED  BY <2>2, <2>3 DEF TypeOK, OpNames
<1>2. CASE ~(s = k /\ ~IsBucket(page_node[s]))
  <2>1. UNCHANGED <<page, node, unbalanced, buckets, sequence>>
        /\ status' \in {"active", "panicked"} /\ last'.op = "delete"
    BY <1>2 DEF api_delete, Fail, Panic, Call, Active
  <2>. QED  BY <2>1 DEF TypeOK, OpNames
<1>. QED  BY <1>1, <1>2

LEMMA TypeCreate ==
    ASSUME TypeOK, NEW k \in KeyInputs,
           NEW op \in {"create_bucket", "create_bucket_if_not_exists"},
           CreateBucket(op, k)
    PROVE  TypeOK'
<1> DEFINE n == node_put(materialized, k, k, NONE, BUCKET_LEAF_FLAG)
           r == api_bucket_res(buckets, n, k)
<1>1. CASE k \in Keys /\ i_seek(page_node, k) # k
  <2>1. n \in Leaf
    BY <1>1, ViewIsLeaf, NodePut
  <2>2. r.cache \in [Keys -> BucketVals \cup {NONE}]
    BY <2>1, BucketResCache DEF TypeOK
  <2>3. /\ node' = n /\ buckets' = r.cache
        /\ UNCHANGED <<page, unbalanced, sequence>>
        /\ status' \in {"active", "panicked", "closed"} /\ last'.op = op
    BY <1>1, BucketAssumption DEF CreateBucket, Panic, Call, TypeOK, EmptyKey
  <2>. QED  BY <2>1, <2>2, <2>3 DEF TypeOK, OpNames
<1>2. CASE ~(k \in Keys /\ i_seek(page_node, k) # k)
  <2>1. UNCHANGED <<page, node, unbalanced, buckets, sequence, status>>
        /\ last'.op = op
    BY <1>2 DEF CreateBucket, Fail, Call
  <2>. QED  BY <2>1 DEF TypeOK, OpNames
<1>. QED  BY <1>1, <1>2

LEMMA TypeCreateIfNotExists ==
    ASSUME TypeOK, NEW k \in KeyInputs, api_create_bucket_if_not_exists(k)
    PROVE  TypeOK'
<1> DEFINE s == i_seek(page_node, k)
           r == api_bucket_res(buckets, page_node, k)
<1>1. CASE ~(k \in Keys /\ s = k /\ IsBucket(page_node[s]))
  BY <1>1, TypeCreate DEF api_create_bucket_if_not_exists
<1>2. CASE k \in Keys /\ s = k /\ IsBucket(page_node[s])
  <2>1. r.cache \in [Keys -> BucketVals \cup {NONE}]
    BY ViewIsLeaf, BucketResCache DEF TypeOK
  <2>2. /\ buckets' = r.cache
        /\ UNCHANGED <<page, node, unbalanced, sequence>>
        /\ status' \in {"active", "panicked"}
        /\ last'.op = "create_bucket_if_not_exists"
    BY <1>2 DEF api_create_bucket_if_not_exists, Panic, Call, Active
  <2>. QED  BY <2>1, <2>2 DEF TypeOK, OpNames
<1>. QED  BY <1>1, <1>2

LEMMA TypeDeleteBucket ==
    ASSUME TypeOK, NEW k \in KeyInputs, api_delete_bucket(k) PROVE TypeOK'
<1> DEFINE s == i_seek(page_node, k)
           r == api_bucket_res(buckets, page_node, k)
<1>1. CASE s = k /\ ~IsBucket(page_node[s]) /\ ~(r.panic \/ r.res = NONE)
  <2>1. k \in Keys
    BY <1>1, SeekFound, BucketAssumption DEF KeyInputs, EmptyKey
  <2>2. r.cache \in [Keys -> BucketVals \cup {NONE}]
    BY ViewIsLeaf, BucketResCache DEF TypeOK
  <2>3. node_del(materialized, k) \in Leaf
    BY <2>1, ViewIsLeaf, NodeDel
  <2>4. /\ buckets' = [r.cache EXCEPT ![k] = NONE]
        /\ node' = node_del(materialized, k)
        /\ UNCHANGED <<page, sequence, status>>
        /\ unbalanced' = TRUE /\ last'.op = "delete_bucket"
    BY <1>1, <2>1, BucketAssumption DEF api_delete_bucket, Call
  <2>. QED  BY <2>2, <2>3, <2>4 DEF TypeOK, OpNames
<1>2. CASE ~(s = k /\ ~IsBucket(page_node[s]) /\ ~(r.panic \/ r.res = NONE))
  <2>1. /\ UNCHANGED <<page, node, unbalanced, buckets, sequence>>
        /\ status' \in {"active", "panicked"} /\ last'.op = "delete_bucket"
    BY <1>2 DEF api_delete_bucket, Fail, Panic, Call, Active
  <2>. QED  BY <2>1 DEF TypeOK, OpNames
<1>. QED  BY <1>1, <1>2

LEMMA TypeBucket ==
    ASSUME TypeOK, NEW k \in KeyInputs, api_bucket(k) PROVE TypeOK'
<1> DEFINE r == api_bucket_res(buckets, page_node, k)
<1>1. r.cache \in [Keys -> BucketVals \cup {NONE}]
  BY ViewIsLeaf, BucketResCache DEF TypeOK
<1>2. /\ buckets' = r.cache
      /\ UNCHANGED <<page, node, unbalanced, sequence>>
      /\ status' \in {"active", "panicked"} /\ last'.op = "bucket"
  BY DEF api_bucket, Panic, Call, Active
<1>. QED  BY <1>1, <1>2 DEF TypeOK, OpNames

\* The sequence, commit and lifecycle steps.
LEMMA TypeOthers ==
    ASSUME TypeOK,
           \/ \E v \in 0..MaxSeq : api_set_sequence(v)
           \/ api_next_sequence \/ api_commit \/ rollback \/ begin_rw
    PROVE  TypeOK'
<1>1. materialized \in Leaf
  BY ViewIsLeaf
<1>2. CASE \E v \in 0..MaxSeq : api_set_sequence(v)
  BY <1>1, <1>2, BucketAssumption DEF api_set_sequence, TypeOK, Call, OpNames
<1>3. CASE api_next_sequence
  BY <1>1, <1>3, BucketAssumption DEF api_next_sequence, TypeOK, Call, OpNames
<1>4. CASE api_commit
  BY <1>4 DEF api_commit, TypeOK, Panic, Call, OpNames
<1>5. CASE rollback
  BY <1>5, BucketAssumption DEF rollback, TypeOK, Call, OpNames
<1>6. CASE begin_rw
  BY <1>6, BucketAssumption DEF begin_rw, TypeOK, Call, OpNames
<1>. QED  BY <1>2, <1>3, <1>4, <1>5, <1>6
\* Every step of the bucket keeps every variable in its type.
LEMMA TypeNext == TypeOK /\ [Next]_vars => TypeOK'
<1> SUFFICES ASSUME TypeOK, [Next]_vars PROVE TypeOK'
  OBVIOUS
<1>1. ASSUME NEW k \in KeyInputs,
             \/ api_get(k) \/ api_delete(k) \/ api_create_bucket(k)
             \/ api_create_bucket_if_not_exists(k) \/ api_delete_bucket(k)
             \/ api_bucket(k)
      PROVE  TypeOK'
  BY <1>1, TypeGet, TypeDelete, TypeCreate, TypeCreateIfNotExists,
     TypeDeleteBucket, TypeBucket DEF api_create_bucket
<1>2. ASSUME NEW k \in KeyInputs \cup {BigKey}, NEW v \in Vals \cup {BigVal},
             api_put(k, v)
      PROVE  TypeOK'
  BY <1>2, TypePut
<1>3. CASE UNCHANGED vars
  BY <1>3 DEF vars, TypeOK
<1>. QED  BY <1>1, <1>2, <1>3, TypeOthers DEF Next

\* The initial states are typed: any committed leaf, nothing materialised.
LEMMA TypeInit == Init => TypeOK
<1> SUFFICES ASSUME Init PROVE TypeOK
  OBVIOUS
<1>1. page \in DiskLeaf /\ node \in Leaf \cup {NONE} /\ unbalanced \in BOOLEAN
  BY DEF Init
<1>2. buckets \in [Keys -> BucketVals \cup {NONE}]
  BY DEF Init
<1>3. sequence \in 0..MaxSeq
  BY BucketAssumption DEF Init
<1>4. status \in {"active", "panicked", "closed"} /\ last.op \in OpNames
  BY DEF Init, OpNames
<1>. QED  BY <1>1, <1>2, <1>3, <1>4 DEF TypeOK

\* Type correctness of the writer transaction on one bucket: in particular
\* BucketImpl::api_bucket caches only what an entry with BUCKET_LEAF_FLAG
\* holds, a child's header or, after create_bucket of a 16-byte name, the
\* name that NodeMut::put stored as the value and open_bucket decoded.
THEOREM TypeCorrect == Spec => []TypeOK
BY TypeInit, TypeNext, PTL DEF Spec
-----------------------------------------------------------------------------
(* Coherence of the sub-bucket cache.                                      *)

\* A step keeps the cache coherent when every name cached afterwards either
\* kept its entry and its cached child, or is cached with the header of the
\* bucket entry it now has.
LEMMA CohStep ==
    ASSUME CacheCoherent, NEW n, page_node' = n, NEW c, buckets' = c,
           \A j \in Keys : c[j] # NONE =>
              \/ c[j] = buckets[j] /\ n[j] = page_node[j]
              \/ n[j] # ABSENT /\ IsBucket(n[j]) /\ n[j].value = c[j]
    PROVE  CacheCoherent'
BY DEF CacheCoherent

\* Materialising the node leaves what the bucket reads unchanged.
LEMMA MaterializeKeepsView ==
    ASSUME TypeOK, node' = materialized, page' = page
    PROVE  page_node' = page_node
BY DiskLeafIsLeaf, NoneNotLeaf DEF TypeOK, page_node, materialized

\* A cached name is a present bucket entry, and seeking it lands on it.
LEMMA CachedIsBucket ==
    ASSUME TypeOK, CacheCoherent, NEW j \in Keys, buckets[j] # NONE
    PROVE  /\ page_node[j] # ABSENT /\ IsBucket(page_node[j])
           /\ i_seek(page_node, j) = j
BY SeekHit DEF CacheCoherent

\* put and delete change a plain entry only, which no cached name has.
LEMMA CohPutDelete ==
    ASSUME TypeOK, CacheCoherent, NEW k \in Keys,
           i_seek(page_node, k) = k, ~IsBucket(page_node[k]),
           NEW v, \/ node' = node_put(materialized, k, k, v, 0)
                  \/ node' = node_del(materialized, k),
           UNCHANGED buckets
    PROVE  CacheCoherent'
<1> DEFINE n == node'
<1>1. n \in Leaf /\ \A j \in Keys \ {k} : n[j] = page_node[j]
  <2>1. materialized \in Leaf /\ materialized = page_node
    BY ViewIsLeaf
  <2>2. 0 \in {0, BUCKET_LEAF_FLAG}
    OBVIOUS
  <2>3. CASE node' = node_put(materialized, k, k, v, 0)
    <3>1. /\ node_put(materialized, k, k, v, 0) \in Leaf
          /\ \A j \in Keys \ {k} : node_put(materialized, k, k, v, 0)[j] = materialized[j]
      BY <2>1 DEF node_put, Leaf, Entry, StoredVals
    <3>. QED  BY <3>1, <2>1, <2>3
  <2>4. CASE node' = node_del(materialized, k)
    <3>1. /\ node_del(materialized, k) \in Leaf
          /\ \A j \in Keys \ {k} : node_del(materialized, k)[j] = materialized[j]
      BY <2>1, NodeDel
    <3>. QED  BY <3>1, <2>1, <2>4
  <2>. QED  BY <2>3, <2>4
<1>2. page_node' = n
  BY <1>1, NodeIsView
<1>3. buckets[k] = NONE
  BY CachedIsBucket
<1>. QED  BY <1>1, <1>2, <1>3, CohStep
\* api_bucket over a leaf m that the bucket reads afterwards: the cache
\* changes only where m has the cached bucket entry.
LEMMA CohLookup ==
    ASSUME TypeOK, CacheCoherent, NEW m \in Leaf, NEW name, page_node' = m,
           buckets' = api_bucket_res(buckets, m, name).cache,
           \A j \in Keys : buckets[j] # NONE => m[j] = page_node[j]
    PROVE  CacheCoherent'
<1> DEFINE c == api_bucket_res(buckets, m, name).cache
<1>1. \A j \in Keys : c[j] # buckets[j] =>
         m[j] # ABSENT /\ IsBucket(m[j]) /\ c[j] = m[j].value
  BY BucketResCache DEF TypeOK
<1>. QED  BY <1>1, CohStep

\* create_bucket: the new key was not present, hence not cached, and is
\* looked up afterwards in the new node.
LEMMA CohCreate ==
    ASSUME TypeOK, CacheCoherent, NEW k \in KeyInputs, NEW op, CreateBucket(op, k)
    PROVE  CacheCoherent'
<1> DEFINE n == node_put(materialized, k, k, NONE, BUCKET_LEAF_FLAG)
<1>1. CASE k \in Keys /\ i_seek(page_node, k) # k
  <2>1. n \in Leaf /\ \A j \in Keys \ {k} : n[j] = page_node[j]
    <3>1. materialized \in Leaf /\ materialized = page_node
      BY ViewIsLeaf
    <3>. QED  BY <1>1, <3>1 DEF node_put, Leaf, Entry, StoredVals, BUCKET_LEAF_FLAG
  <2>2. node' = n /\ buckets' = api_bucket_res(buckets, n, k).cache
    BY <1>1, BucketAssumption DEF CreateBucket, EmptyKey
  <2>3. page_node' = n
    BY <2>1, <2>2, NodeIsView
  <2>4. buckets[k] = NONE
    BY <1>1, CachedIsBucket
  <2>. QED  BY <2>1, <2>2, <2>3, <2>4, CohLookup
<1>2. CASE ~(k \in Keys /\ i_seek(page_node, k) # k)
  <2>1. UNCHANGED <<page, node, buckets>>
    BY <1>2 DEF CreateBucket, Fail
  <2>2. page_node' = page_node
    BY <2>1 DEF page_node
  <2>. QED  BY <2>1, <2>2, CohStep
<1>. QED  BY <1>1, <1>2

\* api_bucket and the lookup of create_bucket_if_not_exists read the leaf
\* as it is.
LEMMA CohBucket ==
    ASSUME TypeOK, CacheCoherent, NEW k \in KeyInputs,
           \/ api_bucket(k)
           \/ api_create_bucket_if_not_exists(k)
    PROVE  CacheCoherent'
<1>1. page_node \in Leaf
  BY ViewIsLeaf
<1>2. CASE api_bucket(k)
  <2>1. UNCHANGED <<page, node>> /\ buckets' = api_bucket_res(buckets, page_node, k).cache
    BY <1>2 DEF api_bucket
  <2>. QED  BY <1>1, <2>1, CohLookup DEF page_node
<1>3. CASE api_create_bucket_if_not_exists(k)
  <2> DEFINE s == i_seek(page_node, k)
  <2>1. CASE ~(k \in Keys /\ s = k /\ IsBucket(page_node[s]))
    BY <1>3, <2>1, CohCreate DEF api_create_bucket_if_not_exists
  <2>2. CASE k \in Keys /\ s = k /\ IsBucket(page_node[s])
    <3>1. UNCHANGED <<page, node>> /\ buckets' = api_bucket_res(buckets, page_node, k).cache
      BY <1>3, <2>2 DEF api_create_bucket_if_not_exists
    <3>. QED  BY <1>1, <3>1, CohLookup DEF page_node
  <2>. QED  BY <2>1, <2>2
<1>. QED  BY <1>2, <1>3
\* delete_bucket evicts the name it deletes and touches no other.
LEMMA CohDeleteBucket ==
    ASSUME TypeOK, CacheCoherent, NEW k \in KeyInputs, api_delete_bucket(k)
    PROVE  CacheCoherent'
<1> DEFINE s == i_seek(page_node, k)
           r == api_bucket_res(buckets, page_node, k)
           n == node_del(materialized, k)
<1>1. CASE s = k /\ ~IsBucket(page_node[s]) /\ ~(r.panic \/ r.res = NONE)
  <2>1. k \in Keys
    BY <1>1, SeekFound, BucketAssumption DEF KeyInputs, EmptyKey
  <2>2. buckets' = [r.cache EXCEPT ![k] = NONE] /\ node' = n
    BY <1>1, <2>1, BucketAssumption DEF api_delete_bucket
  <2>3. n \in Leaf /\ \A j \in Keys \ {k} : n[j] = page_node[j]
    <3>1. materialized \in Leaf /\ materialized = page_node
      BY ViewIsLeaf
    <3>. QED  BY <2>1, <3>1 DEF node_del, Leaf
  <2>4. page_node' = n
    BY <2>2, <2>3, NodeIsView
  <2>5. \A j \in Keys \ {k} : r.cache[j] = buckets[j]
    BY ViewIsLeaf, BucketResCache DEF TypeOK
  <2>6. r.cache \in [Keys -> BucketVals \cup {NONE}]
    BY ViewIsLeaf, BucketResCache DEF TypeOK
  <2>. QED  BY <2>2, <2>3, <2>4, <2>5, <2>6, CohStep
<1>2. CASE ~(s = k /\ ~IsBucket(page_node[s]) /\ ~(r.panic \/ r.res = NONE))
  <2>1. UNCHANGED <<page, node, buckets>>
    BY <1>2 DEF api_delete_bucket, Fail, Panic
  <2>2. page_node' = page_node
    BY <2>1 DEF page_node
  <2>. QED  BY <2>1, <2>2, CohStep
<1>. QED  BY <1>1, <1>2

\* put and delete.
LEMMA CohPutOrDelete ==
    ASSUME TypeOK, CacheCoherent,
           \/ \E k \in KeyInputs \cup {BigKey}, v \in Vals \cup {BigVal} : api_put(k, v)
           \/ \E k \in KeyInputs : api_delete(k)
    PROVE  CacheCoherent'
<1>1. ASSUME NEW k \in KeyInputs \cup {BigKey}, NEW v \in Vals \cup {BigVal}, api_put(k, v)
      PROVE  CacheCoherent'
  <2> DEFINE s == i_seek(page_node, k)
  <2>1. CASE k \in Keys /\ v \in Vals /\ s = k /\ ~IsBucket(page_node[s])
    <3>1. node' = node_put(materialized, k, k, v, 0) /\ UNCHANGED buckets
      BY <1>1, <2>1, BucketAssumption DEF api_put, EmptyKey, Fail, Panic
    <3>. QED  BY <2>1, <3>1, CohPutDelete
  <2>2. CASE ~(k \in Keys /\ v \in Vals /\ s = k /\ ~IsBucket(page_node[s]))
    <3>1. UNCHANGED <<page, node, buckets>>
      BY <1>1, <2>2 DEF api_put, Fail, Panic
    <3>. QED  BY <3>1, CohStep DEF page_node
  <2>. QED  BY <2>1, <2>2
<1>2. ASSUME NEW k \in KeyInputs, api_delete(k)
      PROVE  CacheCoherent'
  <2> DEFINE s == i_seek(page_node, k)
  <2>1. CASE s = k /\ ~IsBucket(page_node[s])
    <3>1. k \in Keys
      BY <2>1, SeekFound, BucketAssumption DEF KeyInputs, EmptyKey
    <3>2. node' = node_del(materialized, k) /\ UNCHANGED buckets
      BY <1>2, <2>1, <3>1, BucketAssumption DEF api_delete
    <3>. QED  BY <2>1, <3>1, <3>2, CohPutDelete
  <2>2. CASE ~(s = k /\ ~IsBucket(page_node[s]))
    <3>1. UNCHANGED <<page, node, buckets>>
      BY <1>2, <2>2 DEF api_delete, Fail, Panic
    <3>. QED  BY <3>1, CohStep DEF page_node
  <2>. QED  BY <2>1, <2>2
<1>. QED  BY <1>1, <1>2
\* get, the sequence calls, commit and the lifecycle steps.
LEMMA CohOthers ==
    ASSUME TypeOK, CacheCoherent,
           \/ \E k \in KeyInputs : api_get(k)
           \/ \E v \in 0..MaxSeq : api_set_sequence(v)
           \/ api_next_sequence \/ api_commit \/ rollback \/ begin_rw
    PROVE  CacheCoherent'
<1>1. CASE \E k \in KeyInputs : api_get(k)
  BY <1>1, CohStep DEF api_get, Panic, page_node
<1>2. CASE \/ \E v \in 0..MaxSeq : api_set_sequence(v)
           \/ api_next_sequence
  <2>1. node' = materialized /\ UNCHANGED <<page, buckets>>
    BY <1>2 DEF api_set_sequence, api_next_sequence
  <2>2. page_node' = page_node
    BY <2>1, MaterializeKeepsView
  <2>. QED  BY <2>1, <2>2, CohStep
<1>3. CASE api_commit \/ begin_rw
  BY <1>3, CohStep DEF api_commit, begin_rw, Panic, page_node
<1>4. CASE rollback
  BY <1>4 DEF rollback, CacheCoherent
<1>. QED  BY <1>1, <1>2, <1>3, <1>4

\* Every step of the bucket keeps the sub-bucket cache coherent.
LEMMA CohNext == TypeOK /\ CacheCoherent /\ [Next]_vars => CacheCoherent'
<1> SUFFICES ASSUME TypeOK, CacheCoherent, [Next]_vars PROVE CacheCoherent'
  OBVIOUS
<1>1. ASSUME NEW k \in KeyInputs,
             \/ api_create_bucket(k) \/ api_create_bucket_if_not_exists(k)
             \/ api_delete_bucket(k) \/ api_bucket(k)
      PROVE  CacheCoherent'
  BY <1>1, CohCreate, CohBucket, CohDeleteBucket DEF api_create_bucket
<1>2. CASE UNCHANGED vars
  BY <1>2 DEF vars, CacheCoherent, page_node
<1>. QED  BY <1>1, <1>2, CohPutOrDelete, CohOthers DEF Next

\* Nothing is cached when a transaction starts.
LEMMA CohInit == Init => CacheCoherent
BY DEF Init, CacheCoherent

\* The sub-bucket cache of BucketImpl::api_bucket is coherent with the leaf
\* in every reachable state: the inductive invariant is TypeOK /\
\* CacheCoherent, TypeOK being needed to know that what the bucket reads
\* is a leaf whose cached entries a seek finds.
THEOREM CacheCoherence == Spec => []CacheCoherent
<1>1. Init => TypeOK /\ CacheCoherent
  BY TypeInit, CohInit
<1>2. TypeOK /\ CacheCoherent /\ [Next]_vars => (TypeOK /\ CacheCoherent)'
  BY TypeNext, CohNext
<1>. QED  BY <1>1, <1>2, PTL DEF Spec
-----------------------------------------------------------------------------
(* How a step changes what the bucket reads.                               *)

\* A step leaves the leaf the bucket reads unchanged, ends the
\* transaction, puts one key whose old entry (if any) has the flag it is
\* put with, or is a successful delete or delete_bucket of one key.
ViewStep ==
    \/ page_node' = page_node
    \/ status' = "closed"
    \/ \E k \in Keys, v \in StoredVals \cup {NONE}, f \in {0, BUCKET_LEAF_FLAG} :
          /\ page_node[k] = ABSENT \/ page_node[k].flags = f
          /\ page_node' = node_put(page_node, k, k, v, f)
    \/ \E k \in Keys :
          /\ page_node' = node_del(page_node, k)
          /\ last'.op \in {"delete", "delete_bucket"}
          /\ last'.key = k /\ last'.out = "ok"

\* A step that changes neither the page nor the node reads the same leaf.
LEMMA SameView ==
    ASSUME UNCHANGED <<page, node>> PROVE ViewStep
BY DEF ViewStep, page_node

\* api_put overwrites a plain entry with a plain entry.
LEMMA ViewPut ==
    ASSUME TypeOK, NEW k \in KeyInputs \cup {BigKey}, NEW v \in Vals \cup {BigVal},
           api_put(k, v)
    PROVE  ViewStep
<1> DEFINE s == i_seek(page_node, k)
<1>1. CASE k \in Keys /\ v \in Vals /\ s = k /\ ~IsBucket(page_node[s])
  <2>1. node' = node_put(materialized, k, k, v, 0)
    BY <1>1, BucketAssumption DEF api_put, EmptyKey, Fail, Panic
  <2>2. page_node \in Leaf /\ materialized = page_node
    BY ViewIsLeaf
  <2>3. page_node' = node_put(page_node, k, k, v, 0)
    BY <1>1, <2>1, <2>2, NodePut, NodeIsView
  <2>4. page_node[k] # ABSENT
    BY <1>1, SeekFound, BucketAssumption
  <2>5. page_node[k].flags = 0
    BY <1>1, <2>2, <2>4 DEF Leaf, Entry, IsBucket
  <2>. QED  BY <1>1, <2>3, <2>5 DEF ViewStep, StoredVals
<1>2. CASE ~(k \in Keys /\ v \in Vals /\ s = k /\ ~IsBucket(page_node[s]))
  BY <1>2, SameView DEF api_put, Fail, Panic
<1>. QED  BY <1>1, <1>2

\* create_bucket puts a bucket entry under a key that was absent.
LEMMA ViewCreate ==
    ASSUME TypeOK, NEW k \in KeyInputs, NEW op, CreateBucket(op, k)
    PROVE  ViewStep
<1>1. CASE k \in Keys /\ i_seek(page_node, k) # k
  <2>1. node' = node_put(materialized, k, k, NONE, BUCKET_LEAF_FLAG)
    BY <1>1, BucketAssumption DEF CreateBucket, EmptyKey
  <2>2. page_node \in Leaf /\ materialized = page_node
    BY ViewIsLeaf
  <2>3. page_node' = node_put(page_node, k, k, NONE, BUCKET_LEAF_FLAG)
    BY <1>1, <2>1, <2>2, NodePut, NodeIsView
  <2>4. page_node[k] = ABSENT
    BY <1>1, SeekHit
  <2>. QED  BY <1>1, <2>3, <2>4 DEF ViewStep
<1>2. CASE ~(k \in Keys /\ i_seek(page_node, k) # k)
  BY <1>2, SameView DEF CreateBucket, Fail
<1>. QED  BY <1>1, <1>2

\* api_delete and api_delete_bucket remove the key they were called with,
\* and say so.
LEMMA ViewDelete ==
    ASSUME TypeOK, NEW k \in KeyInputs, api_delete(k) \/ api_delete_bucket(k)
    PROVE  ViewStep
<1> DEFINE s == i_seek(page_node, k)
           r == api_bucket_res(buckets, page_node, k)
<1>1. page_node \in Leaf /\ materialized = page_node
  BY ViewIsLeaf
<1>2. ASSUME s = k, node' = node_del(materialized, k),
             last'.op \in {"delete", "delete_bucket"}, last'.key = k,
             last'.out = "ok"
      PROVE  ViewStep
  <2>1. k \in Keys
    BY <1>2, SeekFound, BucketAssumption DEF KeyInputs, EmptyKey
  <2>2. page_node' = node_del(page_node, k)
    BY <1>1, <1>2, <2>1, NodeDel, NodeIsView
  <2>. QED  BY <1>2, <2>1, <2>2 DEF ViewStep
<1>3. CASE api_delete(k)
  <2>1. CASE s = k /\ ~IsBucket(page_node[s])
    <3>1. /\ node' = node_del(materialized, k)
          /\ last'.op \in {"delete", "delete_bucket"}
          /\ last'.key = k /\ last'.out = "ok"
      <4>1. k \in Keys
        BY <2>1, SeekFound, BucketAssumption DEF KeyInputs, EmptyKey
      <4>. QED  BY <1>3, <2>1, <4>1, BucketAssumption DEF api_delete, Call
    <3>. QED  BY <2>1, <3>1, <1>2
  <2>2. CASE ~(s = k /\ ~IsBucket(page_node[s]))
    BY <1>3, <2>2, SameView DEF api_delete, Fail, Panic
  <2>. QED  BY <2>1, <2>2
<1>4. CASE api_delete_bucket(k)
  <2>1. CASE s = k /\ ~IsBucket(page_node[s]) /\ ~(r.panic \/ r.res = NONE)
    <3>1. /\ node' = node_del(materialized, k)
          /\ last'.op \in {"delete", "delete_bucket"}
          /\ last'.key = k /\ last'.out = "ok"
      <4>1. k \in Keys
        BY <2>1, SeekFound, BucketAssumption DEF KeyInputs, EmptyKey
      <4>. QED  BY <1>4, <2>1, <4>1, BucketAssumption DEF api_delete_bucket, Call
    <3>. QED  BY <2>1, <3>1, <1>2
  <2>2. CASE ~(s = k /\ ~IsBucket(page_node[s]) /\ ~(r.panic \/ r.res = NONE))
    BY <1>4, <2>2, SameView DEF api_delete_bucket, Fail, Panic
  <2>. QED  BY <2>1, <2>2
<1>. QED  BY <1>3, <1>4

\* Every step of the bucket changes what it reads in one of these ways.
LEMMA ViewNext == TypeOK /\ [Next]_vars => ViewStep
<1> SUFFICES ASSUME TypeOK, [Next]_vars PROVE ViewStep
  OBVIOUS
<1>1. ASSUME NEW k \in KeyInputs, api_get(k) \/ api_bucket(k) PROVE ViewStep
  BY <1>1, SameView DEF api_get, api_bucket, Panic
<1>2. ASSUME NEW k \in KeyInputs,
             api_create_bucket(k) \/ api_create_bucket_if_not_exists(k)
      PROVE  ViewStep
  BY <1>2, ViewCreate, SameView DEF api_create_bucket, api_create_bucket_if_not_exists
<1>3. CASE \/ \E v \in 0..MaxSeq : api_set_sequence(v)
           \/ api_next_sequence
  <2>1. node' = materialized /\ UNCHANGED page
    BY <1>3 DEF api_set_sequence, api_next_sequence
  <2>. QED  BY <2>1, MaterializeKeepsView DEF ViewStep
<1>4. CASE api_commit \/ begin_rw \/ UNCHANGED vars
  BY <1>4, SameView DEF api_commit, begin_rw, Panic, vars
<1>5. CASE rollback
  BY <1>5 DEF rollback, ViewStep
<1>. QED  BY <1>1, <1>2, <1>3, <1>4, <1>5, ViewPut, ViewDelete DEF Next

-----------------------------------------------------------------------------
(* The action properties the bucket_pass run checks.                       *)

\* One step of KindStable.
KindStep ==
    \A k \in Keys :
        (page_node[k] # ABSENT /\ page_node'[k] # ABSENT /\ status' # "closed")
           => page_node'[k].flags = page_node[k].flags

\* One step of OnlyDeleteRemoves.
RemoveStep ==
    \A k \in Keys :
        (page_node[k] # ABSENT /\ page_node'[k] = ABSENT /\ status' = "active")
           => /\ last'.op \in {"delete", "delete_bucket"}
              /\ last'.key = k
              /\ last'.out = "ok"

\* A step of the form ViewStep changes no present key's kind and removes
\* only the key a successful delete names.
LEMMA ViewStepSafe ==
    ASSUME TypeOK, ViewStep PROVE KindStep /\ RemoveStep
<1>1. page_node \in Leaf
  BY ViewIsLeaf
<1>2. CASE page_node' = page_node \/ status' = "closed"
  BY <1>2 DEF KindStep, RemoveStep
<1>3. ASSUME NEW k \in Keys, NEW v, NEW f \in {0, BUCKET_LEAF_FLAG},
             page_node[k] = ABSENT \/ page_node[k].flags = f,
             page_node' = node_put(page_node, k, k, v, f)
      PROVE  KindStep /\ RemoveStep
  <2>1. page_node'[k] = [flags |-> f, value |-> k]
    BY <1>3 DEF node_put
  <2>2. \A j \in Keys \ {k} : page_node'[j] = page_node[j]
    BY <1>3 DEF node_put
  <2>3. page_node'[k] # ABSENT
    BY <2>1, AbsentNotEntry DEF Entry, StoredVals
  <2>4. page_node[k] # ABSENT => page_node'[k].flags = page_node[k].flags
    BY <1>3, <2>1
  <2>. QED  BY <2>2, <2>3, <2>4 DEF KindStep, RemoveStep
<1>4. ASSUME NEW k \in Keys, page_node' = node_del(page_node, k),
             last'.op \in {"delete", "delete_bucket"},
             last'.key = k, last'.out = "ok"
      PROVE  KindStep /\ RemoveStep
  <2>1. page_node'[k] = ABSENT /\ \A j \in Keys \ {k} : page_node'[j] = page_node[j]
    BY <1>1, <1>4, NodeDel
  <2>. QED  BY <1>4, <2>1 DEF KindStep, RemoveStep
<1>. QED  BY <1>2, <1>3, <1>4 DEF ViewStep

\* Within a live transaction a present key never turns from a plain value
\* into a sub-bucket or back: api_put refuses a bucket key with
\* IncompatibleValue and api_create_bucket refuses any existing key, so
\* the only writes to a present key are put's plain-over-plain overwrites.
THEOREM KindStableHolds == Spec => KindStable
<1>1. TypeOK /\ [Next]_vars => [KindStep]_vars
  BY ViewNext, ViewStepSafe
<1>. QED  BY <1>1, TypeCorrect, PTL DEF Spec, KindStable, KindStep

\* In an active transaction a key disappears from what the bucket reads
\* only through a successful api_delete or api_delete_bucket of that very
\* key: a delete whose seek lands on a later key returns without touching
\* it, and no other call removes an inode.
THEOREM OnlyDeleteRemovesHolds == Spec => OnlyDeleteRemoves
<1>1. TypeOK /\ [Next]_vars => [RemoveStep]_vars
  BY ViewNext, ViewStepSafe
<1>. QED  BY <1>1, TypeCorrect, PTL DEF Spec, OnlyDeleteRemoves, RemoveStep

=============================================================================
