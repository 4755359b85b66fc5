# TLA+ models of bbolt-rs

This directory holds TLA+ models of the Rust key/value store in `src/src`:
modules, TLC configurations, and TLAPS proofs. The store follows
etcd-io/bbolt: one file of fixed-size pages, a B+tree per bucket, a
single-writer/many-reader transaction model, and copy-on-write commits.

## The system and its parts

The spec (`spec.md`) names eight parts. Only some of them are in the
sources.

| Part | Source | State in the sources |
|---|---|---|
| A. Page format and flags | `common/page.rs` | header, flag constants and predicates, `mut_into`/`coerce_ref`, `fast_check`, `page_type` |
| B. Node (writable page image) | `node.rs` | `put` and `del` are implemented; `split_two`, `spill` and `rebalance` are `todo!()` |
| C. Cursor | `cursor.rs`, not among the sources | used through `i_seek` |
| D. Bucket | `bucket.rs` | the internal `BucketImpl::api_*` functions are implemented; the public `BucketImpl`/`BucketRwImpl` wrappers are `todo!()` |
| E. Freelist | `freelist.rs`, not among the sources | `TxRwCell::freelist` and `allocate` are `todo!()` |
| F. Transaction | `tx.rs` | `TxImpl::new`, `TxRwImpl::new`, `Drop`, `rollback`; `api_commit` is `todo!()` |
| G. DB | `db.rs`, not among the sources | holds the `RwLock<DBShared>` and the records pool |
| H. Errors | `common/errors.rs` | a closed enum |

How the parts interact:
- A writer transaction (`TxRwImpl`) holds the write guard of the DB lock for
  its whole life. It owns a bump arena taken from the DB's records pool.
- The transaction reaches its root bucket and, through it, the bucket
  operations: `TxRwCell::api_create_bucket`, `api_delete_bucket` and
  `api_bucket` forward to `BucketImpl`.
- A bucket operation seeks with a cursor (`i_seek`). It then writes through
  the node that `BucketImpl::node` materialises from the page and memoises.
- Sub-buckets that `api_bucket` opens are cached in `BucketW.buckets`.
- Dropping a transaction returns its arena to the pool and releases the
  lock. Rollback only sets a flag. Commit panics.

## Modules

### `Bucket`: one bucket in a writer transaction

This module covers bucket.rs, node.rs `put`/`del`, and the writer lifecycle
of tx.rs.

State:
- `page` is the bucket's leaf as committed: any map from the keys to plain
  values and bucket headers.
- `node` is the materialised node of `BucketW.nodes`, or `NONE`.
- `unbalanced` is `NodeW.unbalanced`.
- `buckets` is the sub-bucket cache `BucketW.buckets`.
- `sequence` is `bucket_header.sequence`.
- `status` is `active`, `panicked` (unwinding) or `closed` (dropped).
- `last` records the last call and its result. Properties about calls
  read it.

Data abstraction:
- The inode array becomes a map from keys to entries. The code keeps the
  array sorted by binary search, so the map is that array up to order.
- Keys are positive naturals ordered as their bytes are, and the empty key
  is 0.
- Values are model values of four kinds:
  - `Vals`: plain values;
  - `HdrVals`: exactly an `InBucket` header;
  - `InlineVals`: a header followed by an inline page;
  - a key, which is what `NodeMut::put` actually stores (see below).
- `BigKey` and `BigVal` stand for inputs over `MAX_KEY_SIZE` and
  `MAX_VALUE_SIZE`.
- The B+tree above the leaf is not modelled. Every operation here touches
  only the leaf the cursor lands on.
- The seek (`cursor.rs`) is modelled from the spec: the first present key
  `>= k`, or none past the end.

Actions: one per operation, each the whole function with its early returns
and `unwrap` panics.
- `api_get`, `api_put`, `api_delete`, `api_create_bucket`,
  `api_create_bucket_if_not_exists`, `api_delete_bucket`, `api_bucket`,
  `api_set_sequence`, `api_next_sequence` and `api_commit`.
- `rollback` is rollback and drop. A panic leaves the transaction
  `panicked`, and only dropping it follows.
- `begin_rw` is `TxRwImpl::new`.

How the model treats failures:
- A user-input error returns before any state changes.
- A panic keeps whatever the function had already changed (for example
  `create_bucket`'s insert) until the drop discards it.

Helpers:
- `page_node` (what the cursor reads) and `materialized`
  (`BucketImpl::node`) translate the node cache.
- `node_put` keeps the argument order of `INode::new_owned_in`.
- `open_ok` is the `bytemuck::from_bytes::<InBucket>` check of
  `open_bucket`, with its inline-page assert. It passes a plain 16-byte
  header, and also a 16-byte name: `put` stores the name as the value, and
  from a name whose first 8 bytes are not zero `from_bytes` reads a header
  whose root is those bytes. The constant `HdrKeys` is the set of such
  names. Lengths are kept only where the code tests one.
- `BucketVals` is what an entry with `BUCKET_LEAF_FLAG` can hold: a header,
  a header with its inline page, or a name. The cache's type is
  `BucketVals`.

The modelled bucket has its own root page, like the root bucket on page 3.
Inline children matter only once one can be opened, and none can (see the
findings).

### `MCBucket`

It instantiates `Bucket` for TLC with three keys `{1, 2, 3}`. The
configurations give two plain values, one header value and one inline value,
plus `BigKey`, `BigVal` and `MaxSeq = 2`. `HdrKeys = {2}`, so one name
decodes as a header when create_bucket stores it and the others panic.

### `BucketProofs`

Holds the TLAPS proofs about `Bucket` (see "Proofs").

### `Node`: the inode array of one node and its size arithmetic

This module covers `NodeW::read_in`, `NodeMut::put`/`del`, the size
operators of `NodeW`, and `BucketImpl::inlineable` (bucket.rs). `Bucket`
abstracts the inode array to a map. `Node` keeps it as the sorted sequence
that the code searches, inserts into and removes from.

State:
- `page` is the committed leaf the node is read from: a sorted sequence of
  entries.
- `inodes` is `NodeW.inodes`, or `NONE` before `BucketImpl::node` reads the
  page in.
- `is_leaf` and `unbalanced` are the fields of `NodeW`.
- `root_node` (`BucketP.root_node`) is a constant `NONE`. Nothing ever sets it
  to a node.

Data abstraction:
- An inode is `[key, vlen, flags]`. Key `k` stands for `k` equal bytes, so
  its length is `k`. Only lengths enter the sizes.
- A page entry is a plain value of a length in `ValLens`, or a 16-byte
  `InBucket` header flagged `BUCKET_LEAF_FLAG`.
- The element sizes of `common/tree.rs` (not among the sources) are taken
  from the spec: 16 bytes each.

Operators and actions:
- `PrefixSize(s, leaf, n)` is the running size after `n` inodes, as a
  recursive function, so that later proofs can use it.
- `size`, `size_less_than` (with its early return) and `split_index`
  (0-based, as in Rust) are translated loop by loop.
- `binary_search` is `binary_search_by` on a sorted array: the partition
  point, the first 1-based position whose key is not below the target
  (`Len + 1` if none), written as a `CHOOSE` over that property, and
  whether the key there is the target. On a sorted array the point is
  unique, so this is what the library returns.
- `IsSorted` compares every pair of positions, not only neighbours. The two
  forms are equivalent, and the pairwise one is what the proofs use.
- `read_in` sets `is_leaf = false` for every page, as `node.rs:52` does.
- `put(k, flags)` is `put` as the bucket calls it:
  - the callers' guards (a present plain entry for `api_put`, an absent key
    for `api_create_bucket`);
  - `old_key` stored where the value goes;
  - replace on `Ok`, insert on `Err`.
- `del(k)` removes on a hit and always marks the node unbalanced.
- `drop` is the transaction's drop, which discards the node.

`ImplementsLeafMap` says that `Node` implements `LeafMap`:
- `LeafMap` is what the node promises the bucket above it: a set of
  entries, at most one per key. Loading copies the committed page. A
  write replaces the key's entry, a delete removes it, and a drop forgets
  every write.
- The mapping takes the node to the set of its inodes, `Range(inodes)`. It
  takes the committed page to `Range(page)`, and `loaded` to
  `inodes # NONE`.
- `put` maps to `Set`, `del` to `Remove`, `read_in` to `Load` and `drop` to
  `Discard`.

This is what allows `Bucket` to model a leaf as a map from keys to
entries.

### `LeafMap`: the abstract leaf

`LeafMap` has no arrays and no search. It has the variables `committed`,
`loaded` and `store`, and the actions `Load`, `Set`, `Remove` and
`Discard`.

`MCNode` takes six keys, plain values of 24 bytes and a 256-byte page. Its
`Pages` are all sorted pages over those keys, built with a recursive
operator that only TLC uses.

### `NodeProofs` and `NodeSizeProofs`

Hold the TLAPS proofs about `Node` (see "Proofs"): the inode array's
order and type, and what the size loops compute.

### `TxLock`: transactions of several threads over the DB lock and arenas

This module covers `TxImpl::new`, `TxRwImpl::new` and their `Drop`
(tx.rs), with the DB side they rely on. `db.rs` is not among the sources,
so its side is modelled from the spec:
- `begin` and `begin_rw` acquire the lock guard;
- `pop_read_bump` and `remove_tx` of the records pool;
- the lock is parking_lot's `RwLock` (`tx.rs:16` imports its guards). That
  lock is task-fair: once a writer waits, new readers queue behind it, and
  no waiter is passed over forever.

State:
- `waiting[t]` is the guard thread `t` is blocked acquiring, or `"none"`.
- `tx[t][s]` is slot `s` of thread `t`: its phase, its kind and the arena it
  owns. A thread holds up to `MaxOpen` transactions.
- `pool` is the records pool of arenas.
- `made` is the set of arenas the pool has created.

A slot goes through four phases:
- `free`;
- `locked`: the guard is held, `new()` has not yet run;
- `active`;
- `dropping`: `remove_tx` is done, but the fields are not yet dropped, so
  the guard is still held.

Actions:
- `begin` and `acquire` are the DB side.
  - A read guard waits for a writer that holds the lock. With
    `WriterPreferring`, as parking_lot's lock does, it also waits for a
    waiting writer.
  - A write guard waits for every holder.
- `TxImpl_new` and `TxRwImpl_new` pop an arena.
- `TxImpl_drop` and `TxRwImpl_drop` swap the arena out (`mem::swap`) and
  hand it to `remove_tx`.
- `release` is the drop of the fields that follows. The `lock` guard
  releases the lock there.
- Rollback and the commit panic end in the same drop.

`MCTxLock` gives threads and arenas as model values. The violation run
uses symmetry: the threads are alike, and the pool may pop any arena. The
passing run checks a liveness property, so it does without symmetry.

Fairness (`FairSpec`):
- `acquire` is strongly fair. parking_lot's queue wakes every waiter in
  turn, so a thread whose guard is granted infinitely often gets it.
- `TxImpl_new`, `TxRwImpl_new`, the two drops and `release` are weakly
  fair. `new()` and the field drops run straight on in the code once
  their guard is held. Dropping a transaction is the caller's choice, so
  weak fairness there assumes that every transaction is eventually
  dropped.

`WriterEventuallyLocks` says that a thread waiting for the write guard
eventually holds it. Readers are not promised the same. The model picks
any eligible waiter, not parking_lot's queue order, so alternating
writers can keep a reader out forever in the model.

### `TxLockProofs`

Holds the TLAPS proofs about `TxLock` (see "Proofs").

### `Page`: page headers, the node cache as a tree, writes and walks

This module models the page header and how the writer reads, navigates,
writes and walks pages.

A page is its header `[id, flags]` (`Page`, page.rs) and its body. The
body is abstracted to two things:
- the element format written there;
- each element's key and pgid field. A leaf element's pgid reads back as 0.

`count` and `overflow` are only copied, so they are left out.

The file is pages `0..hwm-1`:
- 0 and 1 are metas;
- 2 is the freelist;
- 3 is the bucket's root.

`Init` takes every committed file of two shapes:
- the root is a leaf with keys 1 and 2;
- the root is a branch over leaves 4 (keys 1, 2) and 5 (keys 3, 4).

The other pages below `hwm` are free. Each still holds a stale leaf or
branch page.

Operators, from page.rs and tx.rs:
- `is_branch`, `is_leaf`, `is_meta`, `is_free_list` test one bit
  (`flags & F != 0`).
- `page_type` returns the first bit set, in the code's order.
- `fast_check` holds when both of its assertions hold.
- `set_flag` and `mut_into` overwrite the flags.
- `coerce_ref` succeeds on exactly the kind's flag.
- `api_page` returns `None` at or above the high-water mark. Otherwise it
  returns the header's id, and "free" or `page_type`.

The writer's node cache is `nodes`:
- `node` is `BucketImpl::node`: the cached node, or `read_in` of the
  page. `read_in`'s assertion panics on a page that is neither leaf nor
  branch.
- `read_in` sets `is_leaf` to false and `key` to the first key.
- `root`, `child_index` and `num_children` are `NodeMut`'s.
  `child_index` counts the parent's keys below the child's key, plus one:
  `binary_search_by` gives that index whether it returns `Ok` or `Err`.
  `root` follows the parents up. It is written as a recursive function
  over the cached nodes (`up[m \in ...] == ...`), not as a `RECURSIVE`
  operator, so the prover can reason about it.
- `NONE` is `Option::None`. Two assumptions say what the code's types
  guarantee: `NoneNotPage` (it is no page id) and `NoneNotNode` (it is no
  node).

Actions:
- `root_node_read` is the root materialisation of `api_set_sequence` and
  its siblings.
- `child_at`, `next_sibling` and `prev_sibling`, from node.rs. A sibling is
  found by `child_index`, a binary search of the child's key.
- `write` is `NodeMut::write` onto a page from `allocate`. It writes the
  flag of `mut_into` and the elements of the kind that `is_leaf` chooses.

`allocate` is modelled from the spec, because `TxRwCell::allocate` is
`todo!()`: a freelist page, or the page at the high-water mark. For the
same reason `write` is reached in the code only from `spill`, which is
`todo!()`. The model supplies the page the spec's `allocate` would.

The flags word is `U16 == 0..(2^16 - 1)`. `page_flag` maps a kind to its flag
by a record lookup, which is the `match` of `CoerciblePage::page_flag`.

### `PageWalk`: the recursive parts of `Page`

`for_each_page_node` is `BucketImpl::_for_each_page_node`. It is written as
recursive operators that return the visited ids in order. A writer's walk
(`writeable`) looks in the node cache first; a reader's walk does not.
It is kept in its own module that extends `Page`. This way `PageProofs`
and `PageTreeProofs` reach no `RECURSIVE` declaration, which would take
the SMT backend away from the prover.

`MCPage` extends `PageWalk` and instantiates it with 9 page ids.

### `PageProofs`

Holds the TLAPS proofs about `Page` (see "Proofs").

### `PageTreeProofs`

Extends `PageProofs` with the proof of `ParentLinks` (see "Proofs").

## Runs

| Run | Config | Checks | Result |
|---|---|---|---|
| `bucket_pass` | `Bucket.cfg` | `CacheCoherent`, `KindStable`, `OnlyDeleteRemoves` | pass, 159 999 distinct states |
| `bucket_PutStoresValue` | `Bucket_PutStoresValue.cfg` | `PutStoresValue` | violated |
| `bucket_PutInsertsNewKey` | `Bucket_PutInsertsNewKey.cfg` | `PutInsertsNewKey` | violated |
| `bucket_DeleteBucketRemoves` | `Bucket_DeleteBucketRemoves.cfg` | `DeleteBucketRemoves` | violated |
| `bucket_BucketOpensInlineChild` | `Bucket_BucketOpensInlineChild.cfg` | `BucketOpensInlineChild` | violated |
| `node_pass` | `Node.cfg` | `TypeOK`, `Sorted`, `SizeLessThanAgrees`, `SplitIndexCorrect`, `ImplementsLeafMap` | pass, 547 066 distinct states |
| `node_InlineableSmallLeaf` | `Node_InlineableSmallLeaf.cfg` | `InlineableSmallLeaf` | violated |
| `txlock_pass` | `TxLock.cfg` | `TypeOK`, `ArenaAccounting`, `WriterEventuallyLocks` | pass, 2 754 distinct states |
| `txlock_DeadlockFree` | `TxLock_DeadlockFree.cfg` | `DeadlockFree` | violated |
| `page_pass` | `Page.cfg` | `TypeOK`, `PageInfoAgrees`, `ParentLinks` | pass, 212 distinct states |
| `page_WriteKeepsFormat` | `Page_WriteKeepsFormat.cfg` | `WriteKeepsFormat` | violated |
| `page_ForEachPageNodeSeesPages` | `Page_ForEachPageNodeSeesPages.cfg` | `ForEachPageNodeSeesPages` | violated |

What the passing run's properties say:
- `CacheCoherent`: a name in the sub-bucket cache is, in the leaf the
  transaction reads, a present bucket entry with the cached header. It
  guards `bucket.rs:81`, where a cached child is returned without seeking
  again.
- `KindStable` (an action property): while a key is present in a live
  transaction, it never changes between plain value and sub-bucket.
- `OnlyDeleteRemoves` (an action property): a key disappears only through a
  successful delete or delete_bucket of that exact key. A miss seeks to the
  next key, and nothing there may be removed.

What `node_pass` says:
- `Sorted`: after any sequence of puts and deletes, the inodes stay
  strictly sorted. Every later `binary_search_by` depends on it.
- `SizeLessThanAgrees`: `size_less_than(v)`, which returns early, agrees with
  `size() <= v` at the three limits the code uses: the page size, the split
  threshold and the inline limit. Spec 8 puts the boundary at exactly the
  limit.
- `SplitIndexCorrect`: on a node of more than four inodes, `split_index`
  leaves at least `MIN_KEYS_PER_PAGE` inodes on each side. The first part
  fits the threshold unless it is the minimum. It stops at the first index
  where the next inode would not fit.
- `ImplementsLeafMap`: every behaviour of the node is a behaviour of the
  abstract leaf map. In particular, an overwrite on an exact hit leaves one
  entry per key, not two.

What `txlock_pass` adds:
- `WriterEventuallyLocks`: under the lock's fairness, a writer is never
  starved by readers that keep beginning and dropping. The mutant that
  lets new readers pass a waiting writer breaks it.

What `txlock_pass` says:
- `ArenaAccounting`: every arena the pool created is in exactly one place.
  That is, either the pool or one transaction between `new()` and `drop()`,
  whatever the interleaving of the threads. It is the reason for the
  `mem::swap` in both `Drop`s.

What `page_pass` says:
- `PageInfoAgrees`: `api_page` returns `None` for exactly the ids at or
  above the high-water mark. For every other id it reports the page's own
  id, and "free" or the format its body is in.
- `ParentLinks`: the node cache is a tree hanging from the root. Whatever
  the order of `child_at`, `next_sibling` and `prev_sibling`:
  - every cached node's parent is cached;
  - the parent's `child_index` finds the inode that points to the node;
  - `NodeMut::root` returns the bucket's root.

Each of these properties has a mutant of the code that breaks it. The
mutants are defined in `Bucket.tla` just before the definition they replace:
- `api_delete_any_flag`: the bucket-flag check is dropped from delete.
- `CreateBucket_no_exists_check`: the existing-key check is dropped from
  create_bucket.
- `api_delete_at_seek`: the miss check is dropped from delete.
- `read_in_past_count` (`Node`): one element past `page.count` is read from
  zeroed memory.
- `binary_search_upper`: the search compares with `<=`, so it lands after an
  equal key.
- `size_less_than_strict`: the comparison of bbolt's Go original (`>=`).
- `split_index_late`: the stop test `index > MIN_KEYS_PER_PAGE`.
- `DropTx_returns_empty` (`TxLock`): `remove_tx` is handed the empty arena
  that was swapped in.
- `DropTx_no_swap`: the arena is handed back, but the transaction keeps it.
- `read_in_past_count` (`Page`): one element past the count is read, with a
  pgid beyond the file.
- `api_page_past_end`: `api_page` answers `None` only above the mark.
- `root_self`: `NodeMut::root` does not follow the parents.

The violation runs each check one statement that the spec makes about the
code, and each shows the code does not meet it:
- `put` stores the key as the value (`node.rs:220`).
- `put` cannot insert a new key (`bucket.rs:242`). It panics past the last
  key at the same `i_seek(..).unwrap()` that makes `get` panic there
  (`bucket.rs:223`).
- `delete_bucket`'s flag test is inverted (`bucket.rs:195`).
- An inline child cannot be opened (`bucket.rs:121`). The same
  `from_bytes` panic ends `create_bucket` of a new name that is not 16
  bytes long, after the key is inserted: `put` stored the name, not a
  header, as its value (`bucket.rs:171`). A 16-byte name decodes, and the
  new child's root is the page id made of the name's first 8 bytes.
- No bucket is ever inlineable (`bucket.rs:459-468`). `root_node` is never
  set. Also, the leaf test is inverted: `if node_ref.is_leaf`, where Go has
  `!n.isLeaf`. A small leaf with no sub-bucket is therefore refused.

- A thread that holds a reader transaction and begins a writer waits on
  itself forever (`tx.rs:510`, the `RwLockReadGuard` kept for the
  transaction's life). `DeadlockFree` states the spec's promise (§5): readers
  never block, and a writer waits only for the current writer. Scenario S4
  relies on that promise. TLC finds the self-wait in 4 steps. With
  `WriterPreferring`, a second reader in a thread also deadlocks against a
  writer that waits for the thread's first reader.

- `NodeMut::write` writes a node read from a leaf page as a branch page
  (`node.rs:52`, `node.rs:242`). `read_in` sets `is_leaf` to false, and
  `write` chooses the page kind by `is_leaf`. In bbolt, `read` sets
  `isLeaf` from the page flags. Two steps: read in the leaf root, then
  write it.
- `_for_each_page_node` recurses into every inode pgid of a cached node,
  leaf nodes included (`bucket.rs:398`); Go recurses only for branch
  nodes. Leaf inodes carry pgid 0, so once a leaf is cached, a writer's
  walk visits the meta page 0, and a reader's walk of the same file does
  not.

Both `Page` violations are latent: `spill`, `allocate` and `freelist()`
are `todo!()`, so no path of today's code reaches `write`, or gets past
the first callback of `BucketImpl::free`'s walk.

Each `Bucket` violation is a 3-step trace. They are listed under "findings" in
`PROJECT.json`. They concern the internal `api_*` functions; the public
wrappers that would call `put`, `get` and `delete` are `todo!()` for now.

Bounds:
- Three keys is enough for a key before, at, and after the one a call
  names. That is what the seek-based paths distinguish: miss to the next
  key, hit, and past the end.
- The initial states are all 125 leaves over those keys.
- One header value is enough to cache a child. One inline value and a
  second plain value let kinds and values differ.
- `MaxSeq = 2` bounds the sequence counter.
- `Node` has six keys of lengths 1 to 6 and a 256-byte page. This gives a
  split threshold of 128 and an inline limit of 64.
  - Nodes of five and six inodes exist, so `split_index` chooses among
    indices 2 and 3.
  - Sizes exactly at the inline limit are reachable. For example, keys 2
    and 6 stored by `put` come to 16 + (16+2+2) + (16+6+6) = 64. So the
    boundary of `size_less_than` is exercised, which the mutant confirms.

- `TxLock` uses three threads with one transaction each (`MaxOpen = 1`) and
  three arenas. Readers then overlap, and readers and writers alternate in
  every order. A fourth arena would never be needed, because at most three
  transactions are open at once. The violation run uses two threads with
  two slots each and four arenas.

- `Page` has 9 page ids: 7 in the committed file and room for two more
  pages. Both tree shapes, and all stale kinds of the free pages, are
  initial states. There are enough pages to reuse a free page with a
  stale header of the other kind, and to grow the file past the mark.
  Keys 1 to 4 give the branch two children with two keys each.

Fairness is assumed only in `TxLock`, as described under that module.
There, liveness is checked as `WriterEventuallyLocks`. In `Bucket`, `Node`
and `Page`, every call is made by the single thread that owns the
transaction. Nothing there waits or must eventually happen.

The runs check deadlock. In `Bucket`, every state can at least roll back or
begin a transaction. In the passing `TxLock` run, a waiting thread holds
nothing, so whatever it waits for is released. The violation run checks
deadlock too, but `DeadlockFree` already catches the self-wait as a state
property, before TLC would stop. The `Page` runs do not check deadlock:
the writer stops once the free pages and the room to grow are used up,
or once it has panicked.

## Proofs

`BucketProofs` proves, with TLAPS, for every value of the constants that
satisfies `BucketAssumption` and `NoneNotLeaf`:
- `TypeCorrect`: `Spec => []TypeOK`. In particular, the sub-bucket cache
  only holds what an entry with `BUCKET_LEAF_FLAG` can hold (`BucketVals`),
  a decoded 16-byte name included. `TypeOK` is not among the properties of
  `bucket_pass`: no plausible mutant of the code breaks this type, so it is
  only the base of the other proofs.
- `CacheCoherence`: `Spec => []CacheCoherent`.

The assumptions say:
- keys are positive naturals;
- `NONE`, the empty key, `BigKey` and `BigVal` are distinct from the keys
  and values they stand apart from;
- `NONE` is no leaf.

How the proofs go:
- `CacheCoherent` alone is not inductive. The inductive invariant is
  `TypeOK /\ CacheCoherent`. `TypeOK` supplies that what the bucket reads
  is a leaf, and that a seek's result can be indexed.
- `SeekFound` shows a seek lands on a present key. The least candidate
  exists by `WFMin` with `NatLessThanWellFounded`.
- `SeekHit` shows that seeking a present key lands on it. The cache can only
  change at a name whose seek hits.
- `BucketResCache` shows the lookup of `api_bucket` changes the cache only
  at the looked-up name, and only to the header of its present bucket
  entry.
- `NodePut` and `NodeDel` show the node operations change one key only.
- `CohStep` reduces each action's step to one obligation per key.

There is one lemma per action:
- `put` and `delete` change only a plain entry, which coherence shows is
  never cached.
- `create_bucket` writes a key that was absent, hence not cached, and then
  looks it up in the new node.
- `delete_bucket` evicts the name it deletes.
- Rollback clears the cache.

`TxLockProofs` proves, for any threads, arenas and `MaxOpen` that satisfy
`TxLockAssumption` (`NONE` is not an arena):
- `ArenasAccounted`: `Spec => []ArenaAccounting`;
- `TxLockTypeCorrect`: `Spec => []TypeOK`.

`ArenaAccounting` is not inductive alone, because a free or locked slot
could hold an arena. The inductive invariant adds `ArenaIffActive`: a slot
holds an arena exactly while it is active. The proof has one lemma per
action:
- `begin`, `acquire` and `release` change no arena (`SameArenas`);
- `new()` takes an arena no one owns, either from the pool or one never
  made;
- `drop()` moves the single owner's arena into the pool.

`NodeProofs` proves, for any keys, value lengths, page size and committed
pages that satisfy `NodeAssumption` and `PagesAssumption` (every committed
page is a sorted sequence of page entries):
- `SortedInvariant`: `Spec => []Sorted`;
- `NodeTypeCorrect`: `Spec => []TypeOK`.

How the proofs go:
- The inductive invariant `IInv` is `TypeOK /\ page \in Pages /\ Sorted`.
  The middle conjunct is what makes `read_in` safe: it copies a committed
  page, and those are sorted by assumption.
- `BinarySearchSplits` shows that on a sorted array the search returns a
  partition point. Every key before it is below the target, no key from it
  on is, and it is a hit exactly when the key there is the target. The
  point exists because the least candidate exists (`WFMin` with
  `NatLessThanWellFounded`).
- `InsertSorted` gives the element-wise content of
  `SubSeq \o << new >> \o SubSeq`. It shows the result is sorted when the
  new key lies strictly between its neighbours. On a miss, the partition
  point supplies exactly that.
- `RemoveAt` and `ShiftOutSorted` do the same for the removal of `del`.
- `ReplaceSorted` covers the overwrite of an exact hit, which keeps the key.
- There is one lemma per action: `ReadInInv`, `PutInv`, `DelInv` and
  `DropInv`.

`NodeSizeProofs` proves, under the same assumptions:
- `SplitIndexCorrectHolds`: `Spec => []SplitIndexCorrect`, for every page
  size;
- `SizeLessThanAgreesHolds`: `Spec => []SizeLessThanAgrees`, for every page
  size of at least 64 bytes.

The 64-byte bound is a hypothesis of the theorem. It is not an assumption
of the model, and it is exact. An empty node has `size() = 16`, the page
header, while `size_less_than(v)` is vacuously true. So the property needs
every limit to hold the header. The smallest limit,
`max_inline_bucket_size`, is a quarter page. With a 32-byte page, TLC finds
`SizeLessThanAgrees` violated by the empty node in the initial state.
Page sizes are OS pages, far above 64 bytes.

How the proofs go:
- `PrefixSize` is a recursive function, which TLA+ defines as
  `CHOOSE f : f = [i \in 0..n |-> ...]`. The provers know nothing about
  such an `f` until one is shown to exist.
  - `PFExists` shows that it exists, by taking the least `n` for which none
    exists and extending the solution for `n - 1` by one entry.
  - `SolvesAgree` shows that two solutions agree, at the least index where
    they would differ.
  - Together these give `PrefixRec`: the running size starts at the page
    header and grows by one element, key and value per inode.
  - Both arguments take a least counterexample with `WFMin` and
    `NatLessThanWellFounded`. This needs no induction rule with an
    operator parameter.
- `PrefixMono` shows that, over an inode array, the running size is a
  natural that never decreases (again by least counterexample). So
  `size_less_than`'s early return cannot change the answer
  (`SizeLessThanOn`).
- `SplitIndexOn` takes `split_index`'s cut: the least stop, or the last
  index if there is none. The index before a cut that is not the minimum
  did not stop the walk, so the first part fits. At a stop, the next inode
  crosses the threshold. This needs only `PrefixRec`, not monotonicity,
  and holds for any threshold.

`NodeRefinement` proves `NodeImplementsLeafMap`: `Spec => ImplementsLeafMap`,
under the same assumptions plus `NoneAssumption` (`NONE` is not an inode
array). How it goes:
- The initial states map to `LMInit`.
- `NextStep` shows that under `IInv`, every step of `Node` is a step of
  `LMNext` or a stutter of the mapped variables. There is one lemma per
  action.
- Keys are distinct because the inodes are sorted (`KeysDistinct`), so
  removing the entry at a position is removing its key (`WithoutAt`).
- On a hit, `put` replaces that entry (`ReplaceRange`). On a miss, no
  entry has the key (`MissNoKey`), so `Without` removes nothing and the
  insert adds the new entry.
- `InsertSorted` and `RemoveAt` in `NodeProofs` also give the range of
  their result.
- So the refinement rests on `Sorted`: without it, an overwrite could
  leave two entries for one key.

`PageProofs` proves, for every `MaxPgId` that satisfies `PageAssumption`
(`MaxPgId >= 8`):
- `PageTypeCorrect`: `Spec => []TypeOK`;
- `PageInfoAgreesHolds`: `Spec => []PageInfoAgrees`.

How the proofs go:
- `PageInfoAgrees` is not inductive alone. A write lands on a page taken from
  the freelist, which still has the header of what it held before, or on
  the page at the mark, whose header is zero.
- The inductive invariant `IInv` is `TypeOK /\ PageFormat /\
  NodesFromTree`.
  - `PageFormat` says that the freelist lies below the mark. Every page
    below the mark has a body of a known format and exactly the header
    `Formatted(p, fmt)`: its own id and the flag of that format. Every
    page above the mark is unformatted, with a zero header.
  - `NodesFromTree` says that every cached node was read from a leaf or a
    branch page. This is what `write` records in `wrote`, and `read_in`'s
    assertion guarantees it.
- `SetHeader` shows that `mut_into` after setting the id yields exactly
  `Formatted(q, k)`, whatever header the reused page had.
- `FlagOf` shows that `page_type` and the `is_*` tests read back the
  format of a formatted header.
- There is one lemma per action. `NodeStep` covers `node`: the root read,
  `child_at` and the sibling steps. `WriteStep` covers `write`, with a
  case for a freelist page and one for the page at the mark.
- `PageInfoAgrees` follows from `IInv` in one step.

`PageTreeProofs` proves `ParentLinksHolds`: `Spec => []ParentLinks`,
for every `MaxPgId` that satisfies `PageAssumption`. It also uses
`NoneNotPage` and `NoneNotNode`.

How the proof goes:
- `ParentLinks` is not inductive. Whether `child_at` or a sibling step
  keeps the cache a tree depends on the pages that it reads.
- The inductive invariant is `TInv == IInv /\ CommittedTree /\
  CacheInTree`. TLC checks it on all 212 states of the `page_pass`
  instance.
  - `CommittedTree` is what `Init` commits and no write disturbs. Page 0
    is a meta page. The root page is the leaf of keys 1 and 2, or the
    branch over the leaves 4 and 5. These pages lie below the mark and
    none of them is free.
  - `CacheInTree` says that every cached node is `read_in` of a page of
    that tree. Its parent is the root, or `NONE` for the root itself. The
    root is cached whenever any node is.
- `TreeWrite`: `allocate` hands out a freelist page or the page at the
  mark, and neither is a page of the tree. So no write changes what
  `read_in` reads from the tree.
- `ChildPgid`: an inode of a cached node points to page 0 (a leaf
  element has pgid 0) or to leaf 4 or 5 of the root branch.
  `BucketImpl::node` panics on page 0, because it is a meta page
  (`MetaPage`).
- `CountBelow` is a lemma about `child_index`'s count for any inode array
  that is strictly sorted by key (`KeysSorted`). The keys below the j-th
  key are those at `1..j-1`, so the count plus one is j (`FS_Interval`).
- `ChildIndex`: the root branch is sorted, and a cached child's first key
  is the key of its inode in the root. So by `CountBelow`, `child_index`
  finds the child's own inode. This is also why `next_sibling` and
  `prev_sibling` call `child_at` at an index of the root's inodes.
- `TreeParentLinks` handles `root`. To the prover, the recursive function
  in `root` is the `CHOOSE` of a function that solves its defining
  equation. The function that maps every cached node to the root solves
  that equation, so the chosen function solves it too. The equation then
  gives the root at the root, and at every child, through its parent.
- The proof is for the two trees that `Init` commits, which are the
  trees of the `page_pass` run. A deeper tree would need a committed
  tree of any height in `Init`. The model does not have one, because
  split and spill, which grow the tree, are `todo!()` in the code.

`BucketProofs` also proves the two action properties of `bucket_pass`,
from `TypeCorrect`:
- `KindStableHolds`: `Spec => KindStable`;
- `OnlyDeleteRemovesHolds`: `Spec => OnlyDeleteRemoves`.

`ViewNext` shows that every step does one of four things to what the bucket
reads (`ViewStep`):
- leaves it unchanged;
- ends the transaction;
- puts one key whose old entry, if any, has the flag it is put with
  (`api_put` over a plain entry, `create_bucket` over an absent key);
- or is a successful `delete` or `delete_bucket` of one key, recorded as
  such in `last`.

`ViewStepSafe` derives both properties from that. These proofs use the
further assumption `AbsentNotEntry`: `ABSENT`, the lack of an inode, is no
inode.

TLC alone checks these:
- the violation runs;
- liveness (`WriterEventuallyLocks`), since TLAPS does not prove liveness
  under fairness or reason about `ENABLED`;
- the walk `for_each_page_node`, whose `RECURSIVE` operators stay in
  `PageWalk`, which only TLC uses. Its property is a violation run.

## Not modelled, and why

- **Split, spill and rebalance.** `split_two`, `spill` and `rebalance` are
  `todo!()`. The choice `NodeMut::write` makes is in `Page`, but the byte
  layout of `write_elements` is not.
- **Cursor and the tree above the leaf.** `cursor.rs` is not among the
  sources, and split, spill and rebalance are `todo!()`.
- **Freelist and commit.** `freelist.rs` is missing, and `allocate`,
  `freelist` and `api_commit` are `todo!()`. Commit is modelled as the panic
  it is.
- **DB beyond the lock and the pool.** `db.rs` is not among the sources.
  Only the lock and the pool that the transactions use are modelled, from
  the spec, in `TxLock`. Open, meta validation and stats are not.
- **File I/O, mmap, meta checksums, and the byte layouts of `page.rs`.** These
  are pure I/O and encoding, with no interleavings for TLC to explore.
  `RefPage`, `MutPage` and the `unchecked_*` casts are pointer casts with no
  state, and `coerce_mut` is never called.
- **`BucketImpl::free`, `own_in`, `for_each_page` and the `for_each`
  family.** `free` reaches `freelist()` and `for_each_page` is `todo!()`.
  `own_in` only copies bytes into the arena. Every public `for_each` is
  `todo!()`. The walk that `free` uses is in `Page`.
- **`bin/main.rs`.** A benchmark driver.

## Plan

1. **`Bucket`** (done): the bucket operations, cache coherence, kind
   stability, removal only by delete, the four violations, and proofs of
   all three properties of `bucket_pass` and of the type.
2. **`Node`** (done): the sorted inode array under put and del, the size
   arithmetic checked against reference definitions, and the `inlineable`
   finding. `NodeProofs` proves `Sorted` and `TypeOK`, and
   `NodeRefinement` proves that the node refines `LeafMap`.
   `NodeSizeProofs` proves `SizeLessThanAgrees` (pages of at least 64
   bytes) and `SplitIndexCorrect`.
3. **`TxLock`** (done, with the writer's liveness): readers and writers of several threads over the
   `RwLock` and the arena pool. It has the arena accounting, with a proof,
   and the S4 self-deadlock.
4. **`Freelist`** (from the spec): free, release up to the oldest reader,
   and allocate. The partition of page ids (spec 8.4) is an invariant with a
   TLAPS proof, composed with `TxLock` for the oldest-reader bound.
5. **An abstract key/value specification**: done for the leaf node
   (`LeafMap`, refined by `Node` with a proof). Next: the same for a
   bucket, with the cache mapped away.
6. **`Page`** (done): headers and flags, `api_page`, node navigation,
   `NodeMut::write`, and the walk, with two latent findings. `PageProofs`
   proves `TypeOK` and `PageInfoAgrees`, and
   `PageTreeProofs` proves `ParentLinks`, `root` included.
