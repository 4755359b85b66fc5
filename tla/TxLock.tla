------------------------------- MODULE TxLock -------------------------------
(***************************************************************************)
(* Reader and writer transactions over the database lock and the records  *)
(* pool of arenas (src/src/tx.rs: TxImpl, TxRwImpl, their new and Drop).   *)
(*                                                                         *)
(* A reader transaction owns an RwLockReadGuard, a writer an               *)
(* RwLockWriteGuard of the DB's RwLock<DBShared>, each for the whole life  *)
(* of the transaction.  new() pops an arena (a bump allocator) from the    *)
(* records pool under the records mutex; drop() swaps the arena out of the *)
(* transaction and hands it back with records.remove_tx, and only then are *)
(* the fields dropped, the lock guard among them.  Rollback of either kind *)
(* and the commit panic (api_commit is todo!()) end in the same drop.      *)
(*                                                                         *)
(* The DB side (db.rs: begin, begin_rw, pop_read_bump, remove_tx) is not   *)
(* among the sources and is modelled from the spec; the lock is            *)
(* parking_lot's RwLock (the guards tx.rs imports), which is task-fair:    *)
(* a reader blocks while a writer waits, and no waiter starves.            *)
(***************************************************************************)
EXTENDS Naturals, FiniteSets

CONSTANTS
    Threads,          \* the OS threads that use the database
    Arenas,           \* the bump arenas the records pool can ever hold
    MaxOpen,          \* transactions a thread may hold open at once
    WriterPreferring, \* the lock makes new readers wait for a waiting writer
    NONE

ASSUME TxLockAssumption ==
    /\ MaxOpen \in Nat \ {0}
    /\ WriterPreferring \in BOOLEAN
    /\ NONE \notin Arenas

Slots == 1..MaxOpen
Kinds == {"read", "write"}

VARIABLES
    waiting,  \* waiting[t]: the guard thread t is blocked acquiring, or "none"
    tx,       \* tx[t][s]: a transaction slot of thread t
    pool,     \* the arenas in the records pool
    made      \* the arenas the pool has created so far

vars == <<waiting, tx, pool, made>>

\* A slot's phase: "free"; "locked" (guard held, new() not yet run);
\* "active"; "dropping" (remove_tx done, the fields not yet dropped).
Slot == [phase : {"free", "locked", "active", "dropping"},
         kind : Kinds, arena : Arenas \cup {NONE}]
FreeSlot == [phase |-> "free", kind |-> "read", arena |-> NONE]

-----------------------------------------------------------------------------
(* The DB side, from the spec.                                             *)

\* DB::begin / begin_rw: the thread asks the lock for a guard and blocks
\* until it is granted.
begin(t, k) ==
    /\ waiting[t] = "none"
    /\ \E s \in Slots : tx[t][s].phase = "free"
    /\ waiting' = [waiting EXCEPT ![t] = k]
    /\ UNCHANGED <<tx, pool, made>>

\* Mutant: a lock without writer preference: readers only wait for a
\* writer that holds the lock.
Blockers_reader_preferring(t) ==
    {u \in Threads :
        \E s \in Slots :
           /\ tx[u][s].phase # "free"
           /\ (waiting[t] = "write" \/ tx[u][s].kind = "write")}

\* RwLock::read / write: the threads a waiting thread waits for.  A read
\* guard waits for a writer that holds the lock (and, for a
\* writer-preferring lock, for the threads waiting to write); a write
\* guard waits for every holder.
Blockers(t) ==
    {u \in Threads :
        \/ \E s \in Slots :
              /\ tx[u][s].phase # "free"
              /\ (waiting[t] = "write" \/ tx[u][s].kind = "write")
        \/ waiting[t] = "read" /\ WriterPreferring /\ waiting[u] = "write"}

acquire(t) ==
    /\ waiting[t] # "none"
    /\ Blockers(t) = {}
    /\ \E s \in Slots :
          /\ tx[t][s].phase = "free"
          /\ tx' = [tx EXCEPT ![t][s] = [phase |-> "locked",
                                         kind |-> waiting[t], arena |-> NONE]]
    /\ waiting' = [waiting EXCEPT ![t] = "none"]
    /\ UNCHANGED <<pool, made>>

\* Records::pop_read_bump: an arena of the pool, or a new one.
pop_read_bump(a) ==
    \/ a \in pool /\ pool' = pool \ {a} /\ UNCHANGED made
    \/ pool = {} /\ a \notin made /\ made' = made \cup {a} /\ UNCHANGED pool

\* Records::remove_tx: the arena (reset) goes back to the pool.
remove_tx(a) == pool' = pool \cup {a} /\ UNCHANGED made

-----------------------------------------------------------------------------
(* The transactions, from tx.rs.                                           *)

\* TxImpl::new / TxRwImpl::new: pop an arena, then copy the meta and build
\* the transaction in it.
NewTx(t, s, k) ==
    /\ waiting[t] = "none"
    /\ tx[t][s].phase = "locked"
    /\ tx[t][s].kind = k
    /\ \E a \in Arenas :
          /\ pop_read_bump(a)
          /\ tx' = [tx EXCEPT ![t][s] = [@ EXCEPT !.phase = "active", !.arena = a]]
    /\ UNCHANGED waiting

TxImpl_new(t, s) == NewTx(t, s, "read")

TxRwImpl_new(t, s) == NewTx(t, s, "write")

\* Mutant: remove_tx is handed the empty arena swapped in, not the old one.
DropTx_returns_empty(t, s, k) ==
    /\ waiting[t] = "none"
    /\ tx[t][s].phase = "active"
    /\ tx[t][s].kind = k
    /\ remove_tx(NONE)
    /\ tx' = [tx EXCEPT ![t][s] = [@ EXCEPT !.phase = "dropping", !.arena = NONE]]
    /\ UNCHANGED waiting

\* Mutant: remove_tx is handed the arena but the transaction keeps it.
DropTx_no_swap(t, s, k) ==
    /\ waiting[t] = "none"
    /\ tx[t][s].phase = "active"
    /\ tx[t][s].kind = k
    /\ remove_tx(tx[t][s].arena)
    /\ tx' = [tx EXCEPT ![t][s].phase = "dropping"]
    /\ UNCHANGED waiting

\* Drop for TxImpl / TxRwImpl: swap the arena out for an empty one, lock
\* the records and remove_tx(tx_id, stats, arena); the guard is still held.
DropTx(t, s, k) ==
    /\ waiting[t] = "none"
    /\ tx[t][s].phase = "active"
    /\ tx[t][s].kind = k
    /\ remove_tx(tx[t][s].arena)
    /\ tx' = [tx EXCEPT ![t][s] = [@ EXCEPT !.phase = "dropping", !.arena = NONE]]
    /\ UNCHANGED waiting

TxImpl_drop(t, s) == DropTx(t, s, "read")

TxRwImpl_drop(t, s) == DropTx(t, s, "write")

\* The fields are dropped after drop(): bump (now empty), then the lock
\* guard, which releases the lock, then the Rc of the transaction.
release(t, s) ==
    /\ waiting[t] = "none"
    /\ tx[t][s].phase = "dropping"
    /\ tx' = [tx EXCEPT ![t][s] = FreeSlot]
    /\ UNCHANGED <<waiting, pool, made>>

Init ==
    /\ waiting = [t \in Threads |-> "none"]
    /\ tx = [t \in Threads |-> [s \in Slots |-> FreeSlot]]
    /\ pool = {}
    /\ made = {}

Next ==
    \E t \in Threads :
        \/ \E k \in Kinds : begin(t, k)
        \/ acquire(t)
        \/ \E s \in Slots :
              \/ TxImpl_new(t, s) \/ TxRwImpl_new(t, s)
              \/ TxImpl_drop(t, s) \/ TxRwImpl_drop(t, s)
              \/ release(t, s)

Spec == Init /\ [][Next]_vars

\* The scheduling the code justifies.  A thread blocked on the lock is
\* woken by it, and parking_lot's task-fair policy lets no waiter starve:
\* a thread whose guard is grantable again and again eventually gets it
\* (strong fairness of acquire).  new() runs on in the thread that took
\* the guard, and the fields are dropped right after drop() (weak
\* fairness).  Closing a transaction is the caller's choice; the
\* liveness below assumes each one is eventually dropped (weak fairness
\* of drop).  begin is never forced.
Fairness ==
    /\ \A t \in Threads : SF_vars(acquire(t))
    /\ \A t \in Threads, s \in Slots :
          /\ WF_vars(TxImpl_new(t, s)) /\ WF_vars(TxRwImpl_new(t, s))
          /\ WF_vars(TxImpl_drop(t, s)) /\ WF_vars(TxRwImpl_drop(t, s))
          /\ WF_vars(release(t, s))

FairSpec == Spec /\ Fairness

-----------------------------------------------------------------------------
(* Properties.                                                             *)

\* Every variable holds a value of its type.
TypeOK ==
    /\ waiting \in [Threads -> {"none"} \cup Kinds]
    /\ tx \in [Threads -> [Slots -> Slot]]
    /\ pool \subseteq Arenas
    /\ made \subseteq Arenas

\* The arenas of the transactions between new() and drop().
OwnedArenas == {tx[t][s].arena : t \in Threads, s \in Slots} \ {NONE}

\* Each arena the records pool ever created is in exactly one place: in the
\* pool, or owned by one live transaction (never by two, never by a
\* transaction and the pool, never lost), whatever the interleaving of
\* new() and drop() of the threads' transactions.
ArenaAccounting ==
    /\ \A t, u \in Threads, s, r \in Slots :
          tx[t][s].arena = tx[u][r].arena /\ tx[t][s].arena # NONE
              => t = u /\ s = r
    /\ pool \cap OwnedArenas = {}
    /\ made = pool \cup OwnedArenas

\* A thread blocked in DB::begin_rw eventually gets its write guard, when
\* each thread holds at most one transaction and every open one is
\* eventually dropped: readers that keep arriving cannot overlap forever
\* (they queue behind the waiting writer), and the guard each drop
\* releases after remove_tx is handed on.  (A waiting reader, by
\* contrast, can be overtaken by writers for ever in this model: the
\* queue order of parking_lot that prevents it is not modelled.)
WriterEventuallyLocks ==
    \A t \in Threads : waiting[t] = "write" ~> waiting[t] = "none"

\* spec 5: readers never block and a writer only waits for the current
\* writer to commit or roll back, so no set of threads ever waits for
\* each other (spec 8 S4 opens a reader, then a writer).
DeadlockFree ==
    ~ \E S \in SUBSET {t \in Threads : waiting[t] # "none"} :
        S # {} /\ \A t \in S : Blockers(t) # {} /\ Blockers(t) \subseteq S

=============================================================================
