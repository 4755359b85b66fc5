---------------------------- MODULE TxLockProofs ----------------------------
(***************************************************************************)
(* Proofs, for any threads, arenas and number of slots, that the records   *)
(* pool never loses an arena nor hands one to two owners (TxImpl::new,     *)
(* TxRwImpl::new and their Drop in src/src/tx.rs).                         *)
(***************************************************************************)
EXTENDS TxLock, TLAPS

\* A slot holds an arena exactly while its transaction is active: new()
\* gives it one, drop() swaps it out.
ArenaIffActive ==
    \A t \in Threads, s \in Slots :
        (tx[t][s].arena # NONE) <=> (tx[t][s].phase = "active")

IInv == TypeOK /\ ArenaAccounting /\ ArenaIffActive

-----------------------------------------------------------------------------
(* A step that changes no arena of any slot, nor the pool.                 *)

\* Such a step keeps the accounting.
LEMMA SameArenas ==
    ASSUME ArenaAccounting,
           \A t \in Threads, s \in Slots : tx'[t][s].arena = tx[t][s].arena,
           pool' = pool, made' = made
    PROVE  ArenaAccounting'
<1>1. OwnedArenas' = OwnedArenas
  BY DEF OwnedArenas
<1>. QED  BY <1>1 DEF ArenaAccounting

\* begin only changes waiting.
LEMMA BeginInv ==
    ASSUME IInv, NEW t \in Threads, NEW k \in Kinds, begin(t, k)
    PROVE  IInv'
<1>1. TypeOK'
  BY DEF IInv, TypeOK, begin, Kinds
<1>2. ArenaAccounting'
  BY SameArenas DEF IInv, begin
<1>3. ArenaIffActive'
  BY DEF IInv, ArenaIffActive, begin
<1>. QED  BY <1>1, <1>2, <1>3 DEF IInv

\* acquire turns a free slot, which has no arena, into a locked one.
LEMMA AcquireInv ==
    ASSUME IInv, NEW t \in Threads, acquire(t)
    PROVE  IInv'
<1>1. PICK s \in Slots :
        /\ tx[t][s].phase = "free"
        /\ tx' = [tx EXCEPT ![t][s] = [phase |-> "locked",
                                       kind |-> waiting[t], arena |-> NONE]]
  BY DEF acquire
<1>2. tx[t][s].arena = NONE
  BY <1>1 DEF IInv, ArenaIffActive
<1>3. waiting[t] \in Kinds
  BY DEF acquire, IInv, TypeOK
<1>4. TypeOK'
  BY <1>1, <1>3 DEF IInv, TypeOK, acquire, Slot
<1>5. \A u \in Threads, r \in Slots : tx'[u][r].arena = tx[u][r].arena
  BY <1>1, <1>2 DEF IInv, TypeOK
<1>6. ArenaAccounting'
  BY <1>5, SameArenas DEF IInv, acquire
<1>7. ArenaIffActive'
  BY <1>1, <1>5 DEF IInv, TypeOK, ArenaIffActive
<1>. QED  BY <1>4, <1>6, <1>7 DEF IInv

\* release frees a dropping slot, which no longer has an arena.
LEMMA ReleaseInv ==
    ASSUME IInv, NEW t \in Threads, NEW s \in Slots, release(t, s)
    PROVE  IInv'
<1>1. tx[t][s].arena = NONE
  BY DEF release, IInv, ArenaIffActive
<1>2. TypeOK'
  BY DEF IInv, TypeOK, release, Slot, FreeSlot, Kinds
<1>3. \A u \in Threads, r \in Slots : tx'[u][r].arena = tx[u][r].arena
  BY <1>1 DEF IInv, TypeOK, release, FreeSlot
<1>4. ArenaAccounting'
  BY <1>3, SameArenas DEF IInv, release
<1>5. ArenaIffActive'
  BY <1>3 DEF IInv, TypeOK, ArenaIffActive, release, FreeSlot
<1>. QED  BY <1>2, <1>4, <1>5 DEF IInv

-----------------------------------------------------------------------------
(* The steps that move an arena.                                           *)

\* new() gives a locked slot, which has no arena, an arena of the pool or
\* one the pool never made; either way it is nobody else's.
LEMMA NewInv ==
    ASSUME IInv, NEW t \in Threads, NEW s \in Slots, NEW k \in Kinds,
           NewTx(t, s, k)
    PROVE  IInv'
<1>1. PICK a \in Arenas :
        /\ pop_read_bump(a)
        /\ tx' = [tx EXCEPT ![t][s] = [@ EXCEPT !.phase = "active", !.arena = a]]
  BY DEF NewTx
<1>2. tx[t][s].arena = NONE /\ tx[t][s].phase = "locked"
  BY DEF NewTx, IInv, ArenaIffActive
<1>3. /\ \A u \in Threads, r \in Slots :
           tx'[u][r].arena = IF u = t /\ r = s THEN a ELSE tx[u][r].arena
      /\ \A u \in Threads, r \in Slots :
           tx'[u][r].phase = IF u = t /\ r = s THEN "active" ELSE tx[u][r].phase
  BY <1>1 DEF IInv, TypeOK
<1>4. a \notin OwnedArenas
  <2>1. CASE a \in pool
    BY <2>1 DEF IInv, ArenaAccounting
  <2>2. CASE a \notin made
    BY <2>2 DEF IInv, ArenaAccounting
  <2>. QED  BY <1>1, <2>1, <2>2 DEF pop_read_bump
<1>5. OwnedArenas' = OwnedArenas \cup {a}
  BY <1>2, <1>3, TxLockAssumption DEF OwnedArenas
<1>6. TypeOK'
  <2>1. tx' \in [Threads -> [Slots -> Slot]]
    <3>1. tx[t][s] \in Slot
      BY DEF IInv, TypeOK
    <3>2. [tx[t][s] EXCEPT !.phase = "active", !.arena = a] \in Slot
      BY <3>1 DEF Slot
    <3>. QED  BY <1>1, <3>2 DEF IInv, TypeOK
  <2>2. pool' \subseteq Arenas /\ made' \subseteq Arenas
    BY <1>1 DEF IInv, TypeOK, pop_read_bump
  <2>. QED  BY <2>1, <2>2 DEF IInv, TypeOK, NewTx
<1>7. ArenaAccounting'
  <2>1. \A u, v \in Threads, r, q \in Slots :
          tx'[u][r].arena = tx'[v][q].arena /\ tx'[u][r].arena # NONE
              => u = v /\ r = q
    BY <1>2, <1>3, <1>4 DEF IInv, ArenaAccounting, OwnedArenas
  <2>2. pool' \cap OwnedArenas' = {}
    BY <1>1, <1>4, <1>5 DEF IInv, ArenaAccounting, pop_read_bump
  <2>3. made' = pool' \cup OwnedArenas'
    BY <1>1, <1>5 DEF IInv, ArenaAccounting, pop_read_bump
  <2>. QED  BY <2>1, <2>2, <2>3 DEF ArenaAccounting
<1>8. ArenaIffActive'
  BY <1>3, TxLockAssumption DEF IInv, ArenaIffActive
<1>. QED  BY <1>6, <1>7, <1>8 DEF IInv

\* drop() swaps the arena of an active slot out and puts it in the pool.
LEMMA DropInv ==
    ASSUME IInv, NEW t \in Threads, NEW s \in Slots, NEW k \in Kinds,
           DropTx(t, s, k)
    PROVE  IInv'
<1> DEFINE b == tx[t][s].arena
<1>1. b \in Arenas
  BY DEF DropTx, IInv, ArenaIffActive, TypeOK, Slot
<1>2. /\ \A u \in Threads, r \in Slots :
           tx'[u][r].arena = IF u = t /\ r = s THEN NONE ELSE tx[u][r].arena
      /\ \A u \in Threads, r \in Slots :
           tx'[u][r].phase = IF u = t /\ r = s THEN "dropping" ELSE tx[u][r].phase
  BY DEF DropTx, IInv, TypeOK
<1>3. pool' = pool \cup {b} /\ made' = made
  BY DEF DropTx, remove_tx
<1>4. OwnedArenas' = OwnedArenas \ {b}
  <2>1. \A u \in Threads, r \in Slots : tx[u][r].arena = b => u = t /\ r = s
    BY <1>1, TxLockAssumption DEF IInv, ArenaAccounting
  <2>. QED  BY <1>2, <2>1 DEF OwnedArenas
<1>5. b \in OwnedArenas
  BY <1>1, TxLockAssumption DEF OwnedArenas
<1>6. TypeOK'
  <2>1. tx[t][s] \in Slot
    BY DEF IInv, TypeOK
  <2>2. [tx[t][s] EXCEPT !.phase = "dropping", !.arena = NONE] \in Slot
    BY <2>1 DEF Slot
  <2>3. tx' \in [Threads -> [Slots -> Slot]]
    BY <2>2 DEF DropTx, IInv, TypeOK
  <2>. QED  BY <1>1, <1>3, <2>3 DEF DropTx, IInv, TypeOK
<1>7. ArenaAccounting'
  <2>1. \A u, v \in Threads, r, q \in Slots :
          tx'[u][r].arena = tx'[v][q].arena /\ tx'[u][r].arena # NONE
              => u = v /\ r = q
    BY <1>2 DEF IInv, ArenaAccounting
  <2>2. pool' \cap OwnedArenas' = {}
    BY <1>3, <1>4 DEF IInv, ArenaAccounting
  <2>3. made' = pool' \cup OwnedArenas'
    BY <1>3, <1>4, <1>5 DEF IInv, ArenaAccounting
  <2>. QED  BY <2>1, <2>2, <2>3 DEF ArenaAccounting
<1>8. ArenaIffActive'
  BY <1>2 DEF IInv, ArenaIffActive
<1>. QED  BY <1>6, <1>7, <1>8 DEF IInv

-----------------------------------------------------------------------------
(* The theorem.                                                            *)

\* Initially every slot is free, the pool is empty and nothing was made.
LEMMA InitInv == Init => IInv
<1> SUFFICES ASSUME Init PROVE IInv
  OBVIOUS
<1>1. \A t \in Threads, s \in Slots : tx[t][s] = FreeSlot
  BY DEF Init
<1>2. TypeOK
  BY <1>1, TxLockAssumption DEF Init, TypeOK, Slot, FreeSlot, Kinds
<1>3. OwnedArenas = {}
  BY <1>1 DEF OwnedArenas, FreeSlot
<1>4. ArenaAccounting
  BY <1>1, <1>3 DEF Init, ArenaAccounting, FreeSlot
<1>5. ArenaIffActive
  BY <1>1 DEF ArenaIffActive, FreeSlot
<1>. QED  BY <1>2, <1>4, <1>5 DEF IInv

\* Every step, or stutter, keeps the inductive invariant.
LEMMA NextInv == IInv /\ [Next]_vars => IInv'
<1> SUFFICES ASSUME IInv, [Next]_vars PROVE IInv'
  OBVIOUS
<1>1. CASE UNCHANGED vars
  BY <1>1 DEF vars, IInv, TypeOK, ArenaAccounting, ArenaIffActive, OwnedArenas
<1>2. CASE Next
  <2>1. PICK t \in Threads :
          \/ \E k \in Kinds : begin(t, k)
          \/ acquire(t)
          \/ \E s \in Slots :
                \/ TxImpl_new(t, s) \/ TxRwImpl_new(t, s)
                \/ TxImpl_drop(t, s) \/ TxRwImpl_drop(t, s)
                \/ release(t, s)
    BY <1>2 DEF Next
  <2>2. CASE \E k \in Kinds : begin(t, k)
    BY <2>2, BeginInv
  <2>3. CASE acquire(t)
    BY <2>3, AcquireInv
  <2>4. CASE \E s \in Slots : TxImpl_new(t, s) \/ TxRwImpl_new(t, s)
    BY <2>4, NewInv DEF TxImpl_new, TxRwImpl_new, Kinds
  <2>5. CASE \E s \in Slots : TxImpl_drop(t, s) \/ TxRwImpl_drop(t, s)
    BY <2>5, DropInv DEF TxImpl_drop, TxRwImpl_drop, Kinds
  <2>6. CASE \E s \in Slots : release(t, s)
    BY <2>6, ReleaseInv
  <2>. QED  BY <2>1, <2>2, <2>3, <2>4, <2>5, <2>6
<1>. QED  BY <1>1, <1>2

\* Whatever the threads do, every arena the records pool made is in the
\* pool or owned by exactly one live transaction (TxImpl::new, Drop).
THEOREM ArenasAccounted == Spec => []ArenaAccounting
<1>1. Spec => []IInv
  BY InitInv, NextInv, PTL DEF Spec
<1>2. IInv => ArenaAccounting
  BY DEF IInv
<1>. QED  BY <1>1, <1>2, PTL

\* Every reachable state of the transactions and the pool is typed.
THEOREM TxLockTypeCorrect == Spec => []TypeOK
<1>1. Spec => []IInv
  BY InitInv, NextInv, PTL DEF Spec
<1>2. IInv => TypeOK
  BY DEF IInv
<1>. QED  BY <1>1, <1>2, PTL

=============================================================================
