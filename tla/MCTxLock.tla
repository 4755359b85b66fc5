------------------------------ MODULE MCTxLock ------------------------------
(* TxLock for TLC: threads and arenas are model values.                    *)
EXTENDS TxLock, TLC

CONSTANTS t1, t2, t3, a1, a2, a3, a4

MCThreads2 == {t1, t2}
MCThreads3 == {t1, t2, t3}
MCArenas3 == {a1, a2, a3}
MCArenas4 == {a1, a2, a3, a4}

\* Threads are interchangeable, and so are arenas (the pool pops any).
MCSymmetry3 == Permutations(MCThreads3) \cup Permutations(MCArenas3)
MCSymmetry2 == Permutations(MCThreads2) \cup Permutations(MCArenas4)
=============================================================================
