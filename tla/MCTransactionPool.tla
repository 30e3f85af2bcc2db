-------------------------- MODULE MCTransactionPool --------------------------
(***************************************************************************)
(* Small instances of TransactionPool: a ring of four slots and ids that   *)
(* collide in m_refar.                                                     *)
(***************************************************************************)
EXTENDS TransactionPoolInvariant, TLC

CONSTANTS t1, t2

TwoThreads == {t1, t2}
ThreadSymmetry == Permutations(Threads)

\* 1 and 5 have the same entry.
CollidingIds == {1, 5}
=============================================================================
