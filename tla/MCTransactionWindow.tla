------------------------- MODULE MCTransactionWindow -------------------------
(* Small instances of TransactionWindow. *)
EXTENDS TransactionWindow

\* As WebRequestHandler sets it: the pool allows twice the idle time it asks for.
HandlerRequests == {PoolMaxIdle \div 2}
AnyRequests == -1 .. PoolMaxIdle + 1
=============================================================================
