----------------------------- MODULE MCPending -----------------------------
\* PendingTransactions with three transactions: t2 builds on t1 and may not come
\* too early, t3 excludes t1, is twice as large, expires early and names a block
\* that may be popped.
EXTENDS PendingTransactions, TLC

CONSTANTS t1, t2, t3

MCTxs == {t1, t2, t3}
MCExpiration == t1 :> 5 @@ t2 :> 6 @@ t3 :> 4
MCRefBlock == t1 :> NoBlock @@ t2 :> NoBlock @@ t3 :> [time |-> 2, txs |-> <<>>]
MCTxSize == t1 :> 1 @@ t2 :> 1 @@ t3 :> 2
MCNeeds == t1 :> {} @@ t2 :> {t1} @@ t3 :> {}
MCConflicts == {{t1, t3}}
=============================================================================
