----------------------- MODULE MCPurchaseTransactions -----------------------
(* Model checking of PurchaseTransactions on small instances. *)
EXTENDS PurchaseTransactions, TLC

CONSTANTS t1, t2    \* transactions
CONSTANTS p1        \* a subscription

\* Both transactions are for one subscription, so that the account can try to buy
\* it twice.
MCPackageOf == [t \in Transaction |-> p1]

\* Workers are interchangeable.
Symmetry == Permutations(Worker)
=============================================================================
