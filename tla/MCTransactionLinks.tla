------------------------- MODULE MCTransactionLinks -------------------------
(* Model checking of TransactionLinks: repayments, people and transactions *)
(* are interchangeable.                                                    *)
EXTENDS TransactionLinks, TLC

Symmetry ==
    Permutations(PaymentIds) \cup Permutations(People) \cup Permutations(TxIds)

\* States of more than three owed rows and transactions are reached and
\* checked, but not left.
Small ==
    Cardinality(DOMAIN items) + Cardinality(DOMAIN payments) + Cardinality(DOMAIN txs) <= 3

=============================================================================
