---------------------------- MODULE MCOwedLedger ----------------------------
(* Model checking of OwedLedger: repayments are interchangeable, people are *)
(* interchangeable, and only their labels' spellings are ordered.           *)
EXTENDS OwedLedger, TLC

Symmetry == Permutations(PaymentIds) \cup Permutations(People)

Linked ==
    (\E i \in DOMAIN items : items[i].link # None)
        \/ (\E p \in DOMAIN payments : payments[p].link # None)

\* Ledgers of three rows are left only while no row is linked, and two rows
\* otherwise; which transaction is there to be linked matters for the latter.
Small ==
    Cardinality(DOMAIN items) + Cardinality(DOMAIN payments)
        <= IF /\ ~Linked
              /\ \A t \in DOMAIN txs : txs[t].amount = 1 /\ txs[t].direction = "in"
           THEN 3 ELSE 2

=============================================================================
