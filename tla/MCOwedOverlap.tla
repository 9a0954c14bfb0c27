---------------------------- MODULE MCOwedOverlap ----------------------------
(* Model checking of OwedOverlap: requests are interchangeable, and so are   *)
(* repayments and people.                                                   *)
EXTENDS OwedOverlap, TLC

Symmetry ==
    Permutations(Requests) \cup Permutations(PaymentIds) \cup Permutations(People)

=============================================================================
