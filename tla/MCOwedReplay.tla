---------------------------- MODULE MCOwedReplay ----------------------------
(* Model checking of OwedReplay: repayments are interchangeable, and so are *)
(* people; the spellings of their labels are ordered.                       *)
EXTENDS OwedReplay, TLC

Symmetry == Permutations(PaymentIds) \cup Permutations(People)

=============================================================================
