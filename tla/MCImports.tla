------------------------------ MODULE MCImports ------------------------------
(* Model checking of Imports: threads, worker processes and previews are    *)
(* interchangeable, and so are the rates.                                   *)
EXTENDS Imports, TLC

Symmetry ==
    Permutations(Loops) \cup Permutations(Threads)
        \cup Permutations(PreviewIds) \cup Permutations(Rates)

=============================================================================
