-------------------------------- MODULE MCGLS --------------------------------
(* Small instances of GLSSpanStack for TLC. *)
EXTENDS GLSRefinement

\* Spans, and the goroutines other than Main, are interchangeable.
Symmetry == Permutations(Spans) \cup Permutations(Goroutines \ {Main})

==============================================================================
