------------------------------ MODULE MCRuntime ------------------------------
(* Runtime with model values: the identities are interchangeable. *)
EXTENDS RuntimeProperties, TLC

Symmetry == Permutations(Calls) \cup Permutations(Plugins)
              \cup Permutations(Tasks) \cup Permutations(Links)

=============================================================================
