------------------------------ MODULE MCStore -------------------------------
(* Store with model values: ids of rows and of uploads are interchangeable. *)
EXTENDS Store, TLC

Symmetry ==
    Permutations(Rows) \cup Permutations(Certs) \cup Permutations(Packages)

=============================================================================
