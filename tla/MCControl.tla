------------------------------ MODULE MCControl ------------------------------
(* ControlPlane with model values; a configuration is what the constants say. *)
EXTENDS ControlProperties, TLC

MCConfigs == [fields : Versions, sourced : BOOLEAN]

MCSourceless == {f \in MCConfigs : ~f.sourced}

Symmetry == Permutations(Calls) \cup Permutations(Plugins)
              \cup Permutations(Tasks) \cup Permutations(Links) \cup Permutations(Enablements)
              \cup Permutations(Versions)

=============================================================================
