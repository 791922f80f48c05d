--------------------------- MODULE MCProjectService ---------------------------
(* The project service on small instances: sets of model values in the .cfg. *)
EXTENDS ProjectInvariant, TLC

(* Identities are only compared, so every permutation of them is a symmetry. *)
Symmetry ==
  Permutations(Students) \cup Permutations(Teams) \cup Permutations(Requests)
    \cup Permutations(Workers) \cup Permutations(Projects)
=============================================================================
