------------------------ MODULE MCGeneratorWorkspace ------------------------
(* Instances of GeneratorWorkspace for TLC. *)
EXTENDS GeneratorWorkspace, TLC

Symmetry == Permutations(Boxes) \cup Permutations(Workspaces)
=============================================================================
