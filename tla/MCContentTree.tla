--------------------------- MODULE MCContentTree ---------------------------
(* Small instances of ContentTree. *)
EXTENDS ContentTree, TLC

Symmetry == Permutations(Proc) \cup Permutations(Branch)
              \cup Permutations(Dir) \cup Permutations(File)
=============================================================================
