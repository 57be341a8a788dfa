----------------------------- MODULE MCLockFile -----------------------------
(* Small instances of LockFile.  Permutations is for the safety runs only. *)
EXTENDS LockFile, TLC

Symmetry == Permutations(Proc)
=============================================================================
