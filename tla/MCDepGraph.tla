----------------------------- MODULE MCDepGraph -----------------------------
(* Small instances of DepGraph. *)
EXTENDS DepGraph, TLC

\* Every command on assets that may follow each other's branches.
Adds  == {AddOf(a, n, Branch(b)) : a \in Asset, n \in Name, b \in Asset}
Every == Adds \cup UNION {{SnapshotOf(a), PullOf(a), PushOf(a)} : a \in Asset}

Symmetry == Permutations(Proc) \cup Permutations(Asset)
=============================================================================
