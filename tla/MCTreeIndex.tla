---------------------------- MODULE MCTreeIndex ----------------------------
(* Small instances of TreeIndex. *)
EXTENDS TreeIndex, TLC

\* The entries of the log are the adds.
AddNumbers == 1 .. MaxAdds

Symmetry == Permutations(Proc)

\* An asset, an asset that would be inside it, and one beside it.
Nested == {<<"a">>, <<"a", "b">>, <<"d", "c">>}
Beside == {<<"a", "b">>, <<"a", "c">>}
=============================================================================
