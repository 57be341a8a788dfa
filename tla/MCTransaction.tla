---------------------------- MODULE MCTransaction ----------------------------
(***************************************************************************)
(* Instances of Transaction: an asset a, an asset x below the directory a  *)
(* (so that paths overlap) and an unrelated asset b.                       *)
(***************************************************************************)
EXTENDS Transaction, TLC

Branch(n)  == [type |-> "branch", name |-> n]
Commit(n)  == [type |-> "commit", name |-> n]
Edit(a, o) == [asset |-> a, op |-> "Branch", object |-> o]
TagOf(a, o) == [asset |-> a, op |-> "Tag", object |-> o]
AddOf(a)   == [asset |-> a, op |-> Tree, object |-> Empty]

a == <<"a">>
x == <<"a", "x">>
b == <<"b">>

main == Branch("main")

\* snapshot of a's main, tag of one of a's commits, source push into a and b,
\* add of an asset below a, add of b.
MixedRequests == {{Edit(a, main)}, {Edit(a, main), Edit(b, main)}, {AddOf(x)}}
AllRequests   == MixedRequests \cup {{TagOf(a, Commit("c1"))}}
AddElsewhere  == {{Edit(b, main)}, {AddOf(x)}}

MixedTids     == UNION MixedRequests
AllTids       == UNION AllRequests
AddTids       == UNION AddElsewhere

Symmetry == Permutations(Proc)
=============================================================================
