------------------------------ MODULE Isolation ------------------------------
(***************************************************************************)
(* What withTransaction promises to an Operation (operation.go): "ensures  *)
(* that 2 conflicting operation can't happen concurrently".  An operation  *)
(* runs from its Validate to the end of its Finish.                        *)
(***************************************************************************)
EXTENDS TransactionIds

CONSTANT Proc

VARIABLE running          \* the declarations of each process that runs one

Excluded(S, T) == \E s \in S, t \in T : Conflict(s, t)

Init == running = [p \in Proc |-> {}]

Begin(p, S) ==
    /\ running[p] = {}
    /\ \A q \in Proc : ~Excluded(S, running[q])
    /\ running' = [running EXCEPT ![p] = S]

End(p) == running' = [running EXCEPT ![p] = {}]

Next == \E p \in Proc : End(p) \/ \E S \in SUBSET Tid : Begin(p, S)

Spec == Init /\ [][Next]_running
=============================================================================
