--------------------------- MODULE TransactionIds ---------------------------
(***************************************************************************)
(* Transaction identifiers and the conflict relation of                    *)
(* internal/transaction: what an operation declares it will modify, what   *)
(* remains of that declaration once it is a file name in .vit/transaction, *)
(* and which declarations exclude each other.                              *)
(*                                                                         *)
(* An asset path is the sequence of its "/"-separated components, an       *)
(* object is the record of a Ref's object path (@branch=..., @tag=...,     *)
(* @commit=...).  File names keep what the code can tell apart: Dashed and *)
(* Slashed stand for the texts that the name cannot carry back.            *)
(***************************************************************************)
EXTENDS Sequences, SequencesExt

CONSTANTS
    Tid,       \* the transaction identifiers of the instance
    Dashed,    \* path components that contain the separator "---"
    Slashed    \* object names that contain "/"

Empty  == [type |-> "empty", name |-> ""]
Tree   == "TreeChanged"
EditOp == {"Branch", "Tag"}   \* TransactionCommit is declared and never used

ASSUME TidAssumption ==
    \A t \in Tid : /\ t.asset \in Seq(STRING)
                   /\ t.op \in {Tree} \cup EditOp
                   /\ t.op = Tree <=> t.object = Empty

\* pathsOverlap: equal, or one is above the other at a "/" boundary.
PathsOverlap(a, b) == IsPrefix(a, b) \/ IsPrefix(b, a)

\* Two declarations exclude each other: a tree change excludes everything on
\* an overlapping path, two edits exclude each other on the same object.
Conflict(s, t) ==
    /\ PathsOverlap(s.asset, t.asset)
    /\ \/ s.op = Tree \/ t.op = Tree
       \/ s.asset = t.asset /\ s.object = t.object

\* newTransactionIDFromName succeeds on the file: the name splits in two or
\* three parts at "---".
Decodes(t) == \A i \in DOMAIN t.asset : t.asset[i] \notin Dashed

\* The file is an entry of .vit/transaction itself: a "/" in the object's name
\* puts it in a sub-directory, which os.ReadDir lists as a directory.
TopLevel(t) == t.object.name \notin Slashed

\* The decoded TransactionID has no Ref: there is no third part to decode.
NilRef(t) == t.object = Empty

\* A scan in which tree changes look at tree changes, and edits at edits.
RejectsSameKind(S, E) ==
    \E e \in E : NilRef(e) \/ \E s \in S : s.op = e.op /\ Conflict(s, e)

\* validateTreeChanged and validateEdit, for the declarations S of a new
\* operation and the decoded entries E: an entry without Ref is dereferenced
\* and the process panics, an entry that conflicts ends it with an error.
Rejects(S, E) ==
    \E e \in E : NilRef(e) \/ \E s \in S : Conflict(s, e)
=============================================================================
