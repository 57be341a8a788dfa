---------------------------- MODULE AssetHistory ----------------------------
(***************************************************************************)
(* What the asset file promises to its readers: a history that only grows. *)
(* Commits are never lost or changed, a branch moves from its head to a    *)
(* commit whose parent is that head, the versions of a tag family are      *)
(* numbered one after the other and never re-pointed.                      *)
(***************************************************************************)
EXTENDS Sequences

CONSTANTS CommitId, Branch, Family, Content

VARIABLES
    commits,   \* of each commit that exists, its parent and its content
    head,      \* of each branch that exists, its last commit
    tags       \* of each family, its versions in order

state == <<commits, head, tags>>

\* f with v at k.
With(f, k, v) == [x \in DOMAIN f \cup {k} |-> IF x = k THEN v ELSE f[x]]

Snapshot(b, c, content) ==
    /\ b \in DOMAIN head /\ c \notin DOMAIN commits
    /\ commits' = With(commits, c, [parent |-> head[b], content |-> content])
    /\ head' = With(head, b, c)

NewBranch(b, c) ==
    /\ b \notin DOMAIN head /\ c \in DOMAIN commits
    /\ head' = With(head, b, c)
    /\ UNCHANGED <<commits, tags>>

NewVersion(f, c) == tags' = [tags EXCEPT ![f] = Append(@, c)]

Next ==
    \/ \E b \in Branch, c \in CommitId, content \in Content :
         /\ Snapshot(b, c, content)
         /\ UNCHANGED tags \/ \E f \in Family : NewVersion(f, c)
    \/ \E b \in Branch, c \in CommitId : NewBranch(b, c)
    \/ \E f \in Family, c \in DOMAIN commits : NewVersion(f, c) /\ UNCHANGED <<commits, head>>

Init ==
    /\ \E c \in CommitId, content \in Content, b \in Branch :
         /\ commits = [x \in {c} |-> [parent |-> c, content |-> content]]
         /\ head = [x \in {b} |-> c]
    /\ tags = [f \in Family |-> <<>>]

Spec == Init /\ [][Next]_state
=============================================================================
