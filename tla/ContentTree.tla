---------------------------- MODULE ContentTree ----------------------------
(***************************************************************************)
(* The content nodes of internal/blob/content.go: what a commit holds is a *)
(* tree of files in .vit/content, one per directory, each named after the  *)
(* hash of what it says, so that directories which did not change are      *)
(* shared between commits.  UpdateBlob writes the nodes of a commit, the   *)
(* parent before its children, and no lock is held meanwhile: commits of   *)
(* two branches of the asset write at the same time.                       *)
(*                                                                         *)
(* A tree is a root and its sub-directories.  A node is what it says: the  *)
(* entries of the files (where their copy is in .vit/blob), the hashes of  *)
(* the children.  Hashes do not collide, and a node that is written stays. *)
(***************************************************************************)
EXTENDS Naturals

CONSTANTS
    Proc, Branch,
    NoOne,           \* the branch of a process that commits none
    Dir, File,       \* sub-directories of the asset, and files in each
    MaxCopies,       \* bound on the commits that copy files
    MaxFailures      \* bound on the commands that fail or die while they write

ASSUME ContentAssumption ==
    /\ NoOne \notin Branch
    /\ MaxCopies \in Nat /\ MaxFailures \in Nat

VARIABLES
    roots,    \* the root nodes on disk
    leaves,   \* the nodes of sub-directories on disk
    head,     \* of each branch, the tree of its last commit
    work,     \* of each working file: is it "same", "edited" or "gone"?
    pc,       \* control state of each snapshot command
    on,       \* the branch it commits
    tree,     \* the tree it writes
    todo,     \* sub-directories it has still to write
    copies, failures

vars == <<roots, leaves, head, work, pc, on, tree, todo, copies, failures>>

Entry == [dir : Dir, file : File, blob : 0 .. MaxCopies]
Leaf  == SUBSET Entry
Tree  == [Dir -> Leaf]

\* The tree of `add`: one copy of each file.
AddedTree == [d \in Dir |-> {[dir |-> d, file |-> f, blob |-> 0] : f \in File}]

\* Every branch begins as `branch` leaves it, with the commit of `add`.
Init ==
    /\ roots = {AddedTree}
    /\ leaves = {AddedTree[d] : d \in Dir}
    /\ head = [b \in Branch |-> AddedTree]
    /\ work = [b \in Branch |-> [d \in Dir |-> [f \in File |-> "same"]]]
    /\ pc = [p \in Proc |-> "idle"]
    /\ on = [p \in Proc |-> NoOne]
    /\ tree = [p \in Proc |-> AddedTree]
    /\ todo = [p \in Proc |-> {}]
    /\ copies = 0
    /\ failures = 0

-----------------------------------------------------------------------------

\* loadContentTree succeeds: every node below the root is on disk.
Loadable(t) == t \in roots /\ \A d \in Dir : t[d] \in leaves

Edited(b)  == \E d \in Dir, f \in File : work[b][d][f] = "edited"
Changed(b) == \E d \in Dir, f \in File :
                  \/ work[b][d][f] = "edited"
                  \/ work[b][d][f] = "gone" /\ \E e \in head[b][d] : e.file = f

\* applyChangeRecord, in which the files that changed are copied to blob.
Applied(b, blob) ==
    [d \in Dir |-> {e \in head[b][d] : work[b][d][e.file] = "same"}
                     \cup {[dir |-> d, file |-> f, blob |-> blob] :
                             f \in {x \in File : work[b][d][x] = "edited"}}]

\* A commit path without the random suffix of commitBlobPath, and with it: no
\* two commits copy their files to the same place.
SameCommitPath == 1
NewCommitPath == copies + 1

\* Transactions keep two commands off the same branch.
Busy(b) == \E p \in Proc : pc[p] # "idle" /\ on[p] = b

\* The command ends: the process and what it knew are gone.
Exit(p) ==
    /\ pc' = [pc EXCEPT ![p] = "idle"]
    /\ on' = [on EXCEPT ![p] = NoOne]
    /\ tree' = [tree EXCEPT ![p] = AddedTree]

\* A snapshot of b: Validate loads the tree of its last commit and finds changes,
\* PlanCommitBranch prepares the new tree.
Begin(p, b) ==
    /\ pc[p] = "idle" /\ ~Busy(b)
    /\ Loadable(head[b]) /\ Changed(b)
    /\ Edited(b) => copies < MaxCopies
    /\ pc' = [pc EXCEPT ![p] = "root"]
    /\ on' = [on EXCEPT ![p] = b]
    /\ tree' = [tree EXCEPT ![p] = Applied(b, NewCommitPath)]
    /\ copies' = IF Edited(b) THEN copies + 1 ELSE copies
    /\ UNCHANGED <<roots, leaves, head, work, todo, failures>>

\* A writer that does not go down to the children.
WriteRootAlone(p) ==
    /\ pc[p] = "root"
    /\ pc' = [pc EXCEPT ![p] = "leaves"]
    /\ roots' = roots \cup {tree[p]}
    /\ UNCHANGED <<leaves, head, work, on, tree, todo, copies, failures>>

\* writeContentNodesRecc on the root: if its node exists, so do those below it,
\* supposedly; else it is written, and then its children are.
WriteRoot(p) ==
    /\ pc[p] = "root"
    /\ pc' = [pc EXCEPT ![p] = "leaves"]
    /\ roots' = roots \cup {tree[p]}
    /\ todo' = [todo EXCEPT ![p] = IF tree[p] \in roots THEN {} ELSE Dir]
    /\ UNCHANGED <<leaves, head, work, on, tree, copies, failures>>

\* writeContentNodesRecc on a child, in the order of the parent's list.
WriteLeaf(p, d) ==
    /\ pc[p] = "leaves" /\ d \in todo[p]
    /\ leaves' = leaves \cup {tree[p][d]}
    /\ todo' = [todo EXCEPT ![p] = @ \ {d}]
    /\ UNCHANGED <<roots, head, work, pc, on, tree, copies, failures>>

\* UpdateBlob is done: the commit becomes the head of its branch.
Update(p) ==
    /\ pc[p] = "leaves" /\ todo[p] = {}
    /\ Exit(p)
    /\ head' = [head EXCEPT ![on[p]] = tree[p]]
    /\ work' = [work EXCEPT ![on[p]] = [d \in Dir |-> [f \in File |->
                   IF @[d][f] = "gone" THEN "gone" ELSE "same"]]]
    /\ UNCHANGED <<roots, leaves, todo, copies, failures>>

\* A write fails and so does the command, or its process dies: the nodes
\* written so far stay.  A command that goes on where another one stopped would
\* keep what that one had to write.
StopKeepingTodo(p) ==
    /\ pc[p] # "idle" /\ failures < MaxFailures
    /\ failures' = failures + 1
    /\ Exit(p)
    /\ UNCHANGED <<roots, leaves, head, work, todo, copies>>

Stop(p) ==
    /\ pc[p] # "idle" /\ failures < MaxFailures
    /\ failures' = failures + 1
    /\ Exit(p)
    /\ todo' = [todo EXCEPT ![p] = {}]
    /\ UNCHANGED <<roots, leaves, head, work, copies>>

\* The user edits, or removes, a file of a branch that nobody commits (edits
\* during a commit are the subject of AssetStore).
Edit(b, d, f) ==
    /\ ~Busy(b)
    /\ work' = [work EXCEPT ![b][d][f] = "edited"]
    /\ UNCHANGED <<roots, leaves, head, pc, on, tree, todo, copies, failures>>

Remove(b, d, f) ==
    /\ ~Busy(b)
    /\ work' = [work EXCEPT ![b][d][f] = "gone"]
    /\ UNCHANGED <<roots, leaves, head, pc, on, tree, todo, copies, failures>>

-----------------------------------------------------------------------------

Step(p) == WriteRoot(p) \/ (\E d \in Dir : WriteLeaf(p, d)) \/ Update(p)

Next ==
    \/ \E p \in Proc : Step(p) \/ Stop(p) \/ \E b \in Branch : Begin(p, b)
    \/ \E b \in Branch, d \in Dir, f \in File : Edit(b, d, f) \/ Remove(b, d, f)

Spec == Init /\ [][Next]_vars

-----------------------------------------------------------------------------
(* Properties                                                              *)

TypeOK ==
    /\ roots \subseteq Tree /\ leaves \subseteq Leaf
    /\ head \in [Branch -> Tree]
    /\ work \in [Branch -> [Dir -> [File -> {"same", "edited", "gone"}]]]
    /\ pc \in [Proc -> {"idle", "root", "leaves"}]
    /\ on \in [Proc -> Branch \cup {NoOne}] /\ tree \in [Proc -> Tree]
    /\ todo \in [Proc -> SUBSET Dir]
    /\ \A p \in Proc : pc[p] # "leaves" => todo[p] = {}
    /\ copies \in 0 .. MaxCopies /\ failures \in 0 .. MaxFailures

\* As long as no writer was interrupted, what a branch's last commit is made
\* of is on disk, or about to be written by a command that runs: relying on
\* the nodes that another command has begun to write is no loss
\* (writeContentNodesRecc: "its content (and its recc sub tree) are also
\* identical").
CommittedIsKept ==
    failures = 0 =>
        \A b \in Branch :
            /\ head[b] \in roots
            /\ \A d \in Dir : \/ head[b][d] \in leaves
                              \/ \E p \in Proc : d \in todo[p] /\ tree[p] = head[b]

\* A commit that copies files can be loaded as soon as it is made, whatever
\* was interrupted before: its tree is new, so all of it is written.
NewFilesLoad ==
    [][\A b \in Branch :
         (\E d \in Dir : \E e \in head'[b][d] : e \notin head[b][d])
             => Loadable(head[b])']_vars

\* blob.go: "Everything it writes is content-addressed or write-once so
\* orphan-safe": what an interrupted command leaves harms no later commit.
OrphanSafe ==
    (\A p \in Proc : pc[p] = "idle") => \A b \in Branch : Loadable(head[b])
=============================================================================
