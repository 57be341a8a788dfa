------------------------- MODULE ContentTreeProofs -------------------------
(***************************************************************************)
(* The content nodes of commits, for any number of processes, branches,    *)
(* directories and files.                                                  *)
(*                                                                         *)
(* KeptInv: while nothing was interrupted, each leaf of each root on disk  *)
(* is on disk or about to be written.  NewInv: an entry that a command     *)
(* adds is in no tree but its own, so the root that has it is written with *)
(* all its leaves, whatever was interrupted before.                        *)
(***************************************************************************)
EXTENDS ContentTree, TLAPS

\* The empty repository is well typed.
LEMMA TypeInit == Init => TypeOK
<1>1. AddedTree \in Tree
  BY ContentAssumption DEF AddedTree, Tree, Leaf, Entry
<1>2. QED
  BY <1>1, ContentAssumption DEF Init, TypeOK, Tree

\* No step leaves the types.
LEMMA TypeStep ==
  ASSUME TypeOK, [Next]_vars PROVE TypeOK'
<1> USE ContentAssumption DEF Tree, Leaf, Entry
<1>0. AddedTree \in Tree
  BY DEF AddedTree
<1>1. ASSUME NEW p \in Proc, WriteRoot(p) PROVE TypeOK'
  BY <1>1 DEF WriteRoot, TypeOK
<1>2. ASSUME NEW p \in Proc, NEW d \in Dir, WriteLeaf(p, d) PROVE TypeOK'
  BY <1>2 DEF WriteLeaf, TypeOK
<1>3. ASSUME NEW p \in Proc, Update(p) PROVE TypeOK'
  BY <1>0, <1>3 DEF Update, Exit, TypeOK
<1>4. ASSUME NEW p \in Proc, Stop(p) PROVE TypeOK'
  BY <1>0, <1>4 DEF Stop, Exit, TypeOK
<1>5. ASSUME NEW p \in Proc, NEW b \in Branch, Begin(p, b) PROVE TypeOK'
  <2>1. Applied(b, copies + 1) \in Tree
    <3>1. ASSUME NEW d \in Dir, NEW f \in {x \in File : work[b][d][x] = "edited"}
          PROVE  [dir |-> d, file |-> f, blob |-> copies + 1] \in Entry
      BY <1>5, <3>1 DEF Begin, Edited, TypeOK
    <3>2. QED
      BY <3>1 DEF Applied, TypeOK
  <2>2. copies' \in 0 .. MaxCopies
    BY <1>5 DEF Begin, TypeOK
  <2>3. QED
    BY <1>5, <2>1, <2>2 DEF Begin, NewCommitPath, TypeOK
<1>6. ASSUME NEW b \in Branch, NEW d \in Dir, NEW f \in File, Edit(b, d, f) PROVE TypeOK'
  BY <1>6 DEF Edit, TypeOK
<1>7. ASSUME NEW b \in Branch, NEW d \in Dir, NEW f \in File, Remove(b, d, f) PROVE TypeOK'
  BY <1>7 DEF Remove, TypeOK
<1>8. CASE UNCHANGED vars
  BY <1>8 DEF vars, TypeOK
<1>9. QED
  BY <1>1, <1>2, <1>3, <1>4, <1>5, <1>6, <1>7, <1>8 DEF Next, Step

\* Every reachable state is well typed.
THEOREM TypeCorrect == Spec => []TypeOK
  BY TypeInit, TypeStep, PTL DEF Spec

-----------------------------------------------------------------------------
(* While nothing was interrupted.                                          *)

\* A command that is past its root has it on disk, and so has each branch.
RootsThere ==
    /\ \A p \in Proc : pc[p] = "leaves" => tree[p] \in roots
    /\ \A b \in Branch : head[b] \in roots

\* Each leaf of each root is there, or is some command's to write.
LeavesFollow ==
    failures = 0 =>
        \A t \in roots : \A d \in Dir :
            \/ t[d] \in leaves
            \/ \E p \in Proc : d \in todo[p] /\ tree[p] = t

KeptInv == TypeOK /\ RootsThere /\ LeavesFollow

\* Nothing is committed at the start.
LEMMA KeptInit == Init => KeptInv
<1>1. Init => RootsThere /\ LeavesFollow
  BY DEF Init, RootsThere, LeavesFollow
<1>2. QED
  BY <1>1, TypeInit DEF KeptInv

\* The inductive step.
LEMMA KeptStep ==
  ASSUME KeptInv, [Next]_vars PROVE KeptInv'
<1> USE DEF KeptInv
<1>0. TypeOK'
  BY TypeStep
<1>1. ASSUME NEW p \in Proc, WriteRoot(p) PROVE RootsThere' /\ LeavesFollow'
  BY <1>1 DEF WriteRoot, RootsThere, LeavesFollow, TypeOK
<1>2. ASSUME NEW p \in Proc, NEW d \in Dir, WriteLeaf(p, d) PROVE RootsThere' /\ LeavesFollow'
  BY <1>2 DEF WriteLeaf, RootsThere, LeavesFollow, TypeOK
<1>3. ASSUME NEW p \in Proc, Update(p) PROVE RootsThere' /\ LeavesFollow'
  BY <1>3 DEF Update, Exit, RootsThere, LeavesFollow, TypeOK
<1>4. ASSUME NEW p \in Proc, Stop(p) PROVE RootsThere' /\ LeavesFollow'
  BY <1>4 DEF Stop, Exit, RootsThere, LeavesFollow, TypeOK
<1>5. ASSUME NEW p \in Proc, NEW b \in Branch, Begin(p, b) PROVE RootsThere' /\ LeavesFollow'
  BY <1>5 DEF Begin, RootsThere, LeavesFollow, TypeOK
<1>6. ASSUME NEW b \in Branch, NEW d \in Dir, NEW f \in File, Edit(b, d, f) \/ Remove(b, d, f)
      PROVE  RootsThere' /\ LeavesFollow'
  BY <1>6 DEF Edit, Remove, RootsThere, LeavesFollow
<1>7. CASE UNCHANGED vars
  BY <1>0, <1>7 DEF vars, RootsThere, LeavesFollow
<1>8. QED
  BY <1>0, <1>1, <1>2, <1>3, <1>4, <1>5, <1>6, <1>7 DEF Next, Step

\* What a branch's last commit is made of is on disk or about to be written.
THEOREM Kept == Spec => []CommittedIsKept
<1>1. KeptInv => CommittedIsKept
  BY DEF KeptInv, RootsThere, LeavesFollow, CommittedIsKept
<1>2. QED
  BY <1>1, KeptInit, KeptStep, PTL DEF Spec

-----------------------------------------------------------------------------
(* Whatever was interrupted.                                               *)

\* A command has a branch for itself.
OwnBranch ==
    \A p \in Proc : pc[p] # "idle" =>
        /\ on[p] \in Branch
        /\ \A q \in Proc : pc[q] # "idle" /\ on[q] = on[p] => q = p

\* No tree has a copy that was not made.
CopiesMade ==
    /\ \A t \in roots : \A d \in Dir : \A e \in t[d] : e.blob <= copies
    /\ \A b \in Branch : \A d \in Dir : \A e \in head[b][d] : e.blob <= copies
    /\ \A p \in Proc : \A d \in Dir : \A e \in tree[p][d] : e.blob <= copies

\* What p adds to the directory d of its branch.
New(p, d) == tree[p][d] \ head[on[p]][d]

\* It is in no other tree, and in a root only when p has written it.
NewIsOwn ==
    \A p \in Proc : pc[p] # "idle" => \A d \in Dir : \A e \in New(p, d) :
        /\ \A b \in Branch : e \notin head[b][d]
        /\ \A q \in Proc : pc[q] # "idle" /\ q # p => e \notin tree[q][d]
        /\ pc[p] = "root" => \A t \in roots : e \notin t[d]

\* So its root is written by p, with all its leaves.
NewIsWritten ==
    \A p \in Proc : pc[p] = "leaves" /\ (\E d \in Dir : New(p, d) # {}) =>
        \A d \in Dir : tree[p][d] \in leaves \/ d \in todo[p]

NewInv == OwnBranch /\ CopiesMade /\ NewIsOwn /\ NewIsWritten

\* Nothing is copied at the start.
LEMMA NewInit == Init => NewInv
  BY ContentAssumption DEF Init, NewInv, OwnBranch, CopiesMade, NewIsOwn, NewIsWritten, AddedTree

\* What a snapshot of b adds is new, since it has a number of its own.
LEMMA AppliedFacts ==
  ASSUME TypeOK, CopiesMade, NEW p \in Proc, NEW b \in Branch, Begin(p, b), NEW d \in Dir,
         NEW e \in tree'[p][d]
  PROVE  \/ e \in head[b][d] /\ e.blob <= copies
         \/ e.blob = copies' /\ copies' = copies + 1
<1>1. tree'[p][d] = Applied(b, copies + 1)[d]
  BY DEF Begin, NewCommitPath, TypeOK
<1>2. CASE e \in head[b][d]
  BY <1>2 DEF CopiesMade
<1>3. CASE e \notin head[b][d]
  <2>1. PICK f \in {x \in File : work[b][d][x] = "edited"} :
          e = [dir |-> d, file |-> f, blob |-> copies + 1]
    BY <1>1, <1>3 DEF Applied
  <2>2. QED
    BY <2>1 DEF Begin, Edited
<1>4. QED
  BY <1>2, <1>3

\* The inductive step.
LEMMA NewStep ==
  ASSUME KeptInv, NewInv, [Next]_vars PROVE NewInv'
<1> USE DEF NewInv
<1>0. TypeOK /\ TypeOK'
  BY TypeStep DEF KeptInv
<1>1. ASSUME NEW p \in Proc, WriteRoot(p) PROVE NewInv'
  <2>1. OwnBranch'
    BY <1>0, <1>1 DEF WriteRoot, OwnBranch, TypeOK
  <2>2. CopiesMade'
    BY <1>0, <1>1 DEF WriteRoot, CopiesMade, TypeOK
  <2>3. NewIsOwn'
    BY <1>0, <1>1 DEF WriteRoot, NewIsOwn, New, TypeOK
  <2>4. NewIsWritten'
    BY <1>0, <1>1 DEF WriteRoot, NewIsOwn, NewIsWritten, New, TypeOK
  <2>5. QED
    BY <2>1, <2>2, <2>3, <2>4
<1>2. ASSUME NEW p \in Proc, NEW d \in Dir, WriteLeaf(p, d) PROVE NewInv'
  <2>1. OwnBranch' /\ CopiesMade' /\ NewIsOwn'
    BY <1>0, <1>2 DEF WriteLeaf, OwnBranch, CopiesMade, NewIsOwn, New, TypeOK
  <2>2. NewIsWritten'
    BY <1>0, <1>2 DEF WriteLeaf, NewIsWritten, New, TypeOK
  <2>3. QED
    BY <2>1, <2>2
<1>3. ASSUME NEW p \in Proc, Update(p) PROVE NewInv'
  <2>1. OwnBranch'
    BY <1>0, <1>3 DEF Update, Exit, OwnBranch, TypeOK
  <2>2. CopiesMade'
    BY <1>0, <1>3 DEF Update, Exit, OwnBranch, CopiesMade, AddedTree, TypeOK
  <2>3. ASSUME NEW q \in Proc, pc'[q] # "idle"
        PROVE  /\ q # p /\ on'[q] = on[q] /\ tree'[q] = tree[q] /\ pc'[q] = pc[q]
               /\ \A d \in Dir : New(q, d)' = New(q, d)
    BY <1>0, <1>3, <2>3 DEF Update, Exit, OwnBranch, New, TypeOK
  <2>4. NewIsOwn'
    BY <1>0, <1>3, <2>3 DEF Update, Exit, NewIsOwn, OwnBranch, TypeOK
  <2>5. NewIsWritten'
    BY <1>3, <2>3 DEF Update, NewIsWritten
  <2>6. QED
    BY <2>1, <2>2, <2>4, <2>5
<1>4. ASSUME NEW p \in Proc, Stop(p) PROVE NewInv'
  <2>1. OwnBranch' /\ CopiesMade'
    BY <1>0, <1>4 DEF Stop, Exit, OwnBranch, CopiesMade, AddedTree, TypeOK
  <2>2. ASSUME NEW q \in Proc, pc'[q] # "idle"
        PROVE  /\ q # p /\ on'[q] = on[q] /\ tree'[q] = tree[q] /\ pc'[q] = pc[q]
               /\ todo'[q] = todo[q]
               /\ \A d \in Dir : New(q, d)' = New(q, d)
    BY <1>0, <1>4, <2>2 DEF Stop, Exit, New, TypeOK
  <2>3. NewIsOwn'
    BY <1>4, <2>2 DEF Stop, NewIsOwn
  <2>4. NewIsWritten'
    BY <1>4, <2>2 DEF Stop, NewIsWritten
  <2>5. QED
    BY <2>1, <2>3, <2>4
<1>5. ASSUME NEW p \in Proc, NEW b \in Branch, Begin(p, b) PROVE NewInv'
  <2>1. OwnBranch'
    BY <1>0, <1>5 DEF Begin, Busy, OwnBranch, TypeOK
  <2>2. ASSUME NEW q \in Proc, q # p
        PROVE  tree'[q] = tree[q] /\ on'[q] = on[q] /\ pc'[q] = pc[q]
    BY <1>0, <1>5, <2>2 DEF Begin, TypeOK
  <2>3. pc'[p] = "root" /\ on'[p] = b
    BY <1>0, <1>5 DEF Begin, TypeOK
  <2>4. head' = head /\ roots' = roots /\ leaves' = leaves /\ todo' = todo
    BY <1>5 DEF Begin
  <2>5. copies' \in Nat /\ copies \in Nat /\ copies <= copies'
    BY <1>0, <1>5, ContentAssumption DEF Begin, TypeOK
  <2>6. \A d \in Dir : \A e \in tree'[p][d] :
          \/ e \in head[b][d] /\ e.blob <= copies
          \/ e.blob = copies' /\ copies' = copies + 1
    BY <1>0, <1>5, AppliedFacts
  <2>7. \A d \in Dir : \A e : \/ \E t \in roots : e \in t[d]
                              \/ \E c \in Branch : e \in head[c][d]
                              \/ \E q \in Proc : e \in tree[q][d]
                              => e.blob \in Nat /\ e.blob <= copies
    BY <1>0 DEF CopiesMade, TypeOK, Tree, Leaf, Entry
  <2>8. CopiesMade'
    BY <1>0, <2>2, <2>4, <2>5, <2>6, <2>7 DEF CopiesMade
  <2>9. NewIsOwn'
    <3>1. ASSUME NEW d \in Dir, NEW e \in New(p, d)'
          PROVE  e.blob = copies' /\ copies' = copies + 1
      BY <2>3, <2>4, <2>6, <3>1 DEF New
    <3>2. ASSUME NEW q \in Proc, q # p, pc[q] # "idle", NEW d \in Dir, NEW e \in New(q, d)
          PROVE  e \notin tree'[p][d]
      <4>1. e \notin head[b][d] /\ e.blob <= copies /\ e.blob \in Nat
        BY <1>0, <2>7, <3>2 DEF NewIsOwn, New
      <4>2. QED
        BY <2>5, <2>6, <4>1
    <3>3. ASSUME NEW q \in Proc, q # p, NEW d \in Dir PROVE New(q, d)' = New(q, d)
      BY <2>2, <2>4, <3>3 DEF New
    <3>4. QED
      BY <2>2, <2>3, <2>4, <2>5, <2>7, <3>1, <3>2, <3>3 DEF NewIsOwn
  <2>10. NewIsWritten'
    BY <2>2, <2>3, <2>4 DEF NewIsWritten, New
  <2>11. QED
    BY <2>1, <2>8, <2>9, <2>10
<1>6. ASSUME NEW b \in Branch, NEW d \in Dir, NEW f \in File, Edit(b, d, f) \/ Remove(b, d, f)
      PROVE  NewInv'
  BY <1>6 DEF Edit, Remove, OwnBranch, CopiesMade, NewIsOwn, NewIsWritten, New
<1>7. CASE UNCHANGED vars
  BY <1>7 DEF vars, OwnBranch, CopiesMade, NewIsOwn, NewIsWritten, New
<1>8. QED
  BY <1>1, <1>2, <1>3, <1>4, <1>5, <1>6, <1>7 DEF Next, Step

\* A commit that copies files can be loaded as soon as it is made.
THEOREM NewLoads == Spec => NewFilesLoad
<1>1. Init => KeptInv /\ NewInv
  BY KeptInit, NewInit
<1>2. ASSUME KeptInv, NewInv, [Next]_vars
      PROVE  [\A b \in Branch :
                (\E d \in Dir : \E e \in head'[b][d] : e \notin head[b][d])
                    => Loadable(head[b])']_vars
  <2>1. ASSUME NEW p \in Proc, Update(p), NEW b \in Branch, NEW d \in Dir,
               NEW e \in head'[b][d], e \notin head[b][d]
        PROVE  Loadable(head[b])'
    BY <1>2, <2>1 DEF Update, KeptInv, NewInv, Loadable, RootsThere, NewIsWritten, New, OwnBranch, TypeOK
  <2>2. ASSUME head' # head PROVE \E p \in Proc : Update(p)
    BY <1>2, <2>2 DEF Next, Step, vars, WriteRoot, WriteLeaf, Stop, Begin, Edit, Remove
  <2>3. QED
    BY <2>1, <2>2
<1>3. QED
  BY <1>1, <1>2, KeptStep, NewStep, PTL DEF Spec, NewFilesLoad
=============================================================================
