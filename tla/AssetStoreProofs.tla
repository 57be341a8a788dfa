-------------------------- MODULE AssetStoreProofs --------------------------
(***************************************************************************)
(* The life of one asset, for any number of processes, branches, commits,  *)
(* tag families and files.                                                 *)
(*                                                                         *)
(* Who is about to write the asset file holds its lock, and has in the     *)
(* pool what the file holds and one change; so the file implements         *)
(* AssetHistory.  The transaction keeps every other command from a branch  *)
(* that is being committed; so the commit is built on the parent that it   *)
(* was compared with.  What a commit holds of a file is what the user has, *)
(* or the file has an edit that is later than the commit's baseline; so a  *)
(* branch without changes is a branch that is saved.                       *)
(***************************************************************************)
EXTENDS AssetStore, SequenceTheorems, TLAPS

-----------------------------------------------------------------------------
(* The asset file.                                                         *)

\* Heads and versions are commits of the asset.
Whole(a) ==
    /\ AssetOK(a)
    /\ \A b \in DOMAIN a.head : a.head[b] \in DOMAIN a.commits
    /\ \A f \in Family : a.tags[f] \in Seq(DOMAIN a.commits)

\* The next version of a family is the one after the last.
LEMMA NextVersion ==
  ASSUME NEW S, NEW s \in Seq(S), NEW c
  PROVE  With(s, Highest(s) + 1, c) = Append(s, c)
<1>1. Len(s) \in Nat /\ DOMAIN s = 1 .. Len(s)
  OBVIOUS
<1>2. /\ Len(s) \in DOMAIN s \cup {0}
      /\ \A m \in DOMAIN s : m <= Len(s)
      /\ \A n \in DOMAIN s \cup {0} : (\A m \in DOMAIN s : m <= n) => n = Len(s)
  BY <1>1
<1>3. Highest(s) = Len(s)
  BY <1>2 DEF Highest
<1>4. With(s, Highest(s) + 1, c) = [x \in 1 .. Len(s) + 1 |-> IF x = Len(s) + 1 THEN c ELSE s[x]]
  <2>1. DOMAIN s \cup {Highest(s) + 1} = 1 .. Len(s) + 1
    BY <1>1, <1>3
  <2>2. QED
    BY <1>3, <2>1 DEF With
<1>5. Append(s, c) = [x \in 1 .. Len(s) + 1 |-> IF x = Len(s) + 1 THEN c ELSE s[x]]
  <2>1. s \in Seq(S \cup {c}) /\ c \in S \cup {c}
    OBVIOUS
  <2>2. /\ Append(s, c) \in Seq(S \cup {c}) /\ Len(Append(s, c)) = Len(s) + 1
        /\ \A x \in 1 .. Len(s) + 1 : Append(s, c)[x] = IF x = Len(s) + 1 THEN c ELSE s[x]
    BY <1>1, <2>1
  <2>3. Append(s, c) \in [1 .. Len(s) + 1 -> S \cup {c}]
    BY <2>2, LenProperties
  <2>4. QED
    BY <2>2, <2>3
<1>6. QED
  BY <1>4, <1>5

\* The fields of the asset after a commit, a new branch and a new version.
LEMMA CommitFacts ==
  ASSUME NEW a, Whole(a), NEW b \in DOMAIN a.head, NEW c \in CommitId, NEW files \in Content,
         NEW t \in Time
  PROVE  LET n == CommitBranch(a, b, c, files, t) IN
         /\ Whole(n) /\ n.tags = a.tags
         /\ n.commits = With(a.commits, c, [parent |-> a.head[b], content |-> files])
         /\ n.head = With(a.head, b, c) /\ n.baseline = With(a.baseline, b, t)
<1> DEFINE n == CommitBranch(a, b, c, files, t)
<1>1. /\ n.commits = With(a.commits, c, [parent |-> a.head[b], content |-> files])
      /\ n.head = With(a.head, b, c) /\ n.baseline = With(a.baseline, b, t) /\ n.tags = a.tags
      /\ DOMAIN n = DOMAIN a
  BY DEF CommitBranch, Whole, AssetOK
<1> HIDE DEF n
<1>2. DOMAIN n.commits = DOMAIN a.commits \cup {c} /\ DOMAIN n.head = DOMAIN a.head
      /\ DOMAIN n.baseline = DOMAIN a.baseline
  BY <1>1 DEF With, Whole, AssetOK
<1>3. AssetOK(n)
  BY <1>1, <1>2 DEF With, Whole, AssetOK
<1>4. \A x \in DOMAIN n.head : n.head[x] \in DOMAIN n.commits
  BY <1>1, <1>2 DEF With, Whole
<1>5. \A f \in Family : n.tags[f] \in Seq(DOMAIN n.commits)
  BY <1>1, <1>2 DEF Whole
<1>6. QED
  BY <1>1, <1>3, <1>4, <1>5 DEF Whole, n

\* A new branch on an existing commit.
LEMMA BranchFacts ==
  ASSUME NEW a, Whole(a), NEW b \in Branch, NEW c \in DOMAIN a.commits, NEW t \in Time
  PROVE  LET n == AddBranch(a, b, c, t) IN
         /\ Whole(n) /\ n.tags = a.tags /\ n.commits = a.commits
         /\ n.head = With(a.head, b, c) /\ n.baseline = With(a.baseline, b, t)
<1> DEFINE n == AddBranch(a, b, c, t)
<1>1. /\ n.commits = a.commits /\ n.tags = a.tags
      /\ n.head = With(a.head, b, c) /\ n.baseline = With(a.baseline, b, t)
      /\ DOMAIN n = DOMAIN a
  BY DEF AddBranch, Whole, AssetOK
<1> HIDE DEF n
<1>2. /\ DOMAIN n.head = DOMAIN a.head \cup {b} /\ DOMAIN n.baseline = DOMAIN a.head \cup {b}
      /\ c \in CommitId
  BY <1>1 DEF With, Whole, AssetOK
<1>3. AssetOK(n)
  BY <1>1, <1>2 DEF With, Whole, AssetOK
<1>4. QED
  BY <1>1, <1>2, <1>3 DEF With, Whole, n

\* A new version.
LEMMA TagFacts ==
  ASSUME NEW a, Whole(a), NEW f \in Family, NEW c \in DOMAIN a.commits
  PROVE  LET n == AddTag(a, f, c) IN
         /\ Whole(n) /\ n.commits = a.commits /\ n.head = a.head /\ n.baseline = a.baseline
         /\ n.tags = [a.tags EXCEPT ![f] = Append(@, c)]
<1> DEFINE n == AddTag(a, f, c)
<1>1. With(a.tags[f], Highest(a.tags[f]) + 1, c) = Append(a.tags[f], c)
  BY NextVersion DEF Whole
<1>2. /\ n.commits = a.commits /\ n.head = a.head /\ n.baseline = a.baseline
      /\ DOMAIN n = DOMAIN a
      /\ n.tags = [a.tags EXCEPT ![f] = Append(@, c)]
  BY <1>1 DEF AddTag, Whole, AssetOK
<1> HIDE DEF n
<1>3. \A g \in Family : n.tags[g] \in Seq(DOMAIN a.commits)
  <2>1. Append(a.tags[f], c) \in Seq(DOMAIN a.commits)
    BY AppendProperties DEF Whole
  <2>2. \A g \in Family : n.tags[g] = IF g = f THEN Append(a.tags[f], c) ELSE a.tags[g]
    <3>1. DOMAIN a.tags = Family
      BY DEF Whole, AssetOK
    <3>2. QED
      BY <1>2, <3>1
  <2>3. QED
    BY <2>1, <2>2 DEF Whole
<1>4. AssetOK(n)
  <2>1. ASSUME NEW g \in Family, NEW v \in DOMAIN n.tags[g]
        PROVE  v \in Nat /\ n.tags[g][v] \in CommitId
    <3>1. n.tags[g][v] \in DOMAIN a.commits /\ v \in Nat
      BY <1>3
    <3>2. QED
      BY <3>1 DEF Whole, AssetOK
  <2>2. QED
    BY <1>2, <2>1 DEF Whole, AssetOK
<1>5. QED
  BY <1>2, <1>3, <1>4 DEF Whole, n

-----------------------------------------------------------------------------
(* The invariant.                                                          *)

Working == {"copy", "update", "flush"}
Inside  == {"validate", "finish"} \cup Working

\* Whoever has validated has a command to carry out: a commit to make on a
\* branch that is presented, or a commit that is known.
Validated ==
    /\ presented \subseteq DOMAIN asset.head
    /\ \A p \in Proc :
         /\ pc[p] \notin {"idle", "dead"} => op[p] \in Ops
         /\ pc[p] \in {"idle", "dead", "start", "validate"} => target[p] = NoCommit /\ copying[p] = {}
         /\ pc[p] \in Working =>
              IF MakesCommit(p)
                THEN /\ op[p].kind \in {"snapshot", "tag"} /\ op[p].ref.type = "branch"
                     /\ op[p].ref.name \in presented
                ELSE /\ op[p].kind \in {"branch", "tag"} /\ copying[p] = {}
                     /\ target[p] \in DOMAIN asset.commits
                     /\ content[p] = asset.commits[target[p]].content
         /\ pc[p] = "finish" /\ op[p].kind = "branch" => op[p].to \in DOMAIN asset.head

\* What a command has in the pool when it holds the lock: a commit on the head of
\* its branch, perhaps with a version, ...
NewCommit(p) ==
    LET b == op[p].ref.name IN
    /\ MakesCommit(p)
    /\ \E c \in CommitId \ DOMAIN asset.commits :
         /\ pool[p].commits = With(asset.commits, c, [parent |-> asset.head[b], content |-> content[p]])
         /\ pool[p].head = With(asset.head, b, c)
         /\ pool[p].baseline = With(asset.baseline, b, ts[p])
         /\ \/ pool[p].tags = asset.tags
            \/ op[p].to \in Family /\ pool[p].tags = [asset.tags EXCEPT ![op[p].to] = Append(@, c)]

\* ... a version of a commit that is there, ...
NewVersion(p) ==
    /\ ~MakesCommit(p) /\ op[p].kind = "tag" /\ op[p].to \in Family
    /\ pool[p].commits = asset.commits /\ pool[p].head = asset.head
    /\ pool[p].baseline = asset.baseline
    /\ pool[p].tags = [asset.tags EXCEPT ![op[p].to] = Append(@, target[p])]

\* ... or a branch on one.
NewBranch(p) ==
    LET b == op[p].to IN
    /\ ~MakesCommit(p) /\ op[p].kind = "branch"
    /\ b \in Branch \ DOMAIN asset.head
    /\ pool[p].commits = asset.commits /\ pool[p].tags = asset.tags
    /\ pool[p].head = With(asset.head, b, target[p])
    /\ \E t \in 0 .. clock : pool[p].baseline = With(asset.baseline, b, t)

Flushing ==
    \A p \in Proc : pc[p] = "flush" =>
        /\ lock = p /\ Whole(pool[p])
        /\ NewCommit(p) \/ NewVersion(p) \/ NewBranch(p)

\* The transaction keeps commands on the same object apart.
Isolated ==
    /\ DOMAIN running = Proc
    /\ \A p \in Proc : pc[p] \in Inside => running[p] = {Declares(op[p])}
    /\ \A p, q \in Proc : p # q => ~Iso!Excluded(running[p], running[q])

\* What is not to be copied is what the parent has.
Built ==
    \A p \in Proc :
        /\ copying[p] \subseteq changes[p]
        /\ pc[p] \in Working /\ MakesCommit(p) =>
             \A f \in File \ changes[p] : content[p][f] = HeadContent(asset, op[p].ref.name)[f]

\* If the user's file f of b is not x, DirStat.Diff with the baseline t says so.
Told(b, f, x, t) ==
    work[b][f] # x => work[b][f] = 0 \/ x = 0 \/ mtime[b][f] > t

\* So it is with the last commits, and with those that are being made.
Saved ==
    /\ \A b \in DOMAIN asset.head :
         /\ asset.baseline[b] <= clock
         /\ \A f \in File : Told(b, f, HeadContent(asset, b)[f], asset.baseline[b])
    /\ \A p \in Proc :
         /\ ts[p] <= clock
         /\ pc[p] \in Working /\ MakesCommit(p) =>
              \A f \in File \ copying[p] : Told(op[p].ref.name, f, content[p][f], ts[p])
         /\ pc[p] \in {"update", "flush"} /\ MakesCommit(p) => copying[p] = {}

\* The files of a new branch are in place before the branch is; nobody else puts
\* any in its directory, unless it has none.
Placed ==
    /\ \A b \in DOMAIN asset.head :
         b \in blobDir \/ b \in presented \/ HeadContent(asset, b) = NoFiles
    /\ \A p \in Proc :
         pc[p] \in {"update", "flush"} /\ op[p].kind = "branch" /\ op[p].to \notin DOMAIN asset.head =>
           /\ \A f \in File : content[p][f] \in {0, work[op[p].to][f]}
           /\ op[p].to \in blobDir \/ content[p] = NoFiles

StoreInv == Whole(asset) /\ Validated /\ Flushing /\ Isolated /\ Built /\ Saved /\ Placed

-----------------------------------------------------------------------------
(* The steps.                                                              *)

\* A command moves on, or gives up.
Moves(p) ==
    \/ Begin(p) \/ Conflicts(p) \/ Invalid(p) \/ EndCopy(p) \/ CopyFails(p)
    \/ UpdateFails(p) \/ FlushFails(p) \/ EndTransaction(p) \/ LockExpires(p)

Leaves(p) == Close(p) \/ Crash(p)

\* Next, by what the steps have in common.
LEMMA Cases ==
  ASSUME [Next]_vars
  PROVE  \/ UNCHANGED vars
         \/ \E p \in Proc :
              \/ \E o \in Ops : Start(p, o)
              \/ Moves(p) \/ Leaves(p)
              \/ Validate(p) \/ (\E f \in File : CopyFile(p, f)) \/ CopyBranch(p)
              \/ Update(p) \/ Flush(p) \/ Finish(p)
         \/ \E b \in Branch, f \in File : Edit(b, f) \/ Remove(b, f)
  BY DEF Next, Step, User, Moves, Leaves

\* What the commands are given.
LEMMA OpFacts ==
  ASSUME NEW o \in Ops
  PROVE  /\ o.kind \in {"snapshot", "tag", "branch"}
         /\ o.ref.type \in {"branch", "commit", "tag"}
         /\ o.ref.type = "branch" => o.ref.name \in Branch
         /\ o.ref.type = "commit" => o.ref.name \in CommitId
         /\ o.ref.type = "tag" => o.ref.name[1] \in Family
         /\ o.kind = "tag" => o.to \in Family
         /\ o.kind = "branch" => o.to \in Branch
         /\ o.kind = "snapshot" => o.ref.type = "branch"
<1>1. o \in AllOps
  BY StoreAssumption
<1>2. \A r \in Refs : /\ r.type \in {"branch", "commit", "tag"}
                      /\ r.type = "branch" => r.name \in Branch
                      /\ r.type = "commit" => r.name \in CommitId
                      /\ r.type = "tag" => r.name[1] \in Family
  BY DEF Refs, Object
<1>3. CASE \E b \in Branch : o = SnapshotOf(b)
  BY <1>3 DEF SnapshotOf, Object
<1>4. CASE \E r \in Refs, f \in Family : o = TagOf(r, f)
  BY <1>2, <1>4 DEF TagOf
<1>5. CASE \E r \in Refs, b \in Branch : o = BranchOff(r, b)
  BY <1>2, <1>5 DEF BranchOff
<1>6. QED
  BY <1>1, <1>3, <1>4, <1>5 DEF AllOps

\* The commit of an object that exists is one of the asset's.
LEMMA CommitOfFacts ==
  ASSUME Whole(asset), NEW o \in Ops, Exists(asset, o.ref)
  PROVE  /\ CommitOf(asset, o.ref) \in DOMAIN asset.commits
         /\ CommitOf(asset, o.ref) \in CommitId /\ CommitOf(asset, o.ref) # NoCommit
         /\ asset.commits[CommitOf(asset, o.ref)].content \in Content
<1>1. CommitOf(asset, o.ref) \in DOMAIN asset.commits
  <2>1. CASE o.ref.type = "commit"
    BY <2>1 DEF Exists, CommitOf
  <2>2. CASE o.ref.type = "branch"
    BY <2>2 DEF Exists, CommitOf, Whole
  <2>3. CASE o.ref.type = "tag"
    <3>1. o.ref.name[1] \in Family /\ o.ref.name[2] \in DOMAIN asset.tags[o.ref.name[1]]
      BY <2>3, OpFacts DEF Exists
    <3>2. asset.tags[o.ref.name[1]] \in Seq(DOMAIN asset.commits)
      BY <3>1 DEF Whole
    <3>3. asset.tags[o.ref.name[1]][o.ref.name[2]] \in DOMAIN asset.commits
      BY <3>1, <3>2
    <3>4. QED
      BY <2>3, <3>3 DEF CommitOf
  <2>4. QED
    BY <2>1, <2>2, <2>3, OpFacts
<1>2. QED
  BY <1>1, StoreAssumption DEF Whole, AssetOK

\* The content of a branch's last commit.
LEMMA HeadFacts ==
  ASSUME NEW a, Whole(a), NEW b \in DOMAIN a.head
  PROVE  /\ b \in Branch /\ a.head[b] \in DOMAIN a.commits /\ HeadContent(a, b) \in Content
         /\ a.baseline[b] \in Time
  BY DEF Whole, AssetOK, HeadContent

\* Two commands that make commits make them on different branches.
LEMMA Apart ==
  ASSUME StoreInv, NEW p \in Proc, NEW q \in Proc, p # q,
         pc[p] \in Working, MakesCommit(p), pc[q] \in Working, MakesCommit(q)
  PROVE  op[p].ref.name # op[q].ref.name
<1>1. SUFFICES ASSUME op[p].ref.name = op[q].ref.name PROVE FALSE
  OBVIOUS
<1>2. /\ op[p].ref.type = "branch" /\ op[q].ref.type = "branch" /\ op[p] \in Ops /\ op[q] \in Ops
      /\ running[p] = {Declares(op[p])} /\ running[q] = {Declares(op[q])}
  BY DEF StoreInv, Validated, Isolated, Working, Inside
<1>3. op[p].ref = op[q].ref
  <2>1. \A o \in Ops : o.ref.type = "branch" => o.ref = Object("branch", o.ref.name)
    <3>1. \A r \in Refs : r.type = "branch" => r = Object("branch", r.name)
      BY DEF Refs, Object
    <3>2. \A o \in AllOps : o.ref.type = "branch" => o.ref = Object("branch", o.ref.name)
      BY <3>1 DEF AllOps, SnapshotOf, TagOf, BranchOff, Object
    <3>3. QED
      BY <3>2, StoreAssumption
  <2>2. QED
    BY <1>1, <1>2, <2>1
<1>4. Declares(op[p]) = Declares(op[q])
  BY <1>2, <1>3 DEF Declares
<1>5. Iso!Conflict(Declares(op[p]), Declares(op[p]))
  BY DEF Declares, Iso!Conflict, Iso!PathsOverlap, Iso!IsPrefix
<1>6. Iso!Excluded(running[p], running[q])
  BY <1>2, <1>4, <1>5 DEF Iso!Excluded
<1>7. QED
  BY <1>6 DEF StoreInv, Isolated

\* Whoever flushes does so alone.
LEMMA FlushAlone ==
  ASSUME StoreInv, NEW p \in Proc, lock # p PROVE pc[p] # "flush"
  BY DEF StoreInv, Flushing

\* What DBUpdate leaves in the pool.
LEMMA UpdateFacts ==
  ASSUME TypeOK, StoreInv, NEW p \in Proc, pc[p] = "update", CanUpdate(p, asset),
         NEW c \in Unused
  PROVE  LET n == Updated(p, asset, c)  b == op[p].ref.name IN
         /\ Whole(n)
         /\ \/ /\ MakesCommit(p)
               /\ n.commits = With(asset.commits, c, [parent |-> asset.head[b], content |-> content[p]])
               /\ n.head = With(asset.head, b, c)
               /\ n.baseline = With(asset.baseline, b, ts[p])
               /\ \/ n.tags = asset.tags
                  \/ op[p].to \in Family /\ n.tags = [asset.tags EXCEPT ![op[p].to] = Append(@, c)]
            \/ /\ ~MakesCommit(p) /\ op[p].kind = "tag" /\ op[p].to \in Family
               /\ n.commits = asset.commits /\ n.head = asset.head /\ n.baseline = asset.baseline
               /\ n.tags = [asset.tags EXCEPT ![op[p].to] = Append(@, target[p])]
            \/ /\ ~MakesCommit(p) /\ op[p].kind = "branch" /\ op[p].to \in Branch \ DOMAIN asset.head
               /\ n.commits = asset.commits /\ n.tags = asset.tags
               /\ n.head = With(asset.head, op[p].to, target[p])
               /\ n.baseline = With(asset.baseline, op[p].to, clock)
<1> DEFINE o == op[p]
           b == op[p].ref.name
           n == Updated(p, asset, c)
           m == CommitBranch(asset, b, c, content[p], ts[p])
<1>1. /\ o \in Ops /\ Whole(asset) /\ c \in CommitId \ DOMAIN asset.commits
      /\ content[p] \in Content /\ ts[p] \in Time /\ clock \in Time
  BY DEF StoreInv, Validated, TypeOK, Unused
<1>2. CASE MakesCommit(p)
  <2>1. o.kind \in {"snapshot", "tag"} /\ b \in DOMAIN asset.head
    BY <1>2 DEF StoreInv, Validated, Working
  <2>2. /\ Whole(m) /\ m.tags = asset.tags
        /\ m.commits = With(asset.commits, c, [parent |-> asset.head[b], content |-> content[p]])
        /\ m.head = With(asset.head, b, c) /\ m.baseline = With(asset.baseline, b, ts[p])
    BY <1>1, <2>1, CommitFacts
  <2> HIDE DEF m
  <2>3. CASE o.kind = "snapshot"
    <3>1. n = m
      BY <1>2, <2>3 DEF Updated, m
    <3>2. QED
      BY <1>2, <2>2, <3>1
  <2>4. CASE o.kind = "tag"
    <3>1. n = AddTag(m, o.to, c)
      BY <1>2, <2>4 DEF Updated, m
    <3>2. o.to \in Family /\ c \in DOMAIN m.commits
      BY <1>1, <2>2, <2>4, OpFacts DEF With
    <3>3. /\ Whole(n) /\ n.commits = m.commits /\ n.head = m.head /\ n.baseline = m.baseline
          /\ n.tags = [m.tags EXCEPT ![o.to] = Append(@, c)]
      BY <2>2, <3>1, <3>2, TagFacts
    <3>4. QED
      BY <1>2, <2>2, <3>2, <3>3
  <2>5. QED
    BY <2>1, <2>3, <2>4
<1>3. CASE ~MakesCommit(p)
  <2>1. o.kind \in {"branch", "tag"} /\ target[p] \in DOMAIN asset.commits
    BY <1>3 DEF StoreInv, Validated, Working
  <2>2. CASE o.kind = "tag"
    <3>1. n = AddTag(asset, o.to, target[p])
      BY <1>3, <2>2 DEF Updated
    <3>2. o.to \in Family
      BY <1>1, <2>2, OpFacts
    <3>3. /\ Whole(n) /\ n.commits = asset.commits /\ n.head = asset.head
          /\ n.baseline = asset.baseline
          /\ n.tags = [asset.tags EXCEPT ![o.to] = Append(@, target[p])]
      BY <1>1, <2>1, <3>1, <3>2, TagFacts
    <3>4. QED
      BY <1>3, <2>2, <3>2, <3>3
  <2>3. CASE o.kind = "branch"
    <3>1. n = AddBranch(asset, o.to, target[p], clock)
      BY <1>3, <2>3 DEF Updated
    <3>2. o.to \in Branch \ DOMAIN asset.head
      BY <1>1, <2>3, OpFacts DEF CanUpdate
    <3>3. QED
      BY <1>1, <1>3, <2>1, <2>3, <3>1, <3>2, BranchFacts
  <2>4. QED
    BY <2>1, <2>2, <2>3
<1>4. QED
  BY <1>2, <1>3

\* The types: the asset is whole, and so are its copies.
LEMMA TypeStep ==
  ASSUME TypeOK, StoreInv, [Next]_vars PROVE TypeOK' /\ Whole(asset)'
<1> USE StoreAssumption DEF Goto, localVars, userVars, Time, Content
<1>a. TypeOK /\ Whole(asset)
  BY DEF StoreInv
<1>b. AssetOK(Added)
  BY DEF Added, AssetOK
<1>1. CASE UNCHANGED vars
  BY <1>a, <1>1 DEF vars, TypeOK
<1>2. ASSUME NEW p \in Proc, NEW o \in Ops, Start(p, o) PROVE TypeOK' /\ Whole(asset)'
  BY <1>a, <1>2 DEF Start, TypeOK, PC
<1>3. ASSUME NEW p \in Proc, Moves(p) PROVE TypeOK' /\ Whole(asset)'
  BY <1>a, <1>3 DEF Moves, Begin, Conflicts, Invalid, EndCopy, CopyFails, UpdateFails, FlushFails,
     EndTransaction, LockExpires, Lock!Acquire, Lock!Release, TypeOK, PC
<1>4. ASSUME NEW p \in Proc, Leaves(p) PROVE TypeOK' /\ Whole(asset)'
  <2>1. /\ op' = [op EXCEPT ![p] = NoOp] /\ ts' = [ts EXCEPT ![p] = 0]
        /\ pool' = [pool EXCEPT ![p] = Added] /\ target' = [target EXCEPT ![p] = NoCommit]
        /\ changes' = [changes EXCEPT ![p] = {}] /\ copying' = [copying EXCEPT ![p] = {}]
        /\ content' = [content EXCEPT ![p] = NoFiles]
        /\ pc' \in {[pc EXCEPT ![p] = "idle"], [pc EXCEPT ![p] = "dead"]}
        /\ lock' \in {lock, NoOne} /\ crashes' \in 0 .. MaxCrashes
        /\ UNCHANGED <<asset, work, mtime, presented, blobDir, clock>>
    BY <1>a, <1>4 DEF Leaves, Close, Crash, ForgetLocals, Lock!Release, TypeOK
  <2>2. NoFiles \in Content /\ 0 \in Time
    BY DEF NoFiles
  <2>3. /\ pc' \in [Proc -> PC] /\ op' \in [Proc -> Ops \cup {NoOp}]
        /\ lock' \in Proc \cup {NoOne} /\ target' \in [Proc -> CommitId \cup {NoCommit}]
        /\ changes' \in [Proc -> SUBSET File] /\ copying' \in [Proc -> SUBSET File]
    BY <1>a, <2>1 DEF TypeOK, PC
  <2>4. ts' \in [Proc -> Time] /\ content' \in [Proc -> Content]
    <3> HIDE DEF Time, Content
    <3> QED
      BY <1>a, <2>1, <2>2 DEF TypeOK
  <2>5. \A q \in Proc : AssetOK(pool'[q])
    BY <1>a, <1>b, <2>1 DEF TypeOK
  <2>6. QED
    BY <1>a, <2>1, <2>3, <2>4, <2>5 DEF TypeOK
<1>5. ASSUME NEW p \in Proc, Validate(p) PROVE TypeOK' /\ Whole(asset)'
  <2> DEFINE o == op[p]
             b == o.ref.name
             d == Diff(asset, b)
  <2>1. /\ pc' = [pc EXCEPT ![p] = "copy"] /\ pool' = [pool EXCEPT ![p] = asset]
        /\ UNCHANGED <<asset, lock, op, ts, work, mtime, presented, blobDir, clock, crashes>>
    BY <1>5 DEF Validate
  <2>2. o \in Ops /\ Exists(asset, o.ref) /\ (Commits(o) => b \in DOMAIN asset.head)
    BY <1>5 DEF Validate, Valid, Commits, Tracked, StoreInv, Validated
  <2>3. /\ content' \in [Proc -> Content] /\ target' \in [Proc -> CommitId \cup {NoCommit}]
        /\ changes' \in [Proc -> SUBSET File] /\ copying' \in [Proc -> SUBSET File]
    <3>1. CASE Commits(o)
      <4> DEFINE gone == {f \in d : work[b][f] = 0}
      <4>1. /\ changes' = [changes EXCEPT ![p] = d] /\ copying' = [copying EXCEPT ![p] = d \ gone]
            /\ content' = [content EXCEPT ![p] = Without(HeadContent(asset, b), gone)]
            /\ target' = target
        BY <1>5, <3>1 DEF Validate
      <4>2. d \subseteq File
        BY DEF Diff
      <4>3. HeadContent(asset, b) \in Content
        BY <1>a, <2>2, <3>1, HeadFacts
      <4>4. Without(HeadContent(asset, b), gone) \in Content
        BY <4>3 DEF Without
      <4> HIDE DEF d, gone
      <4>5. content' \in [Proc -> Content]
        <5> HIDE DEF Content
        <5> QED
          BY <1>a, <4>1, <4>4 DEF TypeOK
      <4>6. QED
        BY <1>a, <4>1, <4>2, <4>5 DEF TypeOK
    <3>2. CASE ~Commits(o)
      <4>1. /\ target' = [target EXCEPT ![p] = CommitOf(asset, o.ref)]
            /\ content' = [content EXCEPT ![p] = asset.commits[CommitOf(asset, o.ref)].content]
            /\ changes' = changes /\ copying' = copying
        BY <1>5, <3>2 DEF Validate
      <4>2. /\ CommitOf(asset, o.ref) \in CommitId
            /\ asset.commits[CommitOf(asset, o.ref)].content \in Content
        BY <1>a, <2>2, CommitOfFacts
      <4>3. content' \in [Proc -> Content]
        <5> HIDE DEF Content
        <5> QED
          BY <1>a, <4>1, <4>2 DEF TypeOK
      <4>4. QED
        BY <1>a, <4>1, <4>2, <4>3 DEF TypeOK
    <3>3. QED
      BY <3>1, <3>2
  <2>4. pc' \in [Proc -> PC] /\ \A q \in Proc : AssetOK(pool'[q])
    BY <1>a, <2>1 DEF TypeOK, PC
  <2>5. QED
    BY <1>a, <2>1, <2>3, <2>4 DEF TypeOK
<1>6. ASSUME NEW p \in Proc, NEW f \in File, CopyFile(p, f) PROVE TypeOK' /\ Whole(asset)'
  <2>1. op[p].ref.name \in Branch
    BY <1>a, <1>6 DEF CopyFile, StoreInv, Validated, Working, TypeOK
  <2>2. work[op[p].ref.name][f] \in Time
    BY <1>a, <2>1 DEF TypeOK
  <2>3. content' \in [Proc -> Content]
    BY <1>a, <1>6, <2>2 DEF CopyFile, TypeOK
  <2>4. copying' \in [Proc -> SUBSET File]
    BY <1>a, <1>6 DEF CopyFile, TypeOK
  <2>5. QED
    BY <1>a, <1>6, <2>3, <2>4 DEF CopyFile, TypeOK
<1>7. ASSUME NEW p \in Proc, CopyBranch(p) PROVE TypeOK' /\ Whole(asset)'
  <2>1. op[p].to \in Branch
    BY <1>7, OpFacts DEF CopyBranch, StoreInv, Validated
  <2>2. work' \in [Branch -> Content] /\ mtime' \in [Branch -> Content]
    <3>1. \/ work' = work /\ mtime' = mtime
          \/ /\ work' = [work EXCEPT ![op[p].to] = content[p]]
             /\ mtime' = [mtime EXCEPT ![op[p].to] = [f \in File |-> clock]]
      BY <1>7 DEF CopyBranch
    <3>2. content[p] \in Content /\ [f \in File |-> clock] \in Content
      BY <1>a DEF TypeOK
    <3>3. QED
      <4> HIDE DEF Content
      <4> QED
        BY <1>a, <3>1, <3>2 DEF TypeOK
  <2>3. blobDir' \subseteq Branch /\ pc' \in [Proc -> PC]
    BY <1>a, <1>7, <2>1 DEF CopyBranch, TypeOK, PC
  <2>4. QED
    BY <1>a, <1>7, <2>2, <2>3 DEF CopyBranch, TypeOK
<1>8. ASSUME NEW p \in Proc, Update(p) PROVE TypeOK' /\ Whole(asset)'
  <2>1. PICK c \in Unused : pool' = [pool EXCEPT ![p] = Updated(p, asset, c)]
    BY <1>8 DEF Update, Reread
  <2>2. pc[p] = "update" /\ CanUpdate(p, asset)
    BY <1>8 DEF Update, Reread
  <2>3. AssetOK(Updated(p, asset, c))
    <3>1. Whole(Updated(p, asset, c))
      BY <2>2, UpdateFacts
    <3>2. QED
      BY <3>1 DEF Whole
  <2>4. \A q \in Proc : AssetOK(pool'[q])
    BY <1>a, <2>1, <2>3 DEF TypeOK
  <2>5. pc' \in [Proc -> PC] /\ lock' \in Proc \cup {NoOne}
    BY <1>a, <1>8 DEF Update, Lock!Acquire, TypeOK, PC
  <2>6. QED
    BY <1>a, <1>8, <2>4, <2>5 DEF Update, TypeOK
<1>9. ASSUME NEW p \in Proc, Flush(p) PROVE TypeOK' /\ Whole(asset)'
  BY <1>a, <1>9 DEF Flush, StoreInv, Flushing, TypeOK, Whole, PC
<1>10. ASSUME NEW p \in Proc, Finish(p) PROVE TypeOK' /\ Whole(asset)'
  <2>1. op[p] \in Ops /\ (op[p].kind = "branch" => op[p].to \in Branch)
    BY <1>10, OpFacts DEF Finish, StoreInv, Validated
  <2>2. QED
    BY <1>a, <1>10, <2>1 DEF Finish, TypeOK, PC
<1>11. ASSUME NEW b \in Branch, NEW f \in File, Edit(b, f) \/ Remove(b, f)
       PROVE  TypeOK' /\ Whole(asset)'
  <2>1. clock' \in Time /\ UNCHANGED <<asset, lock, pc, op, ts, pool, target, changes, copying, content, blobDir,
                                       presented, crashes>>
    BY <1>a, <1>11 DEF Edit, Remove, TypeOK
  <2>2. work' \in [Branch -> Content] /\ mtime' \in [Branch -> Content]
    <3>1. CASE Edit(b, f)
      BY <1>a, <2>1, <3>1 DEF Edit, TypeOK
    <3>2. CASE Remove(b, f)
      BY <1>a, <3>2 DEF Remove, TypeOK
    <3>3. QED
      BY <1>11, <3>1, <3>2
  <2>3. QED
    BY <1>a, <2>1, <2>2 DEF TypeOK
<1>12. QED
  BY <1>1, <1>2, <1>3, <1>4, <1>5, <1>6, <1>7, <1>8, <1>9, <1>10, <1>11, Cases

\* A command that is over has nothing left.
LEMMA LeavesFacts ==
  ASSUME TypeOK, NEW p \in Proc, Leaves(p)
  PROVE  /\ pc'[p] \in {"idle", "dead"} /\ target'[p] = NoCommit /\ copying'[p] = {} /\ ts'[p] = 0
         /\ \A q \in Proc \ {p} :
              /\ pc'[q] = pc[q] /\ op'[q] = op[q] /\ ts'[q] = ts[q] /\ pool'[q] = pool[q]
              /\ target'[q] = target[q] /\ changes'[q] = changes[q] /\ copying'[q] = copying[q]
              /\ content'[q] = content[q]
         /\ UNCHANGED <<asset, work, mtime, presented, blobDir, clock>>
         /\ lock' = lock \/ lock = p
         /\ running' = running \/ running' = [running EXCEPT ![p] = {}]
<1>1. /\ op' = [op EXCEPT ![p] = NoOp] /\ ts' = [ts EXCEPT ![p] = 0]
      /\ pool' = [pool EXCEPT ![p] = Added] /\ target' = [target EXCEPT ![p] = NoCommit]
      /\ changes' = [changes EXCEPT ![p] = {}] /\ copying' = [copying EXCEPT ![p] = {}]
      /\ content' = [content EXCEPT ![p] = NoFiles]
      /\ pc' \in {[pc EXCEPT ![p] = "idle"], [pc EXCEPT ![p] = "dead"]}
      /\ lock' = lock \/ lock = p
      /\ UNCHANGED <<asset, work, mtime, presented, blobDir, clock>>
      /\ running' = running \/ running' = [running EXCEPT ![p] = {}]
  BY DEF Leaves, Close, Crash, ForgetLocals, Lock!Release, Goto, userVars, Iso!End
<1>2. QED
  BY <1>1 DEF TypeOK

\* Commands on one object never run together.
LEMMA IsolatedStep ==
  ASSUME TypeOK, StoreInv, [Next]_vars PROVE Isolated'
<1> USE DEF Goto, TypeOK, Inside, Working
<1>0. Isolated
  BY DEF StoreInv
<1>a. \A S, T : Iso!Excluded(S, T) <=> Iso!Excluded(T, S)
  <2>1. \A s, t : Iso!Conflict(s, t) <=> Iso!Conflict(t, s)
    BY DEF Iso!Conflict, Iso!PathsOverlap
  <2>2. QED
    BY <2>1 DEF Iso!Excluded
<1>b. \A T : ~Iso!Excluded({}, T) /\ ~Iso!Excluded(T, {})
  BY DEF Iso!Excluded
<1>1. ASSUME running' = running \/ \E p \in Proc : running' = [running EXCEPT ![p] = {}]
      PROVE  DOMAIN running' = Proc /\ \A p, q \in Proc : p # q => ~Iso!Excluded(running'[p], running'[q])
  <2>1. CASE running' = running
    BY <1>0, <2>1 DEF Isolated
  <2>2. ASSUME NEW p \in Proc, running' = [running EXCEPT ![p] = {}]
        PROVE  /\ DOMAIN running' = Proc
               /\ \A q, r \in Proc : q # r => ~Iso!Excluded(running'[q], running'[r])
    <3>1. /\ DOMAIN running = Proc /\ DOMAIN running' = Proc /\ running'[p] = {}
          /\ \A q \in Proc \ {p} : running'[q] = running[q]
      BY <1>0, <2>2 DEF Isolated
    <3>2. SUFFICES ASSUME NEW q \in Proc, NEW r \in Proc, q # r
                   PROVE  ~Iso!Excluded(running'[q], running'[r])
      BY <3>1
    <3>3. CASE q = p \/ r = p
      BY <1>b, <3>1, <3>3
    <3>4. CASE q # p /\ r # p
      BY <1>0, <3>1, <3>2, <3>4 DEF Isolated
    <3>5. QED
      BY <3>3, <3>4
  <2>3. QED
    BY <1>1, <2>1, <2>2
<1>2. ASSUME running' = running, \A q \in Proc : pc'[q] \in Inside => pc[q] \in Inside /\ op'[q] = op[q]
      PROVE  Isolated'
  BY <1>0, <1>2 DEF Isolated, Declares, Object
<1>3. CASE UNCHANGED vars
  BY <1>2, <1>3 DEF vars, localVars
<1>4. ASSUME NEW p \in Proc, NEW o \in Ops, Start(p, o) PROVE Isolated'
  BY <1>2, <1>4 DEF Start
<1>5. ASSUME NEW p \in Proc, Begin(p) PROVE Isolated'
  <2>1. /\ running' = [running EXCEPT ![p] = {Declares(op[p])}]
        /\ \A q \in Proc : ~Iso!Excluded({Declares(op[p])}, running[q])
        /\ op' = op /\ \A q \in Proc \ {p} : pc'[q] = pc[q]
    BY <1>5 DEF Begin, Iso!Begin, localVars
  <2>2. \A q, r \in Proc : q # r => ~Iso!Excluded(running'[q], running'[r])
    <3> SUFFICES ASSUME NEW q \in Proc, NEW r \in Proc, q # r PROVE ~Iso!Excluded(running'[q], running'[r])
      OBVIOUS
    <3>1. CASE q = p
      BY <1>0, <2>1, <3>1 DEF Isolated
    <3>2. CASE r = p
      BY <1>0, <1>a, <2>1, <3>2 DEF Isolated
    <3>3. CASE q # p /\ r # p
      BY <1>0, <2>1, <3>3 DEF Isolated
    <3>4. QED
      BY <3>1, <3>2, <3>3
  <2>3. \A q \in Proc : pc'[q] \in Inside => running'[q] = {Declares(op'[q])}
    BY <1>0, <2>1 DEF Isolated
  <2>4. DOMAIN running' = Proc
    BY <1>0, <2>1 DEF Isolated
  <2>5. QED
    BY <2>2, <2>3, <2>4 DEF Isolated, Declares
<1>6. ASSUME NEW p \in Proc,
             \/ Conflicts(p) \/ Invalid(p) \/ EndCopy(p) \/ CopyFails(p)
             \/ UpdateFails(p) \/ FlushFails(p) \/ LockExpires(p)
             \/ Validate(p) \/ (\E f \in File : CopyFile(p, f)) \/ CopyBranch(p)
             \/ Update(p) \/ Flush(p) \/ Finish(p)
      PROVE  Isolated'
  <2>1. /\ running' = running /\ op' = op
        /\ \A q \in Proc : pc'[q] = pc[q] \/ pc'[q] \notin Inside \/ pc[q] \in Inside
    BY <1>6 DEF Conflicts, Invalid, EndCopy, CopyFails, UpdateFails, FlushFails, LockExpires,
       Validate, CopyFile, CopyBranch, Update, Flush, Finish, localVars
  <2>2. QED
    BY <1>2, <2>1
<1>7. ASSUME NEW p \in Proc, EndTransaction(p) \/ Leaves(p) PROVE Isolated'
  <2>1. /\ running' = running \/ running' = [running EXCEPT ![p] = {}]
        /\ pc'[p] \notin Inside
        /\ \A q \in Proc \ {p} : pc'[q] = pc[q] /\ op'[q] = op[q]
    <3>1. CASE EndTransaction(p)
      BY <3>1 DEF EndTransaction, Iso!End, localVars
    <3>2. CASE Leaves(p)
      BY <3>2, LeavesFacts
    <3>3. QED
      BY <1>7, <3>1, <3>2
  <2>2. \A q \in Proc : pc'[q] \in Inside => q # p /\ running'[q] = {Declares(op[q])} /\ op'[q] = op[q]
    BY <1>0, <2>1 DEF Isolated
  <2>3. QED
    BY <1>1, <2>1, <2>2 DEF Isolated, Declares
<1>8. ASSUME NEW b \in Branch, NEW f \in File, Edit(b, f) \/ Remove(b, f) PROVE Isolated'
  BY <1>2, <1>8 DEF Edit, Remove, localVars
<1>9. QED
  BY <1>3, <1>4, <1>5, <1>6, <1>7, <1>8, Cases DEF Moves


\* What a command that moves on leaves alone.
LEMMA MovesFacts ==
  ASSUME TypeOK, NEW p \in Proc, Moves(p)
  PROVE  /\ UNCHANGED <<asset, op, ts, pool, target, changes, copying, content, work, mtime,
                        presented, blobDir, clock>>
         /\ \A q \in Proc \ {p} : pc'[q] = pc[q]
         /\ \/ pc[p] = "start" /\ pc'[p] = "validate"
            \/ pc[p] = "copy" /\ pc'[p] = "update" /\ copying[p] = {} /\ op[p].kind # "branch"
            \/ pc[p] \notin {"idle", "dead"} /\ pc'[p] \in {"end", "close"}
            \/ pc[p] = "dead" /\ pc'[p] = "dead"
         /\ lock' = lock \/ lock \in {p, NoOne}
<1>1. UNCHANGED <<asset, op, ts, pool, target, changes, copying, content, work, mtime,
                  presented, blobDir, clock>>
  BY DEF Moves, Begin, Conflicts, Invalid, EndCopy, CopyFails, UpdateFails, FlushFails,
     EndTransaction, LockExpires, localVars, userVars
<1>2. /\ \A q \in Proc \ {p} : pc'[q] = pc[q]
      /\ \/ pc[p] = "start" /\ pc'[p] = "validate"
         \/ pc[p] = "copy" /\ pc'[p] = "update" /\ copying[p] = {} /\ op[p].kind # "branch"
         \/ pc[p] \notin {"idle", "dead"} /\ pc'[p] \in {"end", "close"}
         \/ pc[p] = "dead" /\ pc'[p] = "dead"
  BY DEF Moves, Begin, Conflicts, Invalid, EndCopy, CopyFails, UpdateFails, FlushFails,
     EndTransaction, LockExpires, Goto, TypeOK
<1>3. lock' = lock \/ lock \in {p, NoOne}
  BY DEF Moves, Begin, Conflicts, Invalid, EndCopy, CopyFails, UpdateFails, FlushFails,
     EndTransaction, LockExpires, Lock!Acquire, Lock!Release
<1>4. QED
  BY <1>1, <1>2, <1>3

\* The head of b is, or becomes, a commit with what p has copied.
Moved(p, b) ==
    /\ DOMAIN asset'.head = DOMAIN asset.head \cup {b}
    /\ HeadContent(asset', b) = content[p]
    /\ \A x \in DOMAIN asset.head \ {b} :
         HeadContent(asset', x) = HeadContent(asset, x) /\ asset'.baseline[x] = asset.baseline[x]

\* What a write to the asset file does to the commits and to the heads.
LEMMA FlushFacts ==
  ASSUME TypeOK, StoreInv, NEW p \in Proc, Flush(p)
  PROVE  /\ lock = p /\ Whole(asset)' /\ asset' = pool[p]
         /\ \A c \in DOMAIN asset.commits :
              c \in DOMAIN asset'.commits /\ asset'.commits[c] = asset.commits[c]
         /\ \/ /\ MakesCommit(p) /\ op[p].kind # "branch"
               /\ op[p].ref.name \in DOMAIN asset.head /\ op[p].ref.name \in presented
               /\ Moved(p, op[p].ref.name)
               /\ asset'.baseline[op[p].ref.name] = ts[p]
            \/ /\ ~MakesCommit(p) /\ op[p].kind = "branch" /\ op[p].to \in Branch \ DOMAIN asset.head
               /\ Moved(p, op[p].to)
               /\ asset'.baseline[op[p].to] \in 0 .. clock
            \/ /\ ~MakesCommit(p) /\ op[p].kind = "tag"
               /\ asset'.head = asset.head /\ asset'.baseline = asset.baseline
               /\ asset'.commits = asset.commits
<1>1. /\ pc[p] = "flush" /\ asset' = pool[p] /\ lock = p /\ Whole(pool[p]) /\ Whole(asset)
      /\ NewCommit(p) \/ NewVersion(p) \/ NewBranch(p)
      /\ DOMAIN asset.baseline = DOMAIN asset.head
      /\ \A x \in DOMAIN asset.head : asset.head[x] \in DOMAIN asset.commits
  BY DEF Flush, StoreInv, Flushing, Whole, AssetOK
<1>2. CASE NewCommit(p)
  <2> DEFINE b == op[p].ref.name
  <2>1. /\ MakesCommit(p) /\ op[p].kind # "branch"
        /\ b \in DOMAIN asset.head /\ b \in presented
    BY <1>1, <1>2 DEF NewCommit, StoreInv, Validated, Working
  <2>2. PICK c \in CommitId \ DOMAIN asset.commits :
          /\ asset'.commits = With(asset.commits, c, [parent |-> asset.head[b], content |-> content[p]])
          /\ asset'.head = With(asset.head, b, c)
          /\ asset'.baseline = With(asset.baseline, b, ts[p])
    BY <1>1, <1>2 DEF NewCommit
  <2>3. \A x \in DOMAIN asset.commits :
          x \in DOMAIN asset'.commits /\ asset'.commits[x] = asset.commits[x]
    BY <2>2 DEF With
  <2>4. asset'.commits[c].content = content[p] /\ asset'.head[b] = c /\ asset'.baseline[b] = ts[p]
    BY <2>2 DEF With
  <2>5. /\ DOMAIN asset'.head = DOMAIN asset.head \cup {b}
        /\ \A x \in DOMAIN asset.head \ {b} :
             asset'.head[x] = asset.head[x] /\ asset'.baseline[x] = asset.baseline[x]
    BY <1>1, <2>2 DEF With
  <2>6. Moved(p, b)
    BY <1>1, <2>3, <2>4, <2>5 DEF Moved, HeadContent
  <2>7. QED
    BY <1>1, <2>1, <2>3, <2>4, <2>6
<1>3. CASE NewVersion(p)
  BY <1>1, <1>3 DEF NewVersion
<1>4. CASE NewBranch(p)
  <2> DEFINE b == op[p].to
  <2>1. /\ ~MakesCommit(p) /\ op[p].kind = "branch" /\ b \in Branch \ DOMAIN asset.head
        /\ target[p] \in DOMAIN asset.commits
        /\ content[p] = asset.commits[target[p]].content
    BY <1>1, <1>4 DEF NewBranch, StoreInv, Validated, Working
  <2>2. PICK t \in 0 .. clock :
          /\ asset'.commits = asset.commits /\ asset'.head = With(asset.head, b, target[p])
          /\ asset'.baseline = With(asset.baseline, b, t)
    BY <1>1, <1>4 DEF NewBranch
  <2>3. /\ DOMAIN asset'.head = DOMAIN asset.head \cup {b}
        /\ asset'.head[b] = target[p] /\ asset'.baseline[b] = t
        /\ \A x \in DOMAIN asset.head \ {b} :
             asset'.head[x] = asset.head[x] /\ asset'.baseline[x] = asset.baseline[x]
    BY <1>1, <2>2 DEF With
  <2>4. Moved(p, b)
    BY <1>1, <2>1, <2>2, <2>3 DEF Moved, HeadContent
  <2>5. QED
    BY <1>1, <2>1, <2>2, <2>3, <2>4
<1>5. QED
  BY <1>1, <1>2, <1>3, <1>4

\* What Validate leaves a command with.
LEMMA ValidateFacts ==
  ASSUME TypeOK, StoreInv, NEW p \in Proc, Validate(p)
  PROVE  LET b == op[p].ref.name
             d == Diff(asset, b)
             gone == {f \in d : work[b][f] = 0} IN
         /\ UNCHANGED <<asset, lock, op, ts, work, mtime, presented, blobDir, clock>>
         /\ pc[p] = "validate" /\ pc'[p] = "copy"
         /\ \A q \in Proc \ {p} :
              /\ pc'[q] = pc[q] /\ pool'[q] = pool[q] /\ target'[q] = target[q]
              /\ changes'[q] = changes[q] /\ copying'[q] = copying[q] /\ content'[q] = content[q]
         /\ \/ /\ target'[p] = NoCommit /\ op[p].kind \in {"snapshot", "tag"}
               /\ op[p].ref.type = "branch" /\ b \in presented /\ b \in DOMAIN asset.head
               /\ changes'[p] = d /\ copying'[p] = d \ gone
               /\ content'[p] = Without(HeadContent(asset, b), gone)
            \/ /\ target'[p] # NoCommit /\ op[p].kind \in {"branch", "tag"}
               /\ target'[p] \in DOMAIN asset.commits /\ copying'[p] = {}
               /\ content'[p] = asset.commits[target'[p]].content
<1> DEFINE o == op[p]
           b == o.ref.name
           d == Diff(asset, b)
           gone == {f \in d : work[b][f] = 0}
<1>1. /\ UNCHANGED <<asset, lock, op, ts, work, mtime, presented, blobDir, clock>>
      /\ pc[p] = "validate" /\ pc' = [pc EXCEPT ![p] = "copy"]
      /\ pool' = [pool EXCEPT ![p] = asset]
      /\ Valid(o)
  BY DEF Validate, Goto, userVars
<1>2. /\ o \in Ops /\ o.kind \in {"snapshot", "tag", "branch"}
      /\ target[p] = NoCommit /\ copying[p] = {} /\ Exists(asset, o.ref)
  BY <1>1, OpFacts DEF StoreInv, Validated, Valid
<1>3. CASE Commits(o)
  <2>1. /\ changes' = [changes EXCEPT ![p] = d] /\ copying' = [copying EXCEPT ![p] = d \ gone]
        /\ content' = [content EXCEPT ![p] = Without(HeadContent(asset, b), gone)]
        /\ target' = target
    BY <1>3 DEF Validate
  <2>2. /\ o.kind \in {"snapshot", "tag"} /\ o.ref.type = "branch"
        /\ b \in presented /\ b \in DOMAIN asset.head
    BY <1>1, <1>2, <1>3 DEF Valid, Commits, Tracked
  <2> HIDE DEF d, gone
  <2>3. QED
    BY <1>1, <1>2, <2>1, <2>2 DEF TypeOK, d, gone
<1>4. CASE ~Commits(o)
  <2> DEFINE c == CommitOf(asset, o.ref)
  <2>1. /\ target' = [target EXCEPT ![p] = c] /\ changes' = changes /\ copying' = copying
        /\ content' = [content EXCEPT ![p] = asset.commits[c].content]
    BY <1>4 DEF Validate
  <2>2. o.kind \in {"branch", "tag"}
    BY <1>1, <1>2, <1>4 DEF Valid
  <2>3. c \in DOMAIN asset.commits /\ c # NoCommit
    BY <1>2, CommitOfFacts DEF StoreInv
  <2> HIDE DEF c
  <2>4. QED
    BY <1>1, <1>2, <2>1, <2>2, <2>3 DEF TypeOK
<1>5. QED
  BY <1>3, <1>4

\* One file more is copied.
LEMMA CopyFacts ==
  ASSUME TypeOK, StoreInv, NEW p \in Proc, NEW f \in File, CopyFile(p, f)
  PROVE  LET b == op[p].ref.name IN
         /\ UNCHANGED <<asset, lock, pc, op, ts, pool, target, changes, work, mtime, presented,
                        blobDir, clock>>
         /\ pc[p] = "copy" /\ MakesCommit(p) /\ f \in copying[p]
         /\ copying'[p] = copying[p] \ {f}
         /\ content'[p][f] = work[b][f]
         /\ \A g \in File \ {f} : content'[p][g] = content[p][g]
         /\ \A q \in Proc \ {p} : copying'[q] = copying[q] /\ content'[q] = content[q]
<1>1. /\ UNCHANGED <<asset, lock, pc, op, ts, pool, target, changes, work, mtime, presented,
                     blobDir, clock>>
      /\ pc[p] = "copy" /\ f \in copying[p]
      /\ copying' = [copying EXCEPT ![p] = @ \ {f}]
      /\ content' = [content EXCEPT ![p][f] = work[op[p].ref.name][f]]
  BY DEF CopyFile, userVars
<1>2. MakesCommit(p)
  BY <1>1 DEF StoreInv, Validated, Working
<1>3. content[p] \in Content /\ content \in [Proc -> Content] /\ copying \in [Proc -> SUBSET File]
  BY DEF TypeOK
<1>4. QED
  BY <1>1, <1>2, <1>3 DEF Content

\* Whoever has validated has a command to carry out.
LEMMA ValidatedStep ==
  ASSUME TypeOK, StoreInv, [Next]_vars PROVE Validated'
<1> USE DEF Goto, TypeOK, Working, MakesCommit
<1>0. Validated
  BY DEF StoreInv
<1>1. CASE UNCHANGED vars
  BY <1>0, <1>1 DEF vars, localVars, userVars, Validated
<1>2. ASSUME NEW p \in Proc, NEW o \in Ops, Start(p, o) PROVE Validated'
  BY <1>0, <1>2 DEF Start, userVars, Validated
<1>3. ASSUME NEW p \in Proc, Moves(p) PROVE Validated'
  BY <1>0, <1>3, MovesFacts DEF Validated
<1>4. ASSUME NEW p \in Proc, Leaves(p) PROVE Validated'
  BY <1>0, <1>4, LeavesFacts DEF Validated
<1>5. ASSUME NEW p \in Proc, Validate(p) PROVE Validated'
  <2>1. /\ UNCHANGED <<asset, op, presented>>
        /\ pc[p] = "validate" /\ pc'[p] = "copy"
        /\ \A q \in Proc \ {p} : /\ pc'[q] = pc[q] /\ target'[q] = target[q]
                                 /\ copying'[q] = copying[q] /\ content'[q] = content[q]
        /\ \/ /\ target'[p] = NoCommit /\ op[p].kind \in {"snapshot", "tag"}
              /\ op[p].ref.type = "branch" /\ op[p].ref.name \in presented
           \/ /\ target'[p] # NoCommit /\ op[p].kind \in {"branch", "tag"}
              /\ target'[p] \in DOMAIN asset.commits /\ copying'[p] = {}
              /\ content'[p] = asset.commits[target'[p]].content
    BY <1>5, ValidateFacts
  <2>2. QED
    BY <1>0, <2>1 DEF Validated
<1>6. ASSUME NEW p \in Proc, NEW f \in File, CopyFile(p, f) PROVE Validated'
  BY <1>0, <1>6, CopyFacts DEF Validated
<1>7. ASSUME NEW p \in Proc, CopyBranch(p) PROVE Validated'
  BY <1>0, <1>7 DEF CopyBranch, localVars, Validated
<1>8. ASSUME NEW p \in Proc, Update(p) PROVE Validated'
  BY <1>0, <1>8 DEF Update, userVars, Validated
<1>9. ASSUME NEW p \in Proc, Flush(p) PROVE Validated'
  <2>1. /\ UNCHANGED <<op, target, copying, content, presented>>
        /\ pc[p] = "flush" /\ pc'[p] = "finish" /\ \A q \in Proc \ {p} : pc'[q] = pc[q]
    BY <1>9 DEF Flush, localVars, userVars
  <2>2. /\ \A c \in DOMAIN asset.commits :
             c \in DOMAIN asset'.commits /\ asset'.commits[c] = asset.commits[c]
        /\ DOMAIN asset.head \subseteq DOMAIN asset'.head
        /\ op[p].kind = "branch" => op[p].to \in DOMAIN asset'.head
    BY <1>9, FlushFacts DEF Moved
  <2>3. QED
    BY <1>0, <2>1, <2>2 DEF Validated
<1>10. ASSUME NEW p \in Proc, Finish(p) PROVE Validated'
  <2>1. /\ UNCHANGED <<asset, op, target, copying, content>>
        /\ pc[p] = "finish" /\ pc'[p] = "end" /\ \A q \in Proc \ {p} : pc'[q] = pc[q]
        /\ presented \subseteq presented'
        /\ presented' \subseteq presented \cup (IF op[p].kind = "branch" THEN {op[p].to} ELSE {})
    BY <1>10 DEF Finish, localVars
  <2>2. QED
    BY <1>0, <2>1 DEF Validated
<1>11. ASSUME NEW b \in Branch, NEW f \in File, Edit(b, f) \/ Remove(b, f) PROVE Validated'
  BY <1>0, <1>11 DEF Edit, Remove, localVars, Validated
<1>12. QED
  BY <1>1, <1>2, <1>3, <1>4, <1>5, <1>6, <1>7, <1>8, <1>9, <1>10, <1>11, Cases

\* Who waits to write is not disturbed.
LEMMA FlushingKept ==
  ASSUME TypeOK, StoreInv, asset' = asset, clock' \in Time, clock <= clock',
         \A q \in Proc : pc'[q] = "flush" =>
            /\ pc[q] = "flush" /\ lock' = lock /\ pool'[q] = pool[q] /\ op'[q] = op[q]
            /\ ts'[q] = ts[q] /\ target'[q] = target[q] /\ content'[q] = content[q]
  PROVE  Flushing'
<1> SUFFICES ASSUME NEW q \in Proc, pc'[q] = "flush"
             PROVE  /\ lock' = q /\ Whole(pool[q])'
                    /\ NewCommit(q)' \/ NewVersion(q)' \/ NewBranch(q)'
  BY DEF Flushing
<1>1. /\ lock = q /\ Whole(pool[q])
      /\ NewCommit(q) \/ NewVersion(q) \/ NewBranch(q)
      /\ lock' = lock /\ pool'[q] = pool[q] /\ op'[q] = op[q] /\ ts'[q] = ts[q]
      /\ target'[q] = target[q] /\ content'[q] = content[q]
  BY DEF StoreInv, Flushing
<1>2. Whole(pool[q])'
  <2>1. Whole(pool'[q])
    BY <1>1
  <2>2. QED
    BY <2>1 DEF Whole, AssetOK
<1>3. NewCommit(q) => NewCommit(q)'
  <2>1. SUFFICES ASSUME NewCommit(q) PROVE NewCommit(q)'
    OBVIOUS
  <2>2. MakesCommit(q)'
    BY <1>1, <2>1 DEF NewCommit, MakesCommit
  <2>3. PICK c \in CommitId \ DOMAIN asset.commits :
          LET b == op[q].ref.name IN
          /\ pool[q].commits = With(asset.commits, c, [parent |-> asset.head[b], content |-> content[q]])
          /\ pool[q].head = With(asset.head, b, c)
          /\ pool[q].baseline = With(asset.baseline, b, ts[q])
          /\ \/ pool[q].tags = asset.tags
             \/ op[q].to \in Family /\ pool[q].tags = [asset.tags EXCEPT ![op[q].to] = Append(@, c)]
    BY <2>1 DEF NewCommit
  <2>4. /\ c \in CommitId \ DOMAIN asset'.commits
        /\ pool'[q].commits = With(asset'.commits, c, [parent |-> asset'.head[op'[q].ref.name],
                                                       content |-> content'[q]])
        /\ pool'[q].head = With(asset'.head, op'[q].ref.name, c)
        /\ pool'[q].baseline = With(asset'.baseline, op'[q].ref.name, ts'[q])
        /\ \/ pool'[q].tags = asset'.tags
           \/ /\ op'[q].to \in Family
              /\ pool'[q].tags = [asset'.tags EXCEPT ![op'[q].to] = Append(@, c)]
    BY <1>1, <2>3
  <2>5. QED
    BY <2>2, <2>4 DEF NewCommit
<1>4. NewVersion(q) => NewVersion(q)'
  BY <1>1 DEF NewVersion, MakesCommit
<1>5. NewBranch(q) => NewBranch(q)'
  <2>1. 0 .. clock \subseteq 0 .. clock'
    BY DEF TypeOK, Time
  <2>2. QED
    BY <1>1, <2>1 DEF NewBranch, MakesCommit
<1>6. QED
  BY <1>1, <1>2, <1>3, <1>4, <1>5

\* Who has the lock has what the file holds, and one change.
LEMMA FlushingStep ==
  ASSUME TypeOK, StoreInv, [Next]_vars PROVE Flushing'
<1> USE DEF Goto
<1>0. clock \in Time /\ clock <= clock /\ pc \in [Proc -> PC]
  BY StoreAssumption DEF TypeOK, Time
<1>1. CASE UNCHANGED vars
  BY <1>0, <1>1, FlushingKept DEF vars, localVars
<1>2. ASSUME NEW p \in Proc, NEW o \in Ops, Start(p, o) PROVE Flushing'
  <2>1. clock' \in Time /\ clock <= clock'
    BY <1>0, <1>2, StoreAssumption DEF Start, Time
  <2>2. QED
    BY <1>0, <1>2, <2>1, FlushingKept DEF Start, TypeOK
<1>3. ASSUME NEW p \in Proc, Moves(p) PROVE Flushing'
  <2>1. ASSUME NEW q \in Proc, pc'[q] = "flush" PROVE pc[q] = "flush" /\ lock' = lock
    <3>1. q # p /\ pc[q] = "flush"
      BY <1>3, <2>1, MovesFacts
    <3>2. lock = q /\ lock # NoOne
      BY <3>1, StoreAssumption DEF StoreInv, Flushing
    <3>3. QED
      BY <1>3, <3>1, <3>2, MovesFacts
  <2>2. QED
    BY <1>0, <1>3, <2>1, MovesFacts, FlushingKept
<1>4. ASSUME NEW p \in Proc, Leaves(p) PROVE Flushing'
  <2>1. ASSUME NEW q \in Proc, pc'[q] = "flush" PROVE q # p /\ pc[q] = "flush" /\ lock' = lock
    <3>1. q # p /\ pc[q] = "flush"
      BY <1>4, <2>1, LeavesFacts
    <3>2. lock = q
      BY <3>1 DEF StoreInv, Flushing
    <3>3. QED
      BY <1>4, <3>1, <3>2, LeavesFacts
  <2>2. QED
    BY <1>0, <1>4, <2>1, LeavesFacts, FlushingKept
<1>5. ASSUME NEW p \in Proc, Validate(p) PROVE Flushing'
  <2>1. /\ UNCHANGED <<asset, lock, op, ts, clock>> /\ pc'[p] = "copy"
        /\ \A q \in Proc \ {p} : /\ pc'[q] = pc[q] /\ pool'[q] = pool[q] /\ target'[q] = target[q]
                                 /\ content'[q] = content[q]
    BY <1>5, ValidateFacts
  <2>2. QED
    BY <1>0, <2>1, FlushingKept
<1>6. ASSUME NEW p \in Proc, NEW f \in File, CopyFile(p, f) PROVE Flushing'
  <2>1. /\ UNCHANGED <<asset, lock, pc, op, ts, pool, target, clock>> /\ pc[p] = "copy"
        /\ \A q \in Proc \ {p} : content'[q] = content[q]
    BY <1>6, CopyFacts
  <2>2. QED
    BY <1>0, <2>1, FlushingKept
<1>7. ASSUME NEW p \in Proc, CopyBranch(p) PROVE Flushing'
  BY <1>0, <1>7, FlushingKept DEF CopyBranch, localVars
<1>8. ASSUME NEW p \in Proc, Update(p) PROVE Flushing'
  <2>1. /\ pc[p] = "update" /\ pc' = [pc EXCEPT ![p] = "flush"] /\ lock = NoOne /\ lock' = p
        /\ CanUpdate(p, asset)
        /\ UNCHANGED <<asset, op, ts, target, content, clock>>
    BY <1>8 DEF Update, Reread, Lock!Acquire
  <2>2. PICK c \in Unused : pool' = [pool EXCEPT ![p] = Updated(p, asset, c)]
    BY <1>8 DEF Update, Reread
  <2>3. \A q \in Proc : pc'[q] = "flush" => q = p
    BY <1>0, <2>1, StoreAssumption DEF StoreInv, Flushing
  <2>4. pool'[p] = Updated(p, asset, c)
    BY <2>2 DEF TypeOK
  <2>5. Whole(pool'[p])
    BY <2>1, <2>4, UpdateFacts
  <2>6. (NewCommit(p) \/ NewVersion(p) \/ NewBranch(p))'
    <3> DEFINE n == Updated(p, asset, c)
               b == op[p].ref.name
    <3>1. \/ /\ MakesCommit(p)
             /\ n.commits = With(asset.commits, c, [parent |-> asset.head[b], content |-> content[p]])
             /\ n.head = With(asset.head, b, c)
             /\ n.baseline = With(asset.baseline, b, ts[p])
             /\ \/ n.tags = asset.tags
                \/ op[p].to \in Family /\ n.tags = [asset.tags EXCEPT ![op[p].to] = Append(@, c)]
          \/ /\ ~MakesCommit(p) /\ op[p].kind = "tag" /\ op[p].to \in Family
             /\ n.commits = asset.commits /\ n.head = asset.head /\ n.baseline = asset.baseline
             /\ n.tags = [asset.tags EXCEPT ![op[p].to] = Append(@, target[p])]
          \/ /\ ~MakesCommit(p) /\ op[p].kind = "branch" /\ op[p].to \in Branch \ DOMAIN asset.head
             /\ n.commits = asset.commits /\ n.tags = asset.tags
             /\ n.head = With(asset.head, op[p].to, target[p])
             /\ n.baseline = With(asset.baseline, op[p].to, clock)
      BY <2>1, UpdateFacts
    <3>2. pool'[p] = n /\ c \in CommitId \ DOMAIN asset.commits /\ clock \in 0 .. clock
      BY <1>0, <2>4, StoreAssumption DEF Unused, Time
    <3> HIDE DEF n
    <3>3. MakesCommit(p)' <=> MakesCommit(p)
      BY <2>1 DEF MakesCommit
    <3>4. QED
      BY <2>1, <3>1, <3>2, <3>3 DEF NewCommit, NewVersion, NewBranch
  <2>7. QED
    BY <2>1, <2>3, <2>5, <2>6 DEF Flushing, Whole, AssetOK
<1>9. ASSUME NEW p \in Proc, Flush(p) PROVE Flushing'
  <2>1. \A q \in Proc : pc'[q] # "flush"
    <3>1. lock = p
      BY <1>9, FlushFacts
    <3>2. \A q \in Proc \ {p} : pc[q] # "flush"
      BY <3>1, FlushAlone
    <3>3. QED
      BY <1>0, <1>9, <3>2 DEF Flush
  <2>2. QED
    BY <2>1 DEF Flushing
<1>10. ASSUME NEW p \in Proc, Finish(p) PROVE Flushing'
  BY <1>0, <1>10, FlushingKept DEF Finish, localVars
<1>11. ASSUME NEW b \in Branch, NEW f \in File, Edit(b, f) \/ Remove(b, f) PROVE Flushing'
  <2>1. clock' \in Time /\ clock <= clock'
    BY <1>0, <1>11, StoreAssumption DEF Edit, Remove, Time
  <2>2. QED
    BY <1>11, <2>1, FlushingKept DEF Edit, Remove, localVars
<1>12. QED
  BY <1>1, <1>2, <1>3, <1>4, <1>5, <1>6, <1>7, <1>8, <1>9, <1>10, <1>11, Cases

\* What is not to be copied is what the parent has.
LEMMA BuiltStep ==
  ASSUME TypeOK, StoreInv, [Next]_vars PROVE Built'
<1> USE DEF Goto, Working, MakesCommit
<1>0. Built /\ pc \in [Proc -> PC]
  BY DEF StoreInv, TypeOK
<1>1. ASSUME asset' = asset,
             \A q \in Proc : copying'[q] = {} \/ (copying'[q] = copying[q] /\ changes'[q] = changes[q]),
             \A q \in Proc : pc'[q] \in Working =>
               /\ pc[q] \in Working /\ op'[q] = op[q] /\ target'[q] = target[q]
               /\ changes'[q] = changes[q] /\ content'[q] = content[q]
      PROVE  Built'
  BY <1>0, <1>1 DEF Built, HeadContent
<1>2. CASE UNCHANGED vars
  BY <1>1, <1>2 DEF vars, localVars
<1>3. ASSUME NEW p \in Proc, NEW o \in Ops, Start(p, o) PROVE Built'
  BY <1>0, <1>1, <1>3 DEF Start, TypeOK
<1>4. ASSUME NEW p \in Proc, Moves(p) PROVE Built'
  BY <1>1, <1>4, MovesFacts
<1>5. ASSUME NEW p \in Proc, Leaves(p) PROVE Built'
  BY <1>1, <1>5, LeavesFacts
<1>6. ASSUME NEW p \in Proc, Validate(p) PROVE Built'
  <2>1. /\ UNCHANGED <<asset, op>>
        /\ \A q \in Proc \ {p} : /\ pc'[q] = pc[q] /\ target'[q] = target[q]
                                 /\ changes'[q] = changes[q] /\ content'[q] = content[q]
                                 /\ copying'[q] = copying[q]
    BY <1>6, ValidateFacts
  <2>a. copying'[p] \subseteq changes'[p]
    <3> DEFINE d == Diff(asset, op[p].ref.name)
               gone == {f \in d : work[op[p].ref.name][f] = 0}
    <3>1. (copying'[p] = d \ gone /\ changes'[p] = d) \/ copying'[p] = {}
      BY <1>6, ValidateFacts
    <3> HIDE DEF d, gone
    <3>2. QED
      BY <3>1
  <2>2. ASSUME target'[p] = NoCommit
        PROVE  \A f \in File \ changes'[p] : content'[p][f] = HeadContent(asset, op[p].ref.name)[f]
    <3> DEFINE b == op[p].ref.name
               d == Diff(asset, b)
               gone == {f \in d : work[b][f] = 0}
    <3>1. changes'[p] = d /\ content'[p] = Without(HeadContent(asset, b), gone)
      BY <1>6, <2>2, ValidateFacts
    <3>2. \A f \in File \ d : Without(HeadContent(asset, b), gone)[f] = HeadContent(asset, b)[f]
      <4> HIDE DEF d
      <4> QED
        BY DEF Without
    <3> HIDE DEF d, gone
    <3>3. QED
      BY <3>1, <3>2
  <2>3. QED
    BY <1>0, <2>1, <2>a, <2>2 DEF Built, HeadContent
<1>7. ASSUME NEW p \in Proc, NEW f \in File, CopyFile(p, f) PROVE Built'
  <2>0. \A q \in Proc : copying[q] \subseteq changes[q]
    BY <1>0 DEF Built
  <2>1. /\ UNCHANGED <<asset, pc, op, target, changes>> /\ f \in copying[p]
        /\ copying'[p] = copying[p] \ {f} /\ \A q \in Proc \ {p} : copying'[q] = copying[q]
        /\ \A g \in File \ {f} : content'[p][g] = content[p][g]
        /\ \A q \in Proc \ {p} : content'[q] = content[q]
    BY <1>7, CopyFacts
  <2>2. ASSUME NEW q \in Proc, pc[q] \in Working, target[q] = NoCommit,
               NEW g \in File \ changes[q]
        PROVE  content'[q][g] = HeadContent(asset, op[q].ref.name)[g]
    <3>1. content[q][g] = HeadContent(asset, op[q].ref.name)[g]
      BY <1>0, <2>2 DEF Built
    <3>2. CASE q # p \/ g # f
      BY <2>1, <3>1, <3>2
    <3>3. CASE q = p /\ g = f
      BY <2>0, <2>1, <2>2, <3>3
    <3>4. QED
      BY <3>2, <3>3
  <2>3. \A q \in Proc : copying'[q] \subseteq changes'[q]
    BY <2>0, <2>1
  <2>4. QED
    BY <2>1, <2>2, <2>3 DEF Built, HeadContent
<1>8. ASSUME NEW p \in Proc, CopyBranch(p) PROVE Built'
  BY <1>0, <1>1, <1>8 DEF CopyBranch, localVars
<1>9. ASSUME NEW p \in Proc, Update(p) PROVE Built'
  BY <1>0, <1>1, <1>9 DEF Update
<1>10. ASSUME NEW p \in Proc, Flush(p) PROVE Built'
  <2>1. /\ UNCHANGED <<op, target, changes, copying, content>> /\ pc[p] = "flush" /\ pc'[p] = "finish"
        /\ \A q \in Proc \ {p} : pc'[q] = pc[q]
    BY <1>0, <1>10 DEF Flush, localVars
  <2>2. ASSUME NEW q \in Proc, q # p, pc[q] \in Working, target[q] = NoCommit
        PROVE  HeadContent(asset', op[q].ref.name) = HeadContent(asset, op[q].ref.name)
    <3> DEFINE b == op[q].ref.name
    <3>1. b \in DOMAIN asset.head
      BY <2>2 DEF StoreInv, Validated
    <3>2. target[p] = NoCommit => b # op[p].ref.name
      BY <2>1, <2>2, Apart
    <3>3. QED
      BY <1>10, <3>1, <3>2, FlushFacts DEF Moved, HeadContent
  <2>3. QED
    BY <1>0, <2>1, <2>2 DEF Built
<1>11. ASSUME NEW p \in Proc, Finish(p) PROVE Built'
  BY <1>0, <1>1, <1>11 DEF Finish, localVars
<1>12. ASSUME NEW b \in Branch, NEW f \in File, Edit(b, f) \/ Remove(b, f) PROVE Built'
  BY <1>1, <1>12 DEF Edit, Remove, localVars
<1>13. QED
  BY <1>2, <1>3, <1>4, <1>5, <1>6, <1>7, <1>8, <1>9, <1>10, <1>11, <1>12, Cases

\* While the files and the asset stay as they are, so does what is saved.
LEMMA SavedKept ==
  ASSUME TypeOK, StoreInv, UNCHANGED <<asset, work, mtime>>, clock' \in Time, clock <= clock',
         \A q \in Proc :
            /\ ts'[q] \in Time /\ ts'[q] <= clock'
            /\ pc'[q] \in Working /\ target'[q] = NoCommit =>
                 /\ pc[q] \in Working /\ op'[q] = op[q] /\ ts'[q] = ts[q] /\ target[q] = NoCommit
                 /\ copying'[q] = copying[q] /\ content'[q] = content[q]
                 /\ pc'[q] \in {"update", "flush"} => pc[q] \in {"update", "flush"} \/ copying[q] = {}
  PROVE  Saved'
<1>1. Saved /\ clock \in Nat /\ clock' \in Nat /\ \A b \in DOMAIN asset.head : asset.baseline[b] \in Nat
  BY StoreAssumption, HeadFacts DEF StoreInv, TypeOK, Time
<1>2. ASSUME NEW b \in DOMAIN asset'.head
      PROVE  /\ asset'.baseline[b] <= clock'
             /\ \A f \in File : Told(b, f, HeadContent(asset, b)[f], asset.baseline[b])'
  <2>1. b \in DOMAIN asset.head /\ asset.baseline[b] <= clock
    BY <1>1, <1>2 DEF Saved
  <2>2. \A f \in File : Told(b, f, HeadContent(asset, b)[f], asset.baseline[b])
    BY <1>1, <2>1 DEF Saved
  <2>3. QED
    BY <1>1, <2>1, <2>2 DEF Told, HeadContent
<1>3. ASSUME NEW q \in Proc, pc'[q] \in Working, target'[q] = NoCommit
      PROVE  /\ \A f \in File \ copying'[q] : Told(op[q].ref.name, f, content[q][f], ts[q])'
             /\ pc'[q] \in {"update", "flush"} => copying'[q] = {}
  <2>1. /\ \A f \in File \ copying[q] : Told(op[q].ref.name, f, content[q][f], ts[q])
        /\ pc[q] \in {"update", "flush"} => copying[q] = {}
    BY <1>1, <1>3 DEF Saved, MakesCommit
  <2>2. QED
    BY <1>3, <2>1 DEF Told
<1>4. QED
  BY <1>2, <1>3 DEF Saved, MakesCommit, Working

\* What is not told apart from a commit is in it.
LEMMA SavedStep ==
  ASSUME TypeOK, StoreInv, [Next]_vars PROVE Saved'
<1> USE DEF Goto, Working, MakesCommit
<1>0. /\ Saved /\ pc \in [Proc -> PC] /\ clock \in Time /\ clock <= clock
      /\ \A q \in Proc : ts[q] \in Time /\ ts[q] <= clock
      /\ \A t \in Time : t \in Nat
      /\ \A x \in DOMAIN asset.head : asset.baseline[x] \in Time /\ asset.baseline[x] <= clock
  BY StoreAssumption, HeadFacts DEF StoreInv, Saved, TypeOK, Time
<1>1. CASE UNCHANGED vars
  BY <1>0, <1>1, SavedKept DEF vars, localVars, userVars, Saved
<1>2. ASSUME NEW p \in Proc, NEW o \in Ops, Start(p, o) PROVE Saved'
  <2>1. clock' = clock + 1 /\ clock' \in Time
    BY <1>0, <1>2, StoreAssumption DEF Start, Time
  <2>2. /\ \A q \in Proc : ts'[q] \in {clock', ts[q]}
        /\ pc'[p] = "start" /\ \A q \in Proc \ {p} : pc'[q] = pc[q] /\ op'[q] = op[q] /\ ts'[q] = ts[q]
        /\ UNCHANGED <<asset, target, copying, content, work, mtime>>
    BY <1>0, <1>2 DEF Start, userVars, TypeOK
  <2>3. \A q \in Proc : ts'[q] \in Time /\ ts'[q] <= clock'
    <3>1. \A t \in Time : t <= clock => t <= clock'
      BY <1>0, <2>1
    <3>2. clock' <= clock'
      BY <1>0, <2>1
    <3>3. QED
      BY <1>0, <2>1, <2>2, <3>1, <3>2
  <2>4. clock <= clock'
    BY <1>0, <2>1
  <2>5. QED
    BY <2>1, <2>2, <2>3, <2>4, SavedKept
<1>3. ASSUME NEW p \in Proc, Moves(p) PROVE Saved'
  BY <1>0, <1>3, MovesFacts, SavedKept
<1>4. ASSUME NEW p \in Proc, Leaves(p) PROVE Saved'
  <2>1. 0 \in Time /\ 0 <= clock
    BY <1>0, StoreAssumption DEF Time
  <2>2. QED
    BY <1>0, <1>4, <2>1, LeavesFacts, SavedKept
<1>5. ASSUME NEW p \in Proc, Validate(p) PROVE Saved'
  <2> DEFINE b == op[p].ref.name
             d == Diff(asset, b)
             gone == {f \in d : work[b][f] = 0}
  <2>1. /\ UNCHANGED <<asset, op, ts, work, mtime, clock>> /\ pc'[p] = "copy"
        /\ \A q \in Proc \ {p} : /\ pc'[q] = pc[q] /\ target'[q] = target[q]
                                 /\ copying'[q] = copying[q] /\ content'[q] = content[q]
    BY <1>5, ValidateFacts
  <2>2. ASSUME target'[p] = NoCommit, NEW f \in File \ copying'[p]
        PROVE  Told(b, f, content'[p][f], ts[p])
    <3>1. /\ copying'[p] = d \ gone /\ content'[p] = Without(HeadContent(asset, b), gone)
          /\ b \in DOMAIN asset.head
      BY <1>5, <2>2, ValidateFacts
    <3>2. CASE f \in gone
      BY <3>1, <3>2 DEF Without, Told
    <3>3. CASE f \notin gone
      <4>1. f \notin d
        BY <3>1, <3>3, <2>2
      <4>2. content'[p][f] = HeadContent(asset, b)[f]
        BY <3>1, <3>3 DEF Without
      <4>3. Told(b, f, HeadContent(asset, b)[f], asset.baseline[b])
        BY <1>0, <3>1 DEF Saved
      <4>4. work[b][f] = HeadContent(asset, b)[f]
        BY <4>1, <4>3 DEF Told, Diff
      <4>5. QED
        BY <4>2, <4>4 DEF Told
    <3>4. QED
      BY <3>2, <3>3
  <2>3. \A q \in Proc : pc'[q] \in {"copy", "update", "flush"} /\ target'[q] = NoCommit =>
          \A f \in File \ copying'[q] : Told(op[q].ref.name, f, content'[q][f], ts[q])
    BY <1>0, <2>1, <2>2 DEF Saved
  <2>4. \A q \in Proc : pc'[q] \in {"update", "flush"} /\ target'[q] = NoCommit => copying'[q] = {}
    BY <1>0, <2>1 DEF Saved
  <2>5. QED
    BY <1>0, <2>1, <2>3, <2>4 DEF Saved, Told, HeadContent
<1>6. ASSUME NEW p \in Proc, NEW f \in File, CopyFile(p, f) PROVE Saved'
  <2>1. /\ UNCHANGED <<asset, pc, op, ts, target, work, mtime, clock>>
        /\ pc[p] = "copy" /\ MakesCommit(p) /\ copying'[p] = copying[p] \ {f}
        /\ content'[p][f] = work[op[p].ref.name][f]
        /\ \A g \in File \ {f} : content'[p][g] = content[p][g]
        /\ \A q \in Proc \ {p} : copying'[q] = copying[q] /\ content'[q] = content[q]
    BY <1>6, CopyFacts
  <2>2. ASSUME NEW q \in Proc, pc[q] \in {"copy", "update", "flush"}, target[q] = NoCommit,
               NEW g \in File \ copying'[q]
        PROVE  Told(op[q].ref.name, g, content'[q][g], ts[q])
    <3>1. CASE q = p /\ g = f
      BY <2>1, <3>1 DEF Told
    <3>2. CASE q # p \/ g # f
      <4>1. g \in File \ copying[q] /\ content'[q][g] = content[q][g]
        BY <2>1, <2>2, <3>2
      <4>2. QED
        BY <1>0, <2>2, <4>1 DEF Saved
    <3>3. QED
      BY <3>1, <3>2
  <2>3. \A q \in Proc : pc[q] \in {"update", "flush"} /\ target[q] = NoCommit => copying'[q] = {}
    BY <1>0, <2>1 DEF Saved
  <2>4. QED
    BY <1>0, <2>1, <2>2, <2>3 DEF Saved, Told, HeadContent
<1>7. ASSUME NEW p \in Proc, CopyBranch(p) PROVE Saved'
  <2> DEFINE b == op[p].to
  <2>1. /\ UNCHANGED <<asset, op, ts, target, copying, content, clock>>
        /\ pc[p] = "copy" /\ op[p].kind = "branch" /\ pc'[p] = "update"
        /\ \A q \in Proc \ {p} : pc'[q] = pc[q]
        /\ b \notin blobDir
    BY <1>0, <1>7 DEF CopyBranch, localVars
  <2>2. target[p] # NoCommit
    BY <2>1 DEF StoreInv, Validated
  <2>3. ASSUME NEW x \in Branch \ {b} PROVE work'[x] = work[x] /\ mtime'[x] = mtime[x]
    BY <1>7, <2>3 DEF CopyBranch, TypeOK
  <2>4. CASE b \in presented
    <3>1. UNCHANGED <<work, mtime>>
      BY <1>7, <2>4 DEF CopyBranch
    <3>2. QED
      BY <1>0, <2>1, <2>2, <3>1, SavedKept
  <2>5. CASE b \notin presented
    <3>1. ASSUME NEW x \in DOMAIN asset.head, NEW f \in File
          PROVE  Told(x, f, HeadContent(asset, x)[f], asset.baseline[x])'
      <4>1. CASE x = b
        <5>1. HeadContent(asset, x)[f] = 0
          BY <2>1, <2>5, <4>1 DEF StoreInv, Placed, NoFiles
        <5>2. HeadContent(asset, x)' = HeadContent(asset, x)
          BY <2>1 DEF HeadContent
        <5>3. QED
          BY <5>1, <5>2 DEF Told
      <4>2. CASE x # b
        <5>1. x \in Branch
          BY HeadFacts DEF StoreInv
        <5>2. Told(x, f, HeadContent(asset, x)[f], asset.baseline[x])
          BY <1>0 DEF Saved
        <5>3. QED
          BY <2>1, <2>3, <4>2, <5>1, <5>2 DEF Told, HeadContent
      <4>3. QED
        BY <4>1, <4>2
    <3>2. ASSUME NEW q \in Proc, pc'[q] \in {"copy", "update", "flush"}, target'[q] = NoCommit,
                 NEW f \in File \ copying'[q]
          PROVE  Told(op[q].ref.name, f, content[q][f], ts[q])'
      <4>1. q # p /\ pc[q] \in {"copy", "update", "flush"} /\ target[q] = NoCommit
        BY <2>1, <2>2, <3>2
      <4>2. op[q].ref.name \in presented /\ presented \subseteq Branch
        BY <4>1 DEF StoreInv, Validated, TypeOK
      <4>3. Told(op[q].ref.name, f, content[q][f], ts[q])
        BY <1>0, <2>1, <3>2, <4>1 DEF Saved
      <4>4. QED
        BY <2>1, <2>3, <2>5, <4>2, <4>3 DEF Told
    <3>3. \A q \in Proc : pc'[q] \in {"update", "flush"} /\ target'[q] = NoCommit => copying'[q] = {}
      BY <1>0, <2>1, <2>2 DEF Saved
    <3>4. QED
      BY <1>0, <2>1, <3>1, <3>2, <3>3 DEF Saved
  <2>6. QED
    BY <2>4, <2>5
<1>8. ASSUME NEW p \in Proc, Update(p) PROVE Saved'
  BY <1>0, <1>8, SavedKept DEF Update, userVars
<1>9. ASSUME NEW p \in Proc, Flush(p) PROVE Saved'
  <2>1. /\ UNCHANGED <<op, ts, target, copying, content, work, mtime, clock>>
        /\ pc[p] = "flush" /\ pc'[p] = "finish" /\ \A q \in Proc \ {p} : pc'[q] = pc[q]
    BY <1>0, <1>9 DEF Flush, localVars, userVars
  <2>2. ASSUME NEW x \in DOMAIN asset.head,
               HeadContent(asset', x) = HeadContent(asset, x), asset'.baseline[x] = asset.baseline[x]
        PROVE  /\ asset'.baseline[x] <= clock
               /\ \A f \in File : Told(x, f, HeadContent(asset', x)[f], asset'.baseline[x])
    BY <1>0, <2>2 DEF Saved
  <2>3. \A x \in DOMAIN asset'.head :
               /\ asset'.baseline[x] <= clock
               /\ \A f \in File : Told(x, f, HeadContent(asset', x)[f], asset'.baseline[x])
    <3>1. CASE /\ MakesCommit(p) /\ Moved(p, op[p].ref.name)
               /\ op[p].ref.name \in DOMAIN asset.head
               /\ asset'.baseline[op[p].ref.name] = ts[p]
      <4> DEFINE b == op[p].ref.name
      <4>1. copying[p] = {} /\ \A f \in File : Told(b, f, content[p][f], ts[p])
        BY <1>0, <2>1, <3>1 DEF Saved
      <4>2. ts[p] <= clock
        BY <1>0
      <4>3. QED
        BY <2>2, <3>1, <4>1, <4>2 DEF Moved
    <3>2. CASE /\ op[p].kind = "branch" /\ Moved(p, op[p].to) /\ op[p].to \notin DOMAIN asset.head
               /\ asset'.baseline[op[p].to] \in 0 .. clock
      <4> DEFINE b == op[p].to
      <4>1. \A f \in File : content[p][f] \in {0, work[b][f]}
        BY <2>1, <3>2 DEF StoreInv, Placed
      <4>2. \A f \in File : Told(b, f, content[p][f], asset'.baseline[b])
        BY <4>1 DEF Told
      <4>3. asset'.baseline[b] <= clock
        BY <1>0, <3>2
      <4>4. QED
        BY <2>2, <3>2, <4>2, <4>3 DEF Moved
    <3>3. CASE /\ asset'.head = asset.head /\ asset'.baseline = asset.baseline
               /\ asset'.commits = asset.commits
      BY <2>2, <3>3 DEF HeadContent
    <3>4. QED
      BY <1>9, <3>1, <3>2, <3>3, FlushFacts
  <2>4. QED
    BY <1>0, <2>1, <2>3 DEF Saved, Told, HeadContent
<1>10. ASSUME NEW p \in Proc, Finish(p) PROVE Saved'
  BY <1>0, <1>10, SavedKept DEF Finish, localVars
<1>11. ASSUME NEW b \in Branch, NEW f \in File, Edit(b, f) PROVE Saved'
  <2>1. /\ clock' = clock + 1 /\ UNCHANGED <<asset, pc, op, ts, target, copying, content>>
        /\ mtime'[b][f] = clock' /\ work' = [work EXCEPT ![b][f] = clock']
        /\ mtime' = [mtime EXCEPT ![b][f] = clock']
    BY <1>11 DEF Edit, localVars, TypeOK, Content
  <2>2. ASSUME NEW x \in Branch, NEW g \in File, <<x, g>> # <<b, f>>
        PROVE  work'[x][g] = work[x][g] /\ mtime'[x][g] = mtime[x][g]
    BY <2>1, <2>2 DEF TypeOK, Content
  <2>3. ASSUME NEW x \in Branch, NEW g \in File, NEW y, NEW t \in Time, t <= clock, Told(x, g, y, t)
        PROVE  Told(x, g, y, t)'
    <3>1. CASE <<x, g>> = <<b, f>>
      <4>1. mtime'[b][f] > t
        BY <1>0, <2>1, <2>3
      <4>2. QED
        BY <3>1, <4>1 DEF Told
    <3>2. CASE <<x, g>> # <<b, f>>
      BY <2>2, <2>3, <3>2 DEF Told
    <3>3. QED
      BY <3>1, <3>2
  <2>4. \A x \in DOMAIN asset.head :
          /\ x \in Branch /\ asset.baseline[x] \in Time /\ asset.baseline[x] <= clock
          /\ \A g \in File : Told(x, g, HeadContent(asset, x)[g], asset.baseline[x])
    BY <1>0, HeadFacts DEF Saved, StoreInv
  <2>5. ASSUME NEW q \in Proc, pc[q] \in {"copy", "update", "flush"}, target[q] = NoCommit
        PROVE  op[q].ref.name \in Branch
    BY <2>5 DEF StoreInv, Validated, TypeOK
  <2>6. ASSUME NEW x \in DOMAIN asset.head
        PROVE  /\ asset.baseline[x] <= clock'
               /\ \A g \in File : Told(x, g, HeadContent(asset, x)[g], asset.baseline[x])'
    <3>1. asset.baseline[x] <= clock'
      BY <1>0, <2>1, <2>4
    <3>2. ASSUME NEW g \in File PROVE Told(x, g, HeadContent(asset, x)[g], asset.baseline[x])'
      BY <2>1, <2>3, <2>4 DEF Told, HeadContent
    <3>3. QED
      BY <3>1, <3>2
  <2>7. ASSUME NEW q \in Proc
        PROVE  /\ ts[q] <= clock'
               /\ pc[q] \in {"copy", "update", "flush"} /\ target[q] = NoCommit =>
                    \A g \in File \ copying[q] : Told(op[q].ref.name, g, content[q][g], ts[q])'
    <3>1. ts[q] <= clock'
      BY <1>0, <2>1
    <3>2. ASSUME pc[q] \in {"copy", "update", "flush"}, target[q] = NoCommit,
                 NEW g \in File \ copying[q]
          PROVE  Told(op[q].ref.name, g, content[q][g], ts[q])'
      <4>1. Told(op[q].ref.name, g, content[q][g], ts[q]) /\ op[q].ref.name \in Branch
        BY <1>0, <2>5, <3>2 DEF Saved
      <4>2. QED
        BY <1>0, <2>1, <2>3, <4>1 DEF Told
    <3>3. QED
      BY <3>1, <3>2
  <2>8. QED
    BY <1>0, <2>1, <2>6, <2>7 DEF Saved
<1>12. ASSUME NEW b \in Branch, NEW f \in File, Remove(b, f) PROVE Saved'
  <2>1. /\ UNCHANGED <<asset, pc, op, ts, target, copying, content, clock, mtime>>
        /\ \A x \in Branch, g \in File : work'[x][g] \in {work[x][g], 0}
    BY <1>12 DEF Remove, localVars, TypeOK, Content
  <2>2. \A x \in Branch, g \in File : \A y, t : Told(x, g, y, t) => Told(x, g, y, t)'
    BY <2>1 DEF Told
  <2>3. \A x \in DOMAIN asset.head : x \in Branch
    BY HeadFacts DEF StoreInv
  <2>4. ASSUME NEW q \in Proc, pc[q] \in {"copy", "update", "flush"}, target[q] = NoCommit
        PROVE  op[q].ref.name \in Branch
    BY <2>4 DEF StoreInv, Validated, TypeOK
  <2>5. QED
    BY <1>0, <2>1, <2>2, <2>3, <2>4 DEF Saved, Told, HeadContent
<1>13. QED
  BY <1>1, <1>2, <1>3, <1>4, <1>5, <1>6, <1>7, <1>8, <1>9, <1>10, <1>11, <1>12, Cases

\* The files of a new branch are there before the branch.
LEMMA PlacedStep ==
  ASSUME TypeOK, StoreInv, [Next]_vars PROVE Placed'
<1> USE DEF Goto, Working
<1>0. Placed /\ pc \in [Proc -> PC]
  BY DEF StoreInv, TypeOK
<1>1. ASSUME UNCHANGED <<asset, work, blobDir>>, presented \subseteq presented',
             \A q \in Proc : pc'[q] \in {"update", "flush"} /\ op'[q].kind = "branch" =>
                pc[q] \in {"update", "flush"} /\ op'[q] = op[q] /\ content'[q] = content[q]
      PROVE  Placed'
  BY <1>0, <1>1 DEF Placed, HeadContent, NoFiles
<1>2. CASE UNCHANGED vars
  BY <1>1, <1>2 DEF vars, localVars, userVars
<1>3. ASSUME NEW p \in Proc, NEW o \in Ops, Start(p, o) PROVE Placed'
  BY <1>0, <1>1, <1>3 DEF Start, userVars, TypeOK
<1>4. ASSUME NEW p \in Proc, Moves(p) PROVE Placed'
  BY <1>1, <1>4, MovesFacts
<1>5. ASSUME NEW p \in Proc, Leaves(p) PROVE Placed'
  BY <1>1, <1>5, LeavesFacts
<1>6. ASSUME NEW p \in Proc, Validate(p) PROVE Placed'
  <2>1. /\ UNCHANGED <<asset, op, work, presented, blobDir>> /\ pc'[p] = "copy"
        /\ \A q \in Proc \ {p} : pc'[q] = pc[q] /\ content'[q] = content[q]
    BY <1>6, ValidateFacts
  <2>2. QED
    BY <1>1, <2>1
<1>7. ASSUME NEW p \in Proc, NEW f \in File, CopyFile(p, f) PROVE Placed'
  <2>1. /\ UNCHANGED <<asset, pc, op, work, presented, blobDir>> /\ pc[p] = "copy"
        /\ \A q \in Proc \ {p} : content'[q] = content[q]
    BY <1>7, CopyFacts
  <2>2. QED
    BY <1>1, <2>1
<1>8. ASSUME NEW p \in Proc, CopyBranch(p) PROVE Placed'
  <2> DEFINE b == op[p].to
  <2>1. /\ UNCHANGED <<asset, op, content, presented>>
        /\ pc[p] = "copy" /\ op[p].kind = "branch" /\ pc'[p] = "update"
        /\ \A q \in Proc \ {p} : pc'[q] = pc[q]
        /\ b \notin blobDir
        /\ blobDir' = IF content[p] = NoFiles THEN blobDir ELSE blobDir \cup {b}
    BY <1>0, <1>8 DEF CopyBranch, localVars
  <2>2. content[p] \in Content /\ b \in Branch /\ presented \subseteq DOMAIN asset.head
    BY <2>1, OpFacts DEF StoreInv, Validated, TypeOK
  <2>3. /\ \A x \in Branch \ {b} : work'[x] = work[x]
        /\ work'[b] = IF b \in presented THEN work[b] ELSE content[p]
    BY <1>8, <2>2 DEF CopyBranch, TypeOK
  <2>4. \A x \in DOMAIN asset.head :
          x \in blobDir' \/ x \in presented' \/ HeadContent(asset, x)' = NoFiles
    BY <1>0, <2>1 DEF Placed, HeadContent
  <2>5. ASSUME NEW q \in Proc, pc'[q] \in {"update", "flush"}, op[q].kind = "branch",
               op[q].to \notin DOMAIN asset.head
        PROVE  /\ \A f \in File : content[q][f] \in {0, work'[op[q].to][f]}
               /\ op[q].to \in blobDir' \/ content[q] = NoFiles
    <3>1. CASE q = p
      BY <2>1, <2>2, <2>3, <2>5, <3>1
    <3>2. CASE q # p
      <4>1. /\ \A f \in File : content[q][f] \in {0, work[op[q].to][f]}
            /\ op[q].to \in blobDir \/ content[q] = NoFiles
        BY <1>0, <2>1, <2>5, <3>2 DEF Placed
      <4>2. op[q] \in Ops
        BY <2>1, <2>5, <3>2 DEF StoreInv, Validated
      <4>3. op[q].to \in Branch
        BY <2>5, <4>2, OpFacts
      <4>4. CASE op[q].to = b
        BY <2>1, <4>1, <4>4 DEF NoFiles
      <4>5. CASE op[q].to # b
        BY <2>1, <2>3, <4>1, <4>3, <4>5
      <4>6. QED
        BY <4>4, <4>5
    <3>3. QED
      BY <3>1, <3>2
  <2>6. QED
    BY <2>1, <2>4, <2>5 DEF Placed, NoFiles
<1>9. ASSUME NEW p \in Proc, Update(p) PROVE Placed'
  BY <1>0, <1>1, <1>9 DEF Update, userVars
<1>10. ASSUME NEW p \in Proc, Flush(p) PROVE Placed'
  <2>1. /\ UNCHANGED <<op, content, work, presented, blobDir>>
        /\ pc[p] = "flush" /\ pc'[p] = "finish" /\ \A q \in Proc \ {p} : pc'[q] = pc[q]
    BY <1>0, <1>10 DEF Flush, localVars, userVars
  <2>2. ASSUME NEW x \in DOMAIN asset.head, HeadContent(asset', x) = HeadContent(asset, x)
        PROVE  x \in blobDir \/ x \in presented \/ HeadContent(asset', x) = NoFiles
    BY <1>0, <2>2 DEF Placed
  <2>3. /\ DOMAIN asset.head \subseteq DOMAIN asset'.head
        /\ \A x \in DOMAIN asset'.head :
             x \in blobDir \/ x \in presented \/ HeadContent(asset', x) = NoFiles
    <3>1. CASE /\ Moved(p, op[p].ref.name) /\ op[p].ref.name \in presented
               /\ op[p].ref.name \in DOMAIN asset.head
      BY <2>2, <3>1 DEF Moved
    <3>2. CASE /\ op[p].kind = "branch" /\ Moved(p, op[p].to) /\ op[p].to \notin DOMAIN asset.head
      <4>1. op[p].to \in blobDir \/ content[p] = NoFiles
        BY <1>0, <2>1, <3>2 DEF Placed
      <4>2. QED
        BY <2>2, <3>2, <4>1 DEF Moved
    <3>3. CASE asset'.head = asset.head /\ asset'.commits = asset.commits
      BY <2>2, <3>3 DEF HeadContent
    <3>4. QED
      BY <1>10, <3>1, <3>2, <3>3, FlushFacts
  <2>4. QED
    BY <1>0, <2>1, <2>3 DEF Placed, HeadContent, NoFiles
<1>11. ASSUME NEW p \in Proc, Finish(p) PROVE Placed'
  BY <1>0, <1>1, <1>11 DEF Finish, localVars
<1>12. ASSUME NEW b \in Branch, NEW f \in File, Edit(b, f) \/ Remove(b, f) PROVE Placed'
  <2>1. UNCHANGED <<asset, pc, op, content, presented, blobDir>> /\ b \in presented
    BY <1>12 DEF Edit, Remove, localVars
  <2>2. b \in DOMAIN asset.head
    BY <2>1 DEF StoreInv, Validated
  <2>3. \A x \in Branch \ {b} : work'[x] = work[x]
    BY <1>12 DEF Edit, Remove, TypeOK
  <2>4. \A q \in Proc : pc[q] \in {"update", "flush"} /\ op[q].kind = "branch" => op[q].to \in Branch
    BY OpFacts DEF StoreInv, Validated
  <2>5. QED
    BY <1>0, <2>1, <2>2, <2>3, <2>4 DEF Placed, HeadContent, NoFiles
<1>13. QED
  BY <1>2, <1>3, <1>4, <1>5, <1>6, <1>7, <1>8, <1>9, <1>10, <1>11, <1>12, Cases

-----------------------------------------------------------------------------
(* The theorems.                                                           *)

\* An asset that has just been added.
LEMMA InitStore == Init => TypeOK /\ StoreInv
<1> SUFFICES ASSUME Init PROVE TypeOK /\ StoreInv
  OBVIOUS
<1> USE StoreAssumption
<1>1. /\ asset = Added /\ pool = [p \in Proc |-> Added]
      /\ Added.commits = [c \in {First} |-> [parent |-> First, content |-> [f \in File |-> 1]]]
      /\ Added.head = [b \in {Main} |-> First] /\ Added.baseline = [b \in {Main} |-> 1]
      /\ Added.tags = [f \in Family |-> <<>>]
      /\ DOMAIN Added = {"commits", "head", "baseline", "tags"}
  BY DEF Init, Added
<1>2. 0 \in Time /\ 1 \in Time /\ NoFiles \in Content /\ [f \in File |-> 1] \in Content
  BY DEF Time, Content, NoFiles
<1>3. AssetOK(Added)
  <2>1. Added.commits[First] = [parent |-> First, content |-> [f \in File |-> 1]]
    BY <1>1
  <2>2. \A c \in DOMAIN Added.commits : Added.commits[c] \in [parent : CommitId, content : Content]
    BY <1>1, <1>2, <2>1
  <2>3. \A f \in Family : \A v \in DOMAIN Added.tags[f] :
          v \in Nat /\ Added.tags[f][v] \in CommitId
    BY <1>1
  <2>4. QED
    BY <1>1, <1>2, <2>2, <2>3 DEF AssetOK
<1>4. Whole(asset)
  BY <1>1, <1>3 DEF Whole
<1>5. TypeOK
  <2>1. /\ pc \in [Proc -> PC] /\ op \in [Proc -> Ops \cup {NoOp}] /\ ts \in [Proc -> Time]
        /\ content \in [Proc -> Content] /\ target \in [Proc -> CommitId \cup {NoCommit}]
        /\ changes \in [Proc -> SUBSET File] /\ copying \in [Proc -> SUBSET File]
    BY <1>2 DEF Init, PC
  <2>2. work \in [Branch -> Content] /\ mtime \in [Branch -> Content]
    BY <1>2 DEF Init
  <2>3. QED
    BY <1>1, <1>2, <1>3, <2>1, <2>2 DEF Init, TypeOK
<1>6. /\ \A p \in Proc : /\ pc[p] = "idle" /\ target[p] = NoCommit /\ copying[p] = {}
                         /\ changes[p] = {} /\ ts[p] = 0 /\ running[p] = {}
      /\ DOMAIN running = Proc
      /\ presented = {Main} /\ blobDir = {Main} /\ clock = 1
      /\ DOMAIN asset.head = {Main}
      /\ asset.baseline[Main] = 1 /\ HeadContent(asset, Main) = [f \in File |-> 1]
      /\ work[Main] = [f \in File |-> 1]
  BY <1>1 DEF Init, HeadContent
<1>7. Validated /\ Flushing /\ Built
  BY <1>6 DEF Validated, Flushing, Built, Working
<1>8. Isolated
  BY <1>6 DEF Isolated, Inside, Working, Iso!Excluded
<1>9. Saved /\ Placed
  BY <1>6 DEF Saved, Placed, Told, Working
<1>10. QED
  BY <1>4, <1>5, <1>7, <1>8, <1>9 DEF StoreInv

\* The invariant holds.
THEOREM StoreInvariant == Spec => [](TypeOK /\ StoreInv)
<1>1. Init => TypeOK /\ StoreInv
  BY InitStore
<1>2. TypeOK /\ StoreInv /\ [Next]_vars => (TypeOK /\ StoreInv)'
  <2> SUFFICES ASSUME TypeOK, StoreInv, [Next]_vars PROVE TypeOK' /\ StoreInv'
    OBVIOUS
  <2>1. TypeOK' /\ Whole(asset)'
    BY TypeStep
  <2>2. Validated' /\ Flushing' /\ Isolated'
    BY ValidatedStep, FlushingStep, IsolatedStep
  <2>3. Built' /\ Saved' /\ Placed'
    BY BuiltStep, SavedStep, PlacedStep
  <2>4. QED
    BY <2>1, <2>2, <2>3 DEF StoreInv
<1>3. QED
  BY <1>1, <1>2, PTL DEF Spec

\* Every variable keeps its type (TypeOK).
THEOREM StoreTypeCorrect == Spec => []TypeOK
  BY StoreInvariant, PTL

\* A commit is what its parent held and the change record of Validate: nobody
\* commits to the branch between the comparison and the write of the asset file.
THEOREM BuiltOnParent == Spec => []CommitBuiltOnParent
<1>1. StoreInv => CommitBuiltOnParent
  BY DEF StoreInv, Built, CommitBuiltOnParent, Working
<1>2. QED
  BY <1>1, StoreInvariant, PTL

\* A branch that shows no changes is saved, however the edits of the user and
\* the steps of the commits interleave.
THEOREM CleanBranchesSaved == Spec => []CleanMeansSaved
<1>1. TypeOK /\ StoreInv => CleanMeansSaved
  <2> SUFFICES ASSUME TypeOK, StoreInv, NEW b \in presented, Diff(asset, b) = {}
               PROVE  work[b] = HeadContent(asset, b)
    BY DEF CleanMeansSaved
  <2>1. b \in DOMAIN asset.head
    BY DEF StoreInv, Validated
  <2>2. HeadContent(asset, b) \in [File -> Time] /\ work[b] \in [File -> Time]
    BY <2>1, HeadFacts DEF StoreInv, TypeOK, Content
  <2>3. ASSUME NEW f \in File PROVE work[b][f] = HeadContent(asset, b)[f]
    <3>1. Told(b, f, HeadContent(asset, b)[f], asset.baseline[b])
      BY <2>1 DEF StoreInv, Saved
    <3>2. f \notin Diff(asset, b)
      OBVIOUS
    <3>3. QED
      BY <3>1, <3>2 DEF Told, Diff
  <2>4. QED
    BY <2>2, <2>3
<1>2. QED
  BY <1>1, StoreInvariant, PTL

\* The asset file implements AssetHistory: whatever is written to it is a commit
\* on a head, a branch on a commit or the next version of a family, and nothing
\* that was written before is lost, whoever writes and whoever dies.
THEOREM StoreImplementsHistory == Spec => ImplementsHistory
<1>1. Init => History!Init
  <2> SUFFICES ASSUME Init PROVE History!Init
    OBVIOUS
  <2>1. [f \in File |-> 1] \in Content /\ First \in CommitId /\ Main \in Branch
    BY StoreAssumption DEF Content, Time
  <2>2. /\ asset.commits = [x \in {First} |-> [parent |-> First, content |-> [f \in File |-> 1]]]
        /\ asset.head = [x \in {Main} |-> First] /\ asset.tags = [f \in Family |-> <<>>]
    BY DEF Init, Added
  <2>3. QED
    BY <2>1, <2>2 DEF History!Init
<1>2. TypeOK /\ StoreInv /\ [Next]_vars => [History!Next]_(History!state)
  <2> SUFFICES ASSUME TypeOK, StoreInv, [Next]_vars PROVE [History!Next]_(History!state)
    OBVIOUS
  <2>1. CASE asset' = asset
    BY <2>1 DEF History!state
  <2>2. ASSUME NEW p \in Proc, Flush(p) PROVE History!Next
    <3>1. /\ asset' = pool[p] /\ pc[p] = "flush"
          /\ NewCommit(p) \/ NewVersion(p) \/ NewBranch(p)
      BY <2>2 DEF Flush, StoreInv, Flushing
    <3>2. CASE NewCommit(p)
      <4> DEFINE b == op[p].ref.name
      <4>1. b \in DOMAIN asset.head /\ b \in Branch /\ content[p] \in Content
        BY <3>1, <3>2, HeadFacts DEF NewCommit, StoreInv, Validated, Working, TypeOK
      <4>2. PICK c \in CommitId \ DOMAIN asset.commits :
              /\ pool[p].commits = With(asset.commits, c, [parent |-> asset.head[b], content |-> content[p]])
              /\ pool[p].head = With(asset.head, b, c)
              /\ \/ pool[p].tags = asset.tags
                 \/ op[p].to \in Family /\ pool[p].tags = [asset.tags EXCEPT ![op[p].to] = Append(@, c)]
        BY <3>2 DEF NewCommit
      <4>3. History!Snapshot(b, c, content[p])
        BY <3>1, <4>1, <4>2 DEF History!Snapshot, History!With, With
      <4>4. asset'.tags = asset.tags \/ \E f \in Family : History!NewVersion(f, c)
        BY <3>1, <4>2 DEF History!NewVersion
      <4>5. QED
        BY <4>1, <4>2, <4>3, <4>4 DEF History!Next
    <3>3. CASE NewVersion(p)
      <4>1. target[p] \in DOMAIN asset.commits
        BY <3>1, <3>3 DEF NewVersion, StoreInv, Validated, Working
      <4>2. History!NewVersion(op[p].to, target[p]) /\ op[p].to \in Family
        BY <3>1, <3>3 DEF NewVersion, History!NewVersion
      <4>3. asset'.commits = asset.commits /\ asset'.head = asset.head
        BY <3>1, <3>3 DEF NewVersion
      <4>4. QED
        BY <4>1, <4>2, <4>3 DEF History!Next
    <3>4. CASE NewBranch(p)
      <4>1. target[p] \in DOMAIN asset.commits /\ target[p] \in CommitId
        BY <3>1, <3>4 DEF NewBranch, StoreInv, Validated, Working, Whole, AssetOK
      <4>2. History!NewBranch(op[p].to, target[p]) /\ op[p].to \in Branch
        BY <3>1, <3>4, <4>1 DEF NewBranch, History!NewBranch, History!With, With
      <4>3. QED
        BY <4>1, <4>2 DEF History!Next
    <3>5. QED
      BY <3>1, <3>2, <3>3, <3>4
  <2>3. ASSUME NEW p \in Proc,
               \/ \E o \in Ops : Start(p, o)
               \/ CopyBranch(p) \/ Update(p) \/ Finish(p)
        PROVE  asset' = asset
    BY <2>3 DEF Start, CopyBranch, Update, Finish
  <2>4. ASSUME NEW p \in Proc, Moves(p) \/ Leaves(p) PROVE asset' = asset
    BY <2>4, MovesFacts, LeavesFacts
  <2>5. ASSUME NEW p \in Proc, Validate(p) \/ \E f \in File : CopyFile(p, f) PROVE asset' = asset
    BY <2>5 DEF Validate, CopyFile
  <2>6. ASSUME NEW b \in Branch, NEW f \in File, Edit(b, f) \/ Remove(b, f) PROVE asset' = asset
    BY <2>6 DEF Edit, Remove
  <2>7. CASE UNCHANGED vars
    BY <2>1, <2>7 DEF vars
  <2>8. QED
    BY <2>1, <2>2, <2>3, <2>4, <2>5, <2>6, <2>7, Cases
<1>3. QED
  BY <1>1, <1>2, StoreInvariant, PTL DEF Spec, ImplementsHistory, History!Spec
=============================================================================
