----------------------------- MODULE AssetStore -----------------------------
(***************************************************************************)
(* The life of one asset: the commands snapshot, tag and branch            *)
(* (snapshot.go, tag.go, branch.go) on its JSON file (internal/db/asset.go *)
(* through the pool of internal/fsutil/jsonpool.go), the copies they make  *)
(* (internal/blob, internal/fsutil/copy.go), and the user who edits the    *)
(* presented branches all the while.                                       *)
(*                                                                         *)
(* The transaction layer is its abstraction Isolation, the lock of the     *)
(* asset file is ExclusiveLock: Transaction and LockFile implement them.   *)
(* A command reads the asset when it validates, outside any lock, and      *)
(* again when it updates it, under the lock of the file.                   *)
(*                                                                         *)
(* What a file contains is the time at which it was written, so that every *)
(* edit is a new content (0: no such file); sizes are all the same, which  *)
(* leaves the modification times to tell an edit.                          *)
(***************************************************************************)
EXTENDS Naturals, FiniteSets

CONSTANTS
    Proc, NoOne,
    Branch, Main,             \* branch names, and the one `add` makes
    CommitId, First, NoCommit,\* commit identifiers, and the one `add` makes
    Family,                   \* tag families of the site
    File,                     \* paths of the files in a branch
    Ops,                      \* the commands the users may give
    MaxClock, MaxCrashes      \* bounds on the clock and on the crashes

\* An object of the asset, and the commands on it.
Object(t, n)       == [type |-> t, name |-> n]
SnapshotOf(b)      == [kind |-> "snapshot", ref |-> Object("branch", b), to |-> NoOne]
TagOf(ref, f)      == [kind |-> "tag", ref |-> ref, to |-> f]
BranchOff(ref, b)  == [kind |-> "branch", ref |-> ref, to |-> b]
NoOp               == SnapshotOf(NoOne)

Refs == {Object("branch", b) : b \in Branch} \cup {Object("commit", c) : c \in CommitId}
          \cup {Object("tag", <<f, v>>) : f \in Family, v \in 1 .. MaxClock}

AllOps == {SnapshotOf(b) : b \in Branch} \cup {TagOf(r, f) : r \in Refs, f \in Family}
            \cup {BranchOff(r, b) : r \in Refs, b \in Branch}

Time    == 0 .. MaxClock
Content == [File -> Time]

ASSUME StoreAssumption ==
    /\ NoOne \notin Proc /\ NoOne \notin Branch
    /\ Main \in Branch /\ First \in CommitId /\ NoCommit \notin CommitId
    /\ Ops \subseteq AllOps
    /\ MaxClock \in Nat \ {0} /\ MaxCrashes \in Nat

VARIABLES
    asset,      \* the JSON file of the asset
    lock,       \* holder of the lock of that file
    running,    \* Isolation: what each running operation declared
    pc,         \* control state of each process
    op,         \* the command of each process
    ts,         \* its OperationContext.TimeStamp
    pool,       \* its copy of the asset in the JSON pool
    target,     \* the commit to tag or to branch off, once it is known
    changes,    \* files of the change record of its commit
    copying,    \* files it has still to copy
    content,    \* content of the commit it makes or copies
    work, mtime,\* the files of each branch: contents, modification times
    blobDir,    \* branches whose working directory exists and is not empty
    presented,  \* branches that have a workspace pointer
    clock, crashes

localVars == <<op, ts, pool, target, changes, copying, content>>
userVars  == <<work, mtime, presented>>
vars == <<asset, lock, running, pc, localVars, userVars, blobDir, clock, crashes>>

PC == {"idle", "start", "validate", "copy", "update", "flush", "finish", "end", "close", "dead"}

NoFiles == [f \in File |-> 0]

\* The asset after `add` of a tree of files.
Added ==
    [commits  |-> [c \in {First} |-> [parent |-> First, content |-> [f \in File |-> 1]]],
     head     |-> [b \in {Main} |-> First],
     baseline |-> [b \in {Main} |-> 1],
     tags     |-> [f \in Family |-> <<>>]]

Init ==
    /\ asset = Added
    /\ lock = NoOne
    /\ running = [p \in Proc |-> {}]
    /\ pc = [p \in Proc |-> "idle"]
    /\ op = [p \in Proc |-> NoOp]
    /\ ts = [p \in Proc |-> 0]
    /\ pool = [p \in Proc |-> Added]
    /\ target = [p \in Proc |-> NoCommit]
    /\ changes = [p \in Proc |-> {}]
    /\ copying = [p \in Proc |-> {}]
    /\ content = [p \in Proc |-> NoFiles]
    /\ work = [b \in Branch |-> IF b = Main THEN [f \in File |-> 1] ELSE NoFiles]
    /\ mtime = [b \in Branch |-> IF b = Main THEN [f \in File |-> 1] ELSE NoFiles]
    /\ blobDir = {Main}
    /\ presented = {Main}
    /\ clock = 1
    /\ crashes = 0

-----------------------------------------------------------------------------
(* The asset file: what the functions of internal/db/asset.go compute.     *)

With(f, k, v) == [x \in DOMAIN f \cup {k} |-> IF x = k THEN v ELSE f[x]]

\* The object r exists in the asset a, and the commit it stands for.
Exists(a, r) ==
    \/ r.type = "commit" /\ r.name \in DOMAIN a.commits
    \/ r.type = "branch" /\ r.name \in DOMAIN a.head
    \/ r.type = "tag"    /\ r.name[2] \in DOMAIN a.tags[r.name[1]]

CommitOf(a, r) ==
    IF r.type = "commit" THEN r.name
    ELSE IF r.type = "branch" THEN a.head[r.name]
    ELSE a.tags[r.name[1]][r.name[2]]

\* CommitBranch with the time of the update as baseline.
CommitBranchAtUpdate(a, b, c, files, t) ==
    [a EXCEPT !.commits = With(@, c, [parent |-> a.head[b], content |-> files]),
              !.head = With(@, b, c),
              !.baseline = With(@, b, clock)]

\* CommitBranch: append the commit c and move b, with the baseline t, to it.
CommitBranch(a, b, c, files, t) ==
    [a EXCEPT !.commits = With(@, c, [parent |-> a.head[b], content |-> files]),
              !.head = With(@, b, c),
              !.baseline = With(@, b, t)]

\* AddBranch, and AddBranch that forgets the baseline.
AddBranchWithoutBaseline(a, b, c, t) == [a EXCEPT !.head = With(@, b, c)]
AddBranch(a, b, c, t) ==
    [a EXCEPT !.head = With(@, b, c), !.baseline = With(@, b, t)]

\* highestVersion
Highest(versions) ==
    CHOOSE n \in DOMAIN versions \cup {0} : \A m \in DOMAIN versions : m <= n

\* addTag: one more than the highest version of the family.
AddTag(a, f, c) == [a EXCEPT !.tags[f] = With(@, Highest(@) + 1, c)]

\* CheckCommitNotAlreadyOnTagFamily
TaggedIn(a, c, f) == \E v \in DOMAIN a.tags[f] : a.tags[f][v] = c

-----------------------------------------------------------------------------
(* The working files: DirStat.Diff against the branch's last commit.       *)

HeadContent(a, b) == a.commits[a.head[b]].content

Diff(a, b) ==
    {f \in File :
        IF work[b][f] = 0 \/ HeadContent(a, b)[f] = 0
          THEN work[b][f] # HeadContent(a, b)[f]
          ELSE mtime[b][f] > a.baseline[b]}

\* applyChangeRecord, before the contents of the copied files are known.
Without(files, removed) == [f \in File |-> IF f \in removed THEN 0 ELSE files[f]]

-----------------------------------------------------------------------------

\* What a command declares to the transaction layer: the object it is given;
\* and, wrongly, the object that it makes.
DeclaresResult(o) == [asset  |-> <<"asset">>, op |-> "Branch",
                      object |-> Object(o.kind, o.to)]
Declares(o) == [asset  |-> <<"asset">>,
                op     |-> IF o.kind = "tag" /\ o.ref.type # "branch" THEN "Tag" ELSE "Branch",
                object |-> o.ref]

Iso  == INSTANCE Isolation WITH
          Tid <- {Declares(o) : o \in Ops}, Dashed <- {}, Slashed <- {}
Lock == INSTANCE ExclusiveLock WITH Nobody <- NoOne, holder <- lock

Goto(p, l) == pc' = [pc EXCEPT ![p] = l]

ForgetLocals(p) ==
    /\ op' = [op EXCEPT ![p] = NoOp]
    /\ ts' = [ts EXCEPT ![p] = 0]
    /\ pool' = [pool EXCEPT ![p] = Added]
    /\ target' = [target EXCEPT ![p] = NoCommit]
    /\ changes' = [changes EXCEPT ![p] = {}]
    /\ copying' = [copying EXCEPT ![p] = {}]
    /\ content' = [content EXCEPT ![p] = NoFiles]

\* Bound: commands start while there are identifiers left for their commits.
Room == Cardinality(DOMAIN asset.commits)
          + Cardinality({p \in Proc : pc[p] \notin {"idle", "dead"}}) < Cardinality(CommitId)

\* WithOperationContext: the timestamp is taken before anything else.
Start(p, o) ==
    /\ pc[p] = "idle" /\ clock < MaxClock /\ Room
    /\ Goto(p, "start")
    /\ clock' = clock + 1
    /\ op' = [op EXCEPT ![p] = o]
    /\ ts' = [ts EXCEPT ![p] = clock']
    /\ UNCHANGED <<asset, lock, running, pool, target, changes, copying, content,
                   userVars, blobDir, crashes>>

\* RunEdit: the operation begins, unless another conflicts with it.
Begin(p) ==
    /\ pc[p] = "start"
    /\ Iso!Begin(p, {Declares(op[p])})
    /\ Goto(p, "validate")
    /\ UNCHANGED <<asset, lock, localVars, userVars, blobDir, clock, crashes>>

Conflicts(p) ==
    /\ pc[p] = "start"
    /\ \E q \in Proc : Iso!Excluded({Declares(op[p])}, running[q])
    /\ Goto(p, "end")
    /\ UNCHANGED <<asset, lock, running, localVars, userVars, blobDir, clock, crashes>>

\* resolveChangeRecord: the branch must be presented and exist.
Tracked(b) == b \in presented /\ b \in DOMAIN asset.head

\* What Validate requires, and whether the operation will make a commit.
Commits(o) == o.kind # "branch" /\ o.ref.type = "branch" /\ Diff(asset, o.ref.name) # {}

Valid(o) ==
    /\ Exists(asset, o.ref)
    /\ o.ref.type = "branch" => Tracked(o.ref.name)
    /\ o.kind = "snapshot" => Commits(o)
    /\ o.kind = "tag" /\ ~Commits(o) => ~TaggedIn(asset, CommitOf(asset, o.ref), o.to)
    /\ o.kind = "branch" =>
         /\ o.to \notin DOMAIN asset.head
         /\ o.ref.type = "branch" => Diff(asset, o.ref.name) = {}

\* Operation.Validate reads the asset into the pool, without its lock, and
\* walks the working directory.  (The two reads are one step: only this
\* operation may change what it reads of the branch between them.)
Validate(p) ==
    LET o == op[p]  b == o.ref.name  d == Diff(asset, b) IN
    /\ pc[p] = "validate" /\ Valid(o)
    /\ Goto(p, "copy")
    /\ pool' = [pool EXCEPT ![p] = asset]
    /\ IF Commits(o)
         THEN LET gone == {f \in d : work[b][f] = 0} IN
              /\ changes' = [changes EXCEPT ![p] = d]
              /\ copying' = [copying EXCEPT ![p] = d \ gone]
              /\ content' = [content EXCEPT ![p] = Without(HeadContent(asset, b), gone)]
              /\ target' = target
         ELSE LET c == CommitOf(asset, o.ref) IN
              /\ target' = [target EXCEPT ![p] = c]
              /\ content' = [content EXCEPT ![p] = asset.commits[c].content]
              /\ UNCHANGED <<changes, copying>>
    /\ UNCHANGED <<asset, lock, running, op, ts, userVars, blobDir, clock, crashes>>

\* UpdateBlob of a commit: copyOneRequest copies a file as it is by now.
CopyFile(p, f) ==
    LET b == op[p].ref.name IN
    /\ pc[p] = "copy" /\ f \in copying[p] /\ work[b][f] # 0
    /\ content' = [content EXCEPT ![p][f] = work[b][f]]
    /\ copying' = [copying EXCEPT ![p] = @ \ {f}]
    /\ UNCHANGED <<asset, lock, running, pc, op, ts, pool, target, changes,
                   userVars, blobDir, clock, crashes>>

\* UpdateBlob of a branch: the commit's files are copied to a temporary
\* directory, which is renamed to the one named after the branch.  The working
\* files are links to it, made when the branch is presented.
CopyBranch(p) ==
    LET b == op[p].to IN
    /\ pc[p] = "copy" /\ op[p].kind = "branch" /\ b \notin blobDir
    /\ IF b \in presented
         THEN UNCHANGED <<work, mtime>>
         ELSE /\ work' = [work EXCEPT ![b] = content[p]]
              /\ mtime' = [mtime EXCEPT ![b] = [f \in File |-> clock]]
    /\ blobDir' = IF content[p] = NoFiles THEN blobDir ELSE blobDir \cup {b}
    /\ Goto(p, "update")
    /\ UNCHANGED <<asset, lock, running, localVars, presented, clock, crashes>>

\* A file is gone, or the rename finds a directory that is not empty.
CopyFails(p) ==
    /\ pc[p] = "copy"
    /\ \/ \E f \in copying[p] : work[op[p].ref.name][f] = 0
       \/ op[p].kind = "branch" /\ op[p].to \in blobDir
    /\ Goto(p, "end")
    /\ UNCHANGED <<asset, lock, running, localVars, userVars, blobDir, clock, crashes>>

EndCopy(p) ==
    /\ pc[p] = "copy" /\ op[p].kind # "branch" /\ copying[p] = {}
    /\ Goto(p, "update")
    /\ UNCHANGED <<asset, lock, running, localVars, userVars, blobDir, clock, crashes>>

\* ResolveHandler for write: the copy in the pool is read again under the lock;
\* and a pool that would use the copy it has.
NoReread(p) == pool[p]
Reread(p) == asset

MakesCommit(p) == target[p] = NoCommit

\* What can still fail in DBUpdate: GetBranchCommit, GetCommit, AddBranch.
CanUpdate(p, a) ==
    /\ IF MakesCommit(p) THEN op[p].ref.name \in DOMAIN a.head
                         ELSE target[p] \in DOMAIN a.commits
    /\ op[p].kind = "branch" => op[p].to \notin DOMAIN a.head

\* operationCommit.DBUpdate, operationTag.DBUpdate, operationBranch.DBUpdate on
\* the asset a; c identifies the commit they make.
Updated(p, a, c) ==
    LET o == op[p]
        committed == IF MakesCommit(p)
                       THEN CommitBranch(a, o.ref.name, c, content[p], ts[p]) ELSE a
    IN IF o.kind = "snapshot" THEN committed
       ELSE IF o.kind = "tag"
         THEN AddTag(committed, o.to, IF MakesCommit(p) THEN c ELSE target[p])
         ELSE AddBranch(a, o.to, target[p], clock)

\* GenerateUID does not return the same identifier twice.
Unused == {c \in CommitId : /\ c \notin DOMAIN asset.commits
                            /\ \A q \in Proc : c \notin DOMAIN pool[q].commits}

Update(p) ==
    /\ pc[p] = "update"
    /\ Lock!Acquire(p)
    /\ CanUpdate(p, Reread(p))
    /\ \E c \in Unused : pool' = [pool EXCEPT ![p] = Updated(p, Reread(p), c)]
    /\ Goto(p, "flush")
    /\ UNCHANGED <<asset, running, op, ts, target, changes, copying, content,
                   userVars, blobDir, clock, crashes>>

\* DBUpdate fails: with the lock taken, or because it could not be.
UpdateFails(p) ==
    /\ pc[p] = "update"
    /\ \/ Lock!Acquire(p) /\ ~CanUpdate(p, Reread(p))
       \/ lock # NoOne /\ UNCHANGED lock
    /\ Goto(p, "end")
    /\ UNCHANGED <<asset, running, localVars, userVars, blobDir, clock, crashes>>

\* FlushForWrite: one atomic rename.
Flush(p) ==
    /\ pc[p] = "flush"
    /\ asset' = pool[p]
    /\ Goto(p, "finish")
    /\ UNCHANGED <<lock, running, localVars, userVars, blobDir, clock, crashes>>

FlushFails(p) ==
    /\ pc[p] = "flush"
    /\ Goto(p, "end")
    /\ UNCHANGED <<asset, lock, running, localVars, userVars, blobDir, clock, crashes>>

\* Operation.Finish, best effort: a branch is presented, or the log says why not.
Finish(p) ==
    /\ pc[p] = "finish"
    /\ presented' \in IF op[p].kind = "branch"
                        THEN {presented, presented \cup {op[p].to}} ELSE {presented}
    /\ Goto(p, "end")
    /\ UNCHANGED <<asset, lock, running, localVars, work, mtime, blobDir, clock, crashes>>

\* Validate refuses.
Invalid(p) ==
    /\ pc[p] = "validate" /\ ~Valid(op[p])
    /\ Goto(p, "end")
    /\ UNCHANGED <<asset, lock, running, localVars, userVars, blobDir, clock, crashes>>

\* tx.finish ...
EndTransaction(p) ==
    /\ pc[p] = "end"
    /\ Iso!End(p)
    /\ Goto(p, "close")
    /\ UNCHANGED <<asset, lock, localVars, userVars, blobDir, clock, crashes>>

\* ... and then opctx.Close, which gives back the locks of the pool.
Close(p) ==
    /\ pc[p] = "close"
    /\ IF lock = p THEN Lock!Release(p) ELSE UNCHANGED lock
    /\ Goto(p, "idle")
    /\ ForgetLocals(p)
    /\ UNCHANGED <<asset, running, userVars, blobDir, clock, crashes>>

-----------------------------------------------------------------------------
(* The user, and what may go wrong.                                        *)

Edit(b, f) ==
    /\ b \in presented /\ clock < MaxClock
    /\ clock' = clock + 1
    /\ work' = [work EXCEPT ![b][f] = clock']
    /\ mtime' = [mtime EXCEPT ![b][f] = clock']
    /\ UNCHANGED <<asset, lock, running, pc, localVars, blobDir, presented, crashes>>

Remove(b, f) ==
    /\ b \in presented /\ work[b][f] # 0
    /\ work' = [work EXCEPT ![b][f] = 0]
    /\ UNCHANGED <<asset, lock, running, pc, localVars, mtime, blobDir, presented,
                   clock, crashes>>

Crash(p) ==
    /\ pc[p] \notin {"idle", "dead"} /\ crashes < MaxCrashes
    /\ crashes' = crashes + 1
    /\ Goto(p, "dead")
    /\ Iso!End(p)
    /\ ForgetLocals(p)
    /\ UNCHANGED <<asset, lock, userVars, blobDir, clock>>

\* The lock of a dead process is an orphan that others clear.
LockExpires(p) ==
    /\ pc[p] = "dead" /\ Lock!Release(p)
    /\ UNCHANGED <<asset, running, pc, localVars, userVars, blobDir, clock, crashes>>

-----------------------------------------------------------------------------

Step(p) ==
    \/ Begin(p) \/ Conflicts(p)
    \/ Validate(p) \/ Invalid(p)
    \/ \E f \in File : CopyFile(p, f)
    \/ CopyBranch(p) \/ EndCopy(p) \/ CopyFails(p)
    \/ Update(p) \/ UpdateFails(p)
    \/ Flush(p) \/ FlushFails(p)
    \/ Finish(p) \/ EndTransaction(p) \/ Close(p)
    \/ LockExpires(p)

User == \E b \in Branch, f \in File : Edit(b, f) \/ Remove(b, f)

Next ==
    \/ \E p \in Proc : (\E o \in Ops : Start(p, o)) \/ Step(p) \/ Crash(p)
    \/ User

Spec == Init /\ [][Next]_vars

-----------------------------------------------------------------------------
(* Properties                                                              *)

AssetOK(a) ==
    /\ DOMAIN a = {"commits", "head", "baseline", "tags"}
    /\ DOMAIN a.commits \subseteq CommitId
    /\ \A c \in DOMAIN a.commits : a.commits[c] \in [parent : CommitId, content : Content]
    /\ DOMAIN a.head \subseteq Branch /\ DOMAIN a.baseline = DOMAIN a.head
    /\ \A b \in DOMAIN a.head : a.head[b] \in CommitId /\ a.baseline[b] \in Time
    /\ DOMAIN a.tags = Family
    /\ \A f \in Family : \A v \in DOMAIN a.tags[f] : v \in Nat /\ a.tags[f][v] \in CommitId

TypeOK ==
    /\ AssetOK(asset) /\ DOMAIN pool = Proc /\ \A p \in Proc : AssetOK(pool[p])
    /\ lock \in Proc \cup {NoOne}
    /\ pc \in [Proc -> PC] /\ op \in [Proc -> Ops \cup {NoOp}]
    /\ ts \in [Proc -> Time] /\ content \in [Proc -> Content]
    /\ target \in [Proc -> CommitId \cup {NoCommit}]
    /\ changes \in [Proc -> SUBSET File] /\ copying \in [Proc -> SUBSET File]
    /\ work \in [Branch -> Content] /\ mtime \in [Branch -> Content]
    /\ blobDir \subseteq Branch /\ presented \subseteq Branch
    /\ clock \in Time /\ crashes \in 0 .. MaxCrashes

\* No edit is lost: what `vit status` shows without changes is what the
\* branch's last commit holds, whenever the user edits and whoever commits
\* (the reason for the baseline of types/asset.go).
CleanMeansSaved ==
    \A b \in presented : Diff(asset, b) = {} => work[b] = HeadContent(asset, b)

\* A commit is what its parent held and the change record of Validate: the
\* parent that DBUpdate finds is still the one that Validate compared with.
CommitBuiltOnParent ==
    \A p \in Proc : pc[p] = "flush" /\ MakesCommit(p) =>
        \A f \in File \ changes[p] :
            content[p][f] = HeadContent(asset, op[p].ref.name)[f]

\* The JSON file implements AssetHistory under any interleaving of commands:
\* no commit, branch or version that was written is ever lost to a later write.
History == INSTANCE AssetHistory WITH
             commits <- asset.commits, head <- asset.head, tags <- asset.tags
ImplementsHistory == History!Spec

\* asset.go: "a commit may hold at most one version per family/site".
OneVersionPerCommit ==
    \A f \in Family : \A v, w \in DOMAIN asset.tags[f] :
        asset.tags[f][v] = asset.tags[f][w] => v = w
=============================================================================
