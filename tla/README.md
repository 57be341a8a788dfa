# A specification of vit

vit versions large files ("assets") in a repository on a shared file system. There is
no server: every command is a process that reads and writes the files under `.vit`, and
several of them, of several users and machines, run at the same time. What keeps them
apart is in `vit/src/internal`: a lock that is a directory, a transaction layer made of
small files, JSON files that are read without a lock and written under one, and an order
in which things are written. This directory models those mechanisms in TLA+, checks them
with TLC on small instances, and proves with TLAPS, for every instance, the safety
properties of all of them.

Paths below are relative to `vit/src`.

## Contents

| Module | Models |
|---|---|
| `ExclusiveLock` | what a lock promises: at most one holder |
| `LockFile` | `internal/fsutil/lockfile.go`, one system call per action |
| `LockFileProofs` | theorems about `LockFile` |
| `TransactionIds` | identifiers, file names and conflicts (`transactionid.go`, `validate.go`) |
| `Isolation` | what the transaction layer promises to an operation |
| `Transaction` | `withTransaction` and all it calls (`internal/transaction`) |
| `TransactionProofs` | theorems about `Transaction` |
| `AssetHistory` | what the asset file promises: a history that only grows |
| `AssetStore` | `snapshot`, `tag`, `branch` on an asset while its user edits |
| `AssetStoreProofs` | theorems about `AssetStore` |
| `ContentTree` | the content nodes that commits share (`internal/blob/content.go`) |
| `ContentTreeProofs` | theorems about `ContentTree` |
| `History` | the activity log (`internal/history`) |
| `HistoryProofs` | theorems about `History` |
| `TreeIndex` | `add`, the tree of assets and its cached index (`internal/db`), and the log |
| `TreeIndexProofs` | theorems about `TreeIndex` |
| `Workspace` | pointers and links to sources (`internal/workspace`) |
| `DepGraph` | `source add`, `pull` and `push`, the graph of dependencies, and what is presented of it |
| `DepGraphProofs` | theorems about `DepGraph`: asset files, the walk over dependencies, caches |
| `DepGraphFinishProofs` | theorems about what `Finish` leaves behind: entries, markers, presentation |
| `MC*` and `MC*_*.cfg` | the instances that TLC checks |

    TreeIndex --> History   DepGraph --> Workspace   AssetStore --> AssetHistory
       |   \        |          |                       /   |     (ImplementsHistory)
       |     ------ | ---- Isolation -----------------     |  <--- Transaction
       |            |                                      |            |
       +------------+-------- ExclusiveLock ---------------+------------+  <--- LockFile

An upper module uses the abstract module of the layer below; the detailed module of that
layer is shown to implement it, by TLC on an instance and by a proof in general
(`TransactionImplements`, `LockImplements`). The proofs have assumptions (below), and the
abstraction is worth what they are. `History` is a specification of its own, which
`TreeIndex` extends and, by `ImplementsLog`, uses as it is meant to be used.

## Inventory

**Directory lock** (`internal/fsutil/lockfile.go`). State: a directory next to the file
it protects, and its modification time. Operations: acquire (with or without a goroutine
that touches the directory every 2 s), release, wait for release. A directory older than
60 s is an orphan, removed by whoever finds it. Hard: everything is several system calls
by path on a shared file system; a holder may die, sleep or be slow. Correct if: one
holder at a time, nobody removes a living holder's directory, every attempt ends, orphans
go.

**Transaction layer** (`internal/transaction`). State: `.vit/transaction.lock` and one
file per object that a running command will modify, named after the object. Operations:
clean abandoned files, scan for conflicts, validate, write the files, touch them while the
operation runs, remove them. Hard: the lock protects the short part only; names must
survive encoding; a command may die or fail anywhere. Correct if: conflicting operations
never overlap, a running operation keeps its files, only conflicts refuse, everything ends
and nothing abandoned refuses for ever.

**Asset file and its pool** (`internal/db/asset.go`, `internal/fsutil/jsonpool.go`,
`json.go`, `atomic.go`). State: commits, branches with a baseline time, tag families with
versions. Operations: commit a branch, add a branch, add a tag version; read without lock,
escalate to the lock and read again, flush by rename, release at the end of the command.
Hard: minutes between reading and writing. Correct if: no update is lost, commits never
change, versions are numbered without gaps, at most one version per commit and family.

**Operations** (`snapshot.go`, `tag.go`, `branch.go`, `status.go`). Validate, copy to the
blob store, update the asset file, present. Hard: the user edits while files are copied,
and the baseline decides whether an edit is ever seen. Correct if: a branch that looks
clean is saved, a commit is the change of its parent.

**Blob store and content nodes** (`internal/blob`, `internal/fsutil/copy.go`). State:
copied files, content nodes named after their hash. Operations: plan a commit, copy, write
nodes, load a tree. Hard: no lock at all; nodes are shared between commits; writing stops
half-way. Correct if: a recorded commit can be loaded.

**Tree of assets and index** (`internal/db/tree.go`, `treenode.go`, `treeindex.go`,
`client.go`; `add.go`). State: one file per tree node, the cached index and list, a marker
for a stale index, the lock of a rebuild. Operations: load, rebuild, add. Hard: the index
is loaded before the transaction, and marked after it. Correct if: assets do not nest, the
index leads to what exists and does not go back.

**Dependency graph** (`internal/db/depgraphindex.go`, `dependedby.go`,
`internal/types/depgraph.go`) and the **source commands** (`sourceadd.go`,
`sourcepull.go`, `sourcepush.go`). State: in each asset file the sources of its branches
and commits, what they follow and the commit they are pinned to; derived from it, one
cache file of graphs per asset, a directory of entries for those that depend on it, a
marker that says its reverse graphs are stale. Operations: add a source, pull the last
commits of what a branch follows, push a branch to all that follow it; record the graph
after each of them and after a snapshot. Hard: the derived files are written after the
asset file, one by one, in no lock, best effort; a push looks for its consumers before its
transaction. Correct if: nothing depends on its own asset, what a cache says is true, a
push finds all that follow, and comes to an end.

**Workspace** (`internal/workspace`). State: per presented object a directory with hard
links to its files and links to its sources, and a pointer file that leads to it.
Operations: present a branch, a commit, a tag; link the sources of one. Hard: files,
links, pointer are written one after the other, best effort, and a link needs the pointer
of its target. Correct if: what has a pointer is whole, a branch shows what it is pinned
to.

**Activity log** (`internal/history`). State: segment files of at most so many lines, and
a lock. Operations: record an entry at the end of a transaction, read all of them
(`vit log`). Hard: best effort, after what it tells has been done; readers take no lock; a
write may be cut short and the next one goes behind it. Correct if: segments stay bounded,
what was recorded is kept, a reader misses nothing, what is logged was done.

**Reading commands, set-up and configuration, command line**: no state of their own, or
state that is written once before all others.

`PROJECT.json` lists the hazards of this code at their lines, each with the properties
that would show it going wrong.

## The models

### LockFile

`dir` is the creator of the lock directory (`NoOne`: it does not exist), `age` its age in
ticks. `AcquireExclusiveLock` is the control states `firstStat`, `firstRemove` (the first
`cleanOrphanedLock`), `mkdir`, `mkdirAll`, `mkdirAgain`, `stat`, `remove`, `sleep`;
`WaitForLockRelease` is `peek`, `peekRemove`, `peekSleep`. `os.Stat` and `os.Remove` are
two actions because they are two calls. `Release` removes whatever is at the path, as the
code does. `Fails` is the context of the caller and the errors of the file system.
`CancelKeepalive` is the goroutine's `<-ctx.Done()`: it leaves while the lock is held.
`Tick` is time for everybody; its guard is the only place where the environment promises
anything (a holder is not silent for longer than `MaxSilence`, or `KeepaliveInterval` with
a keepalive). The directory's modification time is one machine's and the time it is
compared with another's: whoever looks at an age may see it wrong by up to `MaxSkew`, so
that between `SeemsExpired` and `Expired` a look may go either way. The backoff is
abstracted to at least one tick.

### TransactionIds, Transaction, Isolation

A declaration is an asset path, an operation and an object (`@branch=...`). `Decodes`,
`TopLevel` and `NilRef` are what is left of it in a file name: `---` inside a path does
not decode, `/` in an object name makes a sub-directory, a tree change has no object and
decodes to a nil `Ref`. `Rejects` is the two scans with that nil dereference: the process
panics, its deferred unlock runs, and the command is over as if refused.

`Transaction` has one action per step of `withTransaction`: take the lock and list the
directory, stat and remove one file at a time, scan, validate, write one file at a time,
unlock, run, stop touching, remove one file at a time. One round of the touch loop is one
step, its files being touched microseconds apart. `Isolation` says that a process may
begin an operation only if no running one conflicts with its declarations.

### AssetStore, AssetHistory

A command is `Start` (its timestamp), `Begin` (Isolation), `Validate` (reads the asset
without lock and walks the working files), `CopyFile` one at a time, `Update` (lock, read
again, change), `Flush` (rename), `Finish`, `EndTransaction`, `Close` (locks released). The
user's `Edit` and `Remove` happen at any time. A file's content is the time of its
last write, which makes every edit distinguishable, and sizes are equal, so that only the
modification time tells an edit: the case in which status can be wrong. `AssetHistory` has
three things that can happen to an asset: a commit on a branch (and perhaps a version of
it), a new branch, a new version.

### ContentTree

A tree is a root and its sub-directories (`Dir`), a sub-directory the set of its entries;
a node is what it says, since its name is the hash of that. `WriteRoot` has the early
return of `writeContentNodesRecc`, `WriteLeaf` the loop over the children, in no lock. `Stop`
is a failure or a crash anywhere. Edits during a commit are left to `AssetStore`.

### History

A segment is its lines and whether the last one has its end. `Record` is `lock`, `find`
(`findActiveSegment`: the last segment or the next one), `append` and the deferred unlock;
`AppendCut` leaves a line without its end, and with it the next entry becomes one line
that does not parse (`Garbage`), as `AppendLine` writes behind what is there. `AppendFails`
is an error that leaves nothing or everything. `ReadAll` is `List` and one `ReadSegment`
per file, in no lock. `recorded`, `owed` and `cuts` are history variables: what `Record`
returned without error for, what of it a reader owes its caller, what was cut short.

### TreeIndex

A node is identified by the add that made it (`GenerateUID`) and its path; its parent is
the number of another add. `index` has both maps of `tree_index.json`, `list` is
`asset_list.json`. `NewClient` is `Wait`, `Check`, then `Load` or the rebuild: lock,
recheck, scan from `BeginScan` to `EndScan` (it sees all that was there at the beginning
and some of what came since), index, list, marker. `add` goes on with `Begin`, `Validate`
and `Update` on the index it loaded, one `FlushNode` per file, `EndTransaction`, which
hands the add over to `Record` of the log, and `Close` with the marker. A process that
runs no command may read the log.
What `AddPath` adds to the client's own copy of the index is read by nobody after it and
is left out. Adds that do not overlap may run together here, as Isolation allows; in the
code the nil `Ref` of the transaction layer makes one of them fail.

### Workspace, DepGraph

`Workspace` has `pointed`, the objects with a pointer file, and `links`, for each
presented object its sources by name. Its operators are the system calls of `PresentCommit`
and `aliasSources`, of which each may fail; `DepGraph` says who presents what and when.

`store` is the asset files: per asset one branch (number 0) and its commits, and for each
of them its sources by name, with what they follow (`spec`) and their commit (`pin`).
`cache`, `entries` and `marked` are the derived files. `pool` is the JSON pool of a
process: what it has read stays, except what it is about to write; `View` is what the
process sees through it, and each action says what it `Read`s. `Reached` is what
`walkDependencies` visits: the smallest set that has the version it starts from and is
closed under pins. A cached graph is its set of edges. The recursion of `GetDependents` is `stack`, a call per element, with `Descend`
for the next entry and `Return` for the write of the cache; the cache file is read when
the call begins and written whole when it ends, as in the code. `Finish` is the list
`todo` of the calls still to make for one source (`Steps`), of which each may fail
(`MaxFaults` bounds errors and crashes together): `CacheDependencies` is a read and a
write, `AddDependent` one file at a time, `MarkDependentsStale` one marker at a time. What
a failure cuts off follows the early returns of the code. `shows` are the objects whose
graph is done and that are still to be presented: of a commit its files, its links, its
pointer, of a branch the links only. `cut` is a history variable: the assets of which a
crash or failure has left the bookkeeping incomplete, for which the code promises nothing.
Commands on one branch exclude each other by `Isolation`; since an asset has one branch
here, its file is written by one command at a time, and the file lock is left out but for
its failure.

## What TLC checks

| Run | Instance | Shows |
|---|---|---|
| `lock` | 2 processes, timeout 3 ticks, silence 2, keepalive and clock skew 1, 1 crash, fair | `TypeOK`, `MutualExclusion`, `HolderOwnsDir`, `OnlyOwnDirRemoved`, `ImplementsExclusiveLock`, `AttemptsEnd`, `OrphanCleared` |
| `lock_crash` | 3 processes, 1 crash | **violated**: `MutualExclusion` |
| `transaction` | 2 processes, overlapping edits, tags, a two-object push, an add; 1 crash, fair | `TypeOK`, `NoConflictingOperations`, `RunningKeepsFiles`, `ImplementsIsolation`, `CommandsEnd`, `AbandonedFilesGo` |
| `transaction_adds` | an add and an unrelated snapshot | **violated**: `RejectedOnlyByConflict` |
| `assets` | 2 processes, 2 branches, 2 files, every command, clock to 4, 1 crash | `TypeOK`, `CleanMeansSaved`, `CommitBuiltOnParent`, `ImplementsHistory` |
| `asset_versions` | 2 processes, 1 branch, tags of it and of its commit | **violated**: `OneVersionPerCommit` |
| `content_commits` | 2 processes, 2 branches, 2 sub-directories, 1 interruption | `TypeOK`, `CommittedIsKept`, `NewFilesLoad` |
| `content_orphan` | the same | **violated**: `OrphanSafe` |
| `tree_rebuild` | 2 processes, 2 adds in one directory, readers, log segments of 1 line, 1 crash, 1 error | `TypeOK`, `NodesLead`, `CacheAgrees`, `IndexGrows`, `SegmentsBounded`, `RecordedKept`, `ReadersSeeRecorded`, `LoggedIsAdded`, `ImplementsLog` |
| `tree_nesting` | 2 adds, one inside the other | **violated**: `NoNesting` |
| `graph` | 2 processes, 2 assets, 4 commands of every kind, 1 crash or error | `TypeOK`, `NoOwnSource`, `CommitsCachedRight`, `FollowersRecorded`, `ReverseCachedRight`, `PresentedWhole`, `BranchShowsPins` |
| `graph_recursion` | 1 process, 2 assets, 3 commands | **violated**: `RecursionEnds` |

Runs that are violated are disagreements between the code and what its comments and
messages say; each is a finding in `PROJECT.json`:

* `lock_crash`: two callers stat the same orphan, the slower removes the new lock of the
  faster (`lockfile.go:153`). It takes a crash and three processes; with nobody dead and
  silent it cannot happen (`LockExclusive`).
* `transaction_adds`: any command that scans while an add runs panics on a nil `Ref`
  (`validate.go:24` and `:44`).
* `asset_versions`: the check for one version per commit is made before the copy and not
  again at the update, and a tag of a branch does not conflict with a tag of its commit.
* `content_orphan`: a node that exists is taken to have its children. After an
  interruption between the two, the same removal-only commit is recorded unloadable. A
  commit that copies files is safe (`NewFilesLoad`): its tree is new.
* `tree_nesting`: the marker of a stale index is written after the transaction, so the
  next add may decide by an index without the asset just made.
* `graph_recursion`: source add refuses cycles of pinned commits, but two branches can be
  made to follow each other before a snapshot pins the cycle; a push of one of them then
  goes round among their entries for ever (`dependedby.go:207`).

Six more disagreements were met on larger or special instances and have no run of their
own. A `/` in a branch name hides its transaction from the scan, which skips directories
(`validate.go:71`): with such a name in `Slashed`, `NoConflictingOperations` fails. A push
validates with the asset files it read while it looked for consumers, so it may set a
source back to an older commit after another command has pulled (`sourcepush.go:79` says
that every consumer is checked again). Commits of two assets may have each other's older
commits as sources; a branch that has both finds a cycle of assets (`depgraph.go:116`) and
its graph can never be built. The marker of a stale reverse graph is never removed (the
two `if stale` of `dependedby.go` are empty), so after the first source such a graph is
never taken from a cache again: this costs time only, and removing it where the empty
branches are would be wrong, as the mutant `ReturnUnmarks` shows. A source add or a pull
presents "the closure into the consumer workspace" (`sourceadd.go:214`), but a link needs
the pointer of its target, and a snapshot of the target writes that last: a source that is
added between the flush and the pointer stays unlinked, without any failure
(`presentsources.go:61`), which is why `BranchShowsPins` speaks of branches whose sources
are all linked. The entry of a consumer at its target is a file named after the consumer
alone (`dependedby.go:42`): with two sources on one target it keeps one of the two names,
and a push to that target sees the one only.

**Bounds.** Two processes are enough for the races of the upper modules (one that read and
one that writes); where three matter, `lock_crash` has them and the theorems hold for any
number. One crash is enough to leave an orphan in any state, and in the lock a second one
adds nothing a timeout does not. Ages saturate one above the timeout, since the code asks
only "older or not". `MaxClock` 4 leaves room for two commands and two edits, in any
order, which is what `CleanMeansSaved` needs. Two content
sub-directories are needed for a tree that is partly written; deeper trees repeat the same
parent and child. Two adds show every use of the index by one of what the other did, a
third made the run too long. In `graph`, four commands are enough to add two sources, to
snapshot and to push while another command runs, and `MaxDepth` 3 is one more than a chain
of two assets can need: deeper calls come from the recursion that `graph_recursion` shows.
Three
assets with three commands, two faults, and two names for sources were checked as well
(up to five million states). In `tree_rebuild` segments of one line make every second
entry open a new one. In `lock` a skew of one tick makes silence and skew together just
reach the timeout, the limit of `Timely`. Symmetry is used in runs of safety properties, on sets of
model values only. `CHECK_DEADLOCK FALSE` is for `AssetStore`, whose clock
ends, and for `DepGraph`, whose commands are counted.

**Fairness.** A process that is not dead makes its next call, and time passes (weak
fairness of `Step` and `Tick`); a keepalive or touch loop that is running runs. In the
lock a waiting caller chooses between timer and deadline with Go's `select`, which is
random: a deadline that is ready again and again is taken, hence strong fairness of
`GiveUp`. Nobody is obliged to start a command, to cancel or to die. `AbandonedFilesGo`
asks for commands that come: the code has no janitor, and without them nothing is removed.

Each property of a passing run has a mutant in `PROJECT.json`: a variant of a definition
(they stand next to it, named for what they do wrong, as `SeemsExpiredEarly` or `NoReread`)
with which TLC finds the property violated.

## What is proved

All proofs are by TLAPS, for every value of the constants.

`LockFileProofs`, under `Timely` (`MaxSilence + MaxSkew` and `KeepaliveInterval + MaxSkew`
at most `LockAcquireTimeout`, no crash; crashes are excluded because of `lock_crash`):
`LockExclusive`, `HolderIsOwner`, `RemovalSafe` and `LockImplements`. The inductive
invariant says that the holder owns the directory and that the directory is never older
than the holder's own silence, which the environment bounds; so a directory that is held
has not expired, and nobody who saw an expired one can exist while somebody holds it: the
states between stat and remove are unreachable in this environment. `MutualExclusion`
alone is not inductive, as it says nothing of a process about to remove. `TypeCorrect`
needs no assumption.

`TransactionProofs`, under `Timely` and `NamesCarry` (every identifier survives its file
name; with a `/` or a `---` isolation fails, see above), with any number of crashes:
`Isolated`, `FilesProtected`, `TransactionImplements`. The inductive invariant ties the
lock to the control states between `clean` and `write`, says that the files of a running
operation exist, were written by it and are no older than its silence, that a process past
its scan conflicts with none that runs, and that a file about to be removed by a cleanup
belongs to nobody. A scan sees the files of all that run, since they exist and decode, and
so accepts only what does not conflict; only one process is between scan and write.

`HistoryProofs`, with any number of errors, cut writes and crashes and without any
assumption on the environment: `Bounded`, `ReadersComplete`, `Kept`, `TypeCorrectLog`.
`LogInv` says that who is in the lock holds it, so that what `findActiveSegment` has seen
is still so at the write, and that what a reader has listed exists. `ReadInv` says that
what a reader is owed is in what it has read, in a segment it has still to read, or in
none: only the last segment is written to, and an entry that is not yet recorded is owed
to nobody. `KeptInv` counts: the entries that cannot be read and the lines that still wait
to spoil the next one are together at most the writes that were cut short. The last one is
why `RecordedKept` alone is not inductive. The lock is the abstract one, of which
`LockFile` is the implementation.

The two refinement theorems are what allows `AssetStore`, `TreeIndex` and `DepGraph` to
use the abstract modules.

`AssetStoreProofs`, under `StoreAssumption` only (what kinds of commands there are), with
any number of processes, commands, edits and crashes: `StoreImplementsHistory`,
`BuiltOnParent`, `CleanBranchesSaved`, `StoreTypeCorrect`. None of the properties is
inductive: each speaks of one moment of a command that has taken its decisions long
before. `StoreInv` carries them from the one to the other. `Flushing`: who is at `flush`
holds the lock, and its pool is what the file holds now and one change (a commit on the
head, a version, a branch), so its write is a step of `AssetHistory`; that is true because
the file is read again under the lock. `Isolated`: running commands do not conflict, so
two that make commits make them on different branches (`Apart`), and `Built`, that what is
not in the change record is still what the head holds, survives the writes of others.
`Saved`: for a commit that is made or being made, and a file that is no longer to be
copied, either the user's file is what the commit has, or it is gone or new, or its time
is later than the commit's timestamp. An edit is later than every timestamp taken, a copy
takes what is there, and the timestamp becomes the baseline by which status decides; with
the time of the update instead (`CommitBranchAtUpdate`) the second of these fails.
`Placed` is about new branches: their files are put into a directory that nobody else
uses, before the branch exists and can be presented.

`ContentTreeProofs`, under the assumption of its module: `Kept`, `NewLoads`,
`TypeCorrect`. While nothing was interrupted (`KeptInv`), a root on disk has its leaves
on disk or somebody is about to write them, so that what a commit is recorded with is
whole. Whatever was interrupted (`NewInv`), an entry that a command adds is in no tree but
its own, so that its root cannot be there already and is written with all its leaves.

`TreeIndexProofs`, under `TreeAssumption`, with any number of adds, crashes and errors:
`Lead`, `Grows`, `Agrees`, `Logged`, `TreeTypeCorrect`, and `TreeImplementsLog`, by which
the theorems about `History` hold of the log that adds write (`LogHolds`). `TreeInv` says
that the nodes on disk are numbered by adds that happened, that an add writes them from
the root downwards, that every index anybody has loaded leads to nodes on disk, and that a
rebuild which is about to write has at least what the index has: nothing is ever removed
from disk, and the scan began after the lock was taken. `LogAdded` adds that only an add
whose last node is written hands its number to the log.

`DepGraphProofs` and `DepGraphFinishProofs`, under `GraphAssumption` only (commands
are of the four kinds, bounds are numbers), with any number of processes, assets, commits,
commands, errors and crashes. None of the six properties is inductive.

The first module proves `Typed`, `NoCycles` and `CachesRight` from `Inv`, which has five
parts. `Types` says, beyond types, that what is pinned is a commit that exists, that
entries, marked assets and presented objects exist, and that every forward graph of a
commit, in the cache or in the hands of a process that is about to write it, is the true
one. `Control` says what a process has in its hands at each point of a command.
`Apart` is isolation: no two running commands declare one branch. `Pooled`: a copy of an
asset file that a process has read has commits that the file has too, and what is about to
be written has all commits of the file, since nobody else writes it. `Acyclic` is
`NoOwnSource`, also of what is about to be written. The argument is that commits never
change: what a commit reaches in an old copy, or in any later state, is the same set
(`Reached` in the one and in the other), so a check for cycles made on an old copy still
holds at the write, and a graph that was right when it was computed stays right, whoever
writes the cache over whom. That a snapshot keeps `NoOwnSource` is the same argument: its
commit has the pins of the branch. Of branches nothing of this is true, which is why
`CommitsCachedRight` speaks of commits only.

The second module proves `EveryFollowerRecorded`, `ReverseCachesRight`,
`EveryPresentedWhole` and `BranchesShowPins` from `Promises`. What is derived from an asset
file is a promise: an entry for every branch that follows another, a marker for every
entry, a link for every source, a pointer for every commit. Each promise is kept, or it is
in the hands of one process at `flush` or `finish` (a change it has still to record, a step
on its list, an object it has still to present), or an error or a crash has cut it short
(`cut`). `Hand` says what the hands of a process hold: it has changes of its own assets
only, whose files are as it knows them (`Own`, `Fresh`), what it will write to a branch is
there or is a change to record (`Rewritten`), a list that enters somebody ends with the
marking of its target (`Marked`), and the links it still has to make are the ones that are
missing (`Underway`). `Own` and `Apart` together are why no other process can break a
promise that one has in its hands. `Desk` is that a pointer is written after all links of
its object were made, to objects that have one, and that no pointer and no link of a
commit goes away. Steps of `Finish` are lists, so the proofs rest on lemmas about the
first and the last element of a list (`ElemsSplit` and those after it).

The inductive invariants of these two modules were checked by TLC on the `graph` instance
before they were proved.

Checked by TLC only: liveness and fairness, out of TLAPS's reach here, with ENABLED
(`AttemptsEnd`, `OrphanCleared`, `CommandsEnd`, `AbandonedFilesGo`). Of `DepGraph` no
liveness is stated, because a push need not end (`graph_recursion`). No RECURSIVE operator
is used: what would be one is a set definition
(the nodes whose path can be built, the versions a version depends on), so that theorems
speak of it.

## Not modelled

Listed in `PROJECT.json` with reasons. In short: sources that are tags, several branches
of one asset in the graph, the presentation of tags and the read-only bits of the
workspace, `RemovePointer` (nothing calls it), the plan of the copies of `add`, set-up of a
repository (written once, before all others), everything that only reads or prints. File
systems with coarse times and caches of NFS clients are outside the models: the code
relies on system calls that take effect at once.

## Plan

1. `DepGraph`: sources that are tags; consumers on several branches of one asset.
2. The name of a branch that a failed copy blocks; a set-up that dies half-way.
