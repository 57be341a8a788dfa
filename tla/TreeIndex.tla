----------------------------- MODULE TreeIndex -----------------------------
(***************************************************************************)
(* The tree of assets (internal/db/tree.go, treenode.go) and the index of  *)
(* it in .vit/cache (internal/db/treeindex.go, client.go): `add`, which    *)
(* writes a node for the asset and for each directory above it that the    *)
(* index does not have, and all the commands that load the index and, if   *)
(* it is missing or marked as stale, build it again from the nodes.        *)
(*                                                                         *)
(* A path is the sequence of its components.  A node is identified by the  *)
(* add that made it and by its path; nodes are written once and stay.      *)
(* The transaction that add runs in is its abstraction Isolation, the lock *)
(* of a rebuild is ExclusiveLock.                                          *)
(***************************************************************************)
EXTENDS History, FiniteSetsExt

CONSTANTS
    Requests,              \* the asset paths that users add
    MaxAdds, MaxCrashes    \* bounds on the adds and on the crashes

ASSUME TreeAssumption ==
    /\ \A r \in Requests : r # <<>> /\ r \in Seq(ToSet(r))
    /\ Entry = 1 .. MaxAdds
    /\ MaxAdds \in Nat /\ MaxCrashes \in Nat

VARIABLES
    nodes,      \* the tree nodes on disk
    assets,     \* the asset files on disk, each by the number of its add
    index,      \* tree_index.json
    list,       \* asset_list.json
    stale,      \* does the marker .tree_stale exist?
    lock,       \* holder of the lock .tree_rebuild
    running,    \* Isolation: what each running add declared
    pc,         \* control state of each process
    job,        \* the path it adds, or <<>>: a command that only reads
    loaded,     \* its copy of the index
    base,       \* nodes that were on disk when its scan began
    unwritten,  \* nodes of its add in the pool, not yet on disk
    number,     \* the number of its add
    dirty,      \* Client.TreeStale
    adds, crashes

diskVars  == <<nodes, assets, index, list, stale>>
localVars == <<job, loaded, base, unwritten, number, dirty>>
treeVars == <<diskVars, lock, running, pc, localVars, adds, crashes>>
vars == <<treeVars, logVars>>

Path == UNION {{SubSeq(r, 1, k) : k \in 1 .. Len(r)} : r \in Requests}
Node == [add : 1 .. MaxAdds, path : Path, parent : 0 .. MaxAdds, asset : BOOLEAN]

Rebuilding == {"recheck", "scan", "index", "list", "unmark"}
PC == {"idle", "open", "check", "load", "lock", "begin", "validate", "update", "asset",
       "flush", "finish", "close", "dead"} \cup Rebuilding

NoIndex == [exists |-> FALSE, ids |-> {}, of |-> <<>>]
NoList  == [exists |-> FALSE, paths |-> {}]

Init ==
    /\ nodes = {} /\ assets = {}
    /\ index = NoIndex /\ list = NoList /\ stale = FALSE
    /\ lock = NoOne
    /\ running = [p \in Proc |-> {}]
    /\ pc = [p \in Proc |-> "idle"]
    /\ job = [p \in Proc |-> <<>>]
    /\ loaded = [p \in Proc |-> <<>>]
    /\ base = [p \in Proc |-> {}]
    /\ unwritten = [p \in Proc |-> {}]
    /\ number = [p \in Proc |-> 0]
    /\ dirty = [p \in Proc |-> FALSE]
    /\ adds = 0 /\ crashes = 0
    /\ InitLog

-----------------------------------------------------------------------------
(* Nodes and paths.                                                        *)

\* reccBuildIDToPath ends at a root for each node of N.
Rooted(N) ==
    \A n \in N : \/ n.parent = 0
                 \/ \E m \in N : m.add = n.parent /\ m.path = Front(n.path)

\* The nodes of N whose path can be built from N: the others are left out.
Resolved(N) == UNION {M \in SUBSET N : Rooted(M)}

AssetPaths(N) == {n.path : n \in {m \in N : m.asset}}

\* PathToID: of several nodes on one path, the last one the map is ranged over.
ByPath(N) == {f \in [{n.path : n \in N} -> N] : \A x \in DOMAIN f : f[x].path = x}

\* IsAssetPathAvailable, asked of the loaded index.
Available(idx, path) ==
    /\ path \notin DOMAIN idx
    /\ \A x \in DOMAIN idx : IsStrictPrefix(x, path) => ~idx[x].asset

\* The number of components of the closest path that the index has.
Closest(idx, path) == Max({0} \cup {Len(x) : x \in {y \in DOMAIN idx : IsStrictPrefix(y, path)}})

\* createAssetTreeNode: the directories below the closest path, and the asset.
NewNodes(idx, path, n) ==
    LET from == Closest(idx, path) IN
    {[add    |-> n,
      path   |-> SubSeq(path, 1, k),
      parent |-> IF k > from + 1 THEN n
                 ELSE IF from = 0 THEN 0 ELSE idx[SubSeq(path, 1, from)].add,
      asset  |-> k = Len(path)] : k \in from + 1 .. Len(path)}

-----------------------------------------------------------------------------

Lock == INSTANCE ExclusiveLock WITH Nobody <- NoOne, holder <- lock

\* What RunTreeChanged declares.
Declares(path) == [asset |-> path, op |-> "TreeChanged", object |-> [type |-> "empty", name |-> ""]]

Iso == INSTANCE Isolation WITH
         Tid <- {Declares(r) : r \in Requests}, Dashed <- {}, Slashed <- {}

Goto(p, l) == pc' = [pc EXCEPT ![p] = l]

\* The command ends: the process and what it knew are gone.
Exit(p, l) ==
    /\ Goto(p, l)
    /\ job' = [job EXCEPT ![p] = <<>>]
    /\ loaded' = [loaded EXCEPT ![p] = <<>>]
    /\ base' = [base EXCEPT ![p] = {}]
    /\ unwritten' = [unwritten EXCEPT ![p] = {}]
    /\ number' = [number EXCEPT ![p] = 0]
    /\ dirty' = [dirty EXCEPT ![p] = FALSE]

\* A command begins: add of the path r, or one that reads.  The other one gives
\* every add the same number.
StartSameNumber(p, r) ==
    /\ pc[p] = "idle" /\ doing[p] = "nothing"
    /\ r # <<>> => adds < MaxAdds
    /\ Goto(p, "open")
    /\ job' = [job EXCEPT ![p] = r]
    /\ adds' = IF r = <<>> THEN adds ELSE adds + 1
    /\ number' = [number EXCEPT ![p] = IF r = <<>> THEN 0 ELSE 1]
    /\ UNCHANGED <<diskVars, lock, running, loaded, base, unwritten, dirty, crashes>>

Start(p, r) ==
    /\ pc[p] = "idle" /\ doing[p] = "nothing"
    /\ r # <<>> => adds < MaxAdds
    /\ Goto(p, "open")
    /\ job' = [job EXCEPT ![p] = r]
    /\ adds' = IF r = <<>> THEN adds ELSE adds + 1
    /\ number' = [number EXCEPT ![p] = IF r = <<>> THEN 0 ELSE adds + 1]
    /\ UNCHANGED <<diskVars, lock, running, loaded, base, unwritten, dirty, crashes>>

-----------------------------------------------------------------------------
(* NewClient: GetTreeIndex.                                                *)

\* The index is in the client's pool: add goes on, others have what they want.
HaveIndex(p, idx) ==
    IF job[p] = <<>>
      THEN Exit(p, "idle")
      ELSE /\ Goto(p, "begin")
           /\ loaded' = [loaded EXCEPT ![p] = idx]
           /\ base' = [base EXCEPT ![p] = {}]
           /\ UNCHANGED <<job, unwritten, number, dirty>>

\* WaitForLockRelease finds no rebuild in progress.
Wait(p) ==
    /\ pc[p] = "open" /\ lock = NoOne
    /\ Goto(p, "check")
    /\ UNCHANGED <<diskVars, lock, running, localVars, adds, crashes>>

\* istreeCacheStale: the marker exists, or one of the two files does not.
MustRebuild == stale \/ ~index.exists \/ ~list.exists

Check(p) ==
    /\ pc[p] = "check"
    /\ Goto(p, IF MustRebuild THEN "lock" ELSE "load")
    /\ UNCHANGED <<diskVars, lock, running, localVars, adds, crashes>>

Load(p) ==
    /\ pc[p] = "load"
    /\ HaveIndex(p, index.of)
    /\ UNCHANGED <<diskVars, lock, running, adds, crashes>>

\* buildTreeIndexAndCache takes the lock, with keepalive ...
LockRebuild(p) ==
    /\ pc[p] = "lock"
    /\ Lock!Acquire(p)
    /\ Goto(p, "recheck")
    /\ UNCHANGED <<diskVars, running, localVars, adds, crashes>>

\* ... or, as WaitForLockRelease, times out.
LockTimeout(p) ==
    /\ pc[p] \in {"open", "lock"} /\ lock # NoOne
    /\ Exit(p, "idle")
    /\ UNCHANGED <<diskVars, lock, running, adds, crashes>>

\* Another process may have rebuilt while this one waited.
RecheckFresh(p) ==
    /\ pc[p] = "recheck" /\ ~MustRebuild
    /\ HaveIndex(p, index.of)
    /\ Lock!Release(p)
    /\ UNCHANGED <<diskVars, running, adds, crashes>>

BeginScan(p) ==
    /\ pc[p] = "recheck" /\ MustRebuild
    /\ Goto(p, "scan")
    /\ base' = [base EXCEPT ![p] = nodes]
    /\ UNCHANGED <<diskVars, lock, running, job, loaded, unwritten, number, dirty,
                   adds, crashes>>

\* scanAllTreeNodeFiles walks the directories one by one: it has what was there
\* when it began, and some of what was written meanwhile.  What was read is
\* kept in base from here on; the other one leaves out a file that it cannot
\* read.
EndScanSkipping(p) ==
    /\ pc[p] = "scan"
    /\ \E some \in SUBSET nodes :
         \E idx \in ByPath(Resolved(some)) :
           /\ base' = [base EXCEPT ![p] = Resolved(some)]
           /\ loaded' = [loaded EXCEPT ![p] = idx]
    /\ Goto(p, "index")
    /\ UNCHANGED <<diskVars, lock, running, job, unwritten, number, dirty, adds, crashes>>

EndScan(p) ==
    /\ pc[p] = "scan"
    /\ \E late \in SUBSET (nodes \ base[p]) :
         \E idx \in ByPath(Resolved(base[p] \cup late)) :
           /\ base' = [base EXCEPT ![p] = Resolved(base[p] \cup late)]
           /\ loaded' = [loaded EXCEPT ![p] = idx]
    /\ Goto(p, "index")
    /\ UNCHANGED <<diskVars, lock, running, job, unwritten, number, dirty, adds, crashes>>

\* The files are written, the index first; the marker stays until both are,
\* and a write that would remove it at once.
WriteIndexAndUnmark(p) ==
    /\ pc[p] = "index"
    /\ index' = [exists |-> TRUE, ids |-> base[p], of |-> loaded[p]]
    /\ stale' = FALSE
    /\ Goto(p, "list")
    /\ UNCHANGED <<nodes, assets, list, lock, running, localVars, adds, crashes>>

WriteIndex(p) ==
    /\ pc[p] = "index"
    /\ index' = [exists |-> TRUE, ids |-> base[p], of |-> loaded[p]]
    /\ Goto(p, "list")
    /\ UNCHANGED <<nodes, assets, list, stale, lock, running, localVars, adds, crashes>>

WriteList(p) ==
    /\ pc[p] = "list"
    /\ list' = [exists |-> TRUE, paths |-> AssetPaths(base[p])]
    /\ Goto(p, "unmark")
    /\ UNCHANGED <<nodes, assets, index, stale, lock, running, localVars, adds, crashes>>

\* A file cannot be read or written: the command fails, and so would its unlock
\* without the defer.
RebuildFailsLocked(p) ==
    /\ pc[p] \in {"scan", "index", "list"}
    /\ Exit(p, "idle")
    /\ UNCHANGED <<diskVars, lock, running, adds, crashes>>

RebuildFails(p) ==
    /\ pc[p] \in {"scan", "index", "list"}
    /\ Exit(p, "idle")
    /\ Lock!Release(p)
    /\ UNCHANGED <<diskVars, running, adds, crashes>>

\* os.Remove of the marker, whoever wrote it; the deferred stop unlocks.
Unmark(p) ==
    /\ pc[p] = "unmark"
    /\ stale' = FALSE
    /\ Lock!Release(p)
    /\ HaveIndex(p, loaded[p])
    /\ UNCHANGED <<nodes, assets, index, list, running, adds, crashes>>

-----------------------------------------------------------------------------
(* add: RunTreeChanged.                                                    *)

Begin(p) ==
    /\ pc[p] = "begin"
    /\ Iso!Begin(p, {Declares(job[p])})
    /\ Goto(p, "validate")
    /\ UNCHANGED <<diskVars, lock, localVars, adds, crashes>>

Conflicts(p) ==
    /\ pc[p] = "begin"
    /\ \E q \in Proc : Iso!Excluded({Declares(job[p])}, running[q])
    /\ Goto(p, "close")
    /\ UNCHANGED <<diskVars, lock, running, localVars, adds, crashes>>

\* operationAdd.Validate looks into the index that NewClient loaded.
Validate(p) ==
    /\ pc[p] = "validate"
    /\ Goto(p, IF Available(loaded[p], job[p]) THEN "update" ELSE "finish")
    /\ UNCHANGED <<diskVars, lock, running, localVars, adds, crashes>>

\* The files of the asset are copied, and its nodes are put into the pool.
Update(p) ==
    /\ pc[p] = "update"
    /\ unwritten' = [unwritten EXCEPT ![p] = NewNodes(loaded[p], job[p], number[p])]
    /\ dirty' = [dirty EXCEPT ![p] = TRUE]
    /\ Goto(p, "asset")
    /\ UNCHANGED <<diskVars, lock, running, job, loaded, base, number, adds, crashes>>

UpdateFails(p) ==
    /\ pc[p] = "update"
    /\ Goto(p, "finish")
    /\ UNCHANGED <<diskVars, lock, running, localVars, adds, crashes>>

\* FlushForWrite, in the order in which the files entered the pool: the asset,
FlushAsset(p) ==
    /\ pc[p] = "asset"
    /\ assets' = assets \cup {number[p]}
    /\ Goto(p, "flush")
    /\ UNCHANGED <<nodes, index, list, stale, lock, running, localVars, adds, crashes>>

\* ... then the directories downwards, and its node; or the other way round.
Deepest(N) == CHOOSE n \in N : \A m \in N : Len(m.path) <= Len(n.path)
Highest(N) == CHOOSE n \in N : \A m \in N : Len(n.path) <= Len(m.path)

FlushDeepest(p) ==
    /\ pc[p] = "flush" /\ unwritten[p] # {}
    /\ nodes' = nodes \cup {Deepest(unwritten[p])}
    /\ unwritten' = [unwritten EXCEPT ![p] = @ \ {Deepest(@)}]
    /\ UNCHANGED <<assets, index, list, stale, lock, running, pc, job, loaded, base,
                   number, dirty, adds, crashes>>

FlushNode(p) ==
    /\ pc[p] = "flush" /\ unwritten[p] # {}
    /\ nodes' = nodes \cup {Highest(unwritten[p])}
    /\ unwritten' = [unwritten EXCEPT ![p] = @ \ {Highest(@)}]
    /\ UNCHANGED <<assets, index, list, stale, lock, running, pc, job, loaded, base,
                   number, dirty, adds, crashes>>

\* All is written, or a write fails.  (Finish presents the branch: Workspace.)
EndFlush(p) ==
    /\ \/ pc[p] = "asset"
       \/ pc[p] = "flush"
    /\ Goto(p, "finish")
    /\ UNCHANGED <<diskVars, lock, running, localVars, adds, crashes>>

\* The operation has returned without error.
Succeeded(p) == dirty[p] /\ unwritten[p] = {}

EndAndRecord(p) ==
    /\ pc[p] = "finish"
    /\ Iso!End(p)
    /\ Goto(p, "close")
    /\ Record(p, number[p])
    /\ UNCHANGED <<diskVars, lock, localVars, adds, crashes>>

\* run of transaction.go: the transaction ends, and recordHistory begins; in the
\* other one whether or not there was an error.
EndTransaction(p) ==
    /\ pc[p] = "finish"
    /\ Iso!End(p)
    /\ Goto(p, "close")
    /\ IF Succeeded(p) THEN Record(p, number[p]) ELSE UNCHANGED logVars
    /\ UNCHANGED <<diskVars, lock, localVars, adds, crashes>>

\* Client.Close writes the marker, and only logs it if it cannot.
Close(p) ==
    /\ pc[p] = "close" /\ doing[p] = "nothing"
    /\ stale' \in {stale, stale \/ dirty[p]}
    /\ Exit(p, "idle")
    /\ UNCHANGED <<nodes, assets, index, list, lock, running, adds, crashes>>

-----------------------------------------------------------------------------

Crash(p) ==
    /\ pc[p] \notin {"idle", "dead"} /\ crashes < MaxCrashes
    /\ crashes' = crashes + 1
    /\ Exit(p, "dead")
    /\ LogCrash(p)
    /\ UNCHANGED <<diskVars, lock, running, adds>>

\* What a dead process left is removed by others once it has expired.
LockExpires(p) ==
    /\ pc[p] = "dead" /\ lock = p
    /\ lock' = NoOne
    /\ UNCHANGED <<diskVars, running, pc, localVars, adds, crashes>>

FilesExpire(p) ==
    /\ pc[p] = "dead" /\ running[p] # {}
    /\ Iso!End(p)
    /\ UNCHANGED <<diskVars, lock, pc, localVars, adds, crashes>>

TreeStep(p) ==
    \/ Wait(p) \/ Check(p) \/ Load(p)
    \/ LockRebuild(p) \/ LockTimeout(p) \/ RecheckFresh(p)
    \/ BeginScan(p) \/ EndScan(p) \/ WriteIndex(p) \/ WriteList(p)
    \/ RebuildFails(p) \/ Unmark(p)
    \/ Begin(p) \/ Conflicts(p) \/ Validate(p)
    \/ Update(p) \/ UpdateFails(p)
    \/ FlushAsset(p) \/ FlushNode(p) \/ EndFlush(p)
    \/ Close(p)
    \/ LockExpires(p) \/ FilesExpire(p)

\* The log is written by commands that are about to close, and read by others.
LogStep(p) ==
    \/ Recording(p) \/ LogLockExpires(p)
    \/ pc[p] = "idle" /\ Reading(p)

Next ==
    \E p \in Proc :
        \/ (\E r \in Requests \cup {<<>>} : Start(p, r)) /\ UNCHANGED logVars
        \/ TreeStep(p) /\ UNCHANGED logVars
        \/ EndTransaction(p) \/ Crash(p)
        \/ LogStep(p) /\ UNCHANGED treeVars

Spec == Init /\ [][Next]_vars

-----------------------------------------------------------------------------
(* Properties                                                              *)

TypeOK ==
    /\ TypeOKLog
    /\ nodes \subseteq Node /\ assets \subseteq 1 .. MaxAdds
    /\ index.exists \in BOOLEAN /\ index.ids \subseteq Node
    /\ list.exists \in BOOLEAN /\ list.paths \subseteq Path
    /\ stale \in BOOLEAN /\ lock \in Proc \cup {NoOne}
    /\ pc \in [Proc -> PC]
    /\ job \in [Proc -> Requests \cup {<<>>}]
    /\ base \in [Proc -> SUBSET Node] /\ unwritten \in [Proc -> SUBSET Node]
    /\ number \in [Proc -> 0 .. MaxAdds] /\ dirty \in [Proc -> BOOLEAN]
    /\ \A p \in Proc : (lock = p) => pc[p] \in Rebuilding \cup {"dead"}

\* What an add has written leads somewhere, wherever it died or failed: every
\* node on disk has its directory, every asset node its asset (FlushForWrite
\* writes "in the order they acquire the write privilege"), and the index names
\* nothing else.
NodesLead ==
    /\ Rooted(nodes)
    /\ \A n \in nodes : n.asset => n.add \in assets
    /\ index.ids \subseteq nodes

\* A rebuild never takes from the index a path that it had: no older scan
\* overwrites a newer one.
IndexGrows == [][index.ids \subseteq index'.ids]_vars

\* The two files of the cache tell the same, unless the next command rebuilds
\* them: a rebuild that died or failed between them left a reason to.
CacheAgrees ==
    (~MustRebuild /\ \A p \in Proc : lock = p => pc[p] = "dead")
        => list.paths = AssetPaths(index.ids)

\* The log tells of what is there: each entry is of an add that is on disk with
\* its asset and its node, however the command that made it has ended.
LoggedIsAdded ==
    \A e \in Readable : e \in assets /\ \E n \in nodes : n.asset /\ n.add = e

\* The commands use the log as it is meant to be used.
ImplementsLog == SpecLog

\* tree.go: "Asset can't be nested within another asset".
NoNesting ==
    \A m, n \in nodes : m.asset /\ n.asset /\ m # n => ~IsPrefix(m.path, n.path)
=============================================================================
