------------------------------ MODULE DepGraph ------------------------------
(***************************************************************************)
(* Sources: the dependencies that branches and commits of one asset have   *)
(* on those of others, and the graph of them kept in .vit/cache/depgraph.  *)
(* The truth is in the asset files (internal/db/asset.go); derived from    *)
(* it are, for each asset, a cache file with the graphs of its objects     *)
(* (depgraphindex.go), a directory of entries for those that depend on it  *)
(* and a marker (dependedby.go).  The commands are source add, pull and    *)
(* push (sourceadd.go, sourcepull.go, sourcepush.go), and snapshot.        *)
(*                                                                         *)
(* Each asset has one branch, <<a, 0>>, and its commits <<a, 1>>, <<a, 2>> *)
(* and so on.  The transaction layer is its abstraction Isolation; with    *)
(* one branch it also keeps two commands from one asset file, the lock of  *)
(* which shows only in that an update may fail.                            *)
(***************************************************************************)
EXTENDS Naturals, Sequences, FiniteSets, FiniteSetsExt

CONSTANTS
    Proc, Asset, Name,
    Commands,                \* the commands the users may give
    MaxVersion, MaxCommands, MaxFaults,  \* bounds
    MaxDepth                 \* bound on the calls of GetDependents in each other

Ref       == Asset \X (0 .. MaxVersion)
Branch(a) == <<a, 0>>
IsBranch(r) == r[2] = 0

AddOf(a, n, spec) == [kind |-> "add", asset |-> a, name |-> n, spec |-> spec]
SnapshotOf(a)     == [kind |-> "snapshot", asset |-> a]
PullOf(a)         == [kind |-> "pull", asset |-> a]
PushOf(a)         == [kind |-> "push", asset |-> a]
NoCommand         == [kind |-> "none"]

AllCommands == {AddOf(a, n, s) : a \in Asset, n \in Name, s \in Ref}
                 \cup UNION {{SnapshotOf(a), PullOf(a), PushOf(a)} : a \in Asset}

ASSUME GraphAssumption ==
    /\ Commands \subseteq AllCommands
    /\ MaxVersion \in Nat \ {0} /\ MaxCommands \in Nat /\ MaxFaults \in Nat
    /\ MaxDepth \in Nat \ {0}

VARIABLES
    store,      \* the asset files: the sources of each branch and commit
    cache,      \* the graph caches: forward and reverse graphs by object
    entries,    \* the files of the depended_by directories
    marked,     \* assets with a .reverse_stale marker
    pointed,    \* Workspace: the branches and commits that are presented
    links,      \* Workspace: the sources linked in each of them
    running,    \* Isolation: what each running operation declared
    pc, cmd,    \* control state and command of each process
    pool,       \* its copies of asset files in the JSON pool
    stack,      \* its calls of GetDependents
    subs,       \* what a push has found: branches and names of their sources
    updates,    \* the sources it is to set, or to record in the graph
    unflushed,  \* assets it has still to write
    todo,       \* its next steps on the graph and in the workspace
    shows,      \* branches and commits that it has still to present
    file,       \* its copy of a cache file, between reading and writing
    cut,        \* assets whose records in the graph a failure or crash cut short
    commands, faults

graphVars == <<cache, entries, marked>>
workspaceVars == <<pointed, links>>
diskVars  == <<store, graphVars, workspaceVars>>
localVars == <<cmd, pool, stack, subs, updates, unflushed, todo, shows, file>>
vars == <<diskVars, running, pc, localVars, cut, commands, faults>>

PC == {"idle", "discover", "begin", "validate", "update", "flush", "finish", "end", "dead"}

Ws == INSTANCE Workspace

Nothing == [x \in {} |-> {}]
NoCache == [forward |-> Nothing, reverse |-> Nothing]

\* Every asset as `add` leaves it: a commit, a branch, no sources.
Init ==
    /\ store = [a \in Asset |-> [i \in {0, 1} |-> Nothing]]
    /\ cache = [a \in Asset |-> NoCache]
    /\ entries = {} /\ marked = {}
    /\ Ws!InitWorkspace(Asset \X {0, 1})
    /\ running = [p \in Proc |-> {}]
    /\ pc = [p \in Proc |-> "idle"]
    /\ cmd = [p \in Proc |-> NoCommand]
    /\ pool = [p \in Proc |-> Nothing]
    /\ stack = [p \in Proc |-> <<>>]
    /\ subs = [p \in Proc |-> {}]
    /\ updates = [p \in Proc |-> {}]
    /\ unflushed = [p \in Proc |-> {}]
    /\ todo = [p \in Proc |-> <<>>]
    /\ shows = [p \in Proc |-> {}]
    /\ file = [p \in Proc |-> NoCache]
    /\ cut = {} /\ commands = 0 /\ faults = 0

-----------------------------------------------------------------------------
(* Sources in a version v of the asset files.                              *)

With(f, k, x) == [y \in DOMAIN f \cup {k} |-> IF y = k THEN x ELSE f[y]]

Exists(v, r)  == r[2] \in DOMAIN v[r[1]]
Sources(v, r) == v[r[1]][r[2]]
Pins(v, r)    == {Sources(v, r)[n].pin : n \in DOMAIN Sources(v, r)}
LastCommit(v, a) == <<a, Max(DOMAIN v[a])>>

\* ResolveCommitForDependency: of a branch its last commit; and, wrongly, the
\* branch itself.
ResolveNothing(v, spec) == spec
Resolve(v, spec) == IF IsBranch(spec) THEN LastCommit(v, spec[1]) ELSE spec

\* walkDependencies: all that is reached from r, the smallest set that has r
\* and what its members are pinned to; and the edges on the way.
Pinned(v)       == UNION {UNION {Pins(v, <<a, i>>) : i \in DOMAIN v[a]} : a \in Asset}
Walks(v, r, S)  == r \in S /\ \A x \in S : Exists(v, x) => Pins(v, x) \subseteq S
Reached(v, r)   == {x \in {r} \cup Pinned(v) :
                      \A S \in SUBSET ({r} \cup Pinned(v)) : Walks(v, r, S) => x \in S}

Edge(by, to, n) == [consumer |-> by, provider |-> to, name |-> n]

Edges(v, r) ==
    UNION {{Edge(x, Sources(v, x)[n].pin, n) : n \in DOMAIN Sources(v, x)}
             : x \in {y \in Reached(v, r) : Exists(v, y)}}

\* cyclePath looks at the assets of the edges, not at their objects.
Cyclic(E) ==
    \E S \in SUBSET Asset \ {{}} : \A a \in S :
        \E e \in E : e.consumer[1] = a /\ e.provider[1] \in S

\* buildDependencies does not end in an error.
Builds(v, r) ==
    /\ \A x \in Reached(v, r) : Exists(v, x)
    /\ ~Cyclic(Edges(v, r))

AssetsOf(r, E) == {r[1]} \cup {e.provider[1] : e \in E}

-----------------------------------------------------------------------------
(* The JSON pool: what was read once is not read again, except for writing. *)

View(p) == [a \in Asset |-> IF a \in DOMAIN pool[p] THEN pool[p][a] ELSE store[a]]

Read(p, S) == pool' = [pool EXCEPT ![p] = [a \in DOMAIN @ \cup S |-> View(p)[a]]]

Cached(r) == r \in DOMAIN cache[r[1]].forward

\* GetDependencies: the graph, whether there is one, and the assets it reads.
Graph(p, r)  == IF Cached(r) THEN cache[r[1]].forward[r] ELSE Edges(View(p), r)
Known(p, r)  == Cached(r) \/ Builds(View(p), r)
Walked(p, r) == IF Cached(r) THEN {} ELSE {x[1] : x \in Reached(View(p), r)}

-----------------------------------------------------------------------------

Declares(a) == [asset |-> <<a>>, op |-> "Branch",
                object |-> [type |-> "branch", name |-> "main"]]

Iso == INSTANCE Isolation WITH
         Tid <- {Declares(a) : a \in Asset}, Dashed <- {}, Slashed <- {}

\* A crash, or an error of the file system.
Fault == faults < MaxFaults /\ faults' = faults + 1

Goto(p, l) == pc' = [pc EXCEPT ![p] = l]

\* The assets whose branches a command is to change.
Consumers(p) == IF cmd[p].kind = "push" THEN {s.asset : s \in subs[p]}
                ELSE {a \in Asset : cmd[p].kind # "none" /\ a = cmd[p].asset}

Exit(p, l) ==
    /\ Goto(p, l)
    /\ cmd' = [cmd EXCEPT ![p] = NoCommand]
    /\ pool' = [pool EXCEPT ![p] = Nothing]
    /\ stack' = [stack EXCEPT ![p] = <<>>]
    /\ subs' = [subs EXCEPT ![p] = {}]
    /\ updates' = [updates EXCEPT ![p] = {}]
    /\ unflushed' = [unflushed EXCEPT ![p] = {}]
    /\ todo' = [todo EXCEPT ![p] = <<>>]
    /\ shows' = [shows EXCEPT ![p] = {}]
    /\ file' = [file EXCEPT ![p] = NoCache]

Start(p, c) ==
    /\ pc[p] = "idle" /\ commands < MaxCommands
    /\ c.kind = "snapshot" =>
         Max(DOMAIN store[c.asset]) + Cardinality({q \in Proc : cmd[q] = c}) < MaxVersion
    /\ commands' = commands + 1
    /\ Goto(p, IF c.kind = "push" THEN "discover" ELSE "begin")
    /\ cmd' = [cmd EXCEPT ![p] = c]
    /\ UNCHANGED <<diskVars, running, pool, stack, subs, updates, unflushed, todo, shows, file,
                   cut, faults>>

-----------------------------------------------------------------------------
(* source push: discoverPushConsumers, before the transaction.             *)

\* GetDependents(r) finds r in a cache file that is not marked ...
Hit(r) == r \in DOMAIN cache[r[1]].reverse /\ r[1] \notin marked

\* ... or goes through the entries of r, the cache file in its hands.
Call(r) == [ref |-> r, file |-> cache[r[1]], graph |-> {},
            left |-> {e \in entries : e.target = r}]

\* Only branches are pushed to, and only direct consumers.
Found(p, g) ==
    LET S == {e \in g : e.provider = Branch(cmd[p].asset) /\ IsBranch(e.consumer)} IN
    /\ subs' = [subs EXCEPT ![p] = {[asset |-> e.consumer[1], name |-> e.name] : e \in S}]
    /\ Goto(p, IF S = {} THEN "end" ELSE "begin")

Discover(p) ==
    LET r == Branch(cmd[p].asset) IN
    /\ pc[p] = "discover" /\ stack[p] = <<>>
    /\ Read(p, {r[1]})
    /\ IF Hit(r)
         THEN Found(p, cache[r[1]].reverse[r]) /\ UNCHANGED stack
         ELSE stack' = [stack EXCEPT ![p] = <<Call(r)>>] /\ UNCHANGED <<pc, subs>>
    /\ UNCHANGED <<diskVars, running, cmd, updates, unflushed, todo, shows, file,
                   cut, commands, faults>>

\* The next entry: its consumer is read, and those who depend on it.
Descend(p) ==
    /\ stack[p] # <<>> /\ Len(stack[p]) < MaxDepth
    /\ \E e \in Head(stack[p]).left :
         LET top == [Head(stack[p]) EXCEPT
                       !.left = @ \ {e},
                       !.graph = @ \cup {Edge(e.by, e.target, e.name)}
                                   \cup IF Hit(e.by) THEN cache[e.by[1]].reverse[e.by] ELSE {}]
         IN /\ Exists(View(p), e.by)
            /\ Read(p, {e.by[1]})
            /\ stack' = [stack EXCEPT ![p] =
                 (IF Hit(e.by) THEN <<>> ELSE <<Call(e.by)>>) \o <<top>> \o Tail(@)]
    /\ UNCHANGED <<diskVars, running, pc, cmd, subs, updates, unflushed, todo, shows, file,
                   cut, commands, faults>>

\* Back to the call below, which merges the graph, or to the push.
Pop(p) ==
    LET top == Head(stack[p])  rest == Tail(stack[p]) IN
    IF rest = <<>>
      THEN /\ stack' = [stack EXCEPT ![p] = <<>>]
           /\ Found(p, top.graph)
      ELSE /\ stack' = [stack EXCEPT ![p] =
                          <<[rest[1] EXCEPT !.graph = @ \cup top.graph]>> \o Tail(rest)]
           /\ UNCHANGED <<pc, subs>>

\* All entries are merged: the cache file is written, in no lock.  The other
\* one takes the graph for fresh then.
WriteReverse(p) ==
    LET top == Head(stack[p]) IN
    /\ stack[p] # <<>> /\ top.left = {}
    /\ cache' = [cache EXCEPT ![top.ref[1]] =
                   [top.file EXCEPT !.reverse = With(@, top.ref, top.graph)]]
    /\ Pop(p)
    /\ UNCHANGED <<store, entries, workspaceVars, running, cmd, pool, updates, unflushed, todo, shows,
                   file, cut, commands, faults>>

ReturnUnmarks(p) == WriteReverse(p) /\ marked' = marked \ {Head(stack[p]).ref[1]}
Return(p)        == WriteReverse(p) /\ UNCHANGED marked

\* A consumer is not in the pool's copy.
Unreadable(p) ==
    stack[p] # <<>> /\ \E e \in Head(stack[p]).left : ~Exists(View(p), e.by)

\* So it is if a file cannot be read or written.
DiscoverFails(p) ==
    /\ pc[p] = "discover"
    /\ Fault \/ (Unreadable(p) /\ UNCHANGED faults)
    /\ Goto(p, "end")
    /\ stack' = [stack EXCEPT ![p] = <<>>]
    /\ UNCHANGED <<diskVars, running, cmd, pool, subs, updates, unflushed, todo, shows, file,
                   cut, commands>>

-----------------------------------------------------------------------------
(* The transaction.                                                        *)

Begin(p) ==
    /\ pc[p] = "begin"
    /\ Iso!Begin(p, {Declares(a) : a \in Consumers(p)})
    /\ Goto(p, "validate")
    /\ UNCHANGED <<diskVars, localVars, cut, commands, faults>>

Conflicts(p) ==
    /\ pc[p] = "begin"
    /\ \E q \in Proc : Iso!Excluded({Declares(a) : a \in Consumers(p)}, running[q])
    /\ Goto(p, "end")
    /\ UNCHANGED <<diskVars, running, localVars, cut, commands, faults>>

\* The sources that a pull is for, or the subOps of a push.
Targets(p) ==
    IF cmd[p].kind = "push" THEN subs[p]
    ELSE IF cmd[p].kind = "pull"
      THEN {[asset |-> cmd[p].asset, name |-> n] :
              n \in DOMAIN Sources(View(p), Branch(cmd[p].asset))}
    ELSE {}

\* The specs that Validate resolves.
Followed(p) == IF cmd[p].kind = "add" THEN {cmd[p].spec}
               ELSE {Sources(View(p), Branch(t.asset))[t.name].spec : t \in Targets(p)}

\* What Validate decides to write: the source that is added, the sources that
\* are not at the last commit of what they follow.
Setting(a, n, spec, old, new) ==
    [by |-> Branch(a), name |-> n, spec |-> spec, old |-> old, new |-> new]

Repin(v, a, n) ==
    LET d == Sources(v, Branch(a))[n] IN Setting(a, n, d.spec, d.pin, Resolve(v, d.spec))

Updates(p) ==
    LET v == View(p)  c == cmd[p] IN
    IF c.kind = "add" THEN {Setting(c.asset, c.name, c.spec, c.spec, Resolve(v, c.spec))}
    ELSE {u \in {Repin(v, t.asset, t.name) : t \in Targets(p)} : u.new # u.old}

\* CheckSourceAddNoCycle
MakesCycle(p, u) == u.by[1] \in AssetsOf(u.new, Graph(p, u.new))

Valid(p) ==
    /\ cmd[p].kind = "add" =>
         /\ cmd[p].name \notin DOMAIN Sources(View(p), Branch(cmd[p].asset))
         /\ Exists(View(p), Resolve(View(p), cmd[p].spec))
    /\ \A t \in Targets(p) : t.name \in DOMAIN Sources(View(p), Branch(t.asset))
    /\ \A u \in Updates(p) : Known(p, u.new) /\ ~MakesCycle(p, u)

Validate(p) ==
    /\ pc[p] = "validate" /\ Valid(p)
    /\ updates' = [updates EXCEPT ![p] = Updates(p)]
    /\ Read(p, Consumers(p) \cup {s[1] : s \in Followed(p)}
                 \cup UNION {Walked(p, u.new) : u \in Updates(p)})
    /\ Goto(p, "update")
    /\ UNCHANGED <<diskVars, running, cmd, stack, subs, unflushed, todo, shows, file,
                   cut, commands, faults>>

Invalid(p) ==
    /\ pc[p] = "validate" /\ ~Valid(p)
    /\ Goto(p, "end")
    /\ UNCHANGED <<diskVars, running, localVars, cut, commands, faults>>

\* AddSource: the branch's own sources change, those of commits never do; the
\* other one changes the head commit with its branch.
AddSourceShared(v, U) ==
    [i \in DOMAIN v |-> IF i \notin {0, Max(DOMAIN v)} THEN v[i] ELSE
        [n \in DOMAIN v[0] \cup {u.name : u \in U} |->
            IF \E u \in U : u.name = n
              THEN LET u == CHOOSE u \in U : u.name = n IN [spec |-> u.spec, pin |-> u.new]
              ELSE v[0][n]]]

AddSource(v, U) ==
    [v EXCEPT ![0] = [n \in DOMAIN @ \cup {u.name : u \in U} |->
        IF \E u \in U : u.name = n
          THEN LET u == CHOOSE u \in U : u.name = n IN [spec |-> u.spec, pin |-> u.new]
          ELSE @[n]]]

\* CommitBranch: a new commit with the sources of its branch.
CommitBranch(v) == With(v, Max(DOMAIN v) + 1, v[0])

Cache(r)        == [do |-> "cache", ref |-> r]
Entry(t, by, n) == [do |-> "entry", target |-> t, by |-> by, name |-> n]
RemoveOf(t, by) == [do |-> "remove", target |-> t, by |-> by]
Marks(t, by)    == [do |-> "marks", target |-> t, by |-> by]

\* DBUpdate reads again what it writes, under the lock.  A push goes on
\* without those of its consumers whose update fails.
Update(p) ==
    /\ pc[p] = "update"
    /\ IF cmd[p].kind = "snapshot"
         THEN LET a == cmd[p].asset  v == CommitBranch(store[a])  c == LastCommit([store EXCEPT ![a] = v], a) IN
              /\ pool' = [pool EXCEPT ![p] = With(@, a, v)]
              /\ unflushed' = [unflushed EXCEPT ![p] = {a}]
              /\ updates' = [updates EXCEPT ![p] =
                   {[by |-> c, name |-> n, spec |-> v[0][n].spec, old |-> v[0][n].pin,
                     new |-> v[0][n].pin] : n \in DOMAIN v[0]}]
              /\ todo' = [todo EXCEPT ![p] = <<Cache(c), Cache(Branch(a))>>]
              /\ shows' = [shows EXCEPT ![p] = {c}]
              /\ UNCHANGED faults
         ELSE \E failed \in IF cmd[p].kind = "push" THEN SUBSET Consumers(p) ELSE {{}} :
                LET U == {u \in updates[p] : u.by[1] \notin failed}
                    W == {u.by[1] : u \in U}
                IN /\ IF failed = {} THEN UNCHANGED faults ELSE Fault
                   /\ pool' = [pool EXCEPT ![p] = [a \in DOMAIN @ \cup W |->
                         IF a \in W THEN AddSource(store[a], {u \in U : u.by[1] = a}) ELSE @[a]]]
                   /\ unflushed' = [unflushed EXCEPT ![p] = W]
                   /\ updates' = [updates EXCEPT ![p] = U]
                   /\ UNCHANGED <<todo, shows>>
    /\ Goto(p, "flush")
    /\ UNCHANGED <<diskVars, running, cmd, stack, subs, file, cut, commands>>

UpdateFails(p) ==
    /\ pc[p] = "update" /\ cmd[p].kind # "push" /\ Fault
    /\ Goto(p, "end")
    /\ UNCHANGED <<diskVars, running, localVars, cut, commands>>

\* FlushForWrite, one asset file after the other.
Flush(p) ==
    /\ pc[p] = "flush"
    /\ \E a \in unflushed[p] :
         /\ store' = [store EXCEPT ![a] = pool[p][a]]
         /\ unflushed' = [unflushed EXCEPT ![p] = @ \ {a}]
    /\ UNCHANGED <<graphVars, workspaceVars, running, pc, cmd, pool, stack, subs, updates,
                   todo, shows, file, cut, commands, faults>>

EndFlush(p) ==
    /\ pc[p] = "flush" /\ unflushed[p] = {}
    /\ Goto(p, "finish")
    /\ UNCHANGED <<diskVars, running, localVars, cut, commands, faults>>

FlushFails(p) ==
    /\ pc[p] = "flush" /\ unflushed[p] # {} /\ Fault
    /\ Goto(p, "end")
    /\ cut' = cut \cup Consumers(p)
    /\ UNCHANGED <<diskVars, running, localVars, commands>>

-----------------------------------------------------------------------------
(* Finish: the graph and the workspace, best effort.                       *)

Do(p, step) == pc[p] = "finish" /\ todo[p] # <<>> /\ Head(todo[p]).do = step
Done(p)     == todo' = [todo EXCEPT ![p] = Tail(@)]

\* AddDependent on what is pinned, and on the spec if that moves; the other
\* one leaves the spec out.
AddDependentOnce(u) == <<Entry(u.new, u.by, u.name)>>
AddDependent(u) ==
    <<Entry(u.new, u.by, u.name)>>
      \o IF IsBranch(u.by) /\ IsBranch(u.spec) THEN <<Entry(u.spec, u.by, u.name)>> ELSE <<>>

\* UpdateDepGraphForSource, after an update of a pull has taken back what it
\* replaces; RecordDependentsForCommit.
Steps(kind, u) ==
    (IF kind \in {"pull", "push"} THEN <<RemoveOf(u.old, u.by), Marks(u.old, u.by)>> ELSE <<>>)
      \o (IF kind # "snapshot" THEN <<Cache(u.by)>> ELSE <<>>)
      \o AddDependent(u) \o <<Marks(u.new, u.by)>>

NextUpdate(p) ==
    /\ pc[p] = "finish" /\ todo[p] = <<>>
    /\ \E u \in updates[p] :
         /\ shows[p] \subseteq {u.by}
         /\ todo' = [todo EXCEPT ![p] = Steps(cmd[p].kind, u)]
         /\ updates' = [updates EXCEPT ![p] = @ \ {u}]
    /\ UNCHANGED <<diskVars, running, pc, cmd, pool, stack, subs, unflushed, shows, file,
                   cut, commands, faults>>

\* CacheDependencies: the graph is built, the cache file is read ...
CacheRead(p) ==
    LET r == Head(todo[p]).ref IN
    /\ Do(p, "cache") /\ Builds(View(p), r)
    /\ file' = [file EXCEPT ![p] =
                  [cache[r[1]] EXCEPT !.forward = With(@, r, Edges(View(p), r))]]
    /\ Read(p, {x[1] : x \in Reached(View(p), r)})
    /\ todo' = [todo EXCEPT ![p] = <<[do |-> "write", ref |-> r]>> \o Tail(@)]
    /\ UNCHANGED <<diskVars, running, pc, cmd, stack, subs, updates, unflushed, shows,
                   cut, commands, faults>>

\* ... and written.
CacheWrite(p) ==
    /\ Do(p, "write")
    /\ cache' = [cache EXCEPT ![Head(todo[p]).ref[1]] = file[p]]
    /\ file' = [file EXCEPT ![p] = NoCache]
    /\ Done(p)
    /\ UNCHANGED <<store, entries, marked, workspaceVars, running, pc, cmd, pool, stack, subs, updates,
                   unflushed, shows, cut, commands, faults>>

\* One file per consumer object in the directory of the target object.
Others(t, by) == {e \in entries : e.target # t \/ e.by # by}

AddEntry(p) ==
    LET s == Head(todo[p]) IN
    /\ Do(p, "entry")
    /\ entries' = Others(s.target, s.by)
                    \cup {[target |-> s.target, by |-> s.by, name |-> s.name]}
    /\ Done(p)
    /\ UNCHANGED <<store, cache, marked, workspaceVars, running, pc, cmd, pool, stack, subs, updates,
                   unflushed, shows, file, cut, commands, faults>>

RemoveDependent(p) ==
    /\ Do(p, "remove")
    /\ entries' = Others(Head(todo[p]).target, Head(todo[p]).by)
    /\ Done(p)
    /\ UNCHANGED <<store, cache, marked, workspaceVars, running, pc, cmd, pool, stack, subs, updates,
                   unflushed, shows, file, cut, commands, faults>>

\* MarkDependentsStale: the assets of the target's graph, one after the other.
MarkDependentsStale(p) ==
    LET t == Head(todo[p]).target IN
    /\ Do(p, "marks") /\ Known(p, t)
    /\ todo' = [todo EXCEPT ![p] = <<[do |-> "mark", left |-> AssetsOf(t, Graph(p, t)),
                                      by |-> Head(@).by]>> \o Tail(@)]
    /\ Read(p, Walked(p, t))
    /\ UNCHANGED <<diskVars, running, pc, cmd, stack, subs, updates, unflushed, shows, file,
                   cut, commands, faults>>

\* With the last one UpdateDepGraphForSource returns the graph to present.
TouchMarker(p) ==
    LET s == Head(todo[p]) IN
    /\ Do(p, "mark")
    /\ \E a \in s.left :
         /\ marked' = marked \cup {a}
         /\ IF s.left = {a}
              THEN /\ Done(p)
                   /\ shows' = [shows EXCEPT ![p] = IF Tail(todo[p]) = <<>> THEN @ \cup {s.by} ELSE @]
              ELSE /\ todo' = [todo EXCEPT ![p] = <<[s EXCEPT !.left = @ \ {a}]>> \o Tail(@)]
                   /\ UNCHANGED shows
    /\ UNCHANGED <<store, cache, entries, workspaceVars, running, pc, cmd, pool, stack, subs,
                   updates, unflushed, file, cut, commands, faults>>

\* The graph is an error.
Unbuildable(p) ==
    \/ Do(p, "cache") /\ ~Builds(View(p), Head(todo[p]).ref)
    \/ Do(p, "marks") /\ ~Known(p, Head(todo[p]).target)

\* A step fails: an old edge is given up alone, a new one with all that follows
\* it for the same source, and a snapshot with all its sources.
FinishFails(p) ==
    /\ pc[p] = "finish" /\ todo[p] # <<>> /\ Head(todo[p]).do \notin {"link", "pointer"}
    /\ Fault \/ (Unbuildable(p) /\ UNCHANGED faults)
    /\ todo' = [todo EXCEPT ![p] =
                  IF Head(@).do \in {"cache", "write", "entry"} THEN <<>> ELSE Tail(@)]
    /\ updates' = [updates EXCEPT ![p] = IF cmd[p].kind = "snapshot" THEN {} ELSE @]
    /\ cut' = cut \cup Consumers(p)
    /\ file' = [file EXCEPT ![p] = NoCache]
    /\ UNCHANGED <<diskVars, running, pc, cmd, pool, stack, subs, unflushed, shows, commands>>

-----------------------------------------------------------------------------
(* Finish: the workspace, when the graph of r is done.                     *)

Links(r, S)  == IF S = {} THEN <<>> ELSE <<[do |-> "link", of |-> r, left |-> S]>>
Pointer(r)   == <<[do |-> "pointer", of |-> r]>>

Shown(p, r) ==
    /\ pc[p] = "finish" /\ todo[p] = <<>>
    /\ r \in shows[p] /\ \A u \in updates[p] : u.by # r
    /\ shows' = [shows EXCEPT ![p] = @ \ {r}]

\* PresentSources of a branch, by the graph that the process has just built.
PresentSources(p) ==
    /\ \E r \in {x \in shows[p] : IsBranch(x)} :
         LET v == View(p) IN
         /\ Shown(p, r)
         /\ todo' = [todo EXCEPT ![p] =
                       Links(r, {Edge(r, Sources(v, r)[n].pin, n) : n \in DOMAIN Sources(v, r)})]
    /\ UNCHANGED <<diskVars, running, pc, cmd, pool, stack, subs, updates, unflushed, file,
                   cut, commands, faults>>

\* PresentCommit by the graph that GetDependencies gives: files, sources, pointer ...
PresentCommit(p) ==
    /\ \E r \in {x \in shows[p] : ~IsBranch(x)} :
         /\ Shown(p, r) /\ Known(p, r)
         /\ Ws!PresentFiles(r)
         /\ todo' = [todo EXCEPT ![p] = Links(r, {e \in Graph(p, r) : e.consumer = r}) \o Pointer(r)]
         /\ Read(p, Walked(p, r))
    /\ UNCHANGED <<store, graphVars, running, pc, cmd, stack, subs, updates, unflushed, file,
                   cut, commands, faults>>

\* ... or, if it gives none, without the sources.
PresentCommitAlone(p) ==
    /\ \E r \in {x \in shows[p] : ~IsBranch(x)} :
         /\ Shown(p, r)
         /\ Fault \/ (~Known(p, r) /\ UNCHANGED faults)
         /\ Ws!PresentFiles(r)
         /\ todo' = [todo EXCEPT ![p] = Pointer(r)]
         /\ cut' = cut \cup {r[1]}
    /\ UNCHANGED <<store, graphVars, running, pc, cmd, pool, stack, subs, updates, unflushed,
                   file, commands>>

\* aliasSources: one source after the other, until one is not presented.
LinkSource(p) ==
    LET s == Head(todo[p]) IN
    /\ Do(p, "link")
    /\ \E e \in s.left :
         \/ /\ Ws!Alias(s.of, e.name, e.provider)
            /\ todo' = [todo EXCEPT ![p] = Links(s.of, s.left \ {e}) \o Tail(@)]
         \/ /\ Ws!AliasRefused(s.of, e.name, e.provider)
            /\ todo' = [todo EXCEPT ![p] = <<>>]
    /\ UNCHANGED <<store, graphVars, running, pc, cmd, pool, stack, subs, updates, unflushed,
                   shows, file, cut, commands, faults>>

WritePointer(p) ==
    /\ Do(p, "pointer")
    /\ Ws!WritePointer(Head(todo[p]).of)
    /\ Done(p)
    /\ UNCHANGED <<store, graphVars, running, pc, cmd, pool, stack, subs, updates, unflushed,
                   shows, file, cut, commands, faults>>

\* A file or a link cannot be made: the rest of the presentation is left out.
PresentFails(p) ==
    LET s == Head(todo[p]) IN
    /\ Fault
    /\ \/ Do(p, "pointer") /\ UNCHANGED workspaceVars
       \/ Do(p, "link") /\ \E e \in s.left : Ws!AliasFails(s.of, e.name)
    /\ todo' = [todo EXCEPT ![p] = <<>>]
    /\ cut' = cut \cup {s.of[1]}
    /\ UNCHANGED <<store, graphVars, running, pc, cmd, pool, stack, subs, updates, unflushed,
                   shows, file, commands>>

EndFinish(p) ==
    /\ pc[p] = "finish" /\ todo[p] = <<>> /\ updates[p] = {} /\ shows[p] = {}
    /\ Goto(p, "end")
    /\ UNCHANGED <<diskVars, running, localVars, cut, commands, faults>>

\* The transaction ends; or its files stay.
EndKeepsFiles(p) ==
    /\ pc[p] = "end"
    /\ Exit(p, "idle")
    /\ UNCHANGED <<diskVars, running, cut, commands, faults>>

End(p) ==
    /\ pc[p] = "end"
    /\ Iso!End(p)
    /\ Exit(p, "idle")
    /\ UNCHANGED <<diskVars, cut, commands, faults>>

\* A process dies; its transaction files go when they have expired, sooner or later.
Crash(p) ==
    /\ pc[p] \notin {"idle", "dead"} /\ Fault
    /\ Iso!End(p)
    /\ cut' = IF pc[p] \in {"flush", "finish"} THEN cut \cup Consumers(p) ELSE cut
    /\ Exit(p, "dead")
    /\ UNCHANGED <<diskVars, commands>>

Step(p) ==
    \/ Discover(p) \/ Descend(p) \/ Return(p) \/ DiscoverFails(p)
    \/ Begin(p) \/ Conflicts(p) \/ Validate(p) \/ Invalid(p)
    \/ Update(p) \/ UpdateFails(p)
    \/ Flush(p) \/ EndFlush(p) \/ FlushFails(p)
    \/ NextUpdate(p) \/ CacheRead(p) \/ CacheWrite(p)
    \/ AddEntry(p) \/ RemoveDependent(p) \/ MarkDependentsStale(p) \/ TouchMarker(p)
    \/ FinishFails(p)
    \/ PresentSources(p) \/ PresentCommit(p) \/ PresentCommitAlone(p)
    \/ LinkSource(p) \/ WritePointer(p) \/ PresentFails(p)
    \/ EndFinish(p) \/ End(p)

Next ==
    \E p \in Proc : (\E c \in Commands : Start(p, c)) \/ Step(p) \/ Crash(p)

Spec == Init /\ [][Next]_vars

-----------------------------------------------------------------------------
(* Properties                                                              *)

Live == UNION {{<<a, i>> : i \in DOMAIN store[a]} : a \in Asset}

TypeOK ==
    /\ \A r \in Live : \A n \in DOMAIN Sources(store, r) :
         n \in Name /\ Sources(store, r)[n] \in [spec : Live, pin : Live]
    /\ \A a \in Asset : DOMAIN cache[a].forward \cup DOMAIN cache[a].reverse \subseteq Live
    /\ entries \subseteq [target : Live, by : Live, name : Name]
    /\ marked \subseteq Asset /\ cut \subseteq Asset
    /\ pc \in [Proc -> PC]
    /\ cmd \in [Proc -> Commands \cup {NoCommand}]
    /\ \A p \in Proc : subs[p] \subseteq [asset : Asset, name : Name]
    /\ \A p \in Proc : running[p] \subseteq {Declares(a) : a \in Consumers(p)}

\* "forbid cycle in asset sourcing. A-> B -> A" (depgraph.go): whatever
\* commands run together, no branch or commit ever depends on its own asset.
NoOwnSource ==
    \A r \in Live : \A s \in Pins(store, r) :
        \A x \in Reached(store, s) : x[1] # r[1]

\* What a cache says of a commit is the truth, whoever wrote the cache over
\* whom: the checks for cycles, and the sources that are presented, rely on it.
CommitsCachedRight ==
    \A a \in Asset : \A r \in DOMAIN cache[a].forward :
        ~IsBranch(r) => cache[a].forward[r] = Edges(store, r)

\* At work on the branch of a, or on what the graph says of it.
Busy(a) == \E p \in Proc : pc[p] \in {"flush", "finish"} /\ a \in Consumers(p)

\* A push finds everybody: each branch that follows another one is an entry
\* there, unless a crash or an error cut the bookkeeping of it short.
FollowersRecorded ==
    \A a \in Asset \ cut : ~Busy(a) =>
        \A n \in DOMAIN store[a][0] : IsBranch(store[a][0][n].spec) =>
            \E e \in entries : e.target = store[a][0][n].spec /\ e.by = Branch(a)

\* A push that takes the reverse graph of r from the cache misses no direct
\* dependent of r whose command is over.
ReverseCachedRight ==
    \A r \in Live : Hit(r) => \A e \in entries :
        e.target = r => \/ \E f \in cache[r[1]].reverse[r] : f.consumer = e.by
                        \/ Busy(e.by[1]) \/ e.by[1] \in cut

\* A commit that is presented is whole: each of its sources is linked to a
\* commit that is presented, unless an error or a crash cut its snapshot short.
PresentedWhole ==
    \A r \in pointed : ~IsBranch(r) /\ r[1] \notin cut =>
        \A n \in DOMAIN Sources(store, r) :
            /\ n \in DOMAIN links[r]
            /\ links[r][n] = Sources(store, r)[n].pin
            /\ links[r][n] \in pointed

\* A branch whose sources are all linked shows the commits it is pinned to:
\* what a user works with is what the next snapshot will record.
BranchShowsPins ==
    \A a \in Asset \ cut : ~Busy(a) /\ DOMAIN links[Branch(a)] = DOMAIN store[a][0] =>
        \A n \in DOMAIN store[a][0] : links[Branch(a)][n] = store[a][0][n].pin

\* GetDependents is not called for an object whose dependents it is looking for.
RecursionEnds ==
    \A p \in Proc : \A i, j \in DOMAIN stack[p] :
        stack[p][i].ref = stack[p][j].ref => i = j
=============================================================================
