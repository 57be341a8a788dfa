--------------------------- MODULE DepGraphProofs ---------------------------
(***************************************************************************)
(* Proofs about DepGraph.  First what the walk over dependencies finds,    *)
(* then the inductive invariant: commits never change once they are in     *)
(* their asset file, whoever holds a copy of the file holds an older one,  *)
(* and what a command is about to write was checked on commits, so that it *)
(* still holds when the file is written.                                   *)
(***************************************************************************)
EXTENDS DepGraph, SequenceTheorems, TLAPS

Node    == Asset \X Nat
Commits == {r \in Live : ~IsBranch(r)}

\* An asset file: versions without a gap, a branch and at least one commit.
\* Whatever is pinned is a commit.
Source  == [spec : Live, pin : Commits]
Sourced == UNION {[N -> Source] : N \in SUBSET Name}
Files   == UNION {[0 .. k -> Sourced] : k \in Nat \ {0}}
Pools   == UNION {[A -> Files] : A \in SUBSET Asset}

LiveEdge  == [consumer : Live, provider : Live, name : Name]
LiveGraph == UNION {[R -> SUBSET LiveEdge] : R \in SUBSET Live}
CacheFile == [forward : LiveGraph, reverse : LiveGraph]

\* What it says of commits is true.
Right(f)   == \A r \in DOMAIN f.forward : ~IsBranch(r) => f.forward[r] = Edges(store, r)
RightCache == {f \in CacheFile : Right(f)}

LiveEntry == [target : Live, by : Live, name : Name]
Frame     == [ref : Live, file : RightCache, graph : SUBSET LiveEdge, left : SUBSET LiveEntry]
Change    == [by : Node, name : Name, spec : Live, old : Live, new : Commits]
FinishStep ==
    [do : {"cache", "write"}, ref : Node]
      \cup [do : {"entry"}, target : Live, by : Live, name : Name]
      \cup [do : {"remove"}, target : Commits, by : Live]
      \cup [do : {"marks"}, target : Live, by : Live]
      \cup [do : {"mark"}, left : SUBSET Asset, by : Live]
      \cup [do : {"link"}, of : Live, left : SUBSET LiveEdge]
      \cup [do : {"pointer"}, of : Live]

\* The values of the variables; those that derive from asset files speak of
\* versions that are there.
DiskTypes ==
    /\ store \in [Asset -> Files]
    /\ cache \in [Asset -> RightCache]
    /\ entries \subseteq LiveEntry
    /\ marked \subseteq Asset /\ cut \subseteq Asset

LocalTypes ==
    /\ running \in [Proc -> SUBSET {Declares(a) : a \in Asset}]
    /\ pc \in [Proc -> PC]
    /\ cmd \in [Proc -> Commands \cup {NoCommand}]
    /\ pool \in [Proc -> Pools]
    /\ stack \in [Proc -> Seq(Frame)]
    /\ subs \in [Proc -> SUBSET [asset : Asset, name : Name]]
    /\ updates \in [Proc -> SUBSET Change]
    /\ unflushed \in [Proc -> SUBSET Asset]
    /\ todo \in [Proc -> Seq(FinishStep)]
    /\ shows \in [Proc -> SUBSET Node]
    /\ file \in [Proc -> RightCache]

Types == DiskTypes /\ LocalTypes

\* Who is where in a command holds what.
Control ==
    \A p \in Proc :
        /\ pc[p] \in {"idle", "dead"} => cmd[p] = NoCommand
        /\ pc[p] \in {"idle", "dead", "discover", "begin"} => running[p] = {}
        /\ pc[p] \in {"validate", "update", "flush", "finish"} =>
             running[p] = {Declares(a) : a \in Consumers(p)}
        /\ running[p] \subseteq {Declares(a) : a \in Consumers(p)}
        /\ stack[p] # <<>> => pc[p] = "discover"
        /\ pc[p] = "discover" => cmd[p].kind = "push"
        /\ pc[p] \notin {"flush", "end"} => unflushed[p] = {}
        /\ pc[p] \in {"idle", "dead", "discover", "begin", "validate"} => updates[p] = {}
        /\ pc[p] = "update" /\ cmd[p].kind = "snapshot" => updates[p] = {}
        /\ pc[p] \notin {"flush", "finish", "end"} => todo[p] = <<>> /\ shows[p] = {}
        /\ unflushed[p] \subseteq Consumers(p)
        /\ \A u \in updates[p] :
             /\ u.by[1] \in Consumers(p)
             /\ cmd[p].kind # "add" => u.old \in Commits
             /\ IsBranch(u.by) <=> cmd[p].kind # "snapshot"

\* No two running commands declare the same branch.
Apart ==
    \A p, q \in Proc : p # q => running[p] \cap running[q] = {}

\* The file v has the commits of the file w, and maybe more.
Extends(v, w) ==
    /\ DOMAIN w \subseteq DOMAIN v
    /\ \A i \in DOMAIN w \ {0} : v[i] = w[i]

\* Copies of asset files are older than the files, but for those to be written.
Pooled ==
    \A p \in Proc :
        /\ unflushed[p] \subseteq DOMAIN pool[p]
        /\ \A a \in DOMAIN pool[p] \ unflushed[p] : Extends(store[a], pool[p][a])
        /\ pc[p] = "flush" => \A a \in unflushed[p] : Extends(pool[p][a], store[a])
        /\ pc[p] = "flush" =>
             /\ \A u \in updates[p] : u.by[1] \in DOMAIN pool[p] /\ Exists(pool[p], u.by)
             /\ \A r \in shows[p] : r[1] \in DOMAIN pool[p] /\ Exists(pool[p], r)
        /\ pc[p] = "finish" => shows[p] \subseteq Live /\ \A u \in updates[p] : u.by \in Live

\* Nothing that r depends on is a version of a.
Avoids(v, r, a) == \A x \in Reached(v, r) : x[1] # a

Clean(v, a, f) == \A i \in DOMAIN f : \A n \in DOMAIN f[i] : Avoids(v, f[i][n].pin, a)

\* No version depends on its own asset, nor will what is to be written.
Acyclic ==
    /\ \A a \in Asset : Clean(store, a, store[a])
    /\ \A p \in Proc :
         /\ pc[p] = "update" => \A u \in updates[p] : Avoids(store, u.new, u.by[1])
         /\ pc[p] = "flush" => \A a \in unflushed[p] : Clean(store, a, pool[p][a])

Inv == Types /\ Control /\ Apart /\ Pooled /\ Acyclic

-----------------------------------------------------------------------------
(* The walk over dependencies.                                             *)

PinsNodes(v) ==
    \A a \in Asset : \A i \in DOMAIN v[a] : \A n \in DOMAIN v[a][i] : v[a][i][n].pin \in Node

\* What a version is pinned to is one of the pins of the asset files.
LEMMA PinnedFacts ==
  ASSUME NEW v, PinsNodes(v)
  PROVE  /\ Pinned(v) \subseteq Node
         /\ \A x \in Node : Exists(v, x) => Pins(v, x) \subseteq Pinned(v)
<1>1. ASSUME NEW a \in Asset, NEW i \in DOMAIN v[a] PROVE Pins(v, <<a, i>>) \subseteq Node
  BY DEF PinsNodes, Pins, Sources
<1>2. ASSUME NEW x \in Node, Exists(v, x) PROVE Pins(v, x) \subseteq Pinned(v)
  <2>1. x = <<x[1], x[2]>> /\ x[1] \in Asset /\ x[2] \in DOMAIN v[x[1]]
    BY <1>2 DEF Node, Exists
  <2>2. Pins(v, x) = Pins(v, <<x[1], x[2]>>)
    BY <2>1
  <2>3. QED
    BY <2>1, <2>2 DEF Pinned
<1>3. Pinned(v) \subseteq Node
  <2>1. ASSUME NEW y \in Pinned(v) PROVE y \in Node
    <3>1. PICK a \in Asset : \E i \in DOMAIN v[a] : y \in Pins(v, <<a, i>>)
      <4>1. PICK P \in {UNION {Pins(v, <<a, i>>) : i \in DOMAIN v[a]} : a \in Asset} : y \in P
        BY DEF Pinned
      <4>2. PICK a \in Asset : P = UNION {Pins(v, <<a, i>>) : i \in DOMAIN v[a]}
        OBVIOUS
      <4>3. QED
        BY <4>1, <4>2
    <3>2. QED
      BY <1>1, <3>1
  <2>2. QED
    BY <2>1
<1>4. QED
  BY <1>2, <1>3

\* Every set that a walk does not leave has all that is reached.
LEMMA ReachedLeast ==
  ASSUME NEW v, PinsNodes(v), NEW r \in Node, NEW S, Walks(v, r, S)
  PROVE  Reached(v, r) \subseteq S
<1>. DEFINE U == {r} \cup Pinned(v)
<1>1. U \subseteq Node
  BY PinnedFacts
<1>2. ASSUME NEW x \in S \cap U, Exists(v, x) PROVE Pins(v, x) \subseteq S \cap U
  <2>1. Pins(v, x) \subseteq S
    BY <1>2 DEF Walks
  <2>2. Pins(v, x) \subseteq Pinned(v)
    BY <1>1, <1>2, PinnedFacts
  <2>3. QED
    BY <2>1, <2>2
<1>3. Walks(v, r, S \cap U)
  BY <1>2 DEF Walks
<1>4. QED
  BY <1>3 DEF Reached

\* A walk does not leave what is reached.
LEMMA ReachedRules ==
  ASSUME NEW v, PinsNodes(v), NEW r \in Node
  PROVE  Reached(v, r) \subseteq Node /\ Walks(v, r, Reached(v, r))
<1>. DEFINE U == {r} \cup Pinned(v)
<1>1. U \subseteq Node
  BY PinnedFacts
<1>2. Reached(v, r) \subseteq U
  BY DEF Reached
<1>3. r \in Reached(v, r)
  BY DEF Reached, Walks
<1>4. ASSUME NEW x \in Reached(v, r), Exists(v, x), NEW y \in Pins(v, x) PROVE y \in Reached(v, r)
  <2>1. y \in U
    BY <1>1, <1>2, <1>4, PinnedFacts
  <2>2. ASSUME NEW S \in SUBSET U, Walks(v, r, S) PROVE y \in S
    <3>1. x \in S
      BY <2>2 DEF Reached
    <3>2. QED
      BY <1>4, <2>2, <3>1 DEF Walks
  <2>3. QED
    BY <2>1, <2>2 DEF Reached
<1>5. QED
  BY <1>1, <1>2, <1>3, <1>4 DEF Walks

\* What is reached, other than the start, is pinned by something reached.
LEMMA ReachedFrom ==
  ASSUME NEW v, PinsNodes(v), NEW r \in Node, NEW x \in Reached(v, r), x # r
  PROVE  \E y \in Reached(v, r) : Exists(v, y) /\ x \in Pins(v, y)
<1>. SUFFICES ASSUME \A y \in Reached(v, r) : Exists(v, y) => x \notin Pins(v, y) PROVE FALSE
  OBVIOUS
<1>1. Walks(v, r, Reached(v, r) \ {x})
  BY ReachedRules DEF Walks
<1>2. QED
  BY <1>1, ReachedLeast

\* Two states of the asset files in which all that the one reaches is the same.
LEMMA ReachedSame ==
  ASSUME NEW v, PinsNodes(v), NEW w, PinsNodes(w), NEW r \in Node,
         \A x \in Reached(v, r) :
            (Exists(v, x) <=> Exists(w, x)) /\ (Exists(v, x) => Sources(v, x) = Sources(w, x))
  PROVE  Reached(w, r) = Reached(v, r) /\ Edges(w, r) = Edges(v, r)
<1>1. \A x \in Reached(v, r) : Exists(v, x) => Pins(v, x) = Pins(w, x)
  BY DEF Pins
<1>2. Walks(w, r, Reached(v, r))
  BY <1>1, ReachedRules DEF Walks
<1>3. Reached(w, r) \subseteq Reached(v, r)
  BY <1>2, ReachedLeast
<1>4. Walks(v, r, Reached(w, r))
  BY <1>1, <1>3, ReachedRules DEF Walks
<1>5. Reached(v, r) \subseteq Reached(w, r)
  BY <1>4, ReachedLeast
<1>6. Reached(w, r) = Reached(v, r)
  BY <1>3, <1>5
<1>7. {y \in Reached(w, r) : Exists(w, y)} = {y \in Reached(v, r) : Exists(v, y)}
  BY <1>6
<1>8. \A x \in {y \in Reached(v, r) : Exists(v, y)} :
        {Edge(x, Sources(w, x)[n].pin, n) : n \in DOMAIN Sources(w, x)}
          = {Edge(x, Sources(v, x)[n].pin, n) : n \in DOMAIN Sources(v, x)}
  OBVIOUS
<1>9. Edges(w, r) = Edges(v, r)
  BY <1>7, <1>8 DEF Edges
<1>10. QED
  BY <1>6, <1>9

\* The assets that the check for cycles looks at are all that are reached.
LEMMA AssetsReached ==
  ASSUME NEW v, PinsNodes(v), NEW r \in Node, NEW x \in Reached(v, r)
  PROVE  x[1] \in AssetsOf(r, Edges(v, r))
<1>1. CASE x = r
  BY <1>1 DEF AssetsOf
<1>2. CASE x # r
  <2>1. PICK y \in Reached(v, r) : Exists(v, y) /\ x \in Pins(v, y)
    BY <1>2, ReachedFrom
  <2>2. PICK n \in DOMAIN Sources(v, y) : x = Sources(v, y)[n].pin
    BY <2>1 DEF Pins
  <2>3. Edge(y, x, n) \in Edges(v, r)
    BY <2>1, <2>2 DEF Edges
  <2>4. Edge(y, x, n).provider = x
    BY DEF Edge
  <2>5. QED
    BY <2>3, <2>4 DEF AssetsOf
<1>3. QED
  BY <1>1, <1>2

-----------------------------------------------------------------------------
(* Asset files and copies of them.                                         *)

\* Versions that exist are nodes, and the other way round.
LEMMA LiveFacts ==
  ASSUME store \in [Asset -> Files]
  PROVE  Live \subseteq Node /\ \A x \in Node : x \in Live <=> Exists(store, x)
<1>1. ASSUME NEW a \in Asset PROVE DOMAIN store[a] \subseteq Nat
  <2>1. PICK k \in Nat : store[a] \in [0 .. k -> Sourced]
    BY DEF Files
  <2>2. QED
    BY <2>1
<1>2. Live \subseteq Node
  BY <1>1 DEF Live, Node
<1>3. ASSUME NEW x \in Node PROVE x \in Live <=> Exists(store, x)
  <2>1. x = <<x[1], x[2]>> /\ x[1] \in Asset
    BY DEF Node
  <2>2. QED
    BY <2>1 DEF Live, Exists
<1>4. QED
  BY <1>2, <1>3

\* The versions of an asset file and what they hold.
LEMMA FileFacts ==
  ASSUME NEW f \in Files
  PROVE  /\ \E k \in Nat \ {0} : DOMAIN f = 0 .. k /\ f \in [0 .. k -> Sourced]
         /\ 0 \in DOMAIN f
         /\ \A i \in DOMAIN f :
              /\ i \in Nat /\ f[i] \in Sourced /\ DOMAIN f[i] \subseteq Name
              /\ \A n \in DOMAIN f[i] : /\ f[i][n] \in Source
                                        /\ f[i][n].spec \in Live /\ f[i][n].pin \in Commits
<1>1. PICK k \in Nat \ {0} : f \in [0 .. k -> Sourced]
  BY DEF Files
<1>2. DOMAIN f = 0 .. k /\ 0 \in DOMAIN f
  BY <1>1
<1>3. ASSUME NEW i \in DOMAIN f
      PROVE  /\ i \in Nat /\ f[i] \in Sourced /\ DOMAIN f[i] \subseteq Name
             /\ \A n \in DOMAIN f[i] : /\ f[i][n] \in Source
                                       /\ f[i][n].spec \in Live /\ f[i][n].pin \in Commits
  <2>1. f[i] \in Sourced /\ i \in Nat
    BY <1>1, <1>2
  <2>2. PICK N \in SUBSET Name : f[i] \in [N -> Source]
    BY <2>1 DEF Sourced
  <2>3. QED
    BY <2>1, <2>2 DEF Source
<1>4. QED
  BY <1>1, <1>2, <1>3

\* The last version is a commit.
LEMMA LastFacts ==
  ASSUME NEW k \in Nat \ {0}
  PROVE  Max(0 .. k) = k
<1>1. k \in 0 .. k /\ \A y \in 0 .. k : k >= y
  OBVIOUS
<1>2. \A x \in 0 .. k : (\A y \in 0 .. k : x >= y) => x = k
  OBVIOUS
<1>3. Max(0 .. k) \in 0 .. k /\ \A y \in 0 .. k : Max(0 .. k) >= y
  BY <1>1 DEF Max
<1>4. QED
  BY <1>2, <1>3

\* In any copies of asset files a walk from a commit stays on commits.
LEMMA ViewFacts ==
  ASSUME store \in [Asset -> Files], NEW v \in [Asset -> Files]
  PROVE  /\ PinsNodes(v)
         /\ \A x \in Node : Exists(v, x) => Pins(v, x) \subseteq Commits
         /\ \A r \in Commits : Reached(v, r) \subseteq Commits
<1>1. Commits \subseteq Node
  BY LiveFacts DEF Commits
<1>2. PinsNodes(v)
  BY <1>1, FileFacts DEF PinsNodes
<1>3. ASSUME NEW x \in Node, Exists(v, x) PROVE Pins(v, x) \subseteq Commits
  <2>1. x[1] \in Asset /\ v[x[1]] \in Files /\ x[2] \in DOMAIN v[x[1]]
    BY <1>3 DEF Node, Exists
  <2>2. QED
    BY <2>1, FileFacts DEF Pins, Sources
<1>4. ASSUME NEW r \in Commits PROVE Reached(v, r) \subseteq Commits
  <2>1. Walks(v, r, Commits)
    BY <1>1, <1>3 DEF Walks
  <2>2. QED
    BY <1>1, <1>2, <2>1, ReachedLeast
<1>5. QED
  BY <1>2, <1>3, <1>4

\* A walk from a commit that an older copy can make is the one in the newer.
LEMMA OlderWalk ==
  ASSUME store \in [Asset -> Files], NEW v \in [Asset -> Files], NEW w \in [Asset -> Files],
         \A a \in Asset : Extends(w[a], v[a]),
         NEW r \in Commits, \A x \in Reached(v, r) : Exists(v, x)
  PROVE  Reached(w, r) = Reached(v, r) /\ Edges(w, r) = Edges(v, r)
<1>1. r \in Node /\ Reached(v, r) \subseteq Commits /\ PinsNodes(v) /\ PinsNodes(w)
  BY LiveFacts, ViewFacts DEF Commits
<1>2. ASSUME NEW x \in Reached(v, r)
      PROVE  Exists(v, x) /\ Exists(w, x) /\ Sources(v, x) = Sources(w, x)
  <2>1. x \in Node /\ x[2] # 0
    BY <1>1, LiveFacts DEF Commits, IsBranch
  <2>2. x[1] \in Asset /\ x[2] \in DOMAIN v[x[1]]
    BY <2>1 DEF Node, Exists
  <2>3. QED
    BY <2>1, <2>2 DEF Extends, Exists, Sources
<1>3. QED
  BY <1>1, <1>2, ReachedSame

\* The asset files have all that a walk from a commit leads to.
LEMMA StoreWalk ==
  ASSUME store \in [Asset -> Files], NEW r \in Commits
  PROVE  Reached(store, r) \subseteq Commits /\ \A x \in Reached(store, r) : Exists(store, x)
BY ViewFacts, LiveFacts DEF Commits

\* The edges on a walk through older copies are between versions that exist.
LEMMA EdgesLive ==
  ASSUME store \in [Asset -> Files], NEW v \in [Asset -> Files],
         \A a \in Asset : Extends(store[a], v[a]), NEW r \in Node
  PROVE  Edges(v, r) \subseteq LiveEdge
<1>1. Reached(v, r) \subseteq Node
  BY ViewFacts, ReachedRules
<1>2. ASSUME NEW x \in Reached(v, r), Exists(v, x), NEW n \in DOMAIN Sources(v, x)
      PROVE  Edge(x, Sources(v, x)[n].pin, n) \in LiveEdge
  <2>1. x \in Node /\ x[1] \in Asset /\ x[2] \in DOMAIN v[x[1]]
    BY <1>1, <1>2 DEF Node, Exists
  <2>2. x \in Live
    BY <2>1, LiveFacts DEF Extends, Exists
  <2>3. n \in Name /\ Sources(v, x)[n].pin \in Live
    BY <1>2, <2>1, FileFacts DEF Sources, Commits
  <2>4. QED
    BY <2>2, <2>3 DEF Edge, LiveEdge
<1>3. ASSUME NEW e \in Edges(v, r)
      PROVE  \E x \in Reached(v, r) : Exists(v, x) /\ \E n \in DOMAIN Sources(v, x) :
               e = Edge(x, Sources(v, x)[n].pin, n)
  BY DEF Edges
<1>4. QED
  BY <1>2, <1>3

-----------------------------------------------------------------------------
(* What a process sees, and what it makes of it.                           *)

\* A process sees asset files as they were: only what it is about to write is
\* ahead of them.
LEMMA SeenFacts ==
  ASSUME Types, Pooled, NEW p \in Proc
  PROVE  /\ View(p) \in [Asset -> Files]
         /\ unflushed[p] = {} =>
              /\ \A a \in Asset : Extends(store[a], View(p)[a])
              /\ \A x \in Node : Exists(View(p), x) => x \in Live
<1>1. store \in [Asset -> Files]
  BY DEF Types, DiskTypes
<1>2. PICK A \in SUBSET Asset : pool[p] \in [A -> Files]
  BY DEF Types, LocalTypes, Pools
<1>3. View(p) \in [Asset -> Files]
  BY <1>1, <1>2 DEF View
<1>4. ASSUME unflushed[p] = {}, NEW a \in Asset PROVE Extends(store[a], View(p)[a])
  BY <1>4 DEF View, Extends, Pooled
<1>5. ASSUME unflushed[p] = {}, NEW x \in Node, Exists(View(p), x) PROVE x \in Live
  <2>1. x[1] \in Asset /\ Extends(store[x[1]], View(p)[x[1]])
    BY <1>4, <1>5 DEF Node
  <2>2. QED
    BY <1>1, <1>5, <2>1, LiveFacts DEF Extends, Exists
<1>6. QED
  BY <1>3, <1>4, <1>5

\* A graph that a process builds is one of versions that exist; for a commit it
\* is the graph in the asset files, whatever the process has not seen of them.
LEMMA BuiltFacts ==
  ASSUME Types, Pooled, NEW p \in Proc, unflushed[p] = {}, NEW r \in Node, Builds(View(p), r)
  PROVE  /\ r \in Live /\ Edges(View(p), r) \subseteq LiveEdge
         /\ ~IsBranch(r) => Edges(View(p), r) = Edges(store, r)
<1>1. store \in [Asset -> Files] /\ View(p) \in [Asset -> Files]
  BY SeenFacts DEF Types, DiskTypes
<1>2. \A a \in Asset : Extends(store[a], View(p)[a])
  BY SeenFacts
<1>3. r \in Reached(View(p), r)
  BY <1>1, ViewFacts, ReachedRules DEF Walks
<1>4. r \in Live
  BY <1>3, SeenFacts DEF Builds
<1>5. Edges(View(p), r) \subseteq LiveEdge
  BY <1>1, <1>2, EdgesLive
<1>6. ~IsBranch(r) => Edges(View(p), r) = Edges(store, r)
  BY <1>1, <1>2, <1>4, OlderWalk DEF Builds, Commits
<1>7. QED
  BY <1>4, <1>5, <1>6

\* The same for the graph that it takes from a cache or builds.
LEMMA KnownFacts ==
  ASSUME Types, Pooled, NEW p \in Proc, unflushed[p] = {}, NEW r \in Node, Known(p, r)
  PROVE  /\ r \in Live /\ Graph(p, r) \subseteq LiveEdge
         /\ ~IsBranch(r) => Graph(p, r) = Edges(store, r)
<1>1. CASE Cached(r)
  <2>1. r[1] \in Asset
    BY DEF Node
  <2>2. cache[r[1]] \in RightCache
    BY <2>1 DEF Types, DiskTypes
  <2>3. PICK R \in SUBSET Live : cache[r[1]].forward \in [R -> SUBSET LiveEdge]
    BY <2>2 DEF RightCache, CacheFile, LiveGraph
  <2>4. r \in Live /\ Graph(p, r) \subseteq LiveEdge
    BY <1>1, <2>3 DEF Cached, Graph
  <2>5. ~IsBranch(r) => Graph(p, r) = Edges(store, r)
    BY <1>1, <2>2 DEF Cached, Graph, RightCache, Right
  <2>6. QED
    BY <2>4, <2>5
<1>2. CASE ~Cached(r)
  BY <1>2, BuiltFacts DEF Known, Graph
<1>3. QED
  BY <1>1, <1>2

\* The parts of a cache file.
LEMMA CacheParts ==
  ASSUME NEW f \in RightCache
  PROVE  /\ f \in [forward : LiveGraph, reverse : LiveGraph]
         /\ DOMAIN f.forward \subseteq Live /\ DOMAIN f.reverse \subseteq Live
         /\ \A r \in DOMAIN f.forward : f.forward[r] \subseteq LiveEdge
         /\ \A r \in DOMAIN f.reverse : f.reverse[r] \subseteq LiveEdge
<1>1. f.forward \in LiveGraph /\ f.reverse \in LiveGraph
  BY DEF RightCache, CacheFile
<1>2. ASSUME NEW g \in LiveGraph
      PROVE  DOMAIN g \subseteq Live /\ \A r \in DOMAIN g : g[r] \subseteq LiveEdge
  <2>1. PICK R \in SUBSET Live : g \in [R -> SUBSET LiveEdge]
    BY DEF LiveGraph
  <2>2. QED
    BY <2>1
<1>3. f \in [forward : LiveGraph, reverse : LiveGraph]
  BY DEF RightCache, CacheFile
<1>4. QED
  BY <1>1, <1>2, <1>3

\* One more graph.
LEMMA WithTyped ==
  ASSUME NEW g \in LiveGraph, NEW r \in Live, NEW E \in SUBSET LiveEdge
  PROVE  With(g, r, E) \in LiveGraph
<1>1. PICK R \in SUBSET Live : g \in [R -> SUBSET LiveEdge]
  BY DEF LiveGraph
<1>2. With(g, r, E) \in [R \cup {r} -> SUBSET LiveEdge]
  BY <1>1 DEF With
<1>3. R \cup {r} \in SUBSET Live
  OBVIOUS
<1>4. QED
  BY <1>2, <1>3 DEF LiveGraph

\* A cache file stays right with one more graph.
LEMMA WithRight ==
  ASSUME NEW f \in RightCache, NEW r \in Live, NEW E \in SUBSET LiveEdge
  PROVE  /\ (~IsBranch(r) => E = Edges(store, r)) =>
              [f EXCEPT !.forward = With(@, r, E)] \in RightCache
         /\ [f EXCEPT !.reverse = With(@, r, E)] \in RightCache
<1>1. f \in [forward : LiveGraph, reverse : LiveGraph] /\ Right(f)
  BY DEF RightCache, CacheFile
<1>2. With(f.forward, r, E) \in LiveGraph /\ With(f.reverse, r, E) \in LiveGraph
  BY <1>1, WithTyped
<1>3. ASSUME ~IsBranch(r) => E = Edges(store, r)
      PROVE  [f EXCEPT !.forward = With(@, r, E)] \in RightCache
  <2>. DEFINE g == [f EXCEPT !.forward = With(@, r, E)]
  <2>1. g \in CacheFile /\ g.forward = With(f.forward, r, E)
    BY <1>1, <1>2 DEF CacheFile
  <2>2. Right(g)
    BY <1>1, <1>3, <2>1 DEF Right, With
  <2>3. QED
    BY <2>1, <2>2 DEF RightCache
<1>4. [f EXCEPT !.reverse = With(@, r, E)] \in RightCache
  <2>. DEFINE g == [f EXCEPT !.reverse = With(@, r, E)]
  <2>1. g \in CacheFile /\ g.forward = f.forward
    BY <1>1, <1>2 DEF CacheFile
  <2>2. Right(g)
    BY <1>1, <2>1 DEF Right
  <2>3. QED
    BY <2>1, <2>2 DEF RightCache
<1>5. QED
  BY <1>3, <1>4

\* A cache file without graphs.
LEMMA NoCacheRight == NoCache \in RightCache
<1>1. Nothing \in [{} -> SUBSET LiveEdge] /\ {} \in SUBSET Live
  BY DEF Nothing
<1>2. Nothing \in LiveGraph
  BY <1>1 DEF LiveGraph
<1>3. DOMAIN Nothing = {}
  BY DEF Nothing
<1>4. QED
  BY <1>2, <1>3 DEF NoCache, RightCache, CacheFile, Right

-----------------------------------------------------------------------------
(* Asset files only grow.                                                  *)

\* All but a write of an asset file leaves it to everybody what it says.
LEMMA SameStore ==
  ASSUME UNCHANGED store
  PROVE  /\ Live' = Live /\ Commits' = Commits /\ Files' = Files /\ Pools' = Pools
         /\ LiveEdge' = LiveEdge /\ RightCache' = RightCache /\ LiveEntry' = LiveEntry
         /\ Frame' = Frame /\ Change' = Change /\ FinishStep' = FinishStep
         /\ \A r, a : Avoids(store, r, a)' = Avoids(store, r, a)
         /\ \A r : Edges(store, r)' = Edges(store, r)
<1>1. Live' = Live
  BY DEF Live
<1>2. Commits' = Commits
  BY <1>1 DEF Commits
<1>3. Files' = Files
  BY <1>1, <1>2 DEF Files, Sourced, Source
<1>4. LiveEdge' = LiveEdge /\ LiveEntry' = LiveEntry /\ LiveGraph' = LiveGraph
  BY <1>1 DEF LiveEdge, LiveEntry, LiveGraph
<1>5. RightCache' = RightCache
  BY <1>4 DEF RightCache, CacheFile, Right
<1>6. QED
  BY <1>1, <1>2, <1>3, <1>4, <1>5 DEF Pools, Frame, Change, FinishStep, Avoids

\* A write of an asset file that keeps its commits takes nothing back.
LEMMA Growth ==
  ASSUME store \in [Asset -> Files], store' \in [Asset -> Files],
         \A a \in Asset : Extends(store'[a], store[a])
  PROVE  /\ Live \subseteq Live' /\ Commits \subseteq Commits' /\ Files \subseteq Files'
         /\ Pools \subseteq Pools' /\ LiveEdge \subseteq LiveEdge'
         /\ RightCache \subseteq RightCache' /\ LiveEntry \subseteq LiveEntry'
         /\ Frame \subseteq Frame' /\ Change \subseteq Change' /\ FinishStep \subseteq FinishStep'
         /\ \A r \in Commits : Edges(store', r) = Edges(store, r)
         /\ \A r \in Commits, a \in Asset : Avoids(store, r, a) => Avoids(store', r, a)
<1>1. Live \subseteq Live'
  BY DEF Live, Extends
<1>2. Commits \subseteq Commits'
  BY <1>1 DEF Commits
<1>3. Files \subseteq Files'
  <2>1. Source \subseteq Source'
    BY <1>1, <1>2 DEF Source
  <2>2. ASSUME NEW g \in Sourced PROVE g \in Sourced'
    <3>1. PICK N \in SUBSET Name : g \in [N -> Source]
      BY DEF Sourced
    <3>2. g \in [N -> Source']
      BY <2>1, <3>1
    <3>3. QED
      BY <3>2 DEF Sourced
  <2>3. ASSUME NEW f \in Files PROVE f \in Files'
    <3>1. PICK k \in Nat \ {0} : f \in [0 .. k -> Sourced]
      BY DEF Files
    <3>2. f \in [0 .. k -> Sourced']
      BY <2>2, <3>1
    <3>3. QED
      BY <3>2 DEF Files
  <2>4. QED
    BY <2>3
<1>4. Pools \subseteq Pools'
  <2>1. ASSUME NEW f \in Pools PROVE f \in Pools'
    <3>1. PICK A \in SUBSET Asset : f \in [A -> Files]
      BY DEF Pools
    <3>2. f \in [A -> Files']
      BY <1>3, <3>1
    <3>3. QED
      BY <3>2 DEF Pools
  <2>2. QED
    BY <2>1
<1>5. LiveEdge \subseteq LiveEdge' /\ LiveEntry \subseteq LiveEntry'
  BY <1>1 DEF LiveEdge, LiveEntry
<1>6. ASSUME NEW r \in Commits
      PROVE  Reached(store', r) = Reached(store, r) /\ Edges(store', r) = Edges(store, r)
  <2>1. \A x \in Reached(store, r) : Exists(store, x)
    BY StoreWalk
  <2>2. QED
    BY <2>1, OlderWalk
<1>7. LiveGraph \subseteq LiveGraph'
  <2>1. ASSUME NEW g \in LiveGraph PROVE g \in LiveGraph'
    <3>1. PICK R \in SUBSET Live : g \in [R -> SUBSET LiveEdge]
      BY DEF LiveGraph
    <3>2. g \in [R -> SUBSET LiveEdge'] /\ R \in SUBSET Live'
      BY <1>1, <1>5, <3>1
    <3>3. QED
      BY <3>2 DEF LiveGraph
  <2>2. QED
    BY <2>1
<1>8. ASSUME NEW f \in RightCache PROVE f \in RightCache'
  <2>1. f \in [forward : LiveGraph, reverse : LiveGraph] /\ DOMAIN f.forward \subseteq Live
    BY CacheParts
  <2>2. f \in CacheFile'
    BY <1>7, <2>1 DEF CacheFile
  <2>3. Right(f)'
    BY <1>6, <2>1 DEF RightCache, Right, Commits
  <2>4. QED
    BY <2>2, <2>3 DEF RightCache
<1>9. Frame \subseteq Frame' /\ Change \subseteq Change'
  BY <1>1, <1>2, <1>5, <1>8 DEF Frame, Change
<1>10. FinishStep \subseteq FinishStep'
  BY <1>1, <1>2, <1>5 DEF FinishStep
<1>11. \A r \in Commits, a \in Asset : Avoids(store, r, a) => Avoids(store', r, a)
  BY <1>6 DEF Avoids
<1>12. QED
  BY <1>1, <1>2, <1>3, <1>4, <1>5, <1>6, <1>8, <1>9, <1>10, <1>11

-----------------------------------------------------------------------------
(* Lists of steps.                                                         *)

\* Sequences of things of one kind.
LEMMA ListFacts ==
  ASSUME NEW S, NEW s \in Seq(S)
  PROVE  /\ s # <<>> => Head(s) \in S /\ Tail(s) \in Seq(S)
         /\ \A t \in Seq(S) : s \o t \in Seq(S)
         /\ \A x \in S : <<x>> \o s \in Seq(S) /\ <<x>> \in Seq(S)
         /\ <<>> \in Seq(S)
<1>1. s # <<>> => Head(s) \in S /\ Tail(s) \in Seq(S)
  OBVIOUS
<1>2. \A x \in S : <<x>> \in Seq(S)
  OBVIOUS
<1>3. \A x \in S : <<x>> \o s \in Seq(S)
  BY <1>2, ConcatProperties
<1>4. \A t \in Seq(S) : s \o t \in Seq(S)
  BY ConcatProperties
<1>5. <<>> \in Seq(S)
  OBVIOUS
<1>6. QED
  BY <1>1, <1>2, <1>3, <1>4, <1>5

\* The steps that a change makes on the graph.
LEMMA StepsTyped ==
  ASSUME store \in [Asset -> Files], NEW kind, NEW u \in Change, u.by \in Live,
         kind \in {"pull", "push"} => u.old \in Commits
  PROVE  Steps(kind, u) \in Seq(FinishStep)
<1>1. u.name \in Name /\ u.spec \in Live /\ u.old \in Live /\ u.new \in Live /\ u.by \in Node
  BY LiveFacts DEF Change, Commits
<1>2. /\ Cache(u.by) \in FinishStep /\ Marks(u.new, u.by) \in FinishStep
      /\ Marks(u.old, u.by) \in FinishStep
  BY <1>1 DEF Cache, Marks, FinishStep
<1>3. Entry(u.new, u.by, u.name) \in FinishStep /\ Entry(u.spec, u.by, u.name) \in FinishStep
  BY <1>1 DEF Entry, FinishStep
<1>4. kind \in {"pull", "push"} => RemoveOf(u.old, u.by) \in FinishStep
  BY <1>1 DEF RemoveOf, FinishStep
<1>. DEFINE A == IF kind \in {"pull", "push"} THEN <<RemoveOf(u.old, u.by), Marks(u.old, u.by)>>
                 ELSE <<>>
            B == IF kind # "snapshot" THEN <<Cache(u.by)>> ELSE <<>>
<1>5. A \in Seq(FinishStep)
  <2>1. CASE kind \in {"pull", "push"}
    BY <1>2, <1>4, <2>1
  <2>2. CASE kind \notin {"pull", "push"}
    BY <2>2
  <2>3. QED
    BY <2>1, <2>2
<1>6. B \in Seq(FinishStep)
  BY <1>2
<1>7. AddDependent(u) \in Seq(FinishStep)
  <2>1. <<Entry(u.new, u.by, u.name)>> \in Seq(FinishStep)
    BY <1>3
  <2>2. (IF IsBranch(u.by) /\ IsBranch(u.spec) THEN <<Entry(u.spec, u.by, u.name)>> ELSE <<>>)
          \in Seq(FinishStep)
    BY <1>3
  <2>3. QED
    BY <2>1, <2>2, ListFacts DEF AddDependent
<1>8. <<Marks(u.new, u.by)>> \in Seq(FinishStep)
  BY <1>2
<1>9. Steps(kind, u) = A \o B \o AddDependent(u) \o <<Marks(u.new, u.by)>>
  BY DEF Steps
<1>. HIDE DEF A, B
<1>10. A \o B \in Seq(FinishStep)
  BY <1>5, <1>6, ListFacts
<1>11. (A \o B) \o AddDependent(u) \in Seq(FinishStep)
  BY <1>7, <1>10, ListFacts
<1>12. QED
  BY <1>8, <1>9, <1>11, ListFacts

\* The steps that present the sources of r.
LEMMA LinksTyped ==
  ASSUME NEW r \in Live, NEW S \in SUBSET LiveEdge
  PROVE  Links(r, S) \in Seq(FinishStep) /\ Pointer(r) \in Seq(FinishStep)
<1>1. [do |-> "link", of |-> r, left |-> S] \in FinishStep
  BY DEF FinishStep
<1>2. [do |-> "pointer", of |-> r] \in FinishStep
  BY DEF FinishStep
<1>3. QED
  BY <1>1, <1>2, ListFacts DEF Links, Pointer

\* What the fields of a step hold.
LEMMA StepFacts ==
  ASSUME store \in [Asset -> Files], NEW s \in FinishStep
  PROVE  /\ s.do \in {"cache", "write"} => s.ref \in Node
         /\ s.do = "entry" => s.target \in Live /\ s.by \in Live /\ s.name \in Name
         /\ s.do = "remove" => s.target \in Commits /\ s.by \in Live
         /\ s.do = "marks" => s.target \in Live /\ s.target \in Node /\ s.by \in Live
         /\ s.do = "mark" => /\ s.left \subseteq Asset /\ s.by \in Live
                             /\ s = [do |-> "mark", left |-> s.left, by |-> s.by]
         /\ s.do = "link" => s.of \in Live /\ s.left \subseteq LiveEdge
         /\ s.do = "pointer" => s.of \in Live
BY LiveFacts DEF FinishStep

\* The step at hand.
LEMMA HeadFacts ==
  ASSUME Types, NEW p \in Proc, todo[p] # <<>>
  PROVE  Head(todo[p]) \in FinishStep /\ Tail(todo[p]) \in Seq(FinishStep)
BY ListFacts DEF Types, LocalTypes

-----------------------------------------------------------------------------
(* What reading does, and what the invariants depend on.                   *)

\* Copies of asset files are added, none is changed.
PoolGrows ==
    \A q \in Proc :
        /\ DOMAIN pool[q] \subseteq DOMAIN pool'[q]
        /\ \A a \in DOMAIN pool'[q] :
             pool'[q][a] = IF a \in DOMAIN pool[q] THEN pool[q][a] ELSE store[a]

\* Reading adds copies.
LEMMA ReadFacts ==
  ASSUME Types, Pooled, NEW p \in Proc, NEW S \in SUBSET Asset, Read(p, S)
  PROVE  pool' \in [Proc -> Pools] /\ PoolGrows
<1>1. pool \in [Proc -> Pools] /\ View(p) \in [Asset -> Files]
  BY SeenFacts DEF Types, LocalTypes
<1>2. PICK A \in SUBSET Asset : pool[p] \in [A -> Files]
  BY <1>1 DEF Pools
<1>. DEFINE f == [a \in A \cup S |-> View(p)[a]]
<1>3. pool' = [pool EXCEPT ![p] = f]
  BY <1>1, <1>2 DEF Read
<1>4. A \cup S \in SUBSET Asset /\ f \in [A \cup S -> Files]
  BY <1>1
<1>5. f \in Pools
  BY <1>4 DEF Pools
<1>6. \A a \in A \cup S : f[a] = IF a \in DOMAIN pool[p] THEN pool[p][a] ELSE store[a]
  BY <1>4 DEF View
<1>7. pool' \in [Proc -> Pools]
  BY <1>1, <1>3, <1>5
<1>8. PoolGrows
  BY <1>1, <1>2, <1>3, <1>6 DEF PoolGrows
<1>9. QED
  BY <1>7, <1>8

\* The copies of asset files stay older than the files.
LEMMA PooledKept ==
  ASSUME Types, Pooled, UNCHANGED <<store, unflushed>>, PoolGrows,
         \A q \in Proc : pc'[q] = "flush" =>
            pc[q] = "flush" /\ updates'[q] \subseteq updates[q] /\ shows'[q] \subseteq shows[q],
         \A q \in Proc : pc'[q] = "finish" =>
            /\ pc[q] = "finish" /\ updates'[q] \subseteq updates[q]
            /\ shows'[q] \subseteq shows[q] \cup Live
  PROVE  Pooled'
<1>1. Live' = Live
  BY SameStore
<1>2. \A a \in Asset : Extends(store[a], store[a])
  BY DEF Extends
<1>. SUFFICES ASSUME NEW q \in Proc
     PROVE /\ unflushed[q] \subseteq DOMAIN pool'[q]
           /\ \A a \in DOMAIN pool'[q] \ unflushed[q] : Extends(store[a], pool'[q][a])
           /\ pc'[q] = "flush" => \A a \in unflushed[q] : Extends(pool'[q][a], store[a])
           /\ pc'[q] = "flush" =>
                /\ \A u \in updates'[q] : u.by[1] \in DOMAIN pool'[q] /\ Exists(pool'[q], u.by)
                /\ \A r \in shows'[q] : r[1] \in DOMAIN pool'[q] /\ Exists(pool'[q], r)
           /\ pc'[q] = "finish" => shows'[q] \subseteq Live /\ \A u \in updates'[q] : u.by \in Live
  BY <1>1 DEF Pooled
<1>3. unflushed[q] \subseteq DOMAIN pool'[q]
  BY DEF PoolGrows, Pooled
<1>4. \A a \in DOMAIN pool'[q] : pool'[q][a] = IF a \in DOMAIN pool[q] THEN pool[q][a] ELSE store[a]
  BY DEF PoolGrows
<1>5. ASSUME NEW a \in DOMAIN pool'[q] \ unflushed[q] PROVE Extends(store[a], pool'[q][a])
  BY <1>4 DEF Pooled, Extends
<1>6. pc'[q] = "flush" => \A a \in unflushed[q] : Extends(pool'[q][a], store[a])
  BY <1>3, <1>4 DEF Pooled
<1>7. ASSUME pc'[q] = "flush"
      PROVE  /\ \A u \in updates'[q] : u.by[1] \in DOMAIN pool'[q] /\ Exists(pool'[q], u.by)
             /\ \A r \in shows'[q] : r[1] \in DOMAIN pool'[q] /\ Exists(pool'[q], r)
  BY <1>7, <1>4 DEF Pooled, PoolGrows, Exists
<1>8. pc'[q] = "finish" => shows'[q] \subseteq Live /\ \A u \in updates'[q] : u.by \in Live
  BY DEF Pooled
<1>9. QED
  BY <1>3, <1>5, <1>6, <1>7, <1>8

\* What no write and no check touches stays free of cycles.
LEMMA AcyclicKept ==
  ASSUME Types, Pooled, Acyclic, UNCHANGED store, PoolGrows,
         \A q \in Proc : pc'[q] = "update" => pc[q] = "update" /\ updates'[q] \subseteq updates[q],
         \A q \in Proc : pc'[q] = "flush" => pc[q] = "flush" /\ unflushed'[q] \subseteq unflushed[q]
  PROVE  Acyclic'
<1>1. \A r, a : Avoids(store, r, a)' = Avoids(store, r, a)
  BY SameStore
<1>2. \A a, f : Clean(store, a, f)' = Clean(store, a, f)
  BY <1>1 DEF Clean
<1>3. \A a \in Asset : Clean(store, a, store[a])'
  BY <1>2 DEF Acyclic
<1>4. ASSUME NEW q \in Proc, pc'[q] = "update", NEW u \in updates'[q] PROVE Avoids(store, u.new, u.by[1])'
  BY <1>1, <1>4 DEF Acyclic
<1>5. ASSUME NEW q \in Proc, pc'[q] = "flush", NEW a \in unflushed'[q] PROVE Clean(store, a, pool[q][a])'
  <2>1. pc[q] = "flush" /\ a \in unflushed[q] /\ a \in DOMAIN pool[q]
    BY <1>5 DEF Pooled
  <2>2. pool'[q][a] = pool[q][a]
    BY <2>1 DEF PoolGrows
  <2>3. QED
    BY <1>2, <2>1, <2>2 DEF Acyclic
<1>6. QED
  BY <1>3, <1>4, <1>5 DEF Acyclic

-----------------------------------------------------------------------------
(* The steps of Finish.                                                    *)

\* The parts of the invariant that speak of asset files and their copies.
LEMMA InvParts ==
  ASSUME Inv
  PROVE  /\ Types /\ Control /\ Apart /\ Pooled /\ Acyclic
         /\ store \in [Asset -> Files] /\ cache \in [Asset -> RightCache]
         /\ entries \subseteq LiveEntry /\ marked \subseteq Asset /\ cut \subseteq Asset
BY DEF Inv, Types, DiskTypes

\* Consumers are assets.
LEMMA ConsumersFacts ==
  ASSUME Types, NEW p \in Proc
  PROVE  Consumers(p) \in SUBSET Asset
<1>1. subs[p] \subseteq [asset : Asset, name : Name]
  BY DEF Types, LocalTypes
<1>2. {s.asset : s \in subs[p]} \subseteq Asset
  BY <1>1
<1>3. QED
  BY <1>2 DEF Consumers

\* A step of Finish, as far as the invariant is concerned: it shortens the list
\* of changes, and has for the rest what is known to exist.
LEMMA FinishInv ==
  ASSUME Inv, NEW p \in Proc, pc[p] = "finish",
         UNCHANGED <<store, running, pc, cmd, stack, subs, unflushed>>,
         cache' \in [Asset -> RightCache], entries' \subseteq LiveEntry,
         marked' \subseteq Asset, cut' \subseteq Asset,
         pool' \in [Proc -> Pools], PoolGrows,
         NEW T \in Seq(FinishStep), todo' = [todo EXCEPT ![p] = T],
         NEW U \in SUBSET updates[p], updates' = [updates EXCEPT ![p] = U],
         NEW H \in SUBSET Live, shows' = [shows EXCEPT ![p] = H],
         NEW F \in RightCache, file' = [file EXCEPT ![p] = F]
  PROVE  Inv'
<1>1. /\ Live' = Live /\ Commits' = Commits /\ Files' = Files /\ Pools' = Pools
      /\ RightCache' = RightCache /\ LiveEntry' = LiveEntry
      /\ Frame' = Frame /\ Change' = Change /\ FinishStep' = FinishStep
  BY SameStore
<1>2. Types /\ Control /\ Apart /\ Pooled /\ Acyclic
  BY InvParts
<1>3. Live \subseteq Node
  BY InvParts, LiveFacts
<1>4. /\ updates' \in [Proc -> SUBSET Change] /\ todo' \in [Proc -> Seq(FinishStep)]
      /\ shows' \in [Proc -> SUBSET Node] /\ file' \in [Proc -> RightCache]
  BY <1>2, <1>3 DEF Types, LocalTypes
<1>5. DiskTypes'
  BY <1>1, <1>2 DEF Types, DiskTypes
<1>6. LocalTypes'
  BY <1>1, <1>2, <1>4 DEF Types, LocalTypes
<1>7. \A q \in Proc : /\ q # p => /\ updates'[q] = updates[q] /\ shows'[q] = shows[q]
                                  /\ todo'[q] = todo[q]
                      /\ updates'[q] \subseteq updates[q]
                      /\ shows'[q] \subseteq shows[q] \cup Live
  BY <1>2 DEF Types, LocalTypes
<1>8. \A q \in Proc : Consumers(q)' = Consumers(q)
  BY DEF Consumers
<1>9. Control'
  BY <1>1, <1>2, <1>7, <1>8 DEF Control
<1>10. Apart'
  BY <1>2 DEF Apart
<1>11. Pooled'
  BY <1>2, <1>7, PooledKept
<1>12. Acyclic'
  BY <1>2, <1>7, AcyclicKept
<1>13. QED
  BY <1>5, <1>6, <1>9, <1>10, <1>11, <1>12 DEF Inv, Types

\* What a process has in Finish.
LEMMA FinishFacts ==
  ASSUME Inv, NEW p \in Proc, pc[p] = "finish"
  PROVE  /\ unflushed[p] = {} /\ shows[p] \subseteq Live
         /\ updates[p] \subseteq Change /\ \A u \in updates[p] : u.by \in Live
         /\ file[p] \in RightCache /\ todo[p] \in Seq(FinishStep)
         /\ pool \in [Proc -> Pools] /\ (UNCHANGED pool => PoolGrows)
         /\ todo = [todo EXCEPT ![p] = todo[p]]
         /\ updates = [updates EXCEPT ![p] = updates[p]]
         /\ shows = [shows EXCEPT ![p] = shows[p]]
         /\ file = [file EXCEPT ![p] = file[p]]
         /\ todo[p] # <<>> => /\ Head(todo[p]) \in FinishStep
                              /\ Tail(todo[p]) \in Seq(FinishStep)
<1>1. Types /\ Control /\ Pooled
  BY InvParts
<1>2. unflushed[p] = {} /\ shows[p] \subseteq Live /\ \A u \in updates[p] : u.by \in Live
  BY <1>1 DEF Control, Pooled
<1>3. /\ updates[p] \subseteq Change /\ file[p] \in RightCache /\ todo[p] \in Seq(FinishStep)
      /\ pool \in [Proc -> Pools]
      /\ todo = [todo EXCEPT ![p] = todo[p]]
      /\ updates = [updates EXCEPT ![p] = updates[p]]
      /\ shows = [shows EXCEPT ![p] = shows[p]]
      /\ file = [file EXCEPT ![p] = file[p]]
  BY <1>1 DEF Types, LocalTypes
<1>4. UNCHANGED pool => PoolGrows
  BY DEF PoolGrows
<1>5. todo[p] # <<>> => Head(todo[p]) \in FinishStep /\ Tail(todo[p]) \in Seq(FinishStep)
  BY <1>1, HeadFacts
<1>6. QED
  BY <1>2, <1>3, <1>4, <1>5

\* A change is turned into the steps that record it, on versions that exist.
LEMMA NextUpdateInv ==
  ASSUME Inv, NEW p \in Proc, NextUpdate(p) PROVE Inv'
<1>1. pc[p] = "finish"
  BY DEF NextUpdate
<1>2. PICK u \in updates[p] : /\ todo' = [todo EXCEPT ![p] = Steps(cmd[p].kind, u)]
                              /\ updates' = [updates EXCEPT ![p] = updates[p] \ {u}]
  BY DEF NextUpdate
<1>3. u \in Change /\ u.by \in Live /\ (cmd[p].kind \in {"pull", "push"} => u.old \in Commits)
  BY <1>1, FinishFacts, InvParts DEF Control
<1>4. Steps(cmd[p].kind, u) \in Seq(FinishStep)
  BY <1>3, StepsTyped, InvParts
<1>5. updates[p] \ {u} \in SUBSET updates[p]
  OBVIOUS
<1>6. /\ UNCHANGED <<store, cache, entries, marked, cut, running, pc, cmd, stack, subs, unflushed>>
      /\ UNCHANGED pool /\ shows' = shows /\ file' = file
  BY DEF NextUpdate, diskVars, graphVars
<1>7. QED
  BY <1>1, <1>2, <1>4, <1>5, <1>6, FinishInv, FinishFacts, InvParts

\* What is read of a cache is right, and so is the graph that is put into it.
LEMMA CacheReadInv ==
  ASSUME Inv, NEW p \in Proc, CacheRead(p) PROVE Inv'
<1>. DEFINE r == Head(todo[p]).ref
            E == Edges(View(p), r)
            F == [cache[r[1]] EXCEPT !.forward = With(@, r, E)]
            S == {x[1] : x \in Reached(View(p), r)}
            T == <<[do |-> "write", ref |-> r]>> \o Tail(todo[p])
<1>1. /\ pc[p] = "finish" /\ todo[p] # <<>> /\ Head(todo[p]).do = "cache"
      /\ Builds(View(p), r) /\ file' = [file EXCEPT ![p] = F] /\ Read(p, S)
      /\ todo' = [todo EXCEPT ![p] = T]
  BY DEF CacheRead, Do
<1>2. r \in Node /\ r[1] \in Asset
  BY <1>1, StepFacts, FinishFacts, InvParts DEF Node
<1>3. /\ r \in Live /\ E \in SUBSET LiveEdge
      /\ ~IsBranch(r) => E = Edges(store, r)
  BY <1>1, <1>2, BuiltFacts, FinishFacts, InvParts
<1>4. F \in RightCache
  <2>1. cache[r[1]] \in RightCache
    BY <1>2, InvParts
  <2>2. QED
    BY <1>3, <2>1, WithRight
<1>5. S \in SUBSET Asset
  <2>1. Reached(View(p), r) \subseteq Node
    BY <1>2, SeenFacts, ViewFacts, ReachedRules, InvParts
  <2>2. QED
    BY <2>1 DEF Node
<1>6. pool' \in [Proc -> Pools] /\ PoolGrows
  BY <1>1, <1>5, ReadFacts, InvParts
<1>7. T \in Seq(FinishStep)
  <2>1. [do |-> "write", ref |-> r] \in FinishStep
    BY <1>2 DEF FinishStep
  <2>2. QED
    BY <1>1, <2>1, FinishFacts, ListFacts
<1>8. /\ UNCHANGED <<store, cache, entries, marked, cut, running, pc, cmd, stack, subs, unflushed>>
      /\ updates' = updates /\ shows' = shows
  BY DEF CacheRead, diskVars, graphVars
<1>. HIDE DEF F, T, S
<1>9. QED
  BY <1>1, <1>4, <1>6, <1>7, <1>8, FinishInv, FinishFacts, InvParts

\* A cache that is written is right, whoever wrote another one meanwhile.
LEMMA CacheWriteInv ==
  ASSUME Inv, NEW p \in Proc, CacheWrite(p) PROVE Inv'
<1>1. /\ pc[p] = "finish" /\ todo[p] # <<>> /\ Head(todo[p]).do = "write"
      /\ cache' = [cache EXCEPT ![Head(todo[p]).ref[1]] = file[p]]
      /\ file' = [file EXCEPT ![p] = NoCache] /\ todo' = [todo EXCEPT ![p] = Tail(todo[p])]
  BY DEF CacheWrite, Do, Done
<1>2. file[p] \in RightCache /\ cache \in [Asset -> RightCache]
  BY <1>1, FinishFacts, InvParts
<1>3. cache' \in [Asset -> RightCache]
  BY <1>1, <1>2
<1>4. /\ UNCHANGED <<store, entries, marked, cut, running, pc, cmd, stack, subs, unflushed>>
      /\ UNCHANGED pool /\ updates' = updates /\ shows' = shows
  BY DEF CacheWrite
<1>5. QED
  BY <1>1, <1>3, <1>4, NoCacheRight, FinishInv, FinishFacts, InvParts

\* An entry that is made is one between versions that exist.
LEMMA AddEntryInv ==
  ASSUME Inv, NEW p \in Proc, AddEntry(p) PROVE Inv'
<1>. DEFINE s == Head(todo[p])
<1>1. /\ pc[p] = "finish" /\ todo[p] # <<>> /\ s.do = "entry"
      /\ entries' = Others(s.target, s.by)
                      \cup {[target |-> s.target, by |-> s.by, name |-> s.name]}
      /\ todo' = [todo EXCEPT ![p] = Tail(todo[p])]
  BY DEF AddEntry, Do, Done
<1>2. s.target \in Live /\ s.by \in Live /\ s.name \in Name
  BY <1>1, StepFacts, FinishFacts, InvParts
<1>3. entries' \subseteq LiveEntry
  BY <1>1, <1>2, InvParts DEF Others, LiveEntry
<1>4. /\ UNCHANGED <<store, cache, marked, cut, running, pc, cmd, stack, subs, unflushed>>
      /\ UNCHANGED pool /\ updates' = updates /\ shows' = shows /\ file' = file
  BY DEF AddEntry
<1>5. QED
  BY <1>1, <1>3, <1>4, FinishInv, FinishFacts, InvParts

\* Entries that are taken back leave the others as they are.
LEMMA RemoveDependentInv ==
  ASSUME Inv, NEW p \in Proc, RemoveDependent(p) PROVE Inv'
<1>1. /\ pc[p] = "finish" /\ todo[p] # <<>>
      /\ entries' = Others(Head(todo[p]).target, Head(todo[p]).by)
      /\ todo' = [todo EXCEPT ![p] = Tail(todo[p])]
  BY DEF RemoveDependent, Do, Done
<1>2. entries' \subseteq LiveEntry
  BY <1>1, InvParts DEF Others
<1>3. /\ UNCHANGED <<store, cache, marked, cut, running, pc, cmd, stack, subs, unflushed>>
      /\ UNCHANGED pool /\ updates' = updates /\ shows' = shows /\ file' = file
  BY DEF RemoveDependent
<1>4. QED
  BY <1>1, <1>2, <1>3, FinishInv, FinishFacts, InvParts

\* What a walk looks at are assets.
LEMMA WalkedFacts ==
  ASSUME Inv, NEW p \in Proc, NEW r \in Node
  PROVE  Walked(p, r) \in SUBSET Asset
<1>1. Reached(View(p), r) \subseteq Node
  BY SeenFacts, ViewFacts, ReachedRules, InvParts
<1>2. QED
  BY <1>1 DEF Node, Walked

\* The assets of a graph.
LEMMA AssetsFacts ==
  ASSUME store \in [Asset -> Files], NEW r \in Node, NEW E \in SUBSET LiveEdge
  PROVE  AssetsOf(r, E) \in SUBSET Asset
<1>1. \A e \in E : e.provider \in Node
  BY LiveFacts DEF LiveEdge
<1>2. QED
  BY <1>1 DEF AssetsOf, Node

\* What is to be marked are assets.
LEMMA MarkDependentsStaleInv ==
  ASSUME Inv, NEW p \in Proc, MarkDependentsStale(p) PROVE Inv'
<1>. DEFINE t == Head(todo[p]).target
            s == [do |-> "mark", left |-> AssetsOf(t, Graph(p, t)), by |-> Head(todo[p]).by]
            T == <<s>> \o Tail(todo[p])
<1>1. /\ pc[p] = "finish" /\ todo[p] # <<>> /\ Head(todo[p]).do = "marks" /\ Known(p, t)
      /\ todo' = [todo EXCEPT ![p] = T] /\ Read(p, Walked(p, t))
  BY DEF MarkDependentsStale, Do
<1>2. t \in Node /\ Head(todo[p]).by \in Live
  BY <1>1, StepFacts, FinishFacts, InvParts
<1>3. Graph(p, t) \in SUBSET LiveEdge
  BY <1>1, <1>2, KnownFacts, FinishFacts, InvParts
<1>4. s \in FinishStep
  BY <1>2, <1>3, AssetsFacts, InvParts DEF FinishStep
<1>5. T \in Seq(FinishStep)
  BY <1>1, <1>4, FinishFacts, ListFacts
<1>6. pool' \in [Proc -> Pools] /\ PoolGrows
  BY <1>1, <1>2, WalkedFacts, ReadFacts, InvParts
<1>7. /\ UNCHANGED <<store, cache, entries, marked, cut, running, pc, cmd, stack, subs, unflushed>>
      /\ updates' = updates /\ shows' = shows /\ file' = file
  BY DEF MarkDependentsStale, diskVars, graphVars
<1>. HIDE DEF T
<1>8. QED
  BY <1>1, <1>5, <1>6, <1>7, FinishInv, FinishFacts, InvParts

\* A marker is one of an asset; what is then presented exists.
LEMMA TouchMarkerInv ==
  ASSUME Inv, NEW p \in Proc, TouchMarker(p) PROVE Inv'
<1>. DEFINE s == Head(todo[p])
<1>1. /\ pc[p] = "finish" /\ todo[p] # <<>> /\ s.do = "mark"
  BY DEF TouchMarker, Do
<1>2. PICK a \in s.left :
         /\ marked' = marked \cup {a}
         /\ IF s.left = {a}
              THEN /\ todo' = [todo EXCEPT ![p] = Tail(todo[p])]
                   /\ shows' = [shows EXCEPT ![p] =
                                  IF Tail(todo[p]) = <<>> THEN shows[p] \cup {s.by} ELSE shows[p]]
              ELSE /\ todo' = [todo EXCEPT ![p] =
                                 <<[s EXCEPT !.left = s.left \ {a}]>> \o Tail(todo[p])]
                   /\ UNCHANGED shows
  BY DEF TouchMarker, Done
<1>3. s.left \subseteq Asset /\ s.by \in Live /\ s = [do |-> "mark", left |-> s.left, by |-> s.by]
  BY <1>1, StepFacts, FinishFacts, InvParts
<1>4. marked' \subseteq Asset
  BY <1>2, <1>3, InvParts
<1>5. /\ UNCHANGED <<store, cache, entries, cut, running, pc, cmd, stack, subs, unflushed>>
      /\ UNCHANGED pool /\ updates' = updates /\ file' = file
  BY DEF TouchMarker
<1>6. CASE s.left = {a}
  <2>1. (IF Tail(todo[p]) = <<>> THEN shows[p] \cup {s.by} ELSE shows[p]) \in SUBSET Live
    BY <1>1, <1>3, FinishFacts
  <2>2. QED
    BY <1>1, <1>2, <1>4, <1>5, <1>6, <2>1, FinishInv, FinishFacts, InvParts
<1>7. CASE s.left # {a}
  <2>. DEFINE T == <<[s EXCEPT !.left = s.left \ {a}]>> \o Tail(todo[p])
  <2>1. [s EXCEPT !.left = s.left \ {a}] = [do |-> "mark", left |-> s.left \ {a}, by |-> s.by]
    BY <1>3
  <2>2. [do |-> "mark", left |-> s.left \ {a}, by |-> s.by] \in FinishStep
    BY <1>3 DEF FinishStep
  <2>3. T \in Seq(FinishStep)
    BY <1>1, <2>1, <2>2, FinishFacts, ListFacts
  <2>4. todo' = [todo EXCEPT ![p] = T] /\ shows' = shows
    BY <1>2, <1>7
  <2>. HIDE DEF T
  <2>5. QED
    BY <1>1, <1>4, <1>5, <2>3, <2>4, FinishInv, FinishFacts, InvParts
<1>8. QED
  BY <1>6, <1>7

\* A failed step leaves fewer changes and steps.
LEMMA FinishFailsInv ==
  ASSUME Inv, NEW p \in Proc, FinishFails(p) PROVE Inv'
<1>. DEFINE T == IF Head(todo[p]).do \in {"cache", "write", "entry"} THEN <<>> ELSE Tail(todo[p])
            U == IF cmd[p].kind = "snapshot" THEN {} ELSE updates[p]
<1>1. /\ pc[p] = "finish" /\ todo[p] # <<>>
      /\ todo' = [todo EXCEPT ![p] = T] /\ updates' = [updates EXCEPT ![p] = U]
      /\ cut' = cut \cup Consumers(p) /\ file' = [file EXCEPT ![p] = NoCache]
  BY DEF FinishFails
<1>2. T \in Seq(FinishStep)
  BY <1>1, FinishFacts, ListFacts
<1>3. U \in SUBSET updates[p] /\ cut' \subseteq Asset
  BY <1>1, ConsumersFacts, InvParts
<1>4. /\ UNCHANGED <<store, cache, entries, marked, running, pc, cmd, stack, subs, unflushed>>
      /\ UNCHANGED pool /\ shows' = shows
  BY DEF FinishFails, diskVars, graphVars
<1>. HIDE DEF T, U
<1>5. QED
  BY <1>1, <1>2, <1>3, <1>4, NoCacheRight, FinishInv, FinishFacts, InvParts

\* The links of a branch that are to be made are between versions that exist.
LEMMA PresentSourcesInv ==
  ASSUME Inv, NEW p \in Proc, PresentSources(p) PROVE Inv'
<1>1. PICK r \in shows[p] :
         /\ IsBranch(r) /\ pc[p] = "finish" /\ shows' = [shows EXCEPT ![p] = shows[p] \ {r}]
         /\ todo' = [todo EXCEPT ![p] =
              Links(r, {Edge(r, Sources(View(p), r)[n].pin, n) : n \in DOMAIN Sources(View(p), r)})]
  BY DEF PresentSources, Shown
<1>. DEFINE S == {Edge(r, Sources(View(p), r)[n].pin, n) : n \in DOMAIN Sources(View(p), r)}
<1>2. r \in Live /\ r \in Node /\ shows[p] \ {r} \in SUBSET Live
  BY <1>1, FinishFacts, LiveFacts, InvParts
<1>3. S \in SUBSET LiveEdge
  <2>1. r[1] \in Asset /\ r[2] = 0 /\ View(p)[r[1]] \in Files
    BY <1>1, <1>2, SeenFacts, InvParts DEF Node, IsBranch
  <2>2. ASSUME NEW n \in DOMAIN Sources(View(p), r)
        PROVE  Edge(r, Sources(View(p), r)[n].pin, n) \in LiveEdge
    <3>1. n \in Name /\ Sources(View(p), r)[n].pin \in Live
      BY <2>1, FileFacts DEF Sources, Commits
    <3>2. QED
      BY <1>2, <3>1 DEF Edge, LiveEdge
  <2>3. QED
    BY <2>2
<1>. HIDE DEF S
<1>4. Links(r, S) \in Seq(FinishStep)
  BY <1>2, <1>3, LinksTyped
<1>5. todo' = [todo EXCEPT ![p] = Links(r, S)]
  BY <1>1 DEF S
<1>6. /\ UNCHANGED <<store, cache, entries, marked, cut, running, pc, cmd, stack, subs, unflushed>>
      /\ UNCHANGED pool /\ updates' = updates /\ file' = file
  BY DEF PresentSources, diskVars, graphVars
<1>7. QED
  BY <1>1, <1>2, <1>4, <1>5, <1>6, FinishInv, FinishFacts, InvParts

\* So are those of a commit, by a graph that is cached or built.
LEMMA PresentCommitInv ==
  ASSUME Inv, NEW p \in Proc, PresentCommit(p) PROVE Inv'
<1>1. PICK r \in shows[p] :
         /\ ~IsBranch(r) /\ pc[p] = "finish" /\ shows' = [shows EXCEPT ![p] = shows[p] \ {r}]
         /\ Known(p, r)
         /\ todo' = [todo EXCEPT ![p] = Links(r, {e \in Graph(p, r) : e.consumer = r}) \o Pointer(r)]
         /\ Read(p, Walked(p, r))
  BY DEF PresentCommit, Shown
<1>. DEFINE S == {e \in Graph(p, r) : e.consumer = r}
            T == Links(r, S) \o Pointer(r)
<1>2. r \in Live /\ r \in Node /\ shows[p] \ {r} \in SUBSET Live
  BY <1>1, FinishFacts, LiveFacts, InvParts
<1>3. S \in SUBSET LiveEdge
  BY <1>1, <1>2, KnownFacts, FinishFacts, InvParts
<1>4. T \in Seq(FinishStep)
  BY <1>2, <1>3, LinksTyped, ListFacts
<1>5. pool' \in [Proc -> Pools] /\ PoolGrows
  BY <1>1, <1>2, WalkedFacts, ReadFacts, InvParts
<1>6. /\ UNCHANGED <<store, cache, entries, marked, cut, running, pc, cmd, stack, subs, unflushed>>
      /\ updates' = updates /\ file' = file
  BY DEF PresentCommit, graphVars
<1>7. todo' = [todo EXCEPT ![p] = T]
  BY <1>1
<1>. HIDE DEF T
<1>8. QED
  BY <1>1, <1>2, <1>4, <1>5, <1>6, <1>7, FinishInv, FinishFacts, InvParts

\* A commit presented without a graph gets its pointer.
LEMMA PresentCommitAloneInv ==
  ASSUME Inv, NEW p \in Proc, PresentCommitAlone(p) PROVE Inv'
<1>1. PICK r \in shows[p] :
         /\ pc[p] = "finish" /\ shows' = [shows EXCEPT ![p] = shows[p] \ {r}]
         /\ todo' = [todo EXCEPT ![p] = Pointer(r)] /\ cut' = cut \cup {r[1]}
  BY DEF PresentCommitAlone, Shown
<1>2. r \in Live /\ r[1] \in Asset /\ shows[p] \ {r} \in SUBSET Live
  BY <1>1, FinishFacts, LiveFacts, InvParts DEF Node
<1>3. Pointer(r) \in Seq(FinishStep)
  BY <1>2, LinksTyped
<1>4. cut' \subseteq Asset
  BY <1>1, <1>2, InvParts
<1>5. /\ UNCHANGED <<store, cache, entries, marked, running, pc, cmd, stack, subs, unflushed>>
      /\ UNCHANGED pool /\ updates' = updates /\ file' = file
  BY DEF PresentCommitAlone, graphVars
<1>6. QED
  BY <1>1, <1>2, <1>3, <1>4, <1>5, FinishInv, FinishFacts, InvParts

\* A link that is made is taken off the list.
LEMMA LinkSourceInv ==
  ASSUME Inv, NEW p \in Proc, LinkSource(p) PROVE Inv'
<1>. DEFINE s == Head(todo[p])
<1>1. pc[p] = "finish" /\ todo[p] # <<>> /\ s.do = "link"
  BY DEF LinkSource, Do
<1>2. PICK e \in s.left :
         \/ todo' = [todo EXCEPT ![p] = Links(s.of, s.left \ {e}) \o Tail(todo[p])]
         \/ todo' = [todo EXCEPT ![p] = <<>>]
  BY DEF LinkSource
<1>3. s.of \in Live /\ s.left \subseteq LiveEdge
  BY <1>1, StepFacts, FinishFacts, InvParts
<1>4. Links(s.of, s.left \ {e}) \o Tail(todo[p]) \in Seq(FinishStep) /\ <<>> \in Seq(FinishStep)
  BY <1>1, <1>3, LinksTyped, FinishFacts, ListFacts
<1>5. /\ UNCHANGED <<store, cache, entries, marked, cut, running, pc, cmd, stack, subs, unflushed>>
      /\ UNCHANGED pool /\ updates' = updates /\ file' = file /\ shows' = shows
  BY DEF LinkSource, graphVars
<1>6. PICK T \in Seq(FinishStep) : todo' = [todo EXCEPT ![p] = T]
  BY <1>2, <1>4
<1>7. QED
  BY <1>1, <1>5, <1>6, FinishInv, FinishFacts, InvParts

\* So is a pointer.
LEMMA WritePointerInv ==
  ASSUME Inv, NEW p \in Proc, WritePointer(p) PROVE Inv'
<1>1. pc[p] = "finish" /\ todo[p] # <<>> /\ todo' = [todo EXCEPT ![p] = Tail(todo[p])]
  BY DEF WritePointer, Do, Done
<1>2. /\ UNCHANGED <<store, cache, entries, marked, cut, running, pc, cmd, stack, subs, unflushed>>
      /\ UNCHANGED pool /\ updates' = updates /\ file' = file /\ shows' = shows
  BY DEF WritePointer, graphVars
<1>3. QED
  BY <1>1, <1>2, FinishInv, FinishFacts, InvParts

\* A failed presentation gives up its list.
LEMMA PresentFailsInv ==
  ASSUME Inv, NEW p \in Proc, PresentFails(p) PROVE Inv'
<1>. DEFINE s == Head(todo[p])
<1>1. /\ pc[p] = "finish" /\ todo[p] # <<>> /\ s.do \in {"link", "pointer"}
      /\ todo' = [todo EXCEPT ![p] = <<>>] /\ cut' = cut \cup {s.of[1]}
  BY DEF PresentFails, Do
<1>2. s.of \in Node
  BY <1>1, StepFacts, FinishFacts, LiveFacts, InvParts
<1>3. cut' \subseteq Asset
  BY <1>1, <1>2, InvParts DEF Node
<1>4. /\ UNCHANGED <<store, cache, entries, marked, running, pc, cmd, stack, subs, unflushed>>
      /\ UNCHANGED pool /\ updates' = updates /\ file' = file /\ shows' = shows
  BY DEF PresentFails, graphVars
<1>5. <<>> \in Seq(FinishStep)
  OBVIOUS
<1>6. QED
  BY <1>1, <1>3, <1>4, <1>5, FinishInv, FinishFacts, InvParts

-----------------------------------------------------------------------------
(* The steps that only go from one part of a command to the next.          *)

\* A process leaves off what it was at, and has not begun to write.
LEMMA MoveInv ==
  ASSUME Inv, NEW p \in Proc, UNCHANGED <<store, graphVars, running, cmd, pool, subs, updates,
                                          unflushed, todo, shows, file>>,
         cut' \subseteq Asset, stack' = [stack EXCEPT ![p] = <<>>],
         \/ pc[p] \in {"begin", "validate", "update", "flush", "finish", "discover"} /\ Goto(p, "end")
         \/ pc[p] = "flush" /\ unflushed[p] = {} /\ Goto(p, "finish")
  PROVE  Inv'
<1>1. /\ Live' = Live /\ Commits' = Commits /\ Files' = Files /\ Pools' = Pools
      /\ RightCache' = RightCache /\ LiveEntry' = LiveEntry
      /\ Frame' = Frame /\ Change' = Change /\ FinishStep' = FinishStep
  BY SameStore
<1>2. Types /\ Control /\ Apart /\ Pooled /\ Acyclic
  BY InvParts
<1>3. /\ pc \in [Proc -> PC] /\ stack \in [Proc -> Seq(Frame)] /\ <<>> \in Seq(Frame)
  BY <1>2 DEF Types, LocalTypes
<1>4. /\ \A q \in Proc \ {p} : pc'[q] = pc[q]
      /\ \/ pc'[p] = "end"
         \/ pc[p] = "flush" /\ unflushed[p] = {} /\ pc'[p] = "finish"
      /\ pc' \in [Proc -> PC]
  BY <1>3 DEF Goto, PC
<1>5. stack' \in [Proc -> Seq(Frame)] /\ stack'[p] = <<>> /\ \A q \in Proc \ {p} : stack'[q] = stack[q]
  BY <1>3
<1>6. Types'
  BY <1>1, <1>2, <1>4, <1>5 DEF Types, DiskTypes, LocalTypes, graphVars
<1>7. \A q \in Proc : Consumers(q)' = Consumers(q)
  BY DEF Consumers
<1>8. Control'
  <2>1. ASSUME NEW q \in Proc \ {p}
        PROVE  /\ pc'[q] = pc[q] /\ cmd'[q] = cmd[q] /\ running'[q] = running[q]
               /\ stack'[q] = stack[q] /\ Consumers(q)' = Consumers(q)
               /\ unflushed'[q] = unflushed[q] /\ updates'[q] = updates[q] /\ todo'[q] = todo[q]
               /\ shows'[q] = shows[q]
    BY <1>4, <1>5, <1>7
  <2>2. /\ pc'[p] \in {"end", "finish"} /\ cmd'[p] = cmd[p] /\ running'[p] = running[p]
        /\ stack'[p] = <<>> /\ Consumers(p)' = Consumers(p)
        /\ unflushed'[p] = unflushed[p] /\ updates'[p] = updates[p] /\ todo'[p] = todo[p]
        /\ shows'[p] = shows[p]
        /\ pc'[p] = "finish" => pc[p] = "flush" /\ unflushed[p] = {}
    BY <1>4, <1>5, <1>7
  <2>3. QED
    BY <1>1, <1>2, <2>1, <2>2 DEF Control
<1>9. Apart'
  BY <1>2 DEF Apart
<1>10. Acyclic'
  <2>1. PoolGrows
    BY DEF PoolGrows
  <2>2. QED
    BY <1>2, <1>4, <2>1, AcyclicKept
<1>11. Pooled'
  <2>1. \A a \in Asset : store'[a] = store[a]
    OBVIOUS
  <2>2. ASSUME NEW q \in Proc, pc'[q] = "finish"
        PROVE  shows[q] \subseteq Live /\ \A u \in updates[q] : u.by \in Live
    <3>1. CASE pc[q] = "finish"
      BY <1>2, <3>1 DEF Pooled
    <3>2. CASE pc[q] # "finish"
      <4>1. q = p /\ pc[p] = "flush" /\ unflushed[p] = {}
        BY <1>4, <2>2, <3>2
      <4>2. pool[p] \in Pools /\ updates[p] \subseteq Change /\ shows[p] \subseteq Node
        BY <1>2 DEF Types, LocalTypes
      <4>3. ASSUME NEW x \in Node, x[1] \in DOMAIN pool[p], Exists(pool[p], x) PROVE x \in Live
        <5>1. Extends(store[x[1]], pool[p][x[1]])
          BY <1>2, <4>1, <4>3 DEF Pooled
        <5>2. QED
          BY <4>3, <5>1, InvParts, LiveFacts DEF Extends, Exists
      <4>4. QED
        BY <1>2, <4>1, <4>2, <4>3 DEF Pooled, Change
    <3>3. QED
      BY <3>1, <3>2
  <2>3. \A q \in Proc : pc'[q] = "flush" => pc[q] = "flush"
    BY <1>4
  <2>4. QED
    BY <1>1, <1>2, <2>2, <2>3 DEF Pooled
<1>12. QED
  BY <1>6, <1>8, <1>9, <1>10, <1>11 DEF Inv

\* Steps that change only where a process is, and what is cut short.
LEMMA MovesInv ==
  ASSUME Inv, NEW p \in Proc,
         \/ Conflicts(p) \/ Invalid(p) \/ UpdateFails(p) \/ EndFlush(p) \/ FlushFails(p)
         \/ EndFinish(p) \/ DiscoverFails(p)
  PROVE  Inv'
<1>1. Types /\ Control /\ cut \subseteq Asset
  BY InvParts
<1>2. pc[p] # "discover" => stack = [stack EXCEPT ![p] = <<>>]
  BY <1>1 DEF Types, LocalTypes, Control
<1>3. Consumers(p) \in SUBSET Asset
  BY <1>1, ConsumersFacts
<1>4. CASE Conflicts(p)
  <2>1. UNCHANGED <<store, graphVars, running, cmd, pool, subs, updates, unflushed, todo, shows, file>>
    BY <1>4 DEF Conflicts, diskVars, localVars
  <2>2. pc[p] = "begin" /\ Goto(p, "end") /\ UNCHANGED <<stack, cut>>
    BY <1>4 DEF Conflicts, localVars
  <2>3. QED
    BY <1>1, <1>2, <2>1, <2>2, MoveInv
<1>5. CASE Invalid(p)
  <2>1. UNCHANGED <<store, graphVars, running, cmd, pool, subs, updates, unflushed, todo, shows, file>>
    BY <1>5 DEF Invalid, diskVars, localVars
  <2>2. pc[p] = "validate" /\ Goto(p, "end") /\ UNCHANGED <<stack, cut>>
    BY <1>5 DEF Invalid, localVars
  <2>3. QED
    BY <1>1, <1>2, <2>1, <2>2, MoveInv
<1>6. CASE UpdateFails(p)
  <2>1. UNCHANGED <<store, graphVars, running, cmd, pool, subs, updates, unflushed, todo, shows, file>>
    BY <1>6 DEF UpdateFails, diskVars, localVars
  <2>2. pc[p] = "update" /\ Goto(p, "end") /\ UNCHANGED <<stack, cut>>
    BY <1>6 DEF UpdateFails, localVars
  <2>3. QED
    BY <1>1, <1>2, <2>1, <2>2, MoveInv
<1>7. CASE EndFlush(p)
  <2>1. UNCHANGED <<store, graphVars, running, cmd, pool, subs, updates, unflushed, todo, shows, file>>
    BY <1>7 DEF EndFlush, diskVars, localVars
  <2>2. pc[p] = "flush" /\ unflushed[p] = {} /\ Goto(p, "finish") /\ UNCHANGED <<stack, cut>>
    BY <1>7 DEF EndFlush, localVars
  <2>3. QED
    BY <1>1, <1>2, <2>1, <2>2, MoveInv
<1>8. CASE FlushFails(p)
  <2>1. UNCHANGED <<store, graphVars, running, cmd, pool, subs, updates, unflushed, todo, shows, file>>
    BY <1>8 DEF FlushFails, diskVars, localVars
  <2>2. pc[p] = "flush" /\ Goto(p, "end") /\ UNCHANGED stack /\ cut' \subseteq Asset
    BY <1>1, <1>3, <1>8 DEF FlushFails, localVars
  <2>3. QED
    BY <1>2, <2>1, <2>2, MoveInv
<1>9. CASE EndFinish(p)
  <2>1. UNCHANGED <<store, graphVars, running, cmd, pool, subs, updates, unflushed, todo, shows, file>>
    BY <1>9 DEF EndFinish, diskVars, localVars
  <2>2. pc[p] = "finish" /\ Goto(p, "end") /\ UNCHANGED <<stack, cut>>
    BY <1>9 DEF EndFinish, localVars
  <2>3. QED
    BY <1>1, <1>2, <2>1, <2>2, MoveInv
<1>10. CASE DiscoverFails(p)
  <2>1. UNCHANGED <<store, graphVars, running, cmd, pool, subs, updates, unflushed, todo, shows, file>>
    BY <1>10 DEF DiscoverFails, diskVars
  <2>2. pc[p] = "discover" /\ Goto(p, "end") /\ UNCHANGED cut /\ stack' = [stack EXCEPT ![p] = <<>>]
    BY <1>10 DEF DiscoverFails
  <2>3. QED
    BY <1>1, <2>1, <2>2, MoveInv
<1>11. QED
  BY <1>4, <1>5, <1>6, <1>7, <1>8, <1>9, <1>10

-----------------------------------------------------------------------------
(* The start of a command, and the search of a push for consumers.         *)

\* A command is given: it has nothing in its hands yet.
LEMMA StartInv ==
  ASSUME Inv, NEW p \in Proc, NEW c \in Commands, Start(p, c) PROVE Inv'
<1>1. /\ Live' = Live /\ Commits' = Commits /\ Files' = Files /\ Pools' = Pools
      /\ RightCache' = RightCache /\ LiveEntry' = LiveEntry
      /\ Frame' = Frame /\ Change' = Change /\ FinishStep' = FinishStep
  BY SameStore DEF Start, diskVars
<1>2. Types /\ Control /\ Apart /\ Pooled /\ Acyclic
  BY InvParts
<1>3. /\ UNCHANGED <<store, cache, entries, marked, cut, running, pool, stack, subs>>
      /\ UNCHANGED <<updates, unflushed, todo, shows, file>>
  BY DEF Start, diskVars, graphVars
<1>4. /\ pc[p] = "idle" /\ pc' = [pc EXCEPT ![p] = IF c.kind = "push" THEN "discover" ELSE "begin"]
      /\ cmd' = [cmd EXCEPT ![p] = c]
  BY DEF Start, Goto
<1>5. pc \in [Proc -> PC] /\ cmd \in [Proc -> Commands \cup {NoCommand}]
  BY <1>2 DEF Types, LocalTypes
<1>6. pc' \in [Proc -> PC] /\ cmd' \in [Proc -> Commands \cup {NoCommand}]
  BY <1>4, <1>5 DEF PC
<1>7. Types'
  BY <1>1, <1>2, <1>3, <1>6 DEF Types, DiskTypes, LocalTypes
<1>8. \A q \in Proc \ {p} : pc'[q] = pc[q] /\ cmd'[q] = cmd[q] /\ Consumers(q)' = Consumers(q)
  BY <1>3, <1>4, <1>5 DEF Consumers
<1>9. /\ pc'[p] \in {"discover", "begin"} /\ (pc'[p] = "discover" => cmd'[p].kind = "push")
      /\ running'[p] = {} /\ stack'[p] = <<>> /\ unflushed'[p] = {} /\ updates'[p] = {}
      /\ todo'[p] = <<>> /\ shows'[p] = {}
  BY <1>2, <1>3, <1>4, <1>5 DEF Control
<1>10. Control'
  BY <1>1, <1>2, <1>3, <1>8, <1>9 DEF Control
<1>11. Apart'
  BY <1>2, <1>3 DEF Apart
<1>12. PoolGrows
  BY <1>3 DEF PoolGrows
<1>13. Pooled'
  BY <1>2, <1>3, <1>8, <1>9, <1>12, PooledKept
<1>14. Acyclic'
  BY <1>2, <1>3, <1>8, <1>9, <1>12, AcyclicKept
<1>15. QED
  BY <1>7, <1>10, <1>11, <1>13, <1>14 DEF Inv

\* A step of the search, as far as the invariant is concerned.
LEMMA SearchInv ==
  ASSUME Inv, NEW p \in Proc, pc[p] = "discover",
         UNCHANGED <<store, entries, running, cmd, updates, unflushed, todo, shows, file, cut>>,
         cache' \in [Asset -> RightCache], marked' \subseteq Asset,
         pool' \in [Proc -> Pools], PoolGrows,
         NEW K \in Seq(Frame), stack' = [stack EXCEPT ![p] = K],
         NEW B \in SUBSET [asset : Asset, name : Name], subs' = [subs EXCEPT ![p] = B],
         NEW l \in {"discover", "begin", "end"}, pc' = [pc EXCEPT ![p] = l],
         K # <<>> => l = "discover"
  PROVE  Inv'
<1>1. /\ Live' = Live /\ Commits' = Commits /\ Files' = Files /\ Pools' = Pools
      /\ RightCache' = RightCache /\ LiveEntry' = LiveEntry
      /\ Frame' = Frame /\ Change' = Change /\ FinishStep' = FinishStep
  BY SameStore
<1>2. Types /\ Control /\ Apart /\ Pooled /\ Acyclic
  BY InvParts
<1>3. /\ pc \in [Proc -> PC] /\ stack \in [Proc -> Seq(Frame)]
      /\ subs \in [Proc -> SUBSET [asset : Asset, name : Name]]
  BY <1>2 DEF Types, LocalTypes
<1>4. /\ pc' \in [Proc -> PC] /\ stack' \in [Proc -> Seq(Frame)]
      /\ subs' \in [Proc -> SUBSET [asset : Asset, name : Name]]
  BY <1>3 DEF PC
<1>5. Types'
  BY <1>1, <1>2, <1>4 DEF Types, DiskTypes, LocalTypes
<1>6. \A q \in Proc \ {p} : pc'[q] = pc[q] /\ stack'[q] = stack[q] /\ Consumers(q)' = Consumers(q)
  BY <1>3 DEF Consumers
<1>7. /\ pc'[p] = l /\ stack'[p] = K /\ cmd[p].kind = "push"
      /\ running[p] = {} /\ unflushed[p] = {} /\ updates[p] = {} /\ todo[p] = <<>> /\ shows[p] = {}
  BY <1>2, <1>3 DEF Control
<1>8. Control'
  BY <1>1, <1>2, <1>6, <1>7 DEF Control
<1>9. Apart'
  BY <1>2 DEF Apart
<1>10. Pooled'
  BY <1>2, <1>6, <1>7, PooledKept
<1>11. Acyclic'
  BY <1>2, <1>6, <1>7, AcyclicKept
<1>12. QED
  BY <1>5, <1>8, <1>9, <1>10, <1>11 DEF Inv

\* A call starts with what is in the cache and all entries.
LEMMA CallTyped ==
  ASSUME Inv, NEW r \in Live
  PROVE  Call(r) \in Frame /\ (Hit(r) => cache[r[1]].reverse[r] \subseteq LiveEdge)
<1>1. r[1] \in Asset /\ cache[r[1]] \in RightCache
  BY LiveFacts, InvParts DEF Node
<1>2. Call(r) \in Frame
  BY <1>1, InvParts DEF Call, Frame
<1>3. Hit(r) => cache[r[1]].reverse[r] \subseteq LiveEdge
  BY <1>1, CacheParts DEF Hit
<1>4. QED
  BY <1>2, <1>3

\* What a push finds, and where it goes on.
LEMMA FoundFacts ==
  ASSUME Inv, NEW p \in Proc, NEW g \in SUBSET LiveEdge, Found(p, g)
  PROVE  \E B \in SUBSET [asset : Asset, name : Name], l \in {"begin", "end"} :
            subs' = [subs EXCEPT ![p] = B] /\ pc' = [pc EXCEPT ![p] = l]
<1>. DEFINE S == {e \in g : e.provider = Branch(cmd[p].asset) /\ IsBranch(e.consumer)}
            B == {[asset |-> e.consumer[1], name |-> e.name] : e \in S}
<1>1. \A e \in g : e.consumer[1] \in Asset /\ e.name \in Name
  BY LiveFacts, InvParts DEF LiveEdge, Node
<1>2. B \in SUBSET [asset : Asset, name : Name]
  BY <1>1
<1>3. subs' = [subs EXCEPT ![p] = B] /\ pc' = [pc EXCEPT ![p] = IF S = {} THEN "end" ELSE "begin"]
  BY DEF Found, Goto
<1>4. QED
  BY <1>2, <1>3

\* The command of a push, and what it has called.
LEMMA SearchFacts ==
  ASSUME Inv, NEW p \in Proc, stack[p] # <<>> \/ pc[p] = "discover"
  PROVE  /\ pc[p] = "discover" /\ cmd[p].asset \in Asset /\ Branch(cmd[p].asset) \in Live
         /\ stack[p] \in Seq(Frame)
         /\ stack = [stack EXCEPT ![p] = stack[p]] /\ subs = [subs EXCEPT ![p] = subs[p]]
         /\ pc = [pc EXCEPT ![p] = "discover"]
         /\ subs[p] \in SUBSET [asset : Asset, name : Name]
         /\ stack[p] # <<>> => Head(stack[p]) \in Frame /\ Tail(stack[p]) \in Seq(Frame)
<1>1. Types /\ Control
  BY InvParts
<1>2. pc[p] = "discover" /\ cmd[p].kind = "push"
  BY <1>1 DEF Control
<1>3. cmd[p] \in AllCommands
  BY <1>1, <1>2, GraphAssumption DEF Types, LocalTypes, NoCommand
<1>4. cmd[p].asset \in Asset
  BY <1>2, <1>3 DEF AllCommands, AddOf, SnapshotOf, PullOf, PushOf
<1>5. Branch(cmd[p].asset) \in Live
  <2>1. store[cmd[p].asset] \in Files
    BY <1>4, InvParts
  <2>2. 0 \in DOMAIN store[cmd[p].asset]
    BY <2>1, FileFacts
  <2>3. QED
    BY <1>4, <2>2 DEF Branch, Live
<1>6. /\ stack[p] \in Seq(Frame)
      /\ stack = [stack EXCEPT ![p] = stack[p]] /\ subs = [subs EXCEPT ![p] = subs[p]]
      /\ pc = [pc EXCEPT ![p] = "discover"]
      /\ subs[p] \in SUBSET [asset : Asset, name : Name]
  BY <1>1, <1>2 DEF Types, LocalTypes
<1>7. stack[p] # <<>> => Head(stack[p]) \in Frame /\ Tail(stack[p]) \in Seq(Frame)
  BY <1>6, ListFacts
<1>8. QED
  BY <1>2, <1>4, <1>5, <1>6, <1>7

\* A push looks into the cache of its own asset, or begins to search.
LEMMA DiscoverInv ==
  ASSUME Inv, NEW p \in Proc, Discover(p) PROVE Inv'
<1>. DEFINE r == Branch(cmd[p].asset)
<1>1. /\ pc[p] = "discover" /\ stack[p] = <<>> /\ Read(p, {r[1]})
      /\ IF Hit(r) THEN Found(p, cache[r[1]].reverse[r]) /\ UNCHANGED stack
                   ELSE stack' = [stack EXCEPT ![p] = <<Call(r)>>] /\ UNCHANGED <<pc, subs>>
  BY DEF Discover
<1>2. /\ UNCHANGED <<store, cache, entries, marked, running, cmd, updates, unflushed>>
      /\ UNCHANGED <<todo, shows, file, cut>>
  BY DEF Discover, diskVars, graphVars
<1>3. r \in Live /\ r[1] \in Asset
  BY <1>1, SearchFacts DEF Branch
<1>4. pool' \in [Proc -> Pools] /\ PoolGrows
  BY <1>1, <1>3, ReadFacts, InvParts
<1>5. CASE Hit(r)
  <2>1. cache[r[1]].reverse[r] \in SUBSET LiveEdge
    BY <1>3, <1>5, CallTyped
  <2>2. PICK B \in SUBSET [asset : Asset, name : Name], l \in {"begin", "end"} :
          subs' = [subs EXCEPT ![p] = B] /\ pc' = [pc EXCEPT ![p] = l]
    BY <1>1, <1>5, <2>1, FoundFacts
  <2>3. stack[p] \in Seq(Frame) /\ stack' = [stack EXCEPT ![p] = stack[p]] /\ stack[p] = <<>>
    BY <1>1, <1>5, SearchFacts
  <2>4. l \in {"discover", "begin", "end"}
    OBVIOUS
  <2>5. QED
    BY <1>1, <1>2, <1>4, <2>2, <2>3, <2>4, InvParts, SearchInv
<1>6. CASE ~Hit(r)
  <2>1. <<Call(r)>> \in Seq(Frame)
    BY <1>3, CallTyped
  <2>2. stack' = [stack EXCEPT ![p] = <<Call(r)>>] /\ UNCHANGED <<pc, subs>>
    BY <1>1, <1>6
  <2>3. QED
    BY <1>1, <1>2, <1>4, <2>1, <2>2, SearchFacts, InvParts, SearchInv
<1>7. QED
  BY <1>5, <1>6

\* It goes on to a consumer, whose asset file it reads.
LEMMA DescendInv ==
  ASSUME Inv, NEW p \in Proc, Descend(p) PROVE Inv'
<1>. DEFINE top == Head(stack[p])
            Top(e) == [top EXCEPT !.left = top.left \ {e},
                                  !.graph = top.graph \cup {Edge(e.by, e.target, e.name)}
                                     \cup IF Hit(e.by) THEN cache[e.by[1]].reverse[e.by] ELSE {}]
            K(e) == (IF Hit(e.by) THEN <<>> ELSE <<Call(e.by)>>) \o <<Top(e)>> \o Tail(stack[p])
<1>1. stack[p] # <<>>
  BY DEF Descend
<1>2. PICK e \in top.left : Read(p, {e.by[1]}) /\ stack' = [stack EXCEPT ![p] = K(e)]
  BY DEF Descend
<1>3. /\ UNCHANGED <<store, cache, entries, marked, running, pc, cmd, subs, updates, unflushed>>
      /\ UNCHANGED <<todo, shows, file, cut>>
  BY DEF Descend, diskVars, graphVars
<1>4. top \in Frame /\ Tail(stack[p]) \in Seq(Frame) /\ pc[p] = "discover"
  BY <1>1, SearchFacts
<1>5. e.by \in Live /\ e.target \in Live /\ e.name \in Name /\ e.by[1] \in Asset
  BY <1>4, LiveFacts, InvParts DEF Frame, LiveEntry, Node
<1>6. Top(e) \in Frame
  <2>1. Edge(e.by, e.target, e.name) \in LiveEdge
    BY <1>5 DEF Edge, LiveEdge
  <2>2. (IF Hit(e.by) THEN cache[e.by[1]].reverse[e.by] ELSE {}) \subseteq LiveEdge
    BY <1>5, CallTyped
  <2>. DEFINE G == top.graph \cup {Edge(e.by, e.target, e.name)}
                     \cup IF Hit(e.by) THEN cache[e.by[1]].reverse[e.by] ELSE {}
  <2>3. G \in SUBSET LiveEdge /\ top.left \ {e} \in SUBSET LiveEntry
    BY <1>4, <2>1, <2>2 DEF Frame
  <2>4. Top(e) = [top EXCEPT !.left = top.left \ {e}, !.graph = G]
    OBVIOUS
  <2>. HIDE DEF G
  <2>5. QED
    BY <1>4, <2>3, <2>4 DEF Frame
<1>7. K(e) \in Seq(Frame) /\ pool' \in [Proc -> Pools] /\ PoolGrows
  <2>1. (IF Hit(e.by) THEN <<>> ELSE <<Call(e.by)>>) \in Seq(Frame)
    BY <1>5, CallTyped
  <2>2. <<Top(e)>> \in Seq(Frame)
    BY <1>6
  <2>. DEFINE C == IF Hit(e.by) THEN <<>> ELSE <<Call(e.by)>>
              D == <<Top(e)>>
  <2>3. C \in Seq(Frame) /\ D \in Seq(Frame) /\ K(e) = C \o D \o Tail(stack[p])
    BY <2>1, <2>2
  <2>. HIDE DEF C, D
  <2>4. C \o D \in Seq(Frame)
    BY <2>3, ListFacts
  <2>5. K(e) \in Seq(Frame)
    BY <1>4, <2>3, <2>4, ListFacts
  <2>6. pool' \in [Proc -> Pools] /\ PoolGrows
    BY <1>2, <1>5, ReadFacts, InvParts
  <2>7. QED
    BY <2>5, <2>6
<1>. HIDE DEF K
<1>8. QED
  BY <1>1, <1>2, <1>3, <1>4, <1>7, SearchFacts, InvParts, SearchInv

\* It writes the reverse graph that it found.
LEMMA ReturnInv ==
  ASSUME Inv, NEW p \in Proc, Return(p) PROVE Inv'
<1>. DEFINE top == Head(stack[p])
            rest == Tail(stack[p])
            F == [top.file EXCEPT !.reverse = With(@, top.ref, top.graph)]
<1>1. /\ stack[p] # <<>> /\ Pop(p)
      /\ cache' = [cache EXCEPT ![top.ref[1]] = F]
  BY DEF Return, WriteReverse
<1>2. /\ UNCHANGED <<store, entries, marked, running, cmd, pool, updates, unflushed>>
      /\ UNCHANGED <<todo, shows, file, cut>>
  BY DEF Return, WriteReverse
<1>3. top \in Frame /\ rest \in Seq(Frame) /\ pc[p] = "discover"
  BY <1>1, SearchFacts
<1>4. /\ top.ref \in Live /\ top.file \in RightCache /\ top.graph \in SUBSET LiveEdge
  BY <1>3 DEF Frame
<1>5. F \in RightCache
  BY <1>4, WithRight
<1>6. cache' \in [Asset -> RightCache]
  BY <1>1, <1>5, InvParts
<1>7. pool' \in [Proc -> Pools] /\ PoolGrows
  BY <1>2, InvParts DEF PoolGrows, Types, LocalTypes
<1>8. CASE rest = <<>>
  <2>1. stack' = [stack EXCEPT ![p] = <<>>] /\ Found(p, top.graph)
    BY <1>1, <1>8 DEF Pop
  <2>2. PICK B \in SUBSET [asset : Asset, name : Name], l \in {"begin", "end"} :
          subs' = [subs EXCEPT ![p] = B] /\ pc' = [pc EXCEPT ![p] = l]
    BY <1>4, <2>1, FoundFacts
  <2>3. <<>> \in Seq(Frame) /\ l \in {"discover", "begin", "end"}
    OBVIOUS
  <2>4. QED
    BY <1>2, <1>3, <1>6, <1>7, <2>1, <2>2, <2>3, InvParts, SearchInv
<1>9. CASE rest # <<>>
  <2>. DEFINE f == [rest[1] EXCEPT !.graph = rest[1].graph \cup top.graph]
              K == <<f>> \o Tail(rest)
  <2>1. stack' = [stack EXCEPT ![p] = K] /\ UNCHANGED <<pc, subs>>
    BY <1>1, <1>9 DEF Pop
  <2>2. rest[1] \in Frame /\ Tail(rest) \in Seq(Frame)
    BY <1>3, <1>9, ListFacts
  <2>3. f \in Frame
    BY <1>4, <2>2 DEF Frame
  <2>4. K \in Seq(Frame)
    BY <2>2, <2>3, ListFacts
  <2>. HIDE DEF K
  <2>5. QED
    BY <1>1, <1>2, <1>3, <1>6, <1>7, <2>1, <2>4, SearchFacts, InvParts, SearchInv
<1>10. QED
  BY <1>8, <1>9

-----------------------------------------------------------------------------
(* The transaction.                                                        *)

\* Who declares the same branch excludes each other.
LEMMA SameConflict ==
  ASSUME NEW S, NEW R, NEW d \in S \cap R, NEW a, d = Declares(a)
  PROVE  Iso!Excluded(S, R)
<1>1. d.asset = <<a>> /\ d.object = d.object
  BY DEF Declares
<1>2. Iso!PathsOverlap(d.asset, d.asset)
  BY <1>1 DEF Iso!PathsOverlap, Iso!IsPrefix
<1>3. Iso!Conflict(d, d)
  BY <1>2 DEF Iso!Conflict
<1>4. QED
  BY <1>3 DEF Iso!Excluded

\* A transaction declares what nobody else has declared.
LEMMA BeginInv ==
  ASSUME Inv, NEW p \in Proc, Begin(p) PROVE Inv'
<1>. DEFINE D == {Declares(a) : a \in Consumers(p)}
<1>1. /\ Live' = Live /\ Commits' = Commits /\ Files' = Files /\ Pools' = Pools
      /\ RightCache' = RightCache /\ LiveEntry' = LiveEntry
      /\ Frame' = Frame /\ Change' = Change /\ FinishStep' = FinishStep
  BY SameStore DEF Begin, diskVars
<1>2. Types /\ Control /\ Apart /\ Pooled /\ Acyclic
  BY InvParts
<1>3. /\ UNCHANGED <<store, cache, entries, marked, cut, cmd, pool, stack, subs>>
      /\ UNCHANGED <<updates, unflushed, todo, shows, file>>
  BY DEF Begin, diskVars, graphVars, localVars
<1>4. /\ pc[p] = "begin" /\ pc' = [pc EXCEPT ![p] = "validate"]
      /\ \A q \in Proc : ~Iso!Excluded(D, running[q])
      /\ running' = [running EXCEPT ![p] = D]
  BY DEF Begin, Goto, Iso!Begin
<1>5. /\ pc \in [Proc -> PC] /\ running \in [Proc -> SUBSET {Declares(a) : a \in Asset}]
      /\ D \in SUBSET {Declares(a) : a \in Asset}
  BY <1>2, ConsumersFacts DEF Types, LocalTypes
<1>6. pc' \in [Proc -> PC] /\ running' \in [Proc -> SUBSET {Declares(a) : a \in Asset}]
  BY <1>4, <1>5 DEF PC
<1>7. Types'
  BY <1>1, <1>2, <1>3, <1>6 DEF Types, DiskTypes, LocalTypes
<1>8. \A q \in Proc : Consumers(q)' = Consumers(q)
  BY <1>3 DEF Consumers
<1>9. \A q \in Proc \ {p} : pc'[q] = pc[q] /\ running'[q] = running[q]
  BY <1>4, <1>5
<1>10. /\ pc'[p] = "validate" /\ running'[p] = D /\ stack[p] = <<>> /\ unflushed[p] = {}
       /\ updates[p] = {} /\ todo[p] = <<>> /\ shows[p] = {}
  BY <1>2, <1>4, <1>5 DEF Control
<1>11. Control'
  BY <1>1, <1>2, <1>3, <1>8, <1>9, <1>10 DEF Control
<1>12. Apart'
  <2>1. ASSUME NEW q \in Proc \ {p} PROVE D \cap running[q] = {}
    <3>1. SUFFICES ASSUME NEW d \in D \cap running[q] PROVE FALSE
      OBVIOUS
    <3>2. PICK a \in Consumers(p) : d = Declares(a)
      OBVIOUS
    <3>3. QED
      BY <1>4, <3>2, SameConflict
  <2>. HIDE DEF D
  <2>2. QED
    BY <1>2, <1>9, <1>10, <2>1 DEF Apart
<1>13. PoolGrows
  BY <1>3 DEF PoolGrows
<1>14. Pooled'
  BY <1>2, <1>3, <1>9, <1>10, <1>13, PooledKept
<1>15. Acyclic'
  BY <1>2, <1>3, <1>9, <1>10, <1>13, AcyclicKept
<1>16. QED
  BY <1>7, <1>11, <1>12, <1>14, <1>15 DEF Inv

\* What a command is about.
LEMMA CommandFacts ==
  ASSUME Types, NEW p \in Proc, cmd[p].kind # "none"
  PROVE  /\ cmd[p].asset \in Asset
         /\ cmd[p].kind = "add" => cmd[p].name \in Name /\ cmd[p].spec \in Node
         /\ cmd[p].kind # "push" => Consumers(p) = {cmd[p].asset}
<1>1. cmd[p] \in AllCommands
  BY GraphAssumption DEF Types, LocalTypes, NoCommand
<1>2. Ref \subseteq Node
  BY GraphAssumption DEF Ref, Node
<1>3. /\ cmd[p].asset \in Asset
      /\ cmd[p].kind = "add" => cmd[p].name \in Name /\ cmd[p].spec \in Node
  BY <1>1, <1>2 DEF AllCommands, AddOf, SnapshotOf, PullOf, PushOf
<1>4. QED
  BY <1>3 DEF Consumers

\* What a source may be pinned to.
LEMMA ResolveFacts ==
  ASSUME store \in [Asset -> Files], NEW v \in [Asset -> Files], NEW spec \in Node
  PROVE  /\ Resolve(v, spec) \in Node /\ ~IsBranch(Resolve(v, spec))
         /\ Resolve(v, spec)[1] = spec[1]
         /\ IsBranch(spec) => Exists(v, Resolve(v, spec))
<1>1. CASE IsBranch(spec)
  <2>1. spec[1] \in Asset
    BY DEF Node
  <2>2. PICK k \in Nat \ {0} : DOMAIN v[spec[1]] = 0 .. k
    BY <2>1, FileFacts
  <2>3. Resolve(v, spec) = <<spec[1], k>>
    BY <1>1, <2>2, LastFacts DEF Resolve, LastCommit
  <2>4. QED
    BY <2>1, <2>2, <2>3 DEF Node, IsBranch, Exists
<1>2. CASE ~IsBranch(spec)
  BY <1>2 DEF Resolve
<1>3. QED
  BY <1>1, <1>2

\* A commit that the check for cycles lets through has none of the consumer.
LEMMA ValidCommit ==
  ASSUME Inv, NEW p \in Proc, unflushed[p] = {}, NEW u, u.new \in Node, ~IsBranch(u.new),
         Known(p, u.new), ~MakesCycle(p, u)
  PROVE  u.new \in Commits /\ Avoids(store, u.new, u.by[1])
<1>1. u.new \in Live /\ Graph(p, u.new) = Edges(store, u.new)
  BY KnownFacts, InvParts
<1>2. PinsNodes(store)
  BY ViewFacts, InvParts
<1>3. \A x \in Reached(store, u.new) : x[1] \in AssetsOf(u.new, Edges(store, u.new))
  BY <1>2, AssetsReached
<1>4. QED
  BY <1>1, <1>3 DEF Commits, Avoids, MakesCycle

\* What a valid command is to write.
LEMMA UpdatesFacts ==
  ASSUME Inv, NEW p \in Proc, pc[p] = "validate", Valid(p), NEW u \in Updates(p)
  PROVE  /\ u \in Change /\ u.by = Branch(u.by[1]) /\ u.by[1] \in Consumers(p)
         /\ u.new[1] = u.spec[1] /\ Avoids(store, u.new, u.by[1])
         /\ cmd[p].kind # "snapshot"
         /\ cmd[p].kind # "add" =>
              /\ u.old \in Commits
              /\ u.name \in DOMAIN Sources(View(p), u.by)
              /\ Sources(View(p), u.by)[u.name] = [spec |-> u.spec, pin |-> u.old]
<1>1. /\ store \in [Asset -> Files] /\ View(p) \in [Asset -> Files] /\ unflushed[p] = {}
      /\ \A x \in Node : Exists(View(p), x) => x \in Live
      /\ subs[p] \subseteq [asset : Asset, name : Name]
  BY SeenFacts, InvParts DEF Control, Types, LocalTypes
<1>2. Known(p, u.new) /\ ~MakesCycle(p, u)
  BY DEF Valid
<1>3. CASE cmd[p].kind = "add"
  <2>. DEFINE c == cmd[p]
  <2>1. u = Setting(c.asset, c.name, c.spec, c.spec, Resolve(View(p), c.spec))
    BY <1>3 DEF Updates
  <2>2. c.asset \in Asset /\ c.name \in Name /\ c.spec \in Node /\ Consumers(p) = {c.asset}
    BY <1>3, CommandFacts, InvParts
  <2>3. /\ u.by = Branch(c.asset) /\ u.name = c.name /\ u.spec = c.spec /\ u.old = c.spec
        /\ u.new = Resolve(View(p), c.spec)
        /\ u = [by |-> u.by, name |-> u.name, spec |-> u.spec, old |-> u.old, new |-> u.new]
    BY <2>1 DEF Setting
  <2>4. u.new \in Node /\ ~IsBranch(u.new) /\ u.new[1] = u.spec[1]
    BY <1>1, <2>2, <2>3, ResolveFacts
  <2>5. u.new \in Commits /\ Avoids(store, u.new, u.by[1])
    BY <1>1, <1>2, <2>4, ValidCommit
  <2>6. c.spec \in Live
    <3>1. CASE IsBranch(c.spec)
      <4>1. c.spec[1] \in Asset /\ 0 \in DOMAIN store[c.spec[1]] /\ c.spec[2] = 0
        BY <1>1, <2>2, <3>1, FileFacts DEF Node, IsBranch
      <4>2. QED
        BY <1>1, <2>2, <4>1, LiveFacts DEF Exists
    <3>2. CASE ~IsBranch(c.spec)
      BY <2>3, <2>5, <3>2 DEF Resolve, Commits
    <3>3. QED
      BY <3>1, <3>2
  <2>7. u.by \in Node /\ u.by = Branch(u.by[1]) /\ u.by[1] \in Consumers(p)
    BY <2>2, <2>3 DEF Branch, Node
  <2>8. u \in Change
    BY <2>2, <2>3, <2>5, <2>6, <2>7 DEF Change
  <2>9. QED
    BY <1>3, <2>4, <2>5, <2>7, <2>8
<1>4. CASE cmd[p].kind # "add"
  <2>1. PICK t \in Targets(p) : u = Repin(View(p), t.asset, t.name)
    BY <1>4 DEF Updates
  <2>2. /\ t.asset \in Asset /\ t.asset \in Consumers(p) /\ cmd[p].kind \in {"push", "pull"}
    <3>1. CASE cmd[p].kind = "push"
      BY <1>1, <3>1 DEF Targets, Consumers
    <3>2. CASE cmd[p].kind = "pull"
      BY <3>2, CommandFacts, InvParts DEF Targets
    <3>3. QED
      BY <3>1, <3>2 DEF Targets
  <2>3. t.name \in DOMAIN Sources(View(p), Branch(t.asset))
    BY DEF Valid
  <2>. DEFINE d == Sources(View(p), Branch(t.asset))[t.name]
  <2>4. /\ u.by = Branch(t.asset) /\ u.name = t.name /\ u.spec = d.spec /\ u.old = d.pin
        /\ u.new = Resolve(View(p), d.spec)
        /\ u = [by |-> u.by, name |-> u.name, spec |-> u.spec, old |-> u.old, new |-> u.new]
    BY <2>1 DEF Repin, Setting
  <2>5. /\ t.name \in Name /\ d \in Source /\ d.spec \in Live /\ d.pin \in Commits
        /\ u.by \in Node /\ u.by = Branch(u.by[1]) /\ u.by[1] = t.asset
    <3>1. View(p)[t.asset] \in Files /\ 0 \in DOMAIN View(p)[t.asset]
      BY <1>1, <2>2, FileFacts
    <3>2. QED
      BY <2>2, <2>3, <2>4, <3>1, FileFacts DEF Sources, Branch, Node
  <2>6. d.spec \in Node
    BY <1>1, <2>5, LiveFacts
  <2>7. u.new \in Node /\ ~IsBranch(u.new) /\ u.new[1] = u.spec[1]
    BY <1>1, <2>4, <2>6, ResolveFacts
  <2>8. u.new \in Commits /\ Avoids(store, u.new, u.by[1])
    BY <1>1, <1>2, <2>7, ValidCommit
  <2>9. u \in Change
    BY <2>4, <2>5, <2>8 DEF Change, Commits
  <2>10. Sources(View(p), u.by)[u.name] = [spec |-> u.spec, pin |-> u.old]
    BY <2>4, <2>5 DEF Source
  <2>11. QED
    BY <2>2, <2>3, <2>4, <2>5, <2>7, <2>8, <2>9, <2>10
<1>5. QED
  BY <1>3, <1>4

\* What is to be written makes no cycle: it is checked by commits, and those stay.
LEMMA ValidateInv ==
  ASSUME Inv, NEW p \in Proc, Validate(p) PROVE Inv'
<1>. DEFINE S == Consumers(p) \cup {s[1] : s \in Followed(p)}
                   \cup UNION {Walked(p, u.new) : u \in Updates(p)}
<1>1. /\ pc[p] = "validate" /\ Valid(p) /\ updates' = [updates EXCEPT ![p] = Updates(p)]
      /\ Read(p, S) /\ pc' = [pc EXCEPT ![p] = "update"]
  BY DEF Validate, Goto
<1>2. /\ UNCHANGED <<store, cache, entries, marked, cut, running, cmd, stack, subs>>
      /\ UNCHANGED <<unflushed, todo, shows, file>>
  BY DEF Validate, diskVars, graphVars
<1>3. /\ Live' = Live /\ Commits' = Commits /\ Files' = Files /\ Pools' = Pools
      /\ RightCache' = RightCache /\ LiveEntry' = LiveEntry
      /\ Frame' = Frame /\ Change' = Change /\ FinishStep' = FinishStep
  BY <1>2, SameStore
<1>4. Types /\ Control /\ Apart /\ Pooled /\ Acyclic
  BY InvParts
<1>5. \A u \in Updates(p) :
        /\ u \in Change /\ u.by = Branch(u.by[1]) /\ u.by[1] \in Consumers(p)
        /\ Avoids(store, u.new, u.by[1]) /\ cmd[p].kind # "snapshot"
        /\ cmd[p].kind # "add" => u.old \in Commits
  BY <1>1, UpdatesFacts
<1>6. S \in SUBSET Asset
  <2>1. ASSUME NEW u \in Updates(p) PROVE Walked(p, u.new) \in SUBSET Asset
    <3>1. u.new \in Node
      BY <1>5, LiveFacts, InvParts DEF Change, Commits
    <3>2. QED
      BY <3>1, WalkedFacts
  <2>2. ASSUME NEW s \in Followed(p) PROVE s[1] \in Asset
    <3>1. CASE cmd[p].kind = "add"
      BY <3>1, CommandFacts, InvParts DEF Followed, Node
    <3>2. CASE cmd[p].kind # "add"
      <4>1. PICK t \in Targets(p) : s = Sources(View(p), Branch(t.asset))[t.name].spec
        BY <3>2 DEF Followed
      <4>2. t.name \in DOMAIN Sources(View(p), Branch(t.asset))
        BY <1>1 DEF Valid
      <4>3. t.asset \in Asset
        <5>1. subs[p] \subseteq [asset : Asset, name : Name]
          BY <1>4 DEF Types, LocalTypes
        <5>2. cmd[p].kind = "pull" => cmd[p].asset \in Asset
          BY <1>4, CommandFacts
        <5>3. QED
          BY <5>1, <5>2 DEF Targets
      <4>4. View(p)[t.asset] \in Files
        BY <4>3, SeenFacts, InvParts
      <4>5. s \in Live
        BY <4>1, <4>2, <4>4, FileFacts DEF Sources, Branch
      <4>6. QED
        BY <4>5, LiveFacts, InvParts DEF Node
    <3>3. QED
      BY <3>1, <3>2
  <2>3. UNION {Walked(p, u.new) : u \in Updates(p)} \subseteq Asset
    BY <2>1
  <2>4. {s[1] : s \in Followed(p)} \subseteq Asset
    BY <2>2
  <2>5. QED
    BY <1>4, <2>3, <2>4, ConsumersFacts
<1>7. pool' \in [Proc -> Pools] /\ PoolGrows
  BY <1>1, <1>4, <1>6, ReadFacts
<1>8. /\ pc \in [Proc -> PC] /\ updates \in [Proc -> SUBSET Change]
      /\ Updates(p) \in SUBSET Change
  BY <1>4, <1>5 DEF Types, LocalTypes
<1>9. pc' \in [Proc -> PC] /\ updates' \in [Proc -> SUBSET Change]
  BY <1>1, <1>8 DEF PC
<1>10. Types'
  BY <1>2, <1>3, <1>4, <1>7, <1>9 DEF Types, DiskTypes, LocalTypes
<1>11. \A q \in Proc : Consumers(q)' = Consumers(q)
  BY <1>2 DEF Consumers
<1>12. \A q \in Proc \ {p} : pc'[q] = pc[q] /\ updates'[q] = updates[q]
  BY <1>1, <1>8
<1>13. /\ pc'[p] = "update" /\ updates'[p] = Updates(p) /\ stack[p] = <<>> /\ unflushed[p] = {}
       /\ todo[p] = <<>> /\ shows[p] = {} /\ running[p] = {Declares(a) : a \in Consumers(p)}
  BY <1>1, <1>4, <1>8 DEF Control
<1>14. \A u \in Updates(p) : IsBranch(u.by)
  BY <1>5 DEF IsBranch, Branch
<1>15. Control'
  BY <1>2, <1>3, <1>4, <1>5, <1>11, <1>12, <1>13, <1>14 DEF Control
<1>16. Apart'
  BY <1>2, <1>4 DEF Apart
<1>17. Pooled'
  BY <1>2, <1>4, <1>7, <1>12, <1>13, PooledKept
<1>18. Acyclic'
  <2>1. \A r, a : Avoids(store, r, a)' = Avoids(store, r, a)
    BY <1>2, SameStore
  <2>2. \A a, f : Clean(store, a, f)' = Clean(store, a, f)
    BY <2>1 DEF Clean
  <2>3. ASSUME NEW q \in Proc, pc'[q] = "update", NEW u \in updates'[q]
        PROVE  Avoids(store, u.new, u.by[1])'
    <3>1. CASE q = p
      BY <1>5, <1>13, <2>1, <2>3, <3>1
    <3>2. CASE q # p
      BY <1>4, <1>12, <2>1, <2>3, <3>2 DEF Acyclic
    <3>3. QED
      BY <3>1, <3>2
  <2>4. ASSUME NEW q \in Proc, pc'[q] = "flush", NEW a \in unflushed[q] PROVE Clean(store, a, pool[q][a])'
    <3>1. pc[q] = "flush" /\ a \in DOMAIN pool[q]
      BY <1>4, <1>12, <1>13, <2>4 DEF Pooled
    <3>2. pool'[q][a] = pool[q][a]
      BY <1>7, <3>1 DEF PoolGrows
    <3>3. QED
      BY <1>4, <2>2, <2>4, <3>1, <3>2 DEF Acyclic
  <2>5. \A a \in Asset : Clean(store, a, store[a])'
    BY <1>2, <1>4, <2>2 DEF Acyclic
  <2>6. QED
    BY <1>2, <2>3, <2>4, <2>5 DEF Acyclic
<1>19. QED
  BY <1>10, <1>15, <1>16, <1>17, <1>18 DEF Inv

-----------------------------------------------------------------------------
(* The asset files that a command writes.                                  *)

\* CommitBranch adds a version and changes none.
LEMMA CommitBranchFacts ==
  ASSUME NEW f \in Files
  PROVE  \E c \in Nat \ {0} :
           /\ Max(DOMAIN f) + 1 = c /\ c \notin DOMAIN f
           /\ CommitBranch(f) \in Files
           /\ DOMAIN CommitBranch(f) = DOMAIN f \cup {c}
           /\ CommitBranch(f)[c] = f[0]
           /\ \A i \in DOMAIN f : CommitBranch(f)[i] = f[i]
<1>1. PICK k \in Nat \ {0} : DOMAIN f = 0 .. k /\ f \in [0 .. k -> Sourced]
  BY FileFacts
<1>. DEFINE g == CommitBranch(f)
<1>2. Max(DOMAIN f) = k
  BY <1>1, LastFacts
<1>3. k + 1 \in Nat \ {0} /\ k + 1 \notin DOMAIN f /\ (0 .. k) \cup {k + 1} = 0 .. (k + 1)
  BY <1>1
<1>4. g = [y \in 0 .. (k + 1) |-> IF y = k + 1 THEN f[0] ELSE f[y]]
  BY <1>1, <1>2, <1>3 DEF CommitBranch, With
<1>5. g \in [0 .. (k + 1) -> Sourced]
  BY <1>1, <1>4
<1>6. g \in Files
  BY <1>3, <1>5 DEF Files
<1>7. g[k + 1] = f[0] /\ \A i \in DOMAIN f : g[i] = f[i]
  BY <1>1, <1>3, <1>4
<1>8. DOMAIN g = DOMAIN f \cup {k + 1}
  BY <1>1, <1>3, <1>4
<1>9. QED
  BY <1>2, <1>3, <1>6, <1>7, <1>8

\* AddSource changes the sources of the branch, and of nothing else.
LEMMA AddSourceFacts ==
  ASSUME NEW f \in Files, NEW U \in SUBSET Change
  PROVE  /\ AddSource(f, U) \in Files
         /\ DOMAIN AddSource(f, U) = DOMAIN f
         /\ \A i \in DOMAIN f \ {0} : AddSource(f, U)[i] = f[i]
         /\ DOMAIN AddSource(f, U)[0] = DOMAIN f[0] \cup {u.name : u \in U}
         /\ \A n \in DOMAIN AddSource(f, U)[0] :
              \/ /\ n \in DOMAIN f[0] /\ AddSource(f, U)[0][n] = f[0][n]
                 /\ \A u \in U : u.name # n
              \/ \E u \in U : /\ u.name = n
                              /\ AddSource(f, U)[0][n] = [spec |-> u.spec, pin |-> u.new]
<1>1. PICK k \in Nat \ {0} : DOMAIN f = 0 .. k /\ f \in [0 .. k -> Sourced]
  BY FileFacts
<1>. DEFINE s(n) == IF \E u \in U : u.name = n
                      THEN LET u == CHOOSE u \in U : u.name = n IN [spec |-> u.spec, pin |-> u.new]
                      ELSE f[0][n]
            h == [n \in DOMAIN f[0] \cup {u.name : u \in U} |-> s(n)]
            g == AddSource(f, U)
<1>2. g = [f EXCEPT ![0] = h]
  BY DEF AddSource
<1>3. ASSUME NEW n \in DOMAIN f[0] \cup {u.name : u \in U}
      PROVE  /\ \/ /\ n \in DOMAIN f[0] /\ s(n) = f[0][n]
                   /\ \A u \in U : u.name # n
                \/ \E u \in U : u.name = n /\ s(n) = [spec |-> u.spec, pin |-> u.new]
             /\ s(n) \in Source /\ n \in Name
  <2>1. CASE \E u \in U : u.name = n
    <3>1. PICK u \in U : u.name = n /\ s(n) = [spec |-> u.spec, pin |-> u.new]
      BY <2>1
    <3>2. u.spec \in Live /\ u.new \in Commits /\ u.name \in Name
      BY DEF Change
    <3>3. s(n) \in Source
      BY <3>1, <3>2 DEF Source
    <3>4. QED
      BY <3>1, <3>2, <3>3
  <2>2. CASE ~\E u \in U : u.name = n
    BY <1>1, <2>2, FileFacts
  <2>3. QED
    BY <2>1, <2>2
<1>. HIDE DEF s
<1>4. h \in Sourced
  <2>. DEFINE N == DOMAIN f[0] \cup {u.name : u \in U}
  <2>1. N \in SUBSET Name /\ h \in [N -> Source]
    BY <1>3
  <2>. HIDE DEF N, h
  <2>2. QED
    BY <2>1 DEF Sourced
<1>5. DOMAIN h = DOMAIN f[0] \cup {u.name : u \in U} /\ \A n \in DOMAIN h : h[n] = s(n)
  OBVIOUS
<1>. HIDE DEF h
<1>6. g \in [0 .. k -> Sourced] /\ DOMAIN g = DOMAIN f /\ g[0] = h
  BY <1>1, <1>2, <1>4
<1>7. g \in Files
  BY <1>6 DEF Files
<1>8. \A i \in DOMAIN f \ {0} : g[i] = f[i]
  BY <1>1, <1>2
<1>. HIDE DEF g
<1>9. \A n \in DOMAIN g[0] :
         \/ /\ n \in DOMAIN f[0] /\ g[0][n] = f[0][n]
            /\ \A u \in U : u.name # n
         \/ \E u \in U : u.name = n /\ g[0][n] = [spec |-> u.spec, pin |-> u.new]
  BY <1>3, <1>5, <1>6
<1>10. QED
  BY <1>5, <1>6, <1>7, <1>8, <1>9 DEF g

\* DBUpdate, as far as the invariant is concerned: asset files with a new
\* version or with checked pins.
LEMMA WriteInv ==
  ASSUME Inv, NEW p \in Proc, pc[p] = "update",
         UNCHANGED <<store, cache, entries, marked, cut, running, cmd, stack, subs, file>>,
         pc' = [pc EXCEPT ![p] = "flush"],
         NEW W \in SUBSET Consumers(p), unflushed' = [unflushed EXCEPT ![p] = W],
         NEW f \in [DOMAIN pool[p] \cup W -> Files], pool' = [pool EXCEPT ![p] = f],
         \A a \in DOMAIN pool[p] \ W : f[a] = pool[p][a],
         \A a \in W : Extends(f[a], store[a]) /\ Clean(store, a, f[a]),
         NEW U \in SUBSET Change, updates' = [updates EXCEPT ![p] = U],
         \A u \in U : /\ u.by[1] \in W /\ Exists(f, u.by)
                      /\ cmd[p].kind # "add" => u.old \in Commits
                      /\ IsBranch(u.by) <=> cmd[p].kind # "snapshot",
         NEW T \in Seq(FinishStep), todo' = [todo EXCEPT ![p] = T],
         NEW H \in SUBSET Node, shows' = [shows EXCEPT ![p] = H],
         \A r \in H : r[1] \in W /\ Exists(f, r)
  PROVE  Inv'
<1>1. /\ Live' = Live /\ Commits' = Commits /\ Files' = Files /\ Pools' = Pools
      /\ RightCache' = RightCache /\ LiveEntry' = LiveEntry
      /\ Frame' = Frame /\ Change' = Change /\ FinishStep' = FinishStep
  BY SameStore
<1>2. Types /\ Control /\ Apart /\ Pooled /\ Acyclic
  BY InvParts
<1>3. /\ pc \in [Proc -> PC] /\ pool \in [Proc -> Pools] /\ updates \in [Proc -> SUBSET Change]
      /\ unflushed \in [Proc -> SUBSET Asset] /\ todo \in [Proc -> Seq(FinishStep)]
      /\ shows \in [Proc -> SUBSET Node]
  BY <1>2 DEF Types, LocalTypes
<1>4. PICK A \in SUBSET Asset : pool[p] \in [A -> Files]
  BY <1>3 DEF Pools
<1>5. W \in SUBSET Asset /\ DOMAIN f = A \cup W /\ A = DOMAIN pool[p]
  BY <1>2, <1>4, ConsumersFacts
<1>6. f \in Pools
  BY <1>4, <1>5 DEF Pools
<1>7. /\ pc' \in [Proc -> PC] /\ pool' \in [Proc -> Pools] /\ updates' \in [Proc -> SUBSET Change]
      /\ unflushed' \in [Proc -> SUBSET Asset] /\ todo' \in [Proc -> Seq(FinishStep)]
      /\ shows' \in [Proc -> SUBSET Node]
  BY <1>3, <1>5, <1>6 DEF PC
<1>8. Types'
  BY <1>1, <1>2, <1>7 DEF Types, DiskTypes, LocalTypes
<1>9. \A q \in Proc : Consumers(q)' = Consumers(q)
  BY DEF Consumers
<1>10. \A q \in Proc \ {p} :
         /\ pc'[q] = pc[q] /\ pool'[q] = pool[q] /\ updates'[q] = updates[q]
         /\ unflushed'[q] = unflushed[q] /\ todo'[q] = todo[q] /\ shows'[q] = shows[q]
  BY <1>3
<1>11. /\ pc'[p] = "flush" /\ pool'[p] = f /\ updates'[p] = U /\ unflushed'[p] = W /\ todo'[p] = T
       /\ shows'[p] = H /\ stack[p] = <<>> /\ running[p] = {Declares(a) : a \in Consumers(p)}
       /\ unflushed[p] = {}
  BY <1>2, <1>3 DEF Control
<1>12. Control'
  BY <1>1, <1>2, <1>9, <1>10, <1>11 DEF Control
<1>13. Apart'
  BY <1>2 DEF Apart
<1>14. Pooled'
  <2>1. \A a \in DOMAIN f \ W : Extends(store[a], f[a])
    BY <1>2, <1>5, <1>11 DEF Pooled
  <2>2. QED
    BY <1>1, <1>2, <1>5, <1>10, <1>11, <2>1 DEF Pooled
<1>15. Acyclic'
  <2>1. \A r, a : Avoids(store, r, a)' = Avoids(store, r, a)
    BY SameStore
  <2>2. \A a, g : Clean(store, a, g)' = Clean(store, a, g)
    BY <2>1 DEF Clean
  <2>3. \A a \in Asset : Clean(store, a, store[a])'
    BY <1>2, <2>2 DEF Acyclic
  <2>4. ASSUME NEW q \in Proc, pc'[q] = "update", NEW u \in updates'[q] PROVE Avoids(store, u.new, u.by[1])'
    BY <1>2, <1>10, <1>11, <2>1, <2>4 DEF Acyclic
  <2>5. ASSUME NEW q \in Proc, pc'[q] = "flush", NEW a \in unflushed'[q] PROVE Clean(store, a, pool[q][a])'
    <3>1. CASE q = p
      <4>1. Clean(store, a, f[a]) /\ pool'[q][a] = f[a]
        BY <1>11, <2>5, <3>1
      <4>2. QED
        BY <2>2, <4>1
    <3>2. CASE q # p
      <4>1. Clean(store, a, pool[q][a]) /\ pool'[q][a] = pool[q][a]
        BY <1>2, <1>10, <2>5, <3>2 DEF Acyclic
      <4>2. QED
        BY <2>2, <4>1
    <3>3. QED
      BY <3>1, <3>2
  <2>6. QED
    BY <2>3, <2>4, <2>5 DEF Acyclic
<1>16. QED
  BY <1>8, <1>12, <1>13, <1>14, <1>15 DEF Inv

\* What a snapshot writes, and is to do then.
SnapshotChanges(a, c) ==
    {[by |-> <<a, c>>, name |-> n, spec |-> store[a][0][n].spec, old |-> store[a][0][n].pin,
      new |-> store[a][0][n].pin] : n \in DOMAIN store[a][0]}

\* What a snapshot writes: a commit more, with the sources of the branch.
LEMMA SnapshotFacts ==
  ASSUME Inv, NEW p \in Proc, Update(p), cmd[p].kind = "snapshot"
  PROVE  \E a \in Asset, c \in Nat \ {0} :
           /\ a = cmd[p].asset /\ Consumers(p) = {a} /\ c \notin DOMAIN store[a]
           /\ CommitBranch(store[a]) \in Files /\ DOMAIN CommitBranch(store[a]) = DOMAIN store[a] \cup {c}
           /\ CommitBranch(store[a])[c] = store[a][0]
           /\ \A i \in DOMAIN store[a] : CommitBranch(store[a])[i] = store[a][i]
           /\ pool' = [pool EXCEPT ![p] = With(@, a, CommitBranch(store[a]))]
           /\ unflushed' = [unflushed EXCEPT ![p] = {a}]
           /\ updates' = [updates EXCEPT ![p] = SnapshotChanges(a, c)]
           /\ todo' = [todo EXCEPT ![p] = <<Cache(<<a, c>>), Cache(Branch(a))>>]
           /\ shows' = [shows EXCEPT ![p] = {<<a, c>>}]
<1>. DEFINE a == cmd[p].asset
            v == CommitBranch(store[a])
            c == LastCommit([store EXCEPT ![a] = v], a)
<1>1. /\ pool' = [pool EXCEPT ![p] = With(@, a, v)]
      /\ unflushed' = [unflushed EXCEPT ![p] = {a}]
      /\ updates' = [updates EXCEPT ![p] =
           {[by |-> c, name |-> n, spec |-> v[0][n].spec, old |-> v[0][n].pin,
             new |-> v[0][n].pin] : n \in DOMAIN v[0]}]
      /\ todo' = [todo EXCEPT ![p] = <<Cache(c), Cache(Branch(a))>>]
      /\ shows' = [shows EXCEPT ![p] = {c}]
  BY DEF Update
<1>2. a \in Asset /\ Consumers(p) = {a} /\ store[a] \in Files /\ store \in [Asset -> Files]
  BY CommandFacts, InvParts
<1>3. PICK k \in Nat \ {0} :
         /\ Max(DOMAIN store[a]) + 1 = k /\ k \notin DOMAIN store[a]
         /\ v \in Files /\ DOMAIN v = DOMAIN store[a] \cup {k} /\ v[k] = store[a][0]
         /\ \A i \in DOMAIN store[a] : v[i] = store[a][i]
  BY <1>2, CommitBranchFacts
<1>4. v[0] = store[a][0]
  BY <1>2, <1>3, FileFacts
<1>5. c = <<a, k>>
  <2>1. PICK j \in Nat \ {0} : DOMAIN store[a] = 0 .. j
    BY <1>2, FileFacts
  <2>2. k = j + 1 /\ DOMAIN v = 0 .. k
    BY <1>3, <2>1, LastFacts
  <2>3. Max(DOMAIN v) = k
    BY <2>2, LastFacts
  <2>4. QED
    BY <1>2, <2>3 DEF LastCommit
<1>6. {[by |-> c, name |-> n, spec |-> v[0][n].spec, old |-> v[0][n].pin,
        new |-> v[0][n].pin] : n \in DOMAIN v[0]} = SnapshotChanges(a, k)
  BY <1>4, <1>5 DEF SnapshotChanges
<1>. HIDE DEF v, c
<1>7. QED
  BY <1>1, <1>2, <1>3, <1>5, <1>6 DEF v

\* What the others write; some updates of a push may fail.
LEMMA ChangeFacts ==
  ASSUME Inv, NEW p \in Proc, Update(p), cmd[p].kind # "snapshot"
  PROVE  \E U \in SUBSET updates[p], W \in SUBSET Consumers(p) :
           /\ W = {u.by[1] : u \in U}
           /\ pool' = [pool EXCEPT ![p] = [a \in DOMAIN @ \cup W |->
                         IF a \in W THEN AddSource(store[a], {u \in U : u.by[1] = a}) ELSE @[a]]]
           /\ unflushed' = [unflushed EXCEPT ![p] = W]
           /\ updates' = [updates EXCEPT ![p] = U]
           /\ todo' = todo /\ shows' = shows
<1>1. PICK failed : 
        LET U == {u \in updates[p] : u.by[1] \notin failed}
            W == {u.by[1] : u \in U}
        IN /\ pool' = [pool EXCEPT ![p] = [a \in DOMAIN @ \cup W |->
                         IF a \in W THEN AddSource(store[a], {u \in U : u.by[1] = a}) ELSE @[a]]]
           /\ unflushed' = [unflushed EXCEPT ![p] = W]
           /\ updates' = [updates EXCEPT ![p] = U]
           /\ todo' = todo /\ shows' = shows
  BY DEF Update
<1>. DEFINE U == {u \in updates[p] : u.by[1] \notin failed}
            W == {u.by[1] : u \in U}
<1>2. W \in SUBSET Consumers(p)
  BY InvParts DEF Control
<1>3. QED
  BY <1>1, <1>2

\* What is about to be written keeps commits, and makes no cycle.
LEMMA UpdateInv ==
  ASSUME Inv, NEW p \in Proc, Update(p) PROVE Inv'
<1>1. /\ pc[p] = "update" /\ pc' = [pc EXCEPT ![p] = "flush"]
      /\ UNCHANGED <<store, cache, entries, marked, cut, running, cmd, stack, subs, file>>
  BY DEF Update, Goto, diskVars, graphVars
<1>2. Types /\ Control /\ Apart /\ Pooled /\ Acyclic /\ store \in [Asset -> Files]
  BY InvParts
<1>3. PICK A \in SUBSET Asset : pool[p] \in [A -> Files]
  BY <1>2 DEF Types, LocalTypes, Pools
<1>4. CASE cmd[p].kind = "snapshot"
  <2>1. PICK a \in Asset, c \in Nat \ {0} :
           /\ a = cmd[p].asset /\ Consumers(p) = {a} /\ c \notin DOMAIN store[a]
           /\ CommitBranch(store[a]) \in Files /\ DOMAIN CommitBranch(store[a]) = DOMAIN store[a] \cup {c}
           /\ CommitBranch(store[a])[c] = store[a][0]
           /\ \A i \in DOMAIN store[a] : CommitBranch(store[a])[i] = store[a][i]
           /\ pool' = [pool EXCEPT ![p] = With(@, a, CommitBranch(store[a]))]
           /\ unflushed' = [unflushed EXCEPT ![p] = {a}]
           /\ updates' = [updates EXCEPT ![p] = SnapshotChanges(a, c)]
           /\ todo' = [todo EXCEPT ![p] = <<Cache(<<a, c>>), Cache(Branch(a))>>]
           /\ shows' = [shows EXCEPT ![p] = {<<a, c>>}]
    BY <1>4, SnapshotFacts
  <2>. DEFINE v == CommitBranch(store[a])
              f == With(pool[p], a, v)
              r == <<a, c>>
              U == SnapshotChanges(a, c)
              T == <<Cache(r), Cache(Branch(a))>>
  <2>2. store[a] \in Files /\ 0 \in DOMAIN store[a]
    BY <1>2, FileFacts
  <2>3. f \in [DOMAIN pool[p] \cup {a} -> Files] /\ f[a] = v
        /\ \A b \in DOMAIN pool[p] \ {a} : f[b] = pool[p][b]
    BY <1>3, <2>1 DEF With
  <2>4. pool' = [pool EXCEPT ![p] = f]
    BY <2>1
  <2>5. Extends(v, store[a])
    BY <2>1 DEF Extends
  <2>6. Clean(store, a, v)
    <3>1. Clean(store, a, store[a])
      BY <1>2 DEF Acyclic
    <3>2. ASSUME NEW i \in DOMAIN v PROVE v[i] = store[a][0] \/ (i \in DOMAIN store[a] /\ v[i] = store[a][i])
      BY <2>1
    <3>. HIDE DEF v
    <3>3. QED
      BY <2>2, <3>1, <3>2 DEF Clean
  <2>7. r \in Node /\ Branch(a) \in Node /\ ~IsBranch(r) /\ r[1] = a /\ Exists(f, r)
    BY <2>1, <2>3 DEF Node, IsBranch, Branch, Exists
  <2>8. U \in SUBSET Change /\ \A u \in U : u.by = r /\ u.old \in Commits
    <3>1. ASSUME NEW n \in DOMAIN store[a][0]
          PROVE  n \in Name /\ store[a][0][n].spec \in Live /\ store[a][0][n].pin \in Commits
      BY <2>2, FileFacts
    <3>2. QED
      BY <2>7, <3>1 DEF SnapshotChanges, Change, Commits
  <2>9. T \in Seq(FinishStep)
    <3>1. Cache(r) \in FinishStep /\ Cache(Branch(a)) \in FinishStep
      BY <2>7 DEF Cache, FinishStep
    <3>2. QED
      BY <3>1
  <2>10. {a} \in SUBSET Consumers(p) /\ {r} \in SUBSET Node
    BY <2>1, <2>7
  <2>11. /\ unflushed' = [unflushed EXCEPT ![p] = {a}] /\ updates' = [updates EXCEPT ![p] = U]
         /\ todo' = [todo EXCEPT ![p] = T] /\ shows' = [shows EXCEPT ![p] = {r}]
    BY <2>1
  <2>. HIDE DEF v, f, r, U, T
  <2>. DEFINE W == {a}
              H == {r}
  <2>12. \A b \in W : Extends(f[b], store[b]) /\ Clean(store, b, f[b])
    BY <2>3, <2>5, <2>6
  <2>13. \A u \in U : /\ u.by[1] \in W /\ Exists(f, u.by)
                      /\ cmd[p].kind # "add" => u.old \in Commits
                      /\ IsBranch(u.by) <=> cmd[p].kind # "snapshot"
    BY <1>4, <2>7, <2>8
  <2>14. \A x \in H : x[1] \in W /\ Exists(f, x)
    BY <2>7
  <2>15. f \in [DOMAIN pool[p] \cup W -> Files]
    BY <2>3
  <2>16. \A b \in DOMAIN pool[p] \ W : f[b] = pool[p][b]
    BY <2>3
  <2>19. /\ W \in SUBSET Consumers(p) /\ H \in SUBSET Node
         /\ unflushed' = [unflushed EXCEPT ![p] = W] /\ updates' = [updates EXCEPT ![p] = U]
         /\ todo' = [todo EXCEPT ![p] = T] /\ shows' = [shows EXCEPT ![p] = H]
    BY <2>10, <2>11
  <2>. HIDE DEF W, H
  <2>17. U \in SUBSET Change
    BY <2>8
  <2>18. QED
    BY <1>1, <2>4, <2>9, <2>12, <2>13, <2>14, <2>15, <2>16, <2>17, <2>19, WriteInv
<1>5. CASE cmd[p].kind # "snapshot"
  <2>1. PICK U \in SUBSET updates[p], W \in SUBSET Consumers(p) :
           /\ W = {u.by[1] : u \in U}
           /\ pool' = [pool EXCEPT ![p] = [a \in DOMAIN @ \cup W |->
                         IF a \in W THEN AddSource(store[a], {u \in U : u.by[1] = a}) ELSE @[a]]]
           /\ unflushed' = [unflushed EXCEPT ![p] = W]
           /\ updates' = [updates EXCEPT ![p] = U]
           /\ todo' = todo /\ shows' = shows
    BY <1>5, ChangeFacts
  <2>. DEFINE V(a) == {u \in U : u.by[1] = a}
              f == [a \in DOMAIN pool[p] \cup W |->
                      IF a \in W THEN AddSource(store[a], V(a)) ELSE pool[p][a]]
  <2>2. W \in SUBSET Asset /\ U \in SUBSET Change
    BY <1>2, ConsumersFacts DEF Types, LocalTypes
  <2>3. ASSUME NEW a \in W
        PROVE  /\ AddSource(store[a], V(a)) \in Files
               /\ Extends(AddSource(store[a], V(a)), store[a])
               /\ 0 \in DOMAIN AddSource(store[a], V(a))
               /\ Clean(store, a, AddSource(store[a], V(a)))
    <3>. DEFINE g == AddSource(store[a], V(a))
                o == store[a]
                X == V(a)
    <3>1. store[a] \in Files /\ V(a) \in SUBSET Change
      BY <1>2, <2>2
    <3>0. \A u \in V(a) : u \in updates[p] /\ u.by[1] = a
      OBVIOUS
    <3>. HIDE DEF V
    <3>7. g = AddSource(o, X) /\ o \in Files /\ X \in SUBSET Change
      BY <3>1
    <3>. HIDE DEF g, o, X
    <3>8. /\ g \in Files /\ DOMAIN g = DOMAIN o
          /\ \A i \in DOMAIN o \ {0} : g[i] = o[i]
      BY <3>7, AddSourceFacts
    <3>9. \A n \in DOMAIN g[0] :
            \/ /\ n \in DOMAIN o[0] /\ g[0][n] = o[0][n]
               /\ \A u \in X : u.name # n
            \/ \E u \in X : u.name = n /\ g[0][n] = [spec |-> u.spec, pin |-> u.new]
      BY <3>7, AddSourceFacts
    <3>10. ASSUME NEW n \in DOMAIN g[0]
           PROVE  \/ n \in DOMAIN o[0] /\ g[0][n].pin = o[0][n].pin
                  \/ \E u \in X : g[0][n].pin = u.new
      <4>1. CASE \E u \in X : u.name = n /\ g[0][n] = [spec |-> u.spec, pin |-> u.new]
        BY <4>1
      <4>2. CASE ~\E u \in X : u.name = n /\ g[0][n] = [spec |-> u.spec, pin |-> u.new]
        BY <3>9, <4>2
      <4>3. QED
        BY <4>1, <4>2
    <3>2. /\ g \in Files /\ DOMAIN g = DOMAIN store[a]
          /\ \A i \in DOMAIN store[a] \ {0} : g[i] = store[a][i]
          /\ \A n \in DOMAIN g[0] :
               \/ n \in DOMAIN store[a][0] /\ g[0][n].pin = store[a][0][n].pin
               \/ \E u \in V(a) : g[0][n].pin = u.new
      BY <3>8, <3>10 DEF o, X
    <3>3. 0 \in DOMAIN g /\ 0 \in DOMAIN store[a]
      BY <3>1, <3>2, FileFacts
    <3>4. Clean(store, a, g)
      <4>1. Clean(store, a, store[a]) /\ \A u \in V(a) : Avoids(store, u.new, a)
        BY <1>1, <1>2, <2>2, <3>0 DEF Acyclic
      <4>2. ASSUME NEW i \in DOMAIN g, NEW n \in DOMAIN g[i] PROVE Avoids(store, g[i][n].pin, a)
        <5>1. CASE i # 0
          BY <3>2, <4>1, <4>2, <5>1 DEF Clean
        <5>2. CASE i = 0
          BY <3>2, <3>3, <4>1, <4>2, <5>2 DEF Clean
        <5>3. QED
          BY <5>1, <5>2
      <4>3. QED
        BY <4>2 DEF Clean
    <3>5. Extends(g, store[a])
      BY <3>2 DEF Extends
    <3>6. QED
      BY <3>2, <3>3, <3>4, <3>5 DEF g
  <2>4. f \in [DOMAIN pool[p] \cup W -> Files]
    BY <1>3, <2>3
  <2>5. pool' = [pool EXCEPT ![p] = f]
    BY <2>1
  <2>6. /\ \A a \in DOMAIN pool[p] \ W : f[a] = pool[p][a]
        /\ \A a \in W : f[a] = AddSource(store[a], V(a))
    OBVIOUS
  <2>. HIDE DEF f, V
  <2>7. \A a \in W : Extends(f[a], store[a]) /\ Clean(store, a, f[a]) /\ 0 \in DOMAIN f[a]
    BY <2>3, <2>6
  <2>8. \A u \in U : /\ u.by[1] \in W /\ Exists(f, u.by)
                     /\ cmd[p].kind # "add" => u.old \in Commits
                     /\ IsBranch(u.by) <=> cmd[p].kind # "snapshot"
    BY <1>2, <1>5, <2>1, <2>7 DEF Control, Exists, IsBranch
  <2>9. /\ todo[p] \in Seq(FinishStep) /\ todo' = [todo EXCEPT ![p] = todo[p]]
        /\ shows[p] \in SUBSET Node /\ shows' = [shows EXCEPT ![p] = shows[p]]
        /\ shows[p] = {}
    BY <1>1, <1>2, <2>1 DEF Types, LocalTypes, Control
  <2>10. \A a \in W : Extends(f[a], store[a]) /\ Clean(store, a, f[a])
    BY <2>7
  <2>11. \A r \in shows[p] : r[1] \in W /\ Exists(f, r)
    BY <2>9
  <2>12. unflushed' = [unflushed EXCEPT ![p] = W] /\ updates' = [updates EXCEPT ![p] = U]
    BY <2>1
  <2>13. QED
    BY <1>1, <2>2, <2>4, <2>5, <2>6, <2>8, <2>9, <2>10, <2>11, <2>12, WriteInv
<1>6. QED
  BY <1>4, <1>5

\* What a process writes is its own: nobody else has a copy to write.
LEMMA FlushFacts ==
  ASSUME Inv, NEW p \in Proc, NEW a \in unflushed[p], pc[p] = "flush",
         store' = [store EXCEPT ![a] = pool[p][a]]
  PROVE  /\ a \in Asset /\ a \in Consumers(p) /\ a \in DOMAIN pool[p] /\ pool[p][a] \in Files
         /\ store' \in [Asset -> Files] /\ store'[a] = pool[p][a]
         /\ \A b \in Asset \ {a} : store'[b] = store[b]
         /\ \A b \in Asset : Extends(store'[b], store[b])
         /\ \A q \in Proc \ {p} :
              pc[q] \in {"validate", "update", "flush", "finish"} => a \notin Consumers(q)
<1>1. Types /\ Control /\ Apart /\ Pooled /\ store \in [Asset -> Files]
  BY InvParts
<1>2. PICK A \in SUBSET Asset : pool[p] \in [A -> Files]
  BY <1>1 DEF Types, LocalTypes, Pools
<1>3. a \in A /\ a \in Asset /\ a \in Consumers(p)
  BY <1>1, <1>2 DEF Pooled, Control
<1>4. /\ store' \in [Asset -> Files] /\ store'[a] = pool[p][a] /\ pool[p][a] \in Files
      /\ \A b \in Asset \ {a} : store'[b] = store[b]
  BY <1>1, <1>2, <1>3
<1>5. \A b \in Asset : Extends(store'[b], store[b])
  <2>1. Extends(pool[p][a], store[a])
    BY <1>1 DEF Pooled
  <2>2. \A b \in Asset : Extends(store[b], store[b])
    BY DEF Extends
  <2>3. QED
    BY <1>4, <2>1, <2>2
<1>6. ASSUME NEW q \in Proc \ {p}, pc[q] \in {"validate", "update", "flush", "finish"},
             a \in Consumers(q)
      PROVE  FALSE
  <2>1. Declares(a) \in running[p] /\ Declares(a) \in running[q]
    BY <1>1, <1>3, <1>6 DEF Control
  <2>2. QED
    BY <1>1, <2>1 DEF Apart
<1>7. QED
  BY <1>2, <1>3, <1>4, <1>5, <1>6

\* What is written keeps commits, and makes no cycle.
LEMMA FlushInv ==
  ASSUME Inv, NEW p \in Proc, Flush(p) PROVE Inv'
<1>1. PICK a \in unflushed[p] : /\ store' = [store EXCEPT ![a] = pool[p][a]]
                                /\ unflushed' = [unflushed EXCEPT ![p] = unflushed[p] \ {a}]
  BY DEF Flush
<1>2. /\ pc[p] = "flush"
      /\ UNCHANGED <<cache, entries, marked, cut, running, pc, cmd, pool, stack, subs>>
      /\ UNCHANGED <<updates, todo, shows, file>>
  BY DEF Flush, graphVars
<1>3. /\ a \in Asset /\ a \in Consumers(p) /\ a \in DOMAIN pool[p] /\ pool[p][a] \in Files
      /\ store' \in [Asset -> Files] /\ store'[a] = pool[p][a]
      /\ \A b \in Asset \ {a} : store'[b] = store[b]
      /\ \A b \in Asset : Extends(store'[b], store[b])
      /\ \A q \in Proc \ {p} :
           pc[q] \in {"validate", "update", "flush", "finish"} => a \notin Consumers(q)
  BY <1>1, <1>2, FlushFacts
<1>4. Types /\ Control /\ Apart /\ Pooled /\ Acyclic /\ store \in [Asset -> Files]
  BY InvParts
<1>5. /\ Live \subseteq Live' /\ Commits \subseteq Commits' /\ Files \subseteq Files'
      /\ Pools \subseteq Pools' /\ LiveEdge \subseteq LiveEdge'
      /\ RightCache \subseteq RightCache' /\ LiveEntry \subseteq LiveEntry'
      /\ Frame \subseteq Frame' /\ Change \subseteq Change' /\ FinishStep \subseteq FinishStep'
      /\ \A r \in Commits, b \in Asset : Avoids(store, r, b) => Avoids(store', r, b)
  BY <1>3, <1>4, Growth
<1>6. /\ unflushed \in [Proc -> SUBSET Asset] /\ unflushed' \in [Proc -> SUBSET Asset]
      /\ unflushed'[p] = unflushed[p] \ {a}
      /\ \A q \in Proc \ {p} : unflushed'[q] = unflushed[q]
      /\ \A q \in Proc : unflushed'[q] \subseteq unflushed[q]
  BY <1>1, <1>4 DEF Types, LocalTypes
<1>7. DiskTypes'
  <2>1. cache \in [Asset -> RightCache] /\ entries \subseteq LiveEntry /\ marked \subseteq Asset
        /\ cut \subseteq Asset
    BY InvParts
  <2>2. QED
    BY <1>2, <1>3, <1>5, <2>1 DEF DiskTypes
<1>8. LocalTypes'
  <2>1. LocalTypes
    BY <1>4 DEF Types
  <2>2. ASSUME NEW S, NEW T, S \subseteq T PROVE Seq(S) \subseteq Seq(T)
    BY <2>2
  <2>3. Seq(Frame) \subseteq Seq(Frame') /\ Seq(FinishStep) \subseteq Seq(FinishStep')
    BY <1>5, <2>2
  <2>4. /\ pool' \in [Proc -> Pools'] /\ updates' \in [Proc -> SUBSET (Change')]
        /\ file' \in [Proc -> RightCache']
    BY <1>2, <1>5, <2>1 DEF LocalTypes
  <2>5. stack' \in [Proc -> Seq(Frame')] /\ todo' \in [Proc -> Seq(FinishStep')]
    BY <1>2, <2>1, <2>3 DEF LocalTypes
  <2>6. QED
    BY <1>2, <1>6, <2>1, <2>4, <2>5 DEF LocalTypes
<1>9. \A q \in Proc : Consumers(q)' = Consumers(q)
  BY <1>2 DEF Consumers
<1>10. Control'
  BY <1>2, <1>4, <1>5, <1>6, <1>9 DEF Control
<1>11. Apart'
  BY <1>2, <1>4 DEF Apart
<1>12. Pooled'
  <2>1. ASSUME NEW q \in Proc PROVE unflushed'[q] \subseteq DOMAIN pool[q]
    BY <1>4, <1>6 DEF Pooled
  <2>2. ASSUME NEW q \in Proc, NEW b \in DOMAIN pool[q] \ unflushed'[q]
        PROVE  Extends(store'[b], pool[q][b])
    <3>1. b \in Asset
      BY <1>4 DEF Types, LocalTypes, Pools
    <3>2. CASE b \in unflushed[q]
      <4>1. q = p /\ b = a
        BY <1>6, <2>2, <3>2
      <4>2. QED
        BY <1>3, <4>1 DEF Extends
    <3>3. CASE b \notin unflushed[q]
      <4>1. Extends(store[b], pool[q][b]) /\ Extends(store'[b], store[b])
        BY <1>3, <1>4, <2>2, <3>1, <3>3 DEF Pooled
      <4>2. QED
        BY <4>1 DEF Extends
    <3>4. QED
      BY <3>2, <3>3
  <2>3. ASSUME NEW q \in Proc, pc[q] = "flush", NEW b \in unflushed'[q]
        PROVE  Extends(pool[q][b], store'[b])
    <3>1. b # a /\ b \in Asset /\ b \in unflushed[q]
      BY <1>3, <1>4, <1>6, <2>3 DEF Control
    <3>2. QED
      BY <1>3, <1>4, <2>3, <3>1 DEF Pooled
  <2>4. QED
    BY <1>2, <1>4, <1>5, <2>1, <2>2, <2>3 DEF Pooled
<1>13. Acyclic'
  <2>1. ASSUME NEW b \in Asset, NEW f \in Files, Clean(store, b, f), NEW i \in DOMAIN f, NEW n \in DOMAIN f[i]
        PROVE  Avoids(store', f[i][n].pin, b)
    <3>1. f[i][n].pin \in Commits /\ Avoids(store, f[i][n].pin, b)
      BY <2>1, FileFacts DEF Clean
    <3>2. QED
      BY <1>5, <3>1
  <2>2. Clean(store, a, pool[p][a])
    BY <1>2, <1>4 DEF Acyclic
  <2>3. ASSUME NEW b \in Asset PROVE Clean(store, b, store[b])'
    <3>1. store'[b] \in Files /\ Clean(store, b, store'[b])
      BY <1>3, <1>4, <2>2 DEF Acyclic
    <3>2. Clean(store', b, store'[b])
      BY <2>1, <3>1 DEF Clean
    <3>3. QED
      BY <3>2
  <2>4. ASSUME NEW q \in Proc, pc[q] = "update", NEW u \in updates[q] PROVE Avoids(store, u.new, u.by[1])'
    <3>1. u.new \in Commits /\ u.by[1] \in Asset
      BY <1>4 DEF Types, LocalTypes, Change, Node
    <3>2. QED
      BY <1>4, <1>5, <2>4, <3>1 DEF Acyclic
  <2>5. ASSUME NEW q \in Proc, pc[q] = "flush", NEW b \in unflushed'[q] PROVE Clean(store, b, pool[q][b])'
    <3>1. b \in unflushed[q] /\ b \in Asset /\ b \in DOMAIN pool[q]
      BY <1>4, <1>6, <2>5 DEF Pooled, Types, LocalTypes
    <3>2. pool[q][b] \in Files /\ Clean(store, b, pool[q][b])
      BY <1>4, <2>5, <3>1 DEF Acyclic, Types, LocalTypes, Pools
    <3>3. Clean(store', b, pool[q][b])
      BY <2>1, <3>1, <3>2 DEF Clean
    <3>4. QED
      BY <1>2, <3>3
  <2>6. QED
    BY <1>2, <2>3, <2>4, <2>5 DEF Acyclic
<1>14. QED
  BY <1>7, <1>8, <1>10, <1>11, <1>12, <1>13 DEF Inv, Types

\* The end of a command, or its death.
LEMMA ExitInv ==
  ASSUME Inv, NEW p \in Proc, NEW l \in {"idle", "dead"}, Exit(p, l), Iso!End(p),
         UNCHANGED diskVars, cut' \subseteq Asset
  PROVE  Inv'
<1>1. /\ Live' = Live /\ Commits' = Commits /\ Files' = Files /\ Pools' = Pools
      /\ RightCache' = RightCache /\ LiveEntry' = LiveEntry
      /\ Frame' = Frame /\ Change' = Change /\ FinishStep' = FinishStep
  BY SameStore DEF diskVars
<1>2. Types /\ Control /\ Apart /\ Pooled /\ Acyclic
  BY InvParts
<1>3. LocalTypes
  BY <1>2 DEF Types
<1>4. Nothing \in Pools /\ DOMAIN Nothing = {}
  <2>1. Nothing \in [{} -> Files] /\ {} \in SUBSET Asset
    BY DEF Nothing
  <2>2. QED
    BY <2>1 DEF Pools, Nothing
<1>5. /\ pc' = [pc EXCEPT ![p] = l] /\ cmd' = [cmd EXCEPT ![p] = NoCommand]
      /\ pool' = [pool EXCEPT ![p] = Nothing] /\ stack' = [stack EXCEPT ![p] = <<>>]
      /\ subs' = [subs EXCEPT ![p] = {}] /\ updates' = [updates EXCEPT ![p] = {}]
      /\ unflushed' = [unflushed EXCEPT ![p] = {}] /\ todo' = [todo EXCEPT ![p] = <<>>]
      /\ shows' = [shows EXCEPT ![p] = {}] /\ file' = [file EXCEPT ![p] = NoCache]
      /\ running' = [running EXCEPT ![p] = {}]
  BY DEF Exit, Goto, Iso!End
<1>6. /\ pc' \in [Proc -> PC] /\ cmd' \in [Proc -> Commands \cup {NoCommand}]
      /\ pool' \in [Proc -> Pools] /\ stack' \in [Proc -> Seq(Frame)]
      /\ subs' \in [Proc -> SUBSET [asset : Asset, name : Name]]
      /\ updates' \in [Proc -> SUBSET Change] /\ unflushed' \in [Proc -> SUBSET Asset]
      /\ todo' \in [Proc -> Seq(FinishStep)] /\ shows' \in [Proc -> SUBSET Node]
      /\ file' \in [Proc -> RightCache]
      /\ running' \in [Proc -> SUBSET {Declares(a) : a \in Asset}]
  <2>1. <<>> \in Seq(Frame) /\ <<>> \in Seq(FinishStep) /\ l \in PC /\ NoCache \in RightCache
    BY NoCacheRight DEF PC
  <2>2. QED
    BY <1>3, <1>4, <1>5, <2>1 DEF LocalTypes
<1>7. Types'
  BY <1>1, <1>2, <1>6 DEF Types, DiskTypes, LocalTypes, diskVars, graphVars
<1>8. ASSUME NEW q \in Proc \ {p}
      PROVE  /\ pc'[q] = pc[q] /\ cmd'[q] = cmd[q] /\ pool'[q] = pool[q] /\ stack'[q] = stack[q]
             /\ subs'[q] = subs[q] /\ updates'[q] = updates[q] /\ unflushed'[q] = unflushed[q]
             /\ todo'[q] = todo[q] /\ shows'[q] = shows[q] /\ running'[q] = running[q]
  BY <1>3, <1>5 DEF LocalTypes
<1>9. /\ pc'[p] = l /\ cmd'[p] = NoCommand /\ pool'[p] = Nothing /\ stack'[p] = <<>>
      /\ updates'[p] = {} /\ unflushed'[p] = {} /\ todo'[p] = <<>> /\ shows'[p] = {}
      /\ running'[p] = {}
  BY <1>3, <1>5 DEF LocalTypes
<1>10. \A q \in Proc \ {p} : Consumers(q)' = Consumers(q)
  BY <1>8 DEF Consumers
<1>11. Control'
  BY <1>1, <1>2, <1>8, <1>9, <1>10 DEF Control
<1>12. Apart'
  BY <1>2, <1>8, <1>9 DEF Apart
<1>13. Pooled'
  <2>1. UNCHANGED store
    BY DEF diskVars
  <2>2. QED
    BY <1>1, <1>2, <1>4, <1>8, <1>9, <2>1 DEF Pooled
<1>14. Acyclic'
  <2>1. UNCHANGED store
    BY DEF diskVars
  <2>2. \A r, a : Avoids(store, r, a)' = Avoids(store, r, a)
    BY <2>1, SameStore
  <2>3. \A a, f : Clean(store, a, f)' = Clean(store, a, f)
    BY <2>2 DEF Clean
  <2>4. \A a \in Asset : Clean(store, a, store[a])'
    BY <1>2, <2>1, <2>3 DEF Acyclic
  <2>5. ASSUME NEW q \in Proc, pc'[q] = "update", NEW u \in updates'[q] PROVE Avoids(store, u.new, u.by[1])'
    <3>1. q # p
      BY <1>9, <2>5
    <3>2. QED
      BY <1>2, <1>8, <2>2, <2>5, <3>1 DEF Acyclic
  <2>6. ASSUME NEW q \in Proc, pc'[q] = "flush", NEW a \in unflushed'[q] PROVE Clean(store, a, pool[q][a])'
    <3>1. q # p
      BY <1>9, <2>6
    <3>2. Clean(store, a, pool[q][a]) /\ pool'[q][a] = pool[q][a]
      BY <1>2, <1>8, <2>6, <3>1 DEF Acyclic
    <3>3. QED
      BY <2>3, <3>2
  <2>7. QED
    BY <2>4, <2>5, <2>6 DEF Acyclic
<1>15. QED
  BY <1>7, <1>11, <1>12, <1>13, <1>14 DEF Inv

\* A command is over, or its process dies, and it has declared nothing.
LEMMA ExitsInv ==
  ASSUME Inv, NEW p \in Proc, End(p) \/ Crash(p) PROVE Inv'
<1>1. cut \subseteq Asset /\ Consumers(p) \in SUBSET Asset
  BY ConsumersFacts, InvParts
<1>2. CASE End(p)
  BY <1>1, <1>2, ExitInv DEF End
<1>3. CASE Crash(p)
  <2>1. cut' \subseteq Asset
    BY <1>1, <1>3 DEF Crash
  <2>2. QED
    BY <1>3, <2>1, ExitInv DEF Crash
<1>4. QED
  BY <1>2, <1>3

-----------------------------------------------------------------------------
(* Theorems.                                                               *)

\* In the beginning no branch or commit has sources.
LEMMA InitInv == Init => Inv
<1>. SUFFICES ASSUME Init PROVE Inv
  OBVIOUS
<1>1. \A a \in Asset : DOMAIN store[a] = {0, 1} /\ \A i \in {0, 1} : store[a][i] = Nothing
  BY DEF Init
<1>2. DOMAIN Nothing = {} /\ Nothing \in Sourced
  <2>1. Nothing \in [{} -> Source] /\ {} \in SUBSET Name
    BY DEF Nothing
  <2>2. QED
    BY <2>1 DEF Sourced, Nothing
<1>3. store \in [Asset -> Files]
  <2>1. [i \in {0, 1} |-> Nothing] \in [0 .. 1 -> Sourced] /\ 1 \in Nat \ {0}
    BY <1>2
  <2>2. [i \in {0, 1} |-> Nothing] \in Files
    BY <2>1 DEF Files
  <2>3. QED
    BY <2>2 DEF Init
<1>4. Nothing \in Pools
  <2>1. Nothing \in [{} -> Files] /\ {} \in SUBSET Asset
    BY DEF Nothing
  <2>2. QED
    BY <2>1 DEF Pools
<1>5. DiskTypes
  BY <1>3, NoCacheRight DEF Init, DiskTypes
<1>6. LocalTypes
  <2>1. <<>> \in Seq(Frame) /\ <<>> \in Seq(FinishStep)
    OBVIOUS
  <2>2. QED
    BY <1>4, <2>1, NoCacheRight DEF Init, LocalTypes, PC
<1>7. Control
  BY DEF Init, Control
<1>8. Apart
  BY DEF Init, Apart
<1>9. Pooled
  BY <1>2 DEF Init, Pooled
<1>10. Acyclic
  <2>1. \A a \in Asset : Clean(store, a, store[a])
    BY <1>1, <1>2 DEF Clean
  <2>2. QED
    BY <2>1 DEF Init, Acyclic
<1>11. QED
  BY <1>5, <1>6, <1>7, <1>8, <1>9, <1>10 DEF Inv, Types

\* Nothing that the invariant speaks of changes.
LEMMA StutterInv == Inv /\ UNCHANGED vars => Inv'
<1>. SUFFICES ASSUME Inv, UNCHANGED vars PROVE Inv'
  OBVIOUS
<1>1. UNCHANGED <<store, cache, entries, marked, cut, running, pc, cmd, pool, stack, subs, updates,
                  unflushed, todo, shows, file>>
  BY DEF vars, diskVars, graphVars, localVars
<1>2. /\ Live' = Live /\ Commits' = Commits /\ Files' = Files /\ Pools' = Pools
      /\ RightCache' = RightCache /\ LiveEntry' = LiveEntry
      /\ Frame' = Frame /\ Change' = Change /\ FinishStep' = FinishStep
  BY <1>1, SameStore
<1>3. Types /\ Control /\ Apart /\ Pooled /\ Acyclic
  BY InvParts
<1>4. Types'
  BY <1>1, <1>2, <1>3 DEF Types, DiskTypes, LocalTypes
<1>5. \A q \in Proc : Consumers(q)' = Consumers(q)
  BY <1>1 DEF Consumers
<1>6. Control'
  BY <1>1, <1>2, <1>3, <1>5 DEF Control
<1>7. Apart'
  BY <1>1, <1>3 DEF Apart
<1>8. PoolGrows
  BY <1>1 DEF PoolGrows
<1>9. Pooled' /\ Acyclic'
  BY <1>1, <1>3, <1>8, PooledKept, AcyclicKept
<1>10. QED
  BY <1>4, <1>6, <1>7, <1>9 DEF Inv

\* Every step keeps the invariant.
LEMMA StepInv == Inv /\ [Next]_vars => Inv'
<1>. SUFFICES ASSUME Inv, [Next]_vars PROVE Inv'
  OBVIOUS
<1>1. CASE UNCHANGED vars
  BY <1>1, StutterInv
<1>2. ASSUME NEW p \in Proc, NEW c \in Commands, Start(p, c) PROVE Inv'
  BY <1>2, StartInv
<1>3. ASSUME NEW p \in Proc, Crash(p) PROVE Inv'
  BY <1>3, ExitsInv
<1>4. ASSUME NEW p \in Proc, Step(p) PROVE Inv'
  <2>1. CASE Discover(p) \/ Descend(p) \/ Return(p) \/ DiscoverFails(p)
    BY <2>1, DiscoverInv, DescendInv, ReturnInv, MovesInv
  <2>2. CASE Begin(p) \/ Conflicts(p) \/ Validate(p) \/ Invalid(p)
    BY <2>2, BeginInv, MovesInv, ValidateInv
  <2>3. CASE Update(p) \/ UpdateFails(p) \/ Flush(p) \/ EndFlush(p) \/ FlushFails(p)
    BY <2>3, UpdateInv, FlushInv, MovesInv
  <2>4. CASE NextUpdate(p) \/ CacheRead(p) \/ CacheWrite(p) \/ AddEntry(p) \/ RemoveDependent(p)
    BY <2>4, NextUpdateInv, CacheReadInv, CacheWriteInv, AddEntryInv, RemoveDependentInv
  <2>5. CASE MarkDependentsStale(p) \/ TouchMarker(p) \/ FinishFails(p)
    BY <2>5, MarkDependentsStaleInv, TouchMarkerInv, FinishFailsInv
  <2>6. CASE PresentSources(p) \/ PresentCommit(p) \/ PresentCommitAlone(p)
    BY <2>6, PresentSourcesInv, PresentCommitInv, PresentCommitAloneInv
  <2>7. CASE LinkSource(p) \/ WritePointer(p) \/ PresentFails(p)
    BY <2>7, LinkSourceInv, WritePointerInv, PresentFailsInv
  <2>8. CASE EndFinish(p) \/ End(p)
    BY <2>8, MovesInv, ExitsInv
  <2>9. QED
    BY <1>4, <2>1, <2>2, <2>3, <2>4, <2>5, <2>6, <2>7, <2>8 DEF Step
<1>5. QED
  BY <1>1, <1>2, <1>3, <1>4 DEF Next

\* Asset files, copies and declarations are related as said above, whatever
\* commands run together, and wherever they fail.
THEOREM Invariance == Spec => []Inv
<1>1. QED
  BY InitInv, StepInv, PTL DEF Spec

\* The asset files, caches and entries speak of versions that exist.
THEOREM Typed == Spec => []TypeOK
<1>1. Inv => TypeOK
  <2>. SUFFICES ASSUME Inv PROVE TypeOK
    OBVIOUS
  <2>1. Types /\ Control /\ store \in [Asset -> Files]
    BY InvParts
  <2>2. ASSUME NEW r \in Live, NEW n \in DOMAIN Sources(store, r)
        PROVE  n \in Name /\ Sources(store, r)[n] \in [spec : Live, pin : Live]
    <3>1. r[1] \in Asset /\ r[2] \in DOMAIN store[r[1]] /\ store[r[1]] \in Files
      BY <2>1, LiveFacts DEF Node, Exists
    <3>2. n \in Name /\ Sources(store, r)[n] \in Source
      BY <3>1, FileFacts DEF Sources
    <3>3. QED
      BY <3>2 DEF Source, Commits
  <2>3. ASSUME NEW a \in Asset
        PROVE  DOMAIN cache[a].forward \cup DOMAIN cache[a].reverse \subseteq Live
    BY InvParts, CacheParts
  <2>4. \A p \in Proc : subs[p] \subseteq [asset : Asset, name : Name]
    BY <2>1 DEF Types, LocalTypes
  <2>5. \A p \in Proc : running[p] \subseteq {Declares(a) : a \in Consumers(p)}
    BY <2>1 DEF Control
  <2>6. /\ entries \subseteq LiveEntry /\ marked \subseteq Asset /\ cut \subseteq Asset
        /\ pc \in [Proc -> PC] /\ cmd \in [Proc -> Commands \cup {NoCommand}]
    BY <2>1 DEF Types, DiskTypes, LocalTypes
  <2>7. QED
    BY <2>2, <2>3, <2>4, <2>5, <2>6 DEF TypeOK, LiveEntry
<1>2. QED
  BY <1>1, Invariance, PTL

\* No branch or commit depends on its own asset, not even by way of commands
\* that were checked at the same time.
THEOREM NoCycles == Spec => []NoOwnSource
<1>1. Inv => NoOwnSource
  <2>. SUFFICES ASSUME Inv, NEW r \in Live, NEW s \in Pins(store, r), NEW x \in Reached(store, s)
       PROVE  x[1] # r[1]
    BY DEF NoOwnSource
  <2>1. r[1] \in Asset /\ r[2] \in DOMAIN store[r[1]]
    BY InvParts, LiveFacts DEF Node, Exists
  <2>2. PICK n \in DOMAIN Sources(store, r) : s = Sources(store, r)[n].pin
    BY DEF Pins
  <2>3. Clean(store, r[1], store[r[1]])
    BY <2>1, InvParts DEF Acyclic
  <2>4. Avoids(store, s, r[1])
    BY <2>1, <2>2, <2>3 DEF Clean, Sources
  <2>5. QED
    BY <2>4 DEF Avoids
<1>2. QED
  BY <1>1, Invariance, PTL

\* What a cache says of a commit is what the asset files say.
THEOREM CachesRight == Spec => []CommitsCachedRight
<1>1. Inv => CommitsCachedRight
  BY InvParts DEF CommitsCachedRight, RightCache, Right
<1>2. QED
  BY <1>1, Invariance, PTL

=============================================================================
