--------------------------- MODULE TreeIndexProofs ---------------------------
(***************************************************************************)
(* The tree of assets, its index and the log of adds, for any number of    *)
(* processes, adds, crashes and failures.                                  *)
(*                                                                         *)
(* An index that somebody has loaded leads to nodes that are on disk, so   *)
(* the nodes an add makes have their directories there or among            *)
(* themselves; these are written from the root downwards.  What a rebuild  *)
(* is about to write has all that the index has: it began its scan in the  *)
(* lock in which alone the index is written, and nodes stay.  An add that  *)
(* is logged has been written whole, and has a number of its own.          *)
(***************************************************************************)
EXTENDS TreeIndex, HistoryProofs, WellFoundedInduction

-----------------------------------------------------------------------------
(* Numbers and sequences.                                                  *)

\* A set of numbers has a least one.
LEMMA Least ==
  ASSUME NEW T \in SUBSET Nat, T # {}
  PROVE  \E x \in T : \A y \in T : x <= y
<1>. DEFINE Below(x) == 0 .. x - 1
            R == StrictSubsetOrdering(Nat)
            B == {Below(x) : x \in T}
<1>1. IsWellFoundedOn(R, FiniteSubsetsOf(Nat))
  BY FS_StrictSubsetOrderingWellFounded
<1>2. B \subseteq FiniteSubsetsOf(Nat) /\ B # {}
  <2>1. ASSUME NEW x \in T PROVE Below(x) \subseteq Nat /\ IsFiniteSet(Below(x))
    <3>1. x \in Nat /\ 0 \in Int /\ x - 1 \in Int
      OBVIOUS
    <3>2. IsFiniteSet(0 .. x - 1)
      BY <3>1, FS_Interval
    <3>3. QED
      BY <3>1, <3>2
  <2>2. QED
    BY <2>1 DEF FiniteSubsetsOf
<1>3. \E b \in B : \A c \in B : ~(<<c, b>> \in R)
  <2> HIDE DEF B, R
  <2> QED
    BY <1>1, <1>2, WFMin
<1>4. PICK x \in T : \A y \in T : ~(<<Below(y), Below(x)>> \in R)
  BY <1>3
<1>5. ASSUME NEW y \in T, y < x PROVE FALSE
  <2>1. Below(y) \subseteq Below(x) /\ y \in Below(x) /\ y \notin Below(y)
    BY <1>5
  <2>2. Below(x) \subseteq Nat /\ Below(y) \subseteq Nat
    OBVIOUS
  <2>3. QED
    BY <1>4, <2>1, <2>2 DEF StrictSubsetOrdering
<1>6. QED
  BY <1>5

\* A bounded one has a largest one.
LEMMA MaxFacts ==
  ASSUME NEW n \in Nat, NEW T \in SUBSET (0 .. n), T # {}
  PROVE  Max(T) \in T /\ \A y \in T : y <= Max(T)
<1>. DEFINE U == {n - x : x \in T}
<1>1. PICK u \in U : \A y \in U : u <= y
  <2>1. U \in SUBSET Nat
    OBVIOUS
  <2>2. U # {}
    OBVIOUS
  <2>3. QED
    BY <2>1, <2>2, Least
<1>2. PICK x \in T : u = n - x
  OBVIOUS
<1>3. ASSUME NEW y \in T PROVE x >= y
  <2>1. n - x <= n - y
    BY <1>1, <1>2
  <2>2. x \in 0 .. n /\ y \in 0 .. n
    OBVIOUS
  <2>3. QED
    BY <2>1, <2>2
<1>4. \E z \in T : \A y \in T : z >= y
  BY <1>3
<1>5. QED
  BY <1>4 DEF Max
\* The paths above a request, and the directory of each.
LEMMA Paths ==
  ASSUME NEW r \in Requests
  PROVE  /\ Len(r) \in Nat \ {0} /\ r \in Seq(ToSet(r))
         /\ \A k \in 1 .. Len(r) :
              /\ SubSeq(r, 1, k) \in Path
              /\ Len(SubSeq(r, 1, k)) = k
              /\ Front(SubSeq(r, 1, k)) = SubSeq(r, 1, k - 1)
         /\ SubSeq(r, 1, Len(r)) = r /\ r \in Path
<1>1. r \in Seq(ToSet(r)) /\ r # <<>>
  BY TreeAssumption
<1>2. Len(r) \in Nat \ {0}
  BY <1>1
<1>3. SubSeq(r, 1, Len(r)) = r
  BY <1>1
<1>4. ASSUME NEW k \in 1 .. Len(r)
      PROVE  /\ SubSeq(r, 1, k) \in Path
             /\ Len(SubSeq(r, 1, k)) = k
             /\ Front(SubSeq(r, 1, k)) = SubSeq(r, 1, k - 1)
  <2>1. SubSeq(r, 1, k) \in Path
    BY DEF Path
  <2>2. Len(SubSeq(r, 1, k)) = k
    BY <1>1
  <2>3. Front(SubSeq(r, 1, k)) = SubSeq(SubSeq(r, 1, k), 1, k - 1)
    BY <2>2 DEF Front
  <2>4. SubSeq(SubSeq(r, 1, k), 1, k - 1) = SubSeq(r, 1, k - 1)
    BY <1>1
  <2>5. QED
    BY <2>1, <2>2, <2>3, <2>4
<1>5. r \in Path
  <2>1. Len(r) \in 1 .. Len(r)
    BY <1>2
  <2>2. QED
    BY <1>3, <1>4, <2>1
<1>6. QED
  BY <1>1, <1>2, <1>3, <1>4, <1>5

\* A path is as long as it says, and its directory is shorter.
LEMMA PathLen ==
  ASSUME NEW x \in Path
  PROVE  /\ Len(x) \in Nat \ {0} /\ Len(Front(x)) = Len(x) - 1
         /\ \E S : x \in Seq(S)
<1>0. PICK r \in Requests : \E k \in 1 .. Len(r) : x = SubSeq(r, 1, k)
  BY DEF Path
<1>1. PICK k \in 1 .. Len(r) : x = SubSeq(r, 1, k)
  BY <1>0
<1>2. Len(r) \in Nat /\ r \in Seq(ToSet(r)) /\ Len(x) = k /\ Front(x) = SubSeq(r, 1, k - 1)
  BY <1>1, Paths
<1>3. Len(SubSeq(r, 1, k - 1)) = k - 1
  BY <1>2
<1>4. x \in Seq(ToSet(r))
  BY <1>1, <1>2
<1>5. QED
  BY <1>2, <1>3, <1>4

-----------------------------------------------------------------------------
(* Trees.                                                                  *)

\* The node n has its directory in N.
HasParent(n, N) == n.parent = 0 \/ \E m \in N : m.add = n.parent /\ m.path = Front(n.path)

\* The map idx leads to nodes of N.
Leads(idx, N) == \A x \in DOMAIN idx : idx[x] \in N /\ idx[x].path = x

\* What the index gives for the closest directory.
LEMMA ClosestFacts ==
  ASSUME NEW path \in Requests, NEW idx, Leads(idx, Node)
  PROVE  /\ Closest(idx, path) \in 0 .. Len(path) - 1
         /\ Closest(idx, path) # 0 => SubSeq(path, 1, Closest(idx, path)) \in DOMAIN idx
<1> DEFINE T == {0} \cup {Len(x) : x \in {y \in DOMAIN idx : IsStrictPrefix(y, path)}}
<1>0. Len(path) \in Nat \ {0} /\ path \in Seq(ToSet(path)) /\ SubSeq(path, 1, Len(path)) = path
  BY Paths
<1>1. ASSUME NEW y \in DOMAIN idx, IsStrictPrefix(y, path)
      PROVE  Len(y) \in 1 .. Len(path) - 1 /\ SubSeq(path, 1, Len(y)) = y
  <2>1. y \in Path
    BY DEF Leads, Node
  <2>2. Len(y) \in Nat \ {0}
    BY <2>1, PathLen
  <2>3. PICK S : y \in Seq(S)
    BY <2>1, PathLen
  <2>4. SubSeq(y, 1, Len(y)) = y
    BY <2>3
  <2>5. QED
    BY <1>0, <1>1, <2>2, <2>4 DEF IsStrictPrefix, IsPrefix
<1>2. T \in SUBSET (0 .. Len(path) - 1)
  BY <1>0, <1>1
<1>3. Max(T) \in T
  <2> HIDE DEF T
  <2>1. Len(path) - 1 \in Nat
    BY <1>0
  <2>2. T # {}
    BY DEF T
  <2>3. QED
    BY <1>2, <2>1, <2>2, MaxFacts
<1>4. Closest(idx, path) = Max(T)
  BY DEF Closest
<1>5. QED
  BY <1>1, <1>2, <1>3, <1>4

\* The nodes that an add makes, by an index that leads to N.
LEMMA NewNodesFacts ==
  ASSUME NEW path \in Requests, NEW N \in SUBSET Node, NEW idx, Leads(idx, N),
         NEW n \in 1 .. MaxAdds
  PROVE  /\ NewNodes(idx, path, n) \subseteq Node
         /\ \A x \in NewNodes(idx, path, n) :
              x.add = n /\ HasParent(x, N \cup NewNodes(idx, path, n))
         /\ \E x \in NewNodes(idx, path, n) : x.asset
<1> DEFINE from == Closest(idx, path)
           M(k) == [add |-> n, path |-> SubSeq(path, 1, k),
                    parent |-> IF k > from + 1 THEN n
                               ELSE IF from = 0 THEN 0 ELSE idx[SubSeq(path, 1, from)].add,
                    asset |-> k = Len(path)]
<1>0. MaxAdds \in Nat /\ Len(path) \in Nat \ {0}
  BY TreeAssumption, Paths
<1>1. from \in 0 .. Len(path) - 1 /\ (from # 0 => SubSeq(path, 1, from) \in DOMAIN idx)
  <2>1. Leads(idx, Node)
    BY DEF Leads
  <2>2. QED
    BY <2>1, ClosestFacts
<1>2. NewNodes(idx, path, n) = {M(k) : k \in from + 1 .. Len(path)}
  BY DEF NewNodes
<1> HIDE DEF from
<1>3. ASSUME NEW k \in from + 1 .. Len(path)
      PROVE  /\ M(k) \in Node /\ M(k).add = n
             /\ HasParent(M(k), N \cup {M(j) : j \in from + 1 .. Len(path)})
  <2>1. k \in 1 .. Len(path)
    BY <1>0, <1>1
  <2>2. /\ SubSeq(path, 1, k) \in Path
        /\ Front(SubSeq(path, 1, k)) = SubSeq(path, 1, k - 1)
    BY <2>1, Paths
  <2>3. CASE k > from + 1
    <3>1. k - 1 \in from + 1 .. Len(path)
      BY <1>0, <1>1, <2>1, <2>3
    <3>2. /\ M(k - 1).add = n /\ M(k - 1).path = SubSeq(path, 1, k - 1)
          /\ M(k).parent = n /\ M(k).path = SubSeq(path, 1, k)
      BY <2>3
    <3>3. M(k) \in Node
      BY <1>0, <2>2, <2>3 DEF Node
    <3>4. M(k - 1) \in N \cup {M(j) : j \in from + 1 .. Len(path)}
      BY <3>1
    <3>5. HasParent(M(k), N \cup {M(j) : j \in from + 1 .. Len(path)})
      <4> HIDE DEF M
      <4> QED
        BY <2>2, <3>2, <3>4 DEF HasParent
    <3>6. QED
      BY <3>3, <3>5
  <2>4. CASE k = from + 1 /\ from = 0
    <3>1. M(k).parent = 0 /\ M(k) \in Node
      BY <1>0, <2>2, <2>4 DEF Node
    <3>2. QED
      BY <3>1 DEF HasParent
  <2>5. CASE k = from + 1 /\ from # 0
    <3> DEFINE m == idx[SubSeq(path, 1, from)]
    <3>0. k - 1 = from /\ SubSeq(path, 1, from) \in DOMAIN idx
      BY <1>0, <1>1, <2>5
    <3>1. m \in N /\ m.path = SubSeq(path, 1, k - 1)
      BY <3>0 DEF Leads
    <3>2. M(k).parent = m.add /\ m.add \in 0 .. MaxAdds
      BY <1>0, <1>1, <2>5, <3>1 DEF Node
    <3>3. M(k) \in Node
      BY <1>0, <2>2, <3>2 DEF Node
    <3>4. QED
      BY <2>2, <3>1, <3>2, <3>3 DEF HasParent
  <2>6. QED
    BY <1>0, <1>1, <2>3, <2>4, <2>5
<1>4. M(Len(path)).asset
  OBVIOUS
<1>5. Len(path) \in from + 1 .. Len(path)
  BY <1>0, <1>1
<1>6. QED
  BY <1>2, <1>3, <1>4, <1>5

\* The next node that is written, and that its directory is written.
LEMMA HighestFacts ==
  ASSUME NEW U \in SUBSET Node, U # {}
  PROVE  /\ Highest(U) \in U
         /\ \A N : HasParent(Highest(U), N \cup U) => HasParent(Highest(U), N)
<1> DEFINE T == {Len(x.path) : x \in U}
<1>1. \A x \in U : Len(x.path) \in Nat /\ Len(Front(x.path)) < Len(x.path)
  BY PathLen DEF Node
<1>2. PICK l \in T : \A y \in T : l <= y
  <2>1. T \in SUBSET Nat /\ T # {}
    BY <1>1
  <2>2. QED
    BY <2>1, Least
<1>3. \E n \in U : \A m \in U : Len(n.path) <= Len(m.path)
  BY <1>2
<1>4. Highest(U) \in U /\ \A m \in U : Len(Highest(U).path) <= Len(m.path)
  BY <1>3 DEF Highest
<1>5. ASSUME NEW m \in U, m.path = Front(Highest(U).path) PROVE FALSE
  BY <1>1, <1>4, <1>5
<1>6. QED
  BY <1>4, <1>5 DEF HasParent

\* A tree whose nodes have their directories, grown by one that has.
LEMMA RootedFacts ==
  /\ \A N : Rooted(N) <=> \A n \in N : HasParent(n, N)
  /\ \A N, n : Rooted(N) /\ HasParent(n, N) => Rooted(N \cup {n})
  /\ \A N : Resolved(N) \subseteq N /\ Rooted(Resolved(N))
  /\ \A N, M : M \subseteq N /\ Rooted(M) => M \subseteq Resolved(N)
<1>1. \A N : Rooted(N) <=> \A n \in N : HasParent(n, N)
  BY DEF Rooted, HasParent
<1>2. \A N, n : Rooted(N) /\ HasParent(n, N) => Rooted(N \cup {n})
  BY <1>1 DEF HasParent
<1>3. ASSUME NEW N PROVE Resolved(N) \subseteq N /\ Rooted(Resolved(N))
  <2>1. ASSUME NEW n \in Resolved(N) PROVE HasParent(n, Resolved(N))
    <3>1. PICK M \in SUBSET N : Rooted(M) /\ n \in M
      BY DEF Resolved
    <3>2. M \subseteq Resolved(N)
      BY <3>1 DEF Resolved
    <3>3. QED
      BY <1>1, <3>1, <3>2 DEF HasParent
  <2>2. QED
    BY <1>1, <2>1 DEF Resolved
<1>4. \A N, M : M \subseteq N /\ Rooted(M) => M \subseteq Resolved(N)
  BY DEF Resolved
<1>5. QED
  BY <1>1, <1>2, <1>3, <1>4

-----------------------------------------------------------------------------
(* The invariant.                                                          *)

Adding    == {"begin", "validate", "update", "asset", "flush", "finish", "close"}
Unwriting == {"asset", "flush", "finish", "close"}

\* Every add has a number of its own.
Numbered ==
    /\ adds \in 0 .. MaxAdds
    /\ \A p \in Proc : number[p] <= adds
    /\ \A p, q \in Proc : p # q /\ number[p] # 0 => number[p] # number[q]
    /\ \A p \in Proc : job[p] # <<>> => number[p] # 0
    /\ \A p \in Proc : pc[p] \in Adding => job[p] # <<>>

\* Whoever rebuilds holds the lock and has all that the index has; the index,
\* and what anybody has loaded of it, leads to nodes on disk.
IndexLeads ==
    /\ DOMAIN loaded = Proc
    /\ index.ids \subseteq nodes /\ Rooted(index.ids) /\ Leads(index.of, index.ids)
    /\ \A p \in Proc :
         /\ Leads(loaded[p], nodes)
         /\ pc[p] \in Rebuilding => lock = p
         /\ pc[p] \in {"scan", "index", "list", "unmark"} =>
              base[p] \subseteq nodes /\ index.ids \subseteq base[p]
         /\ pc[p] \in {"index", "list", "unmark"} =>
              Rooted(base[p]) /\ Leads(loaded[p], base[p])

\* The two files of the cache agree, or one of them is missing, or the marker is
\* there until both are written.
FilesAgree ==
    /\ list.exists => index.exists
    /\ list.exists /\ ~stale => list.paths = AssetPaths(index.ids)
    /\ \A p \in Proc :
         /\ pc[p] \in {"scan", "index", "list"} => stale \/ ~list.exists
         /\ pc[p] \in {"list", "unmark"} => index.ids = base[p]
         /\ pc[p] = "list" => index.exists
         /\ pc[p] = "unmark" => list.paths = AssetPaths(base[p])

\* What is on disk has its directories, and what an add has still to write has
\* them there or with it; the asset comes first.
NodesOrdered ==
    /\ Rooted(nodes) /\ \A n \in nodes : n.asset => n.add \in assets
    /\ \A p \in Proc :
         /\ pc[p] \notin Unwriting => unwritten[p] = {} /\ ~dirty[p]
         /\ \A n \in unwritten[p] : n.add = number[p] /\ HasParent(n, nodes \cup unwritten[p])
         /\ pc[p] = "flush" => number[p] \in assets

TreeInv == Numbered /\ IndexLeads /\ FilesAgree /\ NodesOrdered

-----------------------------------------------------------------------------
(* The steps.                                                              *)

\* The steps of an add that change what it knows and nothing else.
Quiet(p) ==
    \/ Wait(p) \/ Check(p) \/ LockRebuild(p)
    \/ Begin(p) \/ Conflicts(p) \/ Validate(p) \/ UpdateFails(p) \/ EndFlush(p)
    \/ LockExpires(p) \/ FilesExpire(p) \/ EndTransaction(p)

Leaving(p) == LockTimeout(p) \/ RebuildFails(p) \/ Close(p) \/ Crash(p)

Having(p) == Load(p) \/ RecheckFresh(p) \/ Unmark(p)

\* Next, by what the steps have in common.
LEMMA Cases ==
  ASSUME [Next]_vars
  PROVE  \/ UNCHANGED treeVars
         \/ \E p \in Proc :
              \/ \E r \in Requests \cup {<<>>} : Start(p, r) /\ UNCHANGED logVars
              \/ Quiet(p) \/ Leaving(p) \/ Having(p)
              \/ BeginScan(p) \/ EndScan(p) \/ WriteIndex(p) \/ WriteList(p)
              \/ Update(p) \/ FlushAsset(p) \/ FlushNode(p)
  BY DEF Next, TreeStep, Quiet, Leaving, Having, vars

\* A command that is over, or has its index, has nothing to rebuild or to write.
LEMMA OverFacts ==
  ASSUME TypeOK, TreeInv, NEW p \in Proc, Leaving(p) \/ Having(p)
  PROVE  /\ DOMAIN loaded' = Proc
         /\ pc'[p] \in {"idle", "dead", "begin"} /\ Leads(loaded'[p], nodes)
         /\ base'[p] = {} /\ unwritten'[p] = {} /\ ~dirty'[p]
         /\ IF pc'[p] = "begin"
              THEN job'[p] = job[p] /\ number'[p] = number[p] /\ job[p] # <<>>
              ELSE job'[p] = <<>> /\ number'[p] = 0
         /\ \A q \in Proc \ {p} :
              /\ pc'[q] = pc[q] /\ job'[q] = job[q] /\ loaded'[q] = loaded[q] /\ base'[q] = base[q]
              /\ unwritten'[q] = unwritten[q] /\ number'[q] = number[q] /\ dirty'[q] = dirty[q]
         /\ nodes' = nodes /\ assets' = assets /\ index' = index /\ list' = list /\ adds' = adds
         /\ lock' = lock \/ lock = p
         /\ stale' = stale \/ stale' = TRUE \/ pc[p] = "unmark"
<1>1. DOMAIN loaded = Proc
  BY DEF TreeInv, IndexLeads
<1>2. /\ \/ \E l \in {"idle", "dead"} : Exit(p, l)
         \/ /\ pc[p] \notin Unwriting
            /\ \E idx : HaveIndex(p, idx) /\ Leads(idx, nodes)
      /\ nodes' = nodes /\ assets' = assets /\ index' = index /\ list' = list /\ adds' = adds
  <2>1. CASE Leaving(p)
    BY <2>1 DEF Leaving, LockTimeout, RebuildFails, Close, Crash, diskVars
  <2>2. CASE Load(p) \/ RecheckFresh(p)
    <3>1. Leads(index.of, nodes)
      BY DEF TreeInv, IndexLeads, Leads
    <3>2. QED
      BY <2>2, <3>1 DEF Load, RecheckFresh, diskVars, Unwriting
  <2>3. CASE Unmark(p)
    BY <2>3 DEF Unmark, TreeInv, IndexLeads, Leads, Unwriting
  <2>4. QED
    BY <2>1, <2>2, <2>3 DEF Having
<1>3. /\ lock' = lock \/ lock = p
      /\ stale' = stale \/ stale' = TRUE \/ pc[p] = "unmark"
  BY DEF Leaving, LockTimeout, RebuildFails, Close, Crash, Having, Load, RecheckFresh, Unmark,
     diskVars, Lock!Release, TypeOK
<1>4. Leads(<<>>, nodes)
  BY DEF Leads
<1>5. ASSUME NEW l \in {"idle", "dead"}, Exit(p, l)
      PROVE  /\ DOMAIN loaded' = Proc
             /\ pc'[p] = l /\ loaded'[p] = <<>> /\ job'[p] = <<>> /\ number'[p] = 0
             /\ base'[p] = {} /\ unwritten'[p] = {} /\ ~dirty'[p]
             /\ \A q \in Proc \ {p} :
                  /\ pc'[q] = pc[q] /\ job'[q] = job[q] /\ loaded'[q] = loaded[q]
                  /\ base'[q] = base[q] /\ unwritten'[q] = unwritten[q]
                  /\ number'[q] = number[q] /\ dirty'[q] = dirty[q]
  BY <1>1, <1>5 DEF Exit, Goto, TypeOK
<1>6. ASSUME NEW idx, HaveIndex(p, idx), job[p] # <<>>
      PROVE  /\ DOMAIN loaded' = Proc
             /\ pc'[p] = "begin" /\ loaded'[p] = idx /\ job' = job /\ number' = number
             /\ base'[p] = {} /\ unwritten' = unwritten /\ dirty' = dirty
             /\ \A q \in Proc \ {p} :
                  /\ pc'[q] = pc[q] /\ loaded'[q] = loaded[q] /\ base'[q] = base[q]
  BY <1>1, <1>6 DEF HaveIndex, Goto, TypeOK
<1>7. CASE \E l \in {"idle", "dead"} : Exit(p, l)
  BY <1>2, <1>3, <1>4, <1>5, <1>7
<1>8. CASE pc[p] \notin Unwriting /\ \E idx : HaveIndex(p, idx) /\ Leads(idx, nodes)
  <2>1. PICK idx : HaveIndex(p, idx) /\ Leads(idx, nodes)
    BY <1>8
  <2>2. CASE job[p] = <<>>
    BY <1>7, <2>1, <2>2 DEF HaveIndex
  <2>3. CASE job[p] # <<>>
    BY <1>2, <1>3, <1>6, <1>8, <2>1, <2>3 DEF TreeInv, NodesOrdered
  <2>4. QED
    BY <2>2, <2>3
<1>9. QED
  BY <1>2, <1>7, <1>8

\* Each add that starts takes the next number.
LEMMA NumberedStep ==
  ASSUME TypeOK, TreeInv, [Next]_vars PROVE Numbered'
<1> USE TreeAssumption DEF TypeOK, Goto, diskVars, localVars
<1>0. Numbered
  BY DEF TreeInv
<1>1. CASE UNCHANGED treeVars
  BY <1>0, <1>1 DEF treeVars, Numbered
<1>2. ASSUME NEW p \in Proc, NEW r \in Requests \cup {<<>>}, Start(p, r) PROVE Numbered'
  BY <1>0, <1>2 DEF Start, Numbered, Adding
<1>3. ASSUME NEW p \in Proc, Quiet(p) PROVE Numbered'
  BY <1>0, <1>3 DEF Quiet, Numbered, Adding, Wait, Check, LockRebuild, Begin, Conflicts, Validate,
     UpdateFails, EndFlush, LockExpires, FilesExpire, EndTransaction
<1>4. ASSUME NEW p \in Proc, Leaving(p) \/ Having(p) PROVE Numbered'
  <2>1. /\ adds' = adds /\ pc'[p] \in {"idle", "dead", "begin"}
        /\ IF pc'[p] = "begin"
             THEN job'[p] = job[p] /\ number'[p] = number[p] /\ job[p] # <<>>
             ELSE job'[p] = <<>> /\ number'[p] = 0
        /\ \A q \in Proc \ {p} : pc'[q] = pc[q] /\ job'[q] = job[q] /\ number'[q] = number[q]
    BY <1>4, OverFacts
  <2>2. /\ number'[p] \in {0, number[p]} /\ (job'[p] # <<>> => number'[p] # 0)
        /\ (pc'[p] \in Adding => job'[p] # <<>>)
    BY <1>0, <2>1 DEF Numbered, Adding
  <2>3. adds' \in 0 .. MaxAdds /\ 0 <= adds'
    BY <1>0, <2>1 DEF Numbered
  <2>4. ASSUME NEW q \in Proc
        PROVE  /\ number'[q] <= adds' /\ (job'[q] # <<>> => number'[q] # 0)
               /\ (pc'[q] \in Adding => job'[q] # <<>>)
    <3>1. CASE q = p
      BY <1>0, <2>1, <2>2, <2>3, <3>1 DEF Numbered
    <3>2. CASE q # p
      BY <1>0, <2>1, <3>2 DEF Numbered
    <3>3. QED
      BY <3>1, <3>2
  <2>5. ASSUME NEW q \in Proc, NEW r \in Proc, q # r, number'[q] # 0 PROVE number'[q] # number'[r]
    BY <1>0, <2>1, <2>2, <2>5 DEF Numbered
  <2>6. QED
    BY <2>3, <2>4, <2>5 DEF Numbered
<1>5. ASSUME NEW p \in Proc,
             \/ BeginScan(p) \/ EndScan(p) \/ WriteIndex(p) \/ WriteList(p)
             \/ Update(p) \/ FlushAsset(p) \/ FlushNode(p)
      PROVE  Numbered'
  BY <1>0, <1>5 DEF Numbered, Adding, BeginScan, EndScan, WriteIndex, WriteList, Update, FlushAsset,
     FlushNode
<1>6. QED
  BY <1>1, <1>2, <1>3, <1>4, <1>5, Cases

\* The index is written by whoever rebuilds, of what it has found.
LEMMA IndexLeadsStep ==
  ASSUME TypeOK, TreeInv, [Next]_vars PROVE IndexLeads'
<1> USE DEF TypeOK, diskVars, localVars
<1>0. IndexLeads
  BY DEF TreeInv
<1>a. \A f, N, M : Leads(f, N) /\ N \subseteq M => Leads(f, M)
  BY DEF Leads
<1>b. \A p \in Proc : pc[p] \in Rebuilding => lock = p /\ lock # NoOne
  BY <1>0, HistoryAssumption DEF IndexLeads
<1>1. CASE UNCHANGED treeVars
  BY <1>0, <1>1 DEF treeVars, IndexLeads, Leads
<1>2. ASSUME NEW p \in Proc, NEW r \in Requests \cup {<<>>}, Start(p, r) PROVE IndexLeads'
  BY <1>0, <1>2 DEF Start, Goto, IndexLeads, Rebuilding, Leads
<1>3. ASSUME NEW p \in Proc, Quiet(p) PROVE IndexLeads'
  <2>1. /\ nodes' = nodes /\ index' = index /\ loaded' = loaded /\ base' = base
        /\ \A q \in Proc : pc'[q] = pc[q] \/ pc'[q] \notin Rebuilding \/ (pc'[q] = "recheck" /\ lock' = q)
        /\ lock' = lock \/ lock = NoOne \/ pc[lock] \notin Rebuilding
    BY <1>3 DEF Quiet, Goto, Rebuilding, Wait, Check, LockRebuild, Begin, Conflicts, Validate,
       UpdateFails, EndFlush, LockExpires, FilesExpire, EndTransaction, Lock!Acquire
  <2>2. \A q \in Proc : pc'[q] \in Rebuilding => lock' = q
    BY <1>b, <2>1
  <2>3. QED
    BY <1>0, <2>1, <2>2 DEF IndexLeads, Leads, Rebuilding
<1>4. ASSUME NEW p \in Proc, Leaving(p) \/ Having(p) PROVE IndexLeads'
  <2>1. /\ DOMAIN loaded' = Proc
        /\ pc'[p] \in {"idle", "dead", "begin"} /\ Leads(loaded'[p], nodes)
        /\ \A q \in Proc \ {p} : pc'[q] = pc[q] /\ loaded'[q] = loaded[q] /\ base'[q] = base[q]
        /\ nodes' = nodes /\ index' = index
        /\ lock' = lock \/ lock = p
    BY <1>4, OverFacts DEF TypeOK
  <2>2. \A q \in Proc : pc'[q] \in Rebuilding => lock' = q
    BY <1>b, <2>1 DEF Rebuilding
  <2>3. QED
    BY <1>0, <2>1, <2>2 DEF IndexLeads, Leads, Rebuilding
<1>5. ASSUME NEW p \in Proc, BeginScan(p) PROVE IndexLeads'
  BY <1>0, <1>5 DEF BeginScan, Goto, IndexLeads, Rebuilding, Leads
<1>6. ASSUME NEW p \in Proc, EndScan(p) PROVE IndexLeads'
  <2>1. PICK late \in SUBSET (nodes \ base[p]) :
          \E idx \in ByPath(Resolved(base[p] \cup late)) :
            /\ base' = [base EXCEPT ![p] = Resolved(base[p] \cup late)]
            /\ loaded' = [loaded EXCEPT ![p] = idx]
    BY <1>6 DEF EndScan
  <2> DEFINE found == Resolved(base[p] \cup late)
  <2>2. PICK idx \in ByPath(found) : base' = [base EXCEPT ![p] = found] /\ loaded' = [loaded EXCEPT ![p] = idx]
    BY <2>1
  <2>3. pc[p] = "scan" /\ pc' = [pc EXCEPT ![p] = "index"] /\ nodes' = nodes /\ index' = index /\ lock' = lock
    BY <1>6 DEF EndScan, Goto
  <2>4. base[p] \subseteq nodes /\ index.ids \subseteq base[p] /\ Rooted(index.ids)
    BY <1>0, <2>3 DEF IndexLeads
  <2>5. found \subseteq nodes /\ Rooted(found) /\ index.ids \subseteq found
    BY <2>4, RootedFacts
  <2> HIDE DEF found
  <2>6. Leads(idx, found)
    BY <2>2 DEF ByPath, Leads
  <2>7. Leads(idx, nodes)
    BY <1>a, <2>5, <2>6
  <2>8. DOMAIN loaded' = Proc /\ base'[p] = found /\ loaded'[p] = idx /\ pc'[p] = "index"
        /\ \A q \in Proc \ {p} : pc'[q] = pc[q] /\ loaded'[q] = loaded[q] /\ base'[q] = base[q]
    BY <1>0, <2>2, <2>3 DEF IndexLeads
  <2>9. lock = p
    BY <1>b, <2>3 DEF Rebuilding
  <2>10. ASSUME NEW q \in Proc
         PROVE  /\ Leads(loaded'[q], nodes)
                /\ pc'[q] \in Rebuilding => lock' = q
                /\ pc'[q] \in {"scan", "index", "list", "unmark"} =>
                     base'[q] \subseteq nodes /\ index.ids \subseteq base'[q]
                /\ pc'[q] \in {"index", "list", "unmark"} =>
                     Rooted(base'[q]) /\ Leads(loaded'[q], base'[q])
    <3>1. CASE q = p
      BY <2>3, <2>5, <2>6, <2>7, <2>8, <2>9, <3>1
    <3>2. CASE q # p
      BY <1>0, <2>3, <2>8, <3>2 DEF IndexLeads
    <3>3. QED
      BY <3>1, <3>2
  <2>11. QED
    BY <1>0, <2>3, <2>8, <2>10 DEF IndexLeads, Leads, Rooted
<1>7. ASSUME NEW p \in Proc, WriteIndex(p) PROVE IndexLeads'
  BY <1>0, <1>7 DEF WriteIndex, Goto, IndexLeads, Rebuilding, Leads
<1>8. ASSUME NEW p \in Proc, WriteList(p) \/ Update(p) \/ FlushAsset(p) \/ FlushNode(p)
      PROVE  IndexLeads'
  BY <1>0, <1>8 DEF WriteList, Update, FlushAsset, FlushNode, Goto, IndexLeads, Rebuilding, Leads
<1>9. QED
  BY <1>1, <1>2, <1>3, <1>4, <1>5, <1>6, <1>7, <1>8, Cases

\* The marker stays until both files are written.
LEMMA FilesAgreeStep ==
  ASSUME TypeOK, TreeInv, [Next]_vars PROVE FilesAgree'
<1> USE DEF TypeOK, diskVars, localVars
<1>0. FilesAgree
  BY DEF TreeInv
<1>a. \A p \in Proc : pc[p] \in Rebuilding => lock = p
  BY DEF TreeInv, IndexLeads
<1>1. CASE UNCHANGED treeVars
  BY <1>0, <1>1 DEF treeVars, FilesAgree, AssetPaths
<1>2. ASSUME NEW p \in Proc, NEW r \in Requests \cup {<<>>}, Start(p, r) PROVE FilesAgree'
  BY <1>0, <1>2 DEF Start, Goto, FilesAgree, AssetPaths
<1>3. ASSUME NEW p \in Proc, Quiet(p) PROVE FilesAgree'
  BY <1>0, <1>3 DEF Quiet, Goto, FilesAgree, AssetPaths, Wait, Check, LockRebuild, Begin, Conflicts,
     Validate, UpdateFails, EndFlush, LockExpires, FilesExpire, EndTransaction
<1>4. ASSUME NEW p \in Proc, Leaving(p) \/ Having(p) PROVE FilesAgree'
  <2>1. /\ pc'[p] \in {"idle", "dead", "begin"}
        /\ \A q \in Proc \ {p} : pc'[q] = pc[q] /\ base'[q] = base[q]
        /\ index' = index /\ list' = list
        /\ stale' = stale \/ stale' = TRUE \/ pc[p] = "unmark"
    BY <1>4, OverFacts DEF TypeOK
  <2>2. CASE stale' = stale \/ stale' = TRUE
    BY <1>0, <2>1, <2>2 DEF FilesAgree, AssetPaths
  <2>3. CASE pc[p] = "unmark"
    <3>1. list.paths = AssetPaths(index.ids)
      BY <1>0, <2>3 DEF FilesAgree
    <3>2. \A q \in Proc \ {p} : pc'[q] \notin Rebuilding
      BY <1>a, <2>1, <2>3 DEF Rebuilding
    <3>3. QED
      BY <1>0, <2>1, <3>1, <3>2 DEF FilesAgree, AssetPaths, Rebuilding
  <2>4. QED
    BY <2>1, <2>2, <2>3
<1>5. ASSUME NEW p \in Proc, BeginScan(p) PROVE FilesAgree'
  BY <1>0, <1>5 DEF BeginScan, Goto, FilesAgree, MustRebuild, AssetPaths
<1>6. ASSUME NEW p \in Proc, EndScan(p) PROVE FilesAgree'
  BY <1>0, <1>6 DEF EndScan, Goto, FilesAgree, AssetPaths
<1>7. ASSUME NEW p \in Proc, WriteIndex(p) PROVE FilesAgree'
  BY <1>0, <1>a, <1>7 DEF WriteIndex, Goto, FilesAgree, Rebuilding, AssetPaths
<1>8. ASSUME NEW p \in Proc, WriteList(p) PROVE FilesAgree'
  BY <1>0, <1>a, <1>8 DEF WriteList, Goto, FilesAgree, Rebuilding, AssetPaths
<1>9. ASSUME NEW p \in Proc, Update(p) \/ FlushAsset(p) \/ FlushNode(p) PROVE FilesAgree'
  BY <1>0, <1>9 DEF Update, FlushAsset, FlushNode, Goto, FilesAgree, AssetPaths
<1>10. QED
  BY <1>1, <1>2, <1>3, <1>4, <1>5, <1>6, <1>7, <1>8, <1>9, Cases

\* The asset is written first, then its nodes from the root downwards.
LEMMA NodesOrderedStep ==
  ASSUME TypeOK, TreeInv, [Next]_vars PROVE NodesOrdered'
<1> USE DEF TypeOK, diskVars, localVars
<1>0. NodesOrdered
  BY DEF TreeInv
<1>1. CASE UNCHANGED treeVars
  BY <1>0, <1>1 DEF treeVars, NodesOrdered, HasParent, Rooted
<1>2. ASSUME NEW p \in Proc, NEW r \in Requests \cup {<<>>}, Start(p, r) PROVE NodesOrdered'
  <2>1. /\ pc[p] = "idle" /\ pc' = [pc EXCEPT ![p] = "open"]
        /\ nodes' = nodes /\ assets' = assets /\ unwritten' = unwritten /\ dirty' = dirty
        /\ \A q \in Proc \ {p} : number'[q] = number[q]
    BY <1>2 DEF Start, Goto
  <2>2. unwritten[p] = {}
    BY <1>0, <2>1 DEF NodesOrdered, Unwriting
  <2>3. QED
    BY <1>0, <2>1, <2>2 DEF NodesOrdered, HasParent, Rooted, Unwriting
<1>3. ASSUME NEW p \in Proc, Quiet(p) PROVE NodesOrdered'
  <2>1. /\ nodes' = nodes /\ assets' = assets /\ unwritten' = unwritten /\ dirty' = dirty
        /\ number' = number
        /\ \A q \in Proc : /\ pc[q] \in Unwriting => pc'[q] \in Unwriting
                           /\ pc'[q] = "flush" => pc[q] = "flush"
    BY <1>3 DEF Quiet, Goto, Unwriting, Wait, Check, LockRebuild, Begin,
       Conflicts, Validate, UpdateFails, EndFlush, LockExpires, FilesExpire, EndTransaction
  <2>2. QED
    BY <1>0, <2>1 DEF NodesOrdered, HasParent, Rooted
<1>4. ASSUME NEW p \in Proc, Leaving(p) \/ Having(p) PROVE NodesOrdered'
  <2>1. /\ pc'[p] \in {"idle", "dead", "begin"} /\ unwritten'[p] = {} /\ ~dirty'[p]
        /\ \A q \in Proc \ {p} :
             /\ pc'[q] = pc[q] /\ unwritten'[q] = unwritten[q]
             /\ number'[q] = number[q] /\ dirty'[q] = dirty[q]
        /\ nodes' = nodes /\ assets' = assets
    BY <1>4, OverFacts DEF TypeOK
  <2>2. QED
    BY <1>0, <2>1 DEF NodesOrdered, HasParent, Rooted
<1>5. ASSUME NEW p \in Proc, BeginScan(p) \/ EndScan(p) \/ WriteIndex(p) \/ WriteList(p)
      PROVE  NodesOrdered'
  <2>1. /\ nodes' = nodes /\ assets' = assets /\ unwritten' = unwritten /\ dirty' = dirty
        /\ number' = number
        /\ \A q \in Proc : /\ pc[q] \in Unwriting => pc'[q] \in Unwriting
                           /\ pc'[q] = "flush" => pc[q] = "flush"
    BY <1>5 DEF BeginScan, EndScan, WriteIndex, WriteList, Goto, Unwriting
  <2>2. QED
    BY <1>0, <2>1 DEF NodesOrdered, HasParent, Rooted
<1>6. ASSUME NEW p \in Proc, Update(p) PROVE NodesOrdered'
  <2> DEFINE new == NewNodes(loaded[p], job[p], number[p])
  <2>1. /\ pc[p] = "update" /\ pc' = [pc EXCEPT ![p] = "asset"]
        /\ unwritten' = [unwritten EXCEPT ![p] = new] /\ dirty' = [dirty EXCEPT ![p] = TRUE]
        /\ nodes' = nodes /\ assets' = assets /\ number' = number
    BY <1>6 DEF Update, Goto
  <2>2. job[p] \in Requests /\ number[p] \in 1 .. MaxAdds /\ Leads(loaded[p], nodes)
    BY <2>1, TreeAssumption DEF TreeInv, Numbered, Adding, IndexLeads
  <2>3. \A x \in new : x.add = number[p] /\ HasParent(x, nodes \cup new)
    BY <2>2, NewNodesFacts
  <2> HIDE DEF new
  <2>4. QED
    BY <1>0, <2>1, <2>3 DEF NodesOrdered, HasParent, Rooted, Unwriting
<1>7. ASSUME NEW p \in Proc, FlushAsset(p) PROVE NodesOrdered'
  BY <1>0, <1>7 DEF FlushAsset, Goto, NodesOrdered, HasParent, Rooted, Unwriting
<1>8. ASSUME NEW p \in Proc, FlushNode(p) PROVE NodesOrdered'
  <2> DEFINE n == Highest(unwritten[p])
  <2>1. /\ pc[p] = "flush" /\ pc' = pc /\ unwritten[p] # {}
        /\ nodes' = nodes \cup {n} /\ unwritten' = [unwritten EXCEPT ![p] = @ \ {n}]
        /\ assets' = assets /\ number' = number /\ dirty' = dirty
    BY <1>8 DEF FlushNode
  <2>2. n \in unwritten[p] /\ \A N : HasParent(n, N \cup unwritten[p]) => HasParent(n, N)
    BY <2>1, HighestFacts
  <2> HIDE DEF n
  <2>3. HasParent(n, nodes) /\ n.add \in assets
    BY <1>0, <2>1, <2>2 DEF NodesOrdered
  <2>4. Rooted(nodes')
    BY <1>0, <2>1, <2>3, RootedFacts DEF NodesOrdered
  <2>5. \A q \in Proc : \A m \in unwritten'[q] :
           m \in unwritten[q] /\ nodes \cup unwritten[q] \subseteq nodes' \cup unwritten'[q]
    BY <2>1
  <2>6. \A q \in Proc : \A m \in unwritten'[q] : HasParent(m, nodes' \cup unwritten'[q])
    BY <1>0, <2>5 DEF NodesOrdered, HasParent
  <2>7. \A q \in Proc : unwritten[q] = {} => unwritten'[q] = {}
    BY <2>1
  <2>8. QED
    BY <1>0, <2>1, <2>3, <2>4, <2>5, <2>6, <2>7 DEF NodesOrdered, HasParent
<1>9. QED
  BY <1>1, <1>2, <1>3, <1>4, <1>5, <1>6, <1>7, <1>8, Cases

-----------------------------------------------------------------------------
(* The log.                                                                *)

\* The numbers that the log has or is about to get.
Used == (recorded \cup Readable \cup {entry[p] : p \in Proc}) \ {Garbage}

\* The add n is on disk, whole.
Added(n) == n \in assets /\ \E x \in nodes : x.asset /\ x.add = n

\* The log has only adds that are on disk; a command that is not over is not in
\* it, and has written, or has still to write, the node of its asset.
LogAdded ==
    /\ assets \subseteq 1 .. adds
    /\ \A e \in Used : Added(e)
    /\ \A p \in Proc :
         /\ pc[p] \notin {"idle", "close", "dead"} => number[p] \notin Used
         /\ pc[p] \in {"asset", "flush", "finish"} /\ dirty[p] =>
              /\ \E x \in nodes \cup unwritten[p] : x.asset /\ x.add = number[p]
              /\ number[p] \in assets \/ unwritten[p] # {}

\* Nothing but a new record makes the log use another number.
LEMMA UsedStep ==
  ASSUME LogInv, NEW p \in Proc, LogStep(p) \/ LogCrash(p) PROVE Used' \subseteq Used
<1> DEFINE Entries == {entry[q] : q \in Proc}
<1> USE DEF Now, readerVars, LogInv, TypeOKLog
<1>1. ASSUME AppendEntry(p) \/ AppendCut(p) \/ AppendFails(p) PROVE Used' \subseteq Used
  <2>1. /\ Len(segments') >= Len(segments) /\ segments' \in Seq(Segment)
        /\ \A j \in 1 .. Len(segments') :
             EntriesOf(segments'[j]) \subseteq EntriesOf(Before(j)) \cup {entry[p]}
    BY <1>1, WriteStep
  <2>2. \A j \in 1 .. Len(segments') : EntriesOf(Before(j)) \subseteq Readable
    <3>1. EntriesOf(NewSegment) = {}
      BY DEF EntriesOf, ToSet, NewSegment
    <3>2. QED
      BY <2>1, <3>1 DEF Before, Readable
  <2>3. Readable' \subseteq Readable \cup {entry[p]}
    <3>1. DOMAIN segments' = 1 .. Len(segments')
      BY <2>1
    <3>2. Readable' = UNION {EntriesOf(segments'[j]) : j \in 1 .. Len(segments')}
      BY <3>1 DEF Readable, EntriesOf
    <3>3. QED
      BY <2>1, <2>2, <3>2
  <2>4. entry' = entry /\ recorded' = recorded
    BY <1>1 DEF AppendEntry, AppendCut, AppendFails
  <2>5. QED
    BY <2>3, <2>4 DEF Used
<1>2. ASSUME segments' = segments, recorded' \subseteq recorded \cup {entry[p]},
             \A q \in Proc : entry'[q] \in {entry[q], Garbage}
      PROVE  Used' \subseteq Used
  <2>1. Readable' = Readable
    BY <1>2 DEF Readable
  <2>2. QED
    BY <1>2, <2>1 DEF Used
<1>3. CASE \/ LogLocked(p) \/ LogLockTimeout(p) \/ FindActive(p) \/ Unlock(p) \/ Reading(p)
           \/ LogLockExpires(p) \/ LogCrash(p)
  <2>1. /\ segments' = segments /\ recorded' \subseteq recorded \cup {entry[p]}
        /\ entry' \in {entry, [entry EXCEPT ![p] = Garbage]}
    BY <1>3 DEF LogLocked, LogLockTimeout, FindActive, Unlock, Reading, List, ReadSegment, EndRead,
       LogLockExpires, LogCrash
  <2>2. QED
    BY <1>2, <2>1
<1>4. QED
  BY <1>1, <1>3 DEF LogStep, Recording

\* A command that ends its transaction records its own number, if it has added.
LEMMA RecordsFresh ==
  ASSUME TypeOK, TreeInv, LogAdded, NEW p \in Proc, EndTransaction(p)
  PROVE  \/ UNCHANGED logVars
         \/ /\ Record(p, number[p]) /\ number[p] \in Entry /\ Fresh(number[p])
            /\ Added(number[p])
<1>1. CASE ~Succeeded(p)
  BY <1>1 DEF EndTransaction
<1>2. CASE Succeeded(p)
  <2>1. Record(p, number[p]) /\ pc[p] = "finish" /\ dirty[p] /\ unwritten[p] = {}
    BY <1>2 DEF EndTransaction, Succeeded
  <2>2. number[p] \in Entry
    BY <2>1, TreeAssumption DEF TypeOK, TreeInv, Numbered, Adding
  <2>3. number[p] \notin Used /\ Added(number[p])
    BY <2>1 DEF LogAdded, Added
  <2>4. Fresh(number[p])
    BY <2>2, <2>3, HistoryAssumption DEF Used, Fresh
  <2>5. QED
    BY <2>1, <2>2, <2>3, <2>4
<1>3. QED
  BY <1>1, <1>2

\* A step of the tree is one of the log, or none.
LEMMA LogNext ==
  ASSUME TypeOK, TreeInv, LogAdded, [Next]_vars PROVE [NextLog]_logVars
<1>1. ASSUME NEW p \in Proc, EndTransaction(p) PROVE [NextLog]_logVars
  BY <1>1, RecordsFresh DEF NextLog
<1>2. ASSUME NEW p \in Proc, Crash(p) \/ LogStep(p) PROVE [NextLog]_logVars
  BY <1>2 DEF Crash, LogStep, NextLog
<1>3. CASE UNCHANGED vars
  BY <1>3 DEF vars
<1>4. QED
  BY <1>1, <1>2, <1>3 DEF Next

\* The log gets a number only from a command that has added it.
LEMMA UsedNext ==
  ASSUME TypeOK, TreeInv, LogInv, LogAdded, [Next]_vars
  PROVE  \/ Used' \subseteq Used
         \/ \E p \in Proc : /\ EndTransaction(p) /\ Used' \subseteq Used \cup {number[p]}
                            /\ Added(number[p])
<1>1. ASSUME UNCHANGED logVars PROVE Used' \subseteq Used
  <2>1. segments' = segments /\ recorded' = recorded /\ entry' = entry
    BY <1>1 DEF logVars
  <2>2. QED
    BY <2>1 DEF Used, Readable
<1>2. ASSUME NEW p \in Proc, Record(p, number[p]) PROVE Used' \subseteq Used \cup {number[p]}
  <2>1. segments' = segments /\ recorded' = recorded
        /\ \A q \in Proc : entry'[q] \in {entry[q], number[p]}
    BY <1>2 DEF Record, TypeOK, TypeOKLog
  <2>2. QED
    BY <2>1 DEF Used, Readable
<1>3. ASSUME NEW p \in Proc, EndTransaction(p)
      PROVE  Used' \subseteq Used \/ (Used' \subseteq Used \cup {number[p]} /\ Added(number[p]))
  BY <1>1, <1>2, <1>3, RecordsFresh
<1>4. ASSUME NEW p \in Proc, Crash(p) \/ LogStep(p) PROVE Used' \subseteq Used
  BY <1>4, UsedStep DEF Crash
<1>5. CASE UNCHANGED vars
  BY <1>1, <1>5 DEF vars
<1>6. QED
  BY <1>1, <1>3, <1>4, <1>5 DEF Next

\* The inductive step of the log.
LEMMA LogAddedStep ==
  ASSUME TypeOK, TreeInv, LogInv, LogAdded, [Next]_vars PROVE LogAdded'
<1> USE DEF TypeOK, diskVars, localVars
<1> DEFINE Own(p) ==
             pc[p] \in {"asset", "flush", "finish"} /\ dirty[p] =>
               /\ \E x \in nodes \cup unwritten[p] : x.asset /\ x.add = number[p]
               /\ number[p] \in assets \/ unwritten[p] # {}
           Grows ==
             /\ nodes \subseteq nodes' /\ assets \subseteq assets' /\ adds \in 0 .. adds'
             /\ assets' \subseteq 1 .. adds'
           Owns ==
             \A q \in Proc :
               /\ pc'[q] \notin {"idle", "close", "dead"} =>
                    \/ pc[q] \notin {"idle", "close", "dead"} /\ number'[q] = number[q]
                    \/ number'[q] \in {0, adds + 1} /\ UNCHANGED logVars
               /\ Own(q)'
<1>0. LogAdded /\ Numbered /\ \A q \in Proc : Own(q)
  BY DEF TreeInv, LogAdded
<1>1. ASSUME Grows, Owns PROVE LogAdded'
  <2>1. \A e : Added(e) => Added(e)'
    BY <1>1 DEF Added
  <2>2. \A e \in Used : e \in 1 .. adds
    BY <1>0 DEF LogAdded, Added
  <2>3. UNCHANGED logVars => Used' = Used
    BY DEF logVars, Used, Readable
  <2>4. \A e \in Used' : Added(e)'
    BY <1>0, <2>1, UsedNext DEF LogAdded
  <2>5. ASSUME NEW q \in Proc, pc'[q] \notin {"idle", "close", "dead"} PROVE number'[q] \notin Used'
    <3>1. CASE number'[q] \in {0, adds + 1} /\ UNCHANGED logVars
      BY <1>1, <2>2, <2>3, <3>1
    <3>2. CASE pc[q] \notin {"idle", "close", "dead"} /\ number'[q] = number[q]
      <4>1. number[q] \notin Used
        BY <1>0, <3>2 DEF LogAdded
      <4>2. CASE Used' \subseteq Used
        BY <3>2, <4>1, <4>2
      <4>3. ASSUME NEW p \in Proc, EndTransaction(p), Used' \subseteq Used \cup {number[p]}
            PROVE  number'[q] \notin Used'
        <5>1. pc[p] = "finish" /\ pc'[p] = "close"
          BY <4>3 DEF EndTransaction, Goto
        <5>2. q # p /\ number[p] # 0
          BY <1>0, <2>5, <5>1 DEF Numbered, Adding
        <5>3. number[p] # number[q]
          BY <1>0, <5>2 DEF Numbered
        <5>4. QED
          BY <3>2, <4>1, <4>3, <5>3
      <4>4. QED
        BY <4>2, <4>3, UsedNext
    <3>3. QED
      BY <1>1, <2>5, <3>1, <3>2
  <2>6. QED
    BY <1>1, <2>4, <2>5 DEF LogAdded
<1>2. assets \subseteq 1 .. adds /\ adds \in 0 .. MaxAdds /\ MaxAdds \in Nat
  BY <1>0, TreeAssumption DEF LogAdded, Numbered
<1>3. CASE UNCHANGED treeVars
  BY <1>0, <1>1, <1>2, <1>3 DEF treeVars
<1>4. ASSUME NEW p \in Proc, NEW r \in Requests \cup {<<>>}, Start(p, r), UNCHANGED logVars
      PROVE  LogAdded'
  <2>1. /\ pc'[p] = "open" /\ number'[p] \in {0, adds + 1} /\ adds' \in {adds, adds + 1}
        /\ \A q \in Proc \ {p} :
             pc'[q] = pc[q] /\ number'[q] = number[q]
        /\ unwritten' = unwritten /\ dirty' = dirty /\ nodes' = nodes /\ assets' = assets
    BY <1>4 DEF Start, Goto
  <2>2. Grows
    BY <1>2, <2>1
  <2>3. Owns
    BY <1>0, <1>4, <2>1
  <2>4. QED
    BY <1>1, <2>2, <2>3
<1>5. ASSUME NEW p \in Proc, Quiet(p) PROVE LogAdded'
  <2>1. /\ nodes' = nodes /\ assets' = assets /\ unwritten' = unwritten /\ dirty' = dirty
        /\ number' = number /\ adds' = adds
        /\ \A q \in Proc : /\ pc'[q] \notin {"idle", "close", "dead"} => pc[q] \notin {"idle", "close", "dead"}
                           /\ pc'[q] \in {"asset", "flush"} => pc[q] = pc'[q]
                           /\ pc'[q] = "finish" => \/ pc[q] \in {"asset", "flush", "finish"}
                                                   \/ pc[q] \notin Unwriting
    BY <1>5 DEF Quiet, Goto, Unwriting, Wait, Check, LockRebuild, Begin,
       Conflicts, Validate, UpdateFails, EndFlush, LockExpires, FilesExpire, EndTransaction
  <2>2. \A q \in Proc : pc[q] \notin Unwriting => ~dirty[q]
    BY DEF TreeInv, NodesOrdered
  <2>3. QED
    BY <1>0, <1>1, <1>2, <2>1, <2>2
<1>6. ASSUME NEW p \in Proc, Leaving(p) \/ Having(p) PROVE LogAdded'
  <2>1. /\ pc'[p] \in {"idle", "dead", "begin"}
        /\ pc'[p] = "begin" => number'[p] = number[p] /\ pc[p] \notin {"idle", "close", "dead"}
        /\ \A q \in Proc \ {p} :
             /\ pc'[q] = pc[q] /\ unwritten'[q] = unwritten[q]
             /\ number'[q] = number[q] /\ dirty'[q] = dirty[q]
        /\ nodes' = nodes /\ assets' = assets /\ adds' = adds
    <3>1. pc'[p] = "begin" => pc[p] \notin {"idle", "close", "dead"}
      BY <1>6 DEF Leaving, LockTimeout, RebuildFails, Close, Crash, Having, Load, RecheckFresh,
         Unmark, Exit, Goto
    <3>2. QED
      BY <1>6, <3>1, OverFacts DEF TypeOK
  <2>2. Grows
    BY <1>2, <2>1
  <2>3. Owns
    BY <1>0, <2>1
  <2>4. QED
    BY <1>1, <2>2, <2>3
<1>7. ASSUME NEW p \in Proc, BeginScan(p) \/ EndScan(p) \/ WriteIndex(p) \/ WriteList(p)
      PROVE  LogAdded'
  <2>1. /\ nodes' = nodes /\ assets' = assets /\ unwritten' = unwritten /\ dirty' = dirty
        /\ number' = number /\ adds' = adds
        /\ \A q \in Proc : pc'[q] = pc[q] \/ (pc[q] \in Rebuilding /\ pc'[q] \in Rebuilding)
    BY <1>7 DEF BeginScan, EndScan, WriteIndex, WriteList, Goto, Rebuilding
  <2>2. QED
    BY <1>0, <1>1, <1>2, <2>1 DEF Rebuilding
<1>8. ASSUME NEW p \in Proc, Update(p) PROVE LogAdded'
  <2> DEFINE new == NewNodes(loaded[p], job[p], number[p])
  <2>1. /\ pc[p] = "update" /\ pc' = [pc EXCEPT ![p] = "asset"]
        /\ unwritten' = [unwritten EXCEPT ![p] = new] /\ dirty' = [dirty EXCEPT ![p] = TRUE]
        /\ nodes' = nodes /\ assets' = assets /\ number' = number /\ adds' = adds
    BY <1>8 DEF Update, Goto
  <2>2. job[p] \in Requests /\ number[p] \in 1 .. MaxAdds /\ Leads(loaded[p], nodes)
    BY <2>1, TreeAssumption DEF TreeInv, Numbered, Adding, IndexLeads
  <2>3. \E x \in new : x.asset /\ x.add = number[p]
    <3>1. nodes \in SUBSET Node
      OBVIOUS
    <3>2. /\ \A x \in NewNodes(loaded[p], job[p], number[p]) :
               /\ x.add = number[p]
               /\ HasParent(x, nodes \cup NewNodes(loaded[p], job[p], number[p]))
          /\ \E x \in NewNodes(loaded[p], job[p], number[p]) : x.asset
      BY <2>2, <3>1, NewNodesFacts
    <3>3. QED
      BY <3>2
  <2> HIDE DEF new
  <2>4. Grows /\ Owns
    BY <1>0, <1>2, <2>1, <2>3
  <2>5. QED
    BY <1>1, <2>4
<1>9. ASSUME NEW p \in Proc, FlushAsset(p) PROVE LogAdded'
  <2>1. pc[p] = "asset" /\ number[p] \in 1 .. adds
    BY <1>0, <1>2, <1>9 DEF FlushAsset, Numbered, Adding
  <2>2. /\ pc' = [pc EXCEPT ![p] = "flush"] /\ assets' = assets \cup {number[p]}
        /\ nodes' = nodes /\ unwritten' = unwritten /\ dirty' = dirty /\ number' = number
        /\ adds' = adds
    BY <1>9 DEF FlushAsset, Goto
  <2>3. Grows
    <3>1. assets' \subseteq 1 .. adds
      BY <1>2, <2>1, <2>2
    <3>2. adds \in 0 .. adds
      BY <1>2
    <3>3. QED
      BY <2>2, <3>1, <3>2
  <2>4. Owns
    BY <1>0, <2>1, <2>2
  <2>5. QED
    BY <1>1, <2>3, <2>4
<1>10. ASSUME NEW p \in Proc, FlushNode(p) PROVE LogAdded'
  <2> DEFINE n == Highest(unwritten[p])
  <2>1. /\ pc[p] = "flush" /\ pc' = pc /\ unwritten[p] # {}
        /\ nodes' = nodes \cup {n} /\ unwritten' = [unwritten EXCEPT ![p] = @ \ {n}]
        /\ assets' = assets /\ number' = number /\ dirty' = dirty /\ adds' = adds
    BY <1>10 DEF FlushNode
  <2> HIDE DEF n
  <2>2. number[p] \in assets
    BY <2>1 DEF TreeInv, NodesOrdered
  <2>3. \A q \in Proc : nodes \cup unwritten[q] \subseteq nodes' \cup unwritten'[q]
    BY <2>1
  <2>4. Grows /\ Owns
    BY <1>0, <1>2, <2>1, <2>2, <2>3
  <2>5. QED
    BY <1>1, <2>4
<1>11. QED
  BY <1>3, <1>4, <1>5, <1>6, <1>7, <1>8, <1>9, <1>10, Cases

-----------------------------------------------------------------------------
(* Types, and what follows.                                                *)

\* What a scan and an add put together is of the types.
LEMMA TreeTypeStep ==
  ASSUME TypeOK, TreeInv, LogInv, LogAdded, [Next]_vars PROVE TypeOK'
<1> USE HistoryAssumption DEF diskVars, localVars, Goto, Rebuilding, PC
<1>0. TypeOKLog'
  BY LogNext, LogInvStep DEF LogInv
<1>a. TypeOK
  OBVIOUS
<1> DEFINE TreeTypes ==
             /\ nodes \subseteq Node /\ assets \subseteq 1 .. MaxAdds
             /\ index.exists \in BOOLEAN /\ index.ids \subseteq Node
             /\ list.exists \in BOOLEAN /\ list.paths \subseteq Path
             /\ stale \in BOOLEAN /\ lock \in Proc \cup {NoOne}
             /\ pc \in [Proc -> PC]
             /\ job \in [Proc -> Requests \cup {<<>>}]
             /\ base \in [Proc -> SUBSET Node] /\ unwritten \in [Proc -> SUBSET Node]
             /\ number \in [Proc -> 0 .. MaxAdds] /\ dirty \in [Proc -> BOOLEAN]
             /\ \A p \in Proc : (lock = p) => pc[p] \in Rebuilding \cup {"dead"}
<1>b. TreeTypes
  BY <1>a DEF TypeOK
<1>c. MaxAdds \in Nat /\ adds \in 0 .. MaxAdds
  BY TreeAssumption DEF TreeInv, Numbered
<1>1. CASE UNCHANGED treeVars
  BY <1>b, <1>0, <1>1 DEF treeVars, TypeOK
<1>2. ASSUME NEW p \in Proc, NEW r \in Requests \cup {<<>>}, Start(p, r) PROVE TreeTypes'
  BY <1>b, <1>c, <1>2 DEF Start
<1>3. ASSUME NEW p \in Proc, Quiet(p) PROVE TreeTypes'
  BY <1>b, <1>3 DEF Quiet, Wait, Check, LockRebuild, Begin, Conflicts, Validate,
     UpdateFails, EndFlush, LockExpires, FilesExpire, EndTransaction, Lock!Acquire
<1>4. ASSUME NEW p \in Proc, Leaving(p) \/ Having(p) PROVE TreeTypes'
  <2>1. \/ \E l \in {"idle", "dead"} : Exit(p, l)
        \/ /\ pc' = [pc EXCEPT ![p] = "begin"] /\ base' = [base EXCEPT ![p] = {}]
           /\ UNCHANGED <<job, unwritten, number, dirty>>
    BY <1>4 DEF Leaving, LockTimeout, RebuildFails, Close, Crash, Having, Load, RecheckFresh,
       Unmark, HaveIndex
  <2>2. UNCHANGED <<nodes, assets, index, list>> /\ stale' \in BOOLEAN
    BY <1>b, <1>4 DEF Leaving, LockTimeout, RebuildFails, Close, Crash, Having, Load, RecheckFresh,
       Unmark
  <2>3. /\ lock' \in Proc \cup {NoOne} /\ (lock' # NoOne => lock' = lock)
        /\ lock' = p => pc'[p] = "dead"
    BY <1>b, <1>4 DEF Leaving, LockTimeout, RebuildFails, Close, Crash, Having, Load, RecheckFresh,
       Unmark, Lock!Release, Exit
  <2>4. /\ job' \in [Proc -> Requests \cup {<<>>}] /\ dirty' \in [Proc -> BOOLEAN]
        /\ base' \in [Proc -> SUBSET Node] /\ unwritten' \in [Proc -> SUBSET Node]
        /\ number' \in [Proc -> 0 .. MaxAdds] /\ pc' \in [Proc -> PC]
        /\ \A q \in Proc \ {p} : pc'[q] = pc[q]
    <3>1. ASSUME NEW l \in {"idle", "dead"}, Exit(p, l)
          PROVE  /\ job' \in [Proc -> Requests \cup {<<>>}] /\ dirty' \in [Proc -> BOOLEAN]
                 /\ base' \in [Proc -> SUBSET Node] /\ unwritten' \in [Proc -> SUBSET Node]
                 /\ number' \in [Proc -> 0 .. MaxAdds] /\ pc' \in [Proc -> PC]
                 /\ \A q \in Proc \ {p} : pc'[q] = pc[q]
      <4>1. 0 \in 0 .. MaxAdds
        BY <1>c
      <4>2. l \in PC
        OBVIOUS
      <4>3. QED
        BY <1>b, <3>1, <4>1, <4>2 DEF Exit
    <3>2. CASE /\ pc' = [pc EXCEPT ![p] = "begin"] /\ base' = [base EXCEPT ![p] = {}]
               /\ UNCHANGED <<job, unwritten, number, dirty>>
      BY <1>b, <3>2
    <3>3. QED
      BY <2>1, <3>1, <3>2
  <2>5. QED
    BY <1>b, <2>2, <2>3, <2>4
<1>5. ASSUME NEW p \in Proc, BeginScan(p) PROVE TreeTypes'
  BY <1>b, <1>5 DEF BeginScan
<1>6. ASSUME NEW p \in Proc, EndScan(p) PROVE TreeTypes'
  <2>1. PICK late \in SUBSET (nodes \ base[p]) :
          base' = [base EXCEPT ![p] = Resolved(base[p] \cup late)]
    BY <1>6 DEF EndScan
  <2>2. Resolved(base[p] \cup late) \subseteq Node
    BY <1>b, RootedFacts
  <2>3. QED
    BY <1>b, <1>6, <2>1, <2>2 DEF EndScan
<1>7. ASSUME NEW p \in Proc, WriteIndex(p) \/ WriteList(p) PROVE TreeTypes'
  <2>1. AssetPaths(base[p]) \subseteq Path
    BY <1>b DEF AssetPaths, Node
  <2>2. CASE WriteIndex(p)
    BY <1>b, <2>2 DEF WriteIndex
  <2>3. CASE WriteList(p)
    BY <1>b, <2>1, <2>3 DEF WriteList
  <2>4. QED
    BY <1>7, <2>2, <2>3
<1>8. ASSUME NEW p \in Proc, Update(p) PROVE TreeTypes'
  <2>1. job[p] \in Requests /\ number[p] \in 1 .. MaxAdds /\ Leads(loaded[p], nodes)
    BY <1>b, <1>8, TreeAssumption DEF Update, TreeInv, Numbered, Adding, IndexLeads
  <2>2. NewNodes(loaded[p], job[p], number[p]) \subseteq Node
    BY <1>b, <2>1, NewNodesFacts
  <2>3. QED
    BY <1>b, <1>8, <2>2 DEF Update
<1>9. ASSUME NEW p \in Proc, FlushAsset(p) PROVE TreeTypes'
  <2>1. number[p] \in 1 .. MaxAdds
    BY <1>b, <1>9, TreeAssumption DEF FlushAsset, TreeInv, Numbered, Adding
  <2>2. QED
    BY <1>b, <1>9, <2>1 DEF FlushAsset
<1>10. ASSUME NEW p \in Proc, FlushNode(p) PROVE TreeTypes'
  <2>1. Highest(unwritten[p]) \in Node
    BY <1>b, <1>10, HighestFacts DEF FlushNode
  <2>2. QED
    BY <1>b, <1>10, <2>1 DEF FlushNode
<1>11. TreeTypes' => TypeOK'
  BY <1>0 DEF TypeOK
<1>12. QED
  BY <1>1, <1>2, <1>3, <1>4, <1>5, <1>6, <1>7, <1>8, <1>9, <1>10, <1>11, Cases

\* All of it together.
Inv == TypeOK /\ LogInv /\ TreeInv /\ LogAdded

\* An index that leads to nodes on disk, files written in their order, and a log
\* of what was added whole: in every reachable state.
THEOREM TreeInvariant == Spec => []Inv
<1>1. Init => Inv
  <2> SUFFICES ASSUME Init PROVE Inv
    OBVIOUS
  <2>1. InitLog => LogInv
    BY HistoryAssumption DEF InitLog, LogInv, TypeOKLog, UnendedHasLine, LockHeld, HasRoom,
       UnreadThere, SegmentsBounded, Doing, InLock
  <2>2. Used = {}
    BY DEF Init, InitLog, Used, Readable
  <2>3. TypeOK
    <3>1. TypeOKLog
      BY <2>1 DEF Init, LogInv
    <3>2. /\ nodes \subseteq Node /\ assets \subseteq 1 .. MaxAdds
          /\ index.exists \in BOOLEAN /\ index.ids \subseteq Node
          /\ list.exists \in BOOLEAN /\ list.paths \subseteq Path
          /\ stale \in BOOLEAN /\ lock = NoOne
      BY DEF Init, NoIndex, NoList
    <3>3. /\ pc \in [Proc -> PC] /\ job \in [Proc -> Requests \cup {<<>>}]
          /\ base \in [Proc -> SUBSET Node] /\ unwritten \in [Proc -> SUBSET Node]
          /\ number \in [Proc -> 0 .. MaxAdds] /\ dirty \in [Proc -> BOOLEAN]
      BY TreeAssumption DEF Init, PC
    <3>4. \A p \in Proc : lock # p
      BY <3>2, HistoryAssumption
    <3>5. QED
      BY <3>1, <3>2, <3>3, <3>4 DEF TypeOK
  <2>4. TreeInv
    BY TreeAssumption DEF Init, TreeInv, Numbered, IndexLeads, FilesAgree, NodesOrdered, NoIndex,
       NoList, Rooted, Leads, Rebuilding, Adding, Unwriting
  <2>5. LogAdded
    BY <2>2 DEF Init, LogAdded
  <2>6. QED
    BY <2>1, <2>3, <2>4, <2>5 DEF Init, Inv
<1>2. Inv /\ [Next]_vars => Inv'
  BY TreeTypeStep, LogNext, LogInvStep, NumberedStep, IndexLeadsStep, FilesAgreeStep,
     NodesOrderedStep, LogAddedStep DEF Inv, TreeInv
<1>3. QED
  BY <1>1, <1>2, PTL DEF Spec

\* Every reachable state is well typed.
THEOREM TreeTypeCorrect == Spec => []TypeOK
<1>1. Inv => TypeOK
  BY DEF Inv
<1>2. QED
  BY <1>1, TreeInvariant, PTL

\* Whatever adds were cut short, no node is without its directory or asset, and
\* the index names nothing that is not there.
THEOREM Lead == Spec => []NodesLead
<1>1. Inv => NodesLead
  BY DEF Inv, TreeInv, NodesOrdered, IndexLeads, NodesLead
<1>2. QED
  BY <1>1, TreeInvariant, PTL

\* A rebuild takes no path from the index.
THEOREM Grows == Spec => IndexGrows
<1>1. Inv /\ [Next]_vars => [index.ids \subseteq index'.ids]_vars
  <2> SUFFICES ASSUME Inv, [Next]_vars PROVE index.ids \subseteq index'.ids
    OBVIOUS
  <2>1. ASSUME NEW p \in Proc, WriteIndex(p) PROVE index.ids \subseteq index'.ids
    BY <2>1 DEF WriteIndex, Inv, TreeInv, IndexLeads
  <2>2. ASSUME NEW p \in Proc, Leaving(p) \/ Having(p) PROVE index' = index
    BY <2>2, OverFacts DEF Inv
  <2>3. ASSUME NEW p \in Proc,
               \/ \E r \in Requests \cup {<<>>} : Start(p, r)
               \/ Quiet(p) \/ BeginScan(p) \/ EndScan(p) \/ WriteList(p)
               \/ Update(p) \/ FlushAsset(p) \/ FlushNode(p)
        PROVE  index' = index
    BY <2>3 DEF diskVars, Start, Quiet, Wait, Check, LockRebuild, Begin, Conflicts, Validate,
       UpdateFails, EndFlush, LockExpires, FilesExpire, EndTransaction,
       BeginScan, EndScan, WriteList, Update, FlushAsset, FlushNode
  <2>4. UNCHANGED treeVars => index' = index
    BY DEF treeVars, diskVars
  <2>5. QED
    BY <2>1, <2>2, <2>3, <2>4, Cases
<1>2. QED
  BY <1>1, TreeInvariant, PTL DEF Spec, IndexGrows

\* The two files of the cache tell the same, or the next command rebuilds them.
THEOREM Agrees == Spec => []CacheAgrees
<1>1. Inv => CacheAgrees
  BY DEF Inv, TreeInv, FilesAgree, CacheAgrees, MustRebuild
<1>2. QED
  BY <1>1, TreeInvariant, PTL

\* The log tells of what is there.
THEOREM Logged == Spec => []LoggedIsAdded
<1>1. Inv => LoggedIsAdded
  <2>1. Inv => Garbage \notin Readable
    BY DEF Readable, EntriesOf
  <2>2. QED
    BY <2>1 DEF Inv, LogAdded, Used, Added, LoggedIsAdded
<1>2. QED
  BY <1>1, TreeInvariant, PTL

\* The commands record what is new, once: History describes the log they write.
THEOREM TreeImplementsLog == Spec => ImplementsLog
<1>1. Init => InitLog
  BY DEF Init
<1>2. Inv /\ [Next]_vars => [NextLog]_logVars
  BY LogNext DEF Inv
<1>3. QED
  BY <1>1, <1>2, TreeInvariant, PTL DEF Spec, SpecLog, ImplementsLog

\* So what holds of the log holds of the one that adds write.
THEOREM LogHolds == Spec => [](SegmentsBounded /\ ReadersSeeRecorded /\ RecordedKept)
  BY TreeImplementsLog, Bounded, ReadersComplete, Kept, PTL DEF ImplementsLog
=============================================================================
