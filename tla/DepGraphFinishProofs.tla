------------------------ MODULE DepGraphFinishProofs ------------------------
(***************************************************************************)
(* Proofs about what Finish leaves behind in DepGraph: entries, markers,   *)
(* and what is presented in the workspace.  Each of these is a promise     *)
(* about the asset files.  Until it is kept it is in the hands of one      *)
(* process, as a change that it has still to record, as a step on its      *)
(* list, or as an object that it has still to present; the invariant says  *)
(* of each promise that it is kept, or in whose hands it is.               *)
(***************************************************************************)
EXTENDS DepGraphProofs

Elems(T) == {T[i] : i \in DOMAIN T}
Final(T) == T[Len(T)]

GraphDo == {"cache", "write", "entry", "remove", "marks", "mark"}

\* The branches and commits that steps are about, and those of a process.
SubjectsOf(s) ==
    IF s.do \in {"entry", "remove", "marks", "mark"} THEN {s.by}
    ELSE IF s.do \in {"link", "pointer"} THEN {s.of} ELSE {}
About(T)    == UNION {SubjectsOf(s) : s \in Elems(T)}
Subjects(p) == shows[p] \cup {u.by : u \in updates[p]} \cup About(todo[p])

Writing(p) == pc[p] \in {"flush", "finish"}

\* They are its own; commits among them are not presented yet; it has the asset
\* files of them as they are, or as it is about to write them.
Own(p)       == \A r \in Subjects(p) : r[1] \in Consumers(p)
Unpointed(p) == \A r \in Subjects(p) : ~IsBranch(r) => r \notin pointed
Fresh(p)     == \A r \in Subjects(p) : /\ r[1] \in DOMAIN pool[p]
                                       /\ r[1] \notin unflushed[p] => pool[p][r[1]] = store[r[1]]

\* What will be written to a branch is there, or is a change to be recorded.
Rewritten(p) ==
    \A a \in unflushed[p] :
        /\ \/ pool[p][a][0] = store[a][0]
           \/ \E u \in updates[p] : u.by = Branch(a)
        /\ \A n \in DOMAIN pool[p][a][0] :
             \/ n \in DOMAIN store[a][0] /\ pool[p][a][0][n] = store[a][0][n]
             \/ \E u \in updates[p] : /\ u.by = Branch(a)
                                      /\ pool[p][a][0][n] = [spec |-> u.spec, pin |-> u.new]

\* A branch is pinned to a commit of what it follows.
Follow(u) == IsBranch(u.by) /\ IsBranch(u.spec) => u.new[1] = u.spec[1]

\* A list of steps on the graph ends by marking what it enters.
Marked(T) ==
    \A s \in Elems(T) : s.do = "entry" =>
        Final(T).do = "marks" /\ Final(T).target[1] = s.target[1]

\* A branch that follows another one is an entry there, or will be.
ToRecord(p, t, by) ==
    \/ \E u \in updates[p] : u.by = by /\ u.spec = t
    \/ \E s \in Elems(todo[p]) : s.do = "entry" /\ s.target = t /\ s.by = by

Entered(t, by) == \E e \in entries : e.target = t /\ e.by = by

Recorded ==
    \A a \in Asset \ cut : \A n \in DOMAIN store[a][0] :
        IsBranch(store[a][0][n].spec) =>
            \/ Entered(store[a][0][n].spec, Branch(a))
            \/ \E p \in Proc : Writing(p) /\ ToRecord(p, store[a][0][n].spec, Branch(a))

\* The asset of an entry is marked, or will be.
ToMark(p, a) ==
    \E s \in Elems(todo[p]) : \/ s.do = "marks" /\ s.target[1] = a
                              \/ s.do = "mark" /\ a \in s.left

MarkedOrWill ==
    \A e \in entries :
        \/ e.target[1] \in marked \/ e.by[1] \in cut
        \/ \E p \in Proc : Writing(p) /\ e.by[1] \in Consumers(p) /\ ToMark(p, e.target[1])

-----------------------------------------------------------------------------
(* The workspace.                                                          *)

\* The source n of r is linked where it is pinned to; of a branch, it may not be
\* linked at all.
Linked(r, n) ==
    /\ n \in DOMAIN links[r] /\ links[r][n] = Sources(store, r)[n].pin
    /\ ~IsBranch(r) => links[r][n] \in pointed
Whole(r)   == \A n \in DOMAIN Sources(store, r) : Linked(r, n)
Good(r, n) == Linked(r, n) \/ (IsBranch(r) /\ n \notin DOMAIN links[r])

\* The links to be made are right, and with them all are.
Underway(p, r, S) ==
    /\ r \in DOMAIN links /\ r \notin shows[p] /\ \A u \in updates[p] : u.by # r
    /\ \A e \in S : e.name \in DOMAIN Sources(store, r) /\ e.provider = Sources(store, r)[e.name].pin
    /\ \/ r[1] \in cut
       \/ \A n \in DOMAIN Sources(store, r) : Good(r, n) \/ \E e \in S : e.name = n

\* The list of a process is of steps on the graph, or of those that present r.
Presents(p) ==
    LET s == Head(todo[p])  rest == Tail(todo[p]) IN
    /\ s.do \in GraphDo => \A t \in Elems(rest) : t.do \in GraphDo
    /\ s.do = "link" => /\ Underway(p, s.of, s.left) /\ s.left # {}
                        /\ rest = IF IsBranch(s.of) THEN <<>> ELSE Pointer(s.of)
    /\ s.do = "pointer" => /\ Underway(p, s.of, {})
                           /\ rest = <<>> /\ ~IsBranch(s.of)

\* What is in the hands of a process.
Hand(p) ==
    /\ \A u \in updates[p] : Follow(u)
    /\ Writing(p) => Own(p) /\ Unpointed(p) /\ Fresh(p) /\ Marked(todo[p])
    /\ pc[p] = "flush" => Rewritten(p) /\ \A s \in Elems(todo[p]) : s.do = "cache"
    /\ pc[p] = "finish" /\ todo[p] # <<>> => Presents(p)

\* What is presented exists, and commits that are presented are whole.
Desk ==
    /\ pointed \subseteq Live /\ pointed \subseteq DOMAIN links
    /\ \A a \in Asset : Branch(a) \in DOMAIN links
    /\ \A r \in pointed : ~IsBranch(r) /\ r[1] \notin cut => Whole(r)

\* A branch of which all sources are linked shows what it is pinned to, or will.
Aligned(a) ==
    DOMAIN links[Branch(a)] = DOMAIN store[a][0] =>
        \A n \in DOMAIN store[a][0] : links[Branch(a)][n] = store[a][0][n].pin

ToShow(p, r) ==
    \/ r \in shows[p]
    \/ \E u \in updates[p] : u.by = r
    \/ todo[p] # <<>> /\ Final(todo[p]).do \in {"marks", "mark"} /\ Final(todo[p]).by = r
    \/ todo[p] # <<>> /\ Head(todo[p]).do = "link" /\ Head(todo[p]).of = r

AlignedOrWill ==
    \A a \in Asset \ cut : Aligned(a) \/ \E p \in Proc : Writing(p) /\ ToShow(p, Branch(a))

Hands    == \A p \in Proc : Hand(p)
Promises == Hands /\ Recorded /\ MarkedOrWill /\ Desk /\ AlignedOrWill

-----------------------------------------------------------------------------
(* Lists of steps.                                                         *)

\* The empty list, and the list of one step.
LEMMA ElemsOne ==
  ASSUME NEW x
  PROVE  Elems(<<>>) = {} /\ Elems(<<x>>) = {x} /\ Final(<<x>>) = x
BY DEF Elems, Final

\* The first step and the others.
LEMMA ElemsSplit ==
  ASSUME NEW S, NEW T \in Seq(S), T # <<>>
  PROVE  /\ Elems(T) = {Head(T)} \cup Elems(Tail(T)) /\ Final(T) \in Elems(T)
         /\ Final(T) = IF Tail(T) = <<>> THEN Head(T) ELSE Final(Tail(T))
<1>1. Len(T) \in Nat \ {0} /\ DOMAIN T = 1 .. Len(T) /\ Head(T) = T[1]
  OBVIOUS
<1>2. Len(Tail(T)) = Len(T) - 1 /\ \A i \in 1 .. Len(T) - 1 : Tail(T)[i] = T[i + 1]
  OBVIOUS
<1>3. DOMAIN Tail(T) = 1 .. Len(T) - 1
  BY <1>1, <1>2
<1>4. ASSUME NEW x \in Elems(T) PROVE x = Head(T) \/ x \in Elems(Tail(T))
  <2>1. PICK i \in 1 .. Len(T) : x = T[i]
    BY <1>1, <1>4 DEF Elems
  <2>2. CASE i = 1
    BY <1>1, <2>1, <2>2
  <2>3. CASE i # 1
    <3>1. i - 1 \in 1 .. Len(T) - 1 /\ (i - 1) + 1 = i
      BY <1>1, <2>3
    <3>2. x = Tail(T)[i - 1]
      BY <1>2, <2>1, <3>1
    <3>3. QED
      BY <1>3, <3>1, <3>2 DEF Elems
  <2>4. QED
    BY <2>2, <2>3
<1>5. ASSUME NEW x \in Elems(Tail(T)) PROVE x \in Elems(T)
  <2>1. PICK i \in 1 .. Len(T) - 1 : x = Tail(T)[i]
    BY <1>3, <1>5 DEF Elems
  <2>2. x = T[i + 1] /\ i + 1 \in 1 .. Len(T)
    BY <1>1, <1>2, <2>1
  <2>3. QED
    BY <1>1, <2>2 DEF Elems
<1>6. Head(T) \in Elems(T) /\ Final(T) \in Elems(T)
  BY <1>1 DEF Elems, Final
<1>7. Tail(T) = <<>> => Final(T) = Head(T)
  <2>. DEFINE R == Tail(T)
  <2>1. R \in Seq(S) /\ Len(R) = Len(T) - 1
    BY <1>2
  <2>. HIDE DEF R
  <2>2. R = <<>> => Len(R) = 0
    BY <2>1, EmptySeq
  <2>3. \A j, k \in Nat : k = j - 1 /\ k = 0 => j = 1
    OBVIOUS
  <2>4. R = <<>> => Len(T) = 1
    <3>. DEFINE j == Len(T)
                k == Len(R)
    <3>1. j \in Nat /\ k \in Nat /\ k = j - 1
      BY <1>1, <2>1
    <3>. HIDE DEF j, k
    <3>2. QED
      BY <2>2, <2>3, <3>1 DEF j, k
  <2>5. QED
    BY <1>1, <2>4 DEF Final, R
<1>8. Tail(T) # <<>> => Final(T) = Final(Tail(T))
  <2>1. Tail(T) \in Seq(S)
    OBVIOUS
  <2>2. ASSUME Tail(T) # <<>> PROVE Len(T) - 1 \in 1 .. Len(T) - 1
    BY <1>1, <1>2, <2>1, <2>2
  <2>3. QED
    BY <1>1, <1>2, <2>2 DEF Final
<1>9. QED
  BY <1>4, <1>5, <1>6, <1>7, <1>8

\* Two lists, one after the other.
LEMMA ElemsJoin ==
  ASSUME NEW S, NEW T \in Seq(S), NEW U \in Seq(S)
  PROVE  /\ Elems(T \o U) = Elems(T) \cup Elems(U) /\ T \o U \in Seq(S)
         /\ U # <<>> => T \o U # <<>> /\ Final(T \o U) = Final(U)
<1>. DEFINE m == Len(T)
            n == Len(U)
<1>1. m \in Nat /\ n \in Nat /\ DOMAIN T = 1 .. m /\ DOMAIN U = 1 .. n
  OBVIOUS
<1>2. /\ T \o U \in Seq(S) /\ Len(T \o U) = m + n /\ DOMAIN (T \o U) = 1 .. m + n
      /\ \A i \in 1 .. m + n : (T \o U)[i] = IF i <= m THEN T[i] ELSE U[i - m]
  OBVIOUS
<1>. HIDE DEF m, n
<1>3. ASSUME NEW x \in Elems(T \o U) PROVE x \in Elems(T) \cup Elems(U)
  <2>1. PICK i \in 1 .. m + n : x = (T \o U)[i]
    BY <1>2, <1>3 DEF Elems
  <2>2. CASE i <= m
    <3>1. i \in DOMAIN T /\ x = T[i]
      BY <1>1, <1>2, <2>1, <2>2
    <3>2. QED
      BY <3>1 DEF Elems
  <2>3. CASE ~(i <= m)
    <3>1. i - m \in DOMAIN U /\ x = U[i - m]
      BY <1>1, <1>2, <2>1, <2>3
    <3>2. QED
      BY <3>1 DEF Elems
  <2>4. QED
    BY <2>2, <2>3
<1>4. ASSUME NEW x \in Elems(T) PROVE x \in Elems(T \o U)
  <2>1. PICK i \in 1 .. m : x = T[i]
    BY <1>1, <1>4 DEF Elems
  <2>2. i \in DOMAIN (T \o U) /\ x = (T \o U)[i]
    BY <1>1, <1>2, <2>1
  <2>3. QED
    BY <2>2 DEF Elems
<1>5. ASSUME NEW x \in Elems(U) PROVE x \in Elems(T \o U)
  <2>1. PICK i \in 1 .. n : x = U[i]
    BY <1>1, <1>5 DEF Elems
  <2>2. i + m \in 1 .. m + n /\ (i + m) - m = i /\ ~(i + m <= m)
    BY <1>1, <2>1
  <2>3. i + m \in DOMAIN (T \o U) /\ x = (T \o U)[i + m]
    BY <1>2, <2>1, <2>2
  <2>4. QED
    BY <2>3 DEF Elems
<1>6. ASSUME U # <<>> PROVE T \o U # <<>> /\ Final(T \o U) = Final(U)
  <2>1. n # 0
    BY <1>6 DEF n
  <2>2. m + n \in 1 .. m + n /\ ~(m + n <= m) /\ (m + n) - m = n
    BY <1>1, <2>1
  <2>3. (T \o U)[m + n] = U[n] /\ T \o U # <<>>
    BY <1>2, <2>2
  <2>4. QED
    BY <1>2, <2>3 DEF Final, n
<1>7. QED
  BY <1>2, <1>3, <1>4, <1>5, <1>6

\* One step before a list.
LEMMA ElemsAdd ==
  ASSUME NEW S, NEW x \in S, NEW T \in Seq(S)
  PROVE  /\ <<x>> \o T \in Seq(S) /\ <<x>> \o T # <<>>
         /\ Head(<<x>> \o T) = x /\ Tail(<<x>> \o T) = T
         /\ Elems(<<x>> \o T) = {x} \cup Elems(T)
         /\ Final(<<x>> \o T) = IF T = <<>> THEN x ELSE Final(T)
<1>1. <<x>> \in Seq(S)
  OBVIOUS
<1>2. <<x>> \o T \in Seq(S) /\ Elems(<<x>> \o T) = {x} \cup Elems(T)
  <2>. DEFINE U == <<x>>
  <2>1. U \in Seq(S) /\ Elems(U) = {x}
    BY <1>1, ElemsOne
  <2>. HIDE DEF U
  <2>2. U \o T \in Seq(S) /\ Elems(U \o T) = Elems(U) \cup Elems(T)
    BY <2>1, ElemsJoin
  <2>3. QED
    BY <2>1, <2>2 DEF U
<1>3. <<x>> \o T # <<>> /\ Head(<<x>> \o T) = x /\ Tail(<<x>> \o T) = T
  OBVIOUS
<1>4. Final(<<x>> \o T) = IF T = <<>> THEN x ELSE Final(T)
  BY <1>2, <1>3, ElemsSplit
<1>5. QED
  BY <1>2, <1>3, <1>4

\* A list that ends by marking does so without its first step, and with another
\* first step that enters nothing.
LEMMA MarkedFacts ==
  ASSUME NEW S, NEW T \in Seq(S), T # <<>>, Marked(T)
  PROVE  /\ Marked(<<>>) /\ Marked(Tail(T))
         /\ \A x \in S : x.do # "entry" => Marked(<<x>> \o Tail(T))
<1>1. Marked(<<>>)
  BY ElemsOne DEF Marked
<1>2. Marked(Tail(T))
  <2>1. CASE Tail(T) = <<>>
    BY <1>1, <2>1
  <2>2. CASE Tail(T) # <<>>
    BY <2>2, ElemsSplit DEF Marked
  <2>3. QED
    BY <2>1, <2>2
<1>3. ASSUME NEW x \in S, x.do # "entry" PROVE Marked(<<x>> \o Tail(T))
  <2>. DEFINE R == Tail(T)
              U == <<x>> \o R
  <2>1. R \in Seq(S) /\ Marked(R)
    BY <1>2
  <2>. HIDE DEF R
  <2>2. Elems(U) = {x} \cup Elems(R) /\ Final(U) = IF R = <<>> THEN x ELSE Final(R)
    BY <2>1, ElemsAdd
  <2>3. R = <<>> => Elems(R) = {}
    BY ElemsOne
  <2>. HIDE DEF U
  <2>4. Marked(U)
    BY <1>3, <2>1, <2>2, <2>3 DEF Marked
  <2>5. QED
    BY <2>4 DEF U, R
<1>4. QED
  BY <1>1, <1>2, <1>3

-----------------------------------------------------------------------------
(* Steps of one process, as seen by the others.                            *)

Kept(q) ==
    /\ pc'[q] = pc[q] /\ cmd'[q] = cmd[q] /\ subs'[q] = subs[q] /\ pool'[q] = pool[q]
    /\ updates'[q] = updates[q] /\ unflushed'[q] = unflushed[q]
    /\ todo'[q] = todo[q] /\ shows'[q] = shows[q]

Elsewhere(p) == \A q \in Proc \ {p} : Kept(q)

\* What is derived from that.
LEMMA KeptFacts ==
  ASSUME NEW q, Kept(q)
  PROVE  /\ Subjects(q)' = Subjects(q) /\ Consumers(q)' = Consumers(q)
         /\ Writing(q)' <=> Writing(q)
         /\ \A t, by : ToRecord(q, t, by)' <=> ToRecord(q, t, by)
         /\ \A a : ToMark(q, a)' <=> ToMark(q, a)
         /\ \A r : ToShow(q, r)' <=> ToShow(q, r)
<1>1. Subjects(q)' = Subjects(q) /\ Consumers(q)' = Consumers(q) /\ (Writing(q)' <=> Writing(q))
  BY DEF Kept, Subjects, Consumers, Writing
<1>2. ASSUME NEW t, NEW by PROVE ToRecord(q, t, by)' <=> ToRecord(q, t, by)
  BY DEF Kept, ToRecord
<1>3. ASSUME NEW a PROVE ToMark(q, a)' <=> ToMark(q, a)
  BY DEF Kept, ToMark
<1>4. ASSUME NEW r PROVE ToShow(q, r)' <=> ToShow(q, r)
  BY DEF Kept, ToShow
<1>5. QED
  BY <1>1, <1>2, <1>3, <1>4

\* Two processes that write are about different assets.
LEMMA ApartFacts ==
  ASSUME Inv, NEW p \in Proc, NEW q \in Proc, p # q, Writing(p), Writing(q),
         NEW a \in Consumers(p)
  PROVE  a \notin Consumers(q)
<1>1. Control /\ Apart
  BY InvParts
<1>2. /\ running[p] = {Declares(b) : b \in Consumers(p)}
      /\ running[q] = {Declares(b) : b \in Consumers(q)}
  BY <1>1 DEF Control, Writing
<1>3. running[p] \cap running[q] = {}
  BY <1>1 DEF Apart
<1>4. QED
  BY <1>2, <1>3

\* A presentation under way stays so.
LEMMA UnderwayKept ==
  ASSUME NEW q, Kept(q), cut \subseteq cut', pointed \subseteq pointed',
         NEW r, r \in DOMAIN links', links'[r] = links[r], store'[r[1]] = store[r[1]],
         NEW S, Underway(q, r, S)
  PROVE  Underway(q, r, S)'
<1>1. Sources(store, r)' = Sources(store, r)
  BY DEF Sources
<1>2. \A n : Good(r, n) => Good(r, n)'
  BY <1>1 DEF Good, Linked
<1>3. QED
  BY <1>1, <1>2 DEF Underway, Kept

\* What a process has in its hands stays there as long as its own assets stay
\* as they are.
LEMMA HandElsewhere ==
  ASSUME Inv, Hands, NEW q \in Proc, Kept(q), cut \subseteq cut', pointed \subseteq pointed',
         Writing(q) =>
            /\ \A a \in Consumers(q) : store'[a] = store[a]
            /\ \A r \in DOMAIN links : r[1] \in Consumers(q) =>
                 r \in DOMAIN links' /\ links'[r] = links[r]
            /\ \A r \in pointed' \ pointed : r[1] \notin Consumers(q)
  PROVE  Hand(q)'
<1>1. Subjects(q)' = Subjects(q) /\ Consumers(q)' = Consumers(q) /\ (Writing(q)' <=> Writing(q))
  BY KeptFacts
<1>2. Hand(q) /\ Control
  BY InvParts DEF Hands
<1>3. \A u \in updates'[q] : Follow(u)
  BY <1>2 DEF Hand, Kept
<1>4. ASSUME Writing(q) PROVE (Own(q) /\ Unpointed(q) /\ Fresh(q) /\ Marked(todo[q]))'
  <2>1. Own(q) /\ Unpointed(q) /\ Fresh(q) /\ Marked(todo[q])
    BY <1>2, <1>4 DEF Hand
  <2>2. Own(q)'
    BY <1>1, <2>1 DEF Own
  <2>3. Unpointed(q)'
    BY <1>1, <1>4, <2>1 DEF Own, Unpointed
  <2>4. Fresh(q)'
    BY <1>1, <1>4, <2>1 DEF Own, Fresh, Kept
  <2>5. Marked(todo[q])'
    BY <2>1 DEF Marked, Kept
  <2>6. QED
    BY <2>2, <2>3, <2>4, <2>5
<1>5. ASSUME pc[q] = "flush" PROVE (Rewritten(q) /\ \A s \in Elems(todo[q]) : s.do = "cache")'
  <2>1. Rewritten(q) /\ \A s \in Elems(todo[q]) : s.do = "cache"
    BY <1>2, <1>5 DEF Hand
  <2>2. \A a \in unflushed[q] : store'[a] = store[a]
    BY <1>2, <1>5 DEF Control, Writing
  <2>3. Rewritten(q)'
    <3>1. /\ unflushed'[q] = unflushed[q] /\ updates'[q] = updates[q]
          /\ \A a \in unflushed[q] : pool'[q][a][0] = pool[q][a][0] /\ store'[a][0] = store[a][0]
      BY <2>2 DEF Kept
    <3>2. ASSUME NEW a \in unflushed[q]
          PROVE  /\ pool'[q][a][0] = store'[a][0] \/ \E u \in updates'[q] : u.by = Branch(a)
                 /\ \A n \in DOMAIN pool'[q][a][0] :
                      \/ n \in DOMAIN store'[a][0] /\ pool'[q][a][0][n] = store'[a][0][n]
                      \/ \E u \in updates'[q] :
                           /\ u.by = Branch(a)
                           /\ pool'[q][a][0][n] = [spec |-> u.spec, pin |-> u.new]
      <4>. DEFINE P == pool[q][a][0]
                  W == store[a][0]
      <4>1. /\ P = W \/ \E u \in updates[q] : u.by = Branch(a)
            /\ \A n \in DOMAIN P :
                 \/ n \in DOMAIN W /\ P[n] = W[n]
                 \/ \E u \in updates[q] : u.by = Branch(a) /\ P[n] = [spec |-> u.spec, pin |-> u.new]
        BY <2>1 DEF Rewritten
      <4>2. pool'[q][a][0] = P /\ store'[a][0] = W
        BY <3>1
      <4>. HIDE DEF P, W
      <4>3. QED
        BY <3>1, <4>1, <4>2
    <3>3. QED
      BY <3>1, <3>2 DEF Rewritten
  <2>4. QED
    BY <2>1, <2>3 DEF Kept
<1>6. ASSUME pc[q] = "finish", todo[q] # <<>> PROVE Presents(q)'
  <2>. DEFINE s == Head(todo[q])
              r == s.of
  <2>1. Presents(q) /\ Own(q) /\ Writing(q)
    BY <1>2, <1>6 DEF Hand, Writing
  <2>2. todo'[q] = todo[q] /\ shows'[q] = shows[q] /\ updates'[q] = updates[q]
    BY DEF Kept
  <2>3. ASSUME s.do \in {"link", "pointer"} PROVE r[1] \in Consumers(q)
    <3>1. todo[q] \in Seq(FinishStep)
      BY InvParts DEF Types, LocalTypes
    <3>2. s \in Elems(todo[q])
      BY <1>6, <3>1, ElemsSplit
    <3>3. r \in About(todo[q])
      BY <2>3, <3>2 DEF About, SubjectsOf
    <3>4. QED
      BY <2>1, <3>3 DEF Own, Subjects
  <2>4. ASSUME s.do \in {"link", "pointer"}, NEW S, Underway(q, r, S)
        PROVE  \A x : x = r => Underway(q, x, S)'
    <3>1. r \in DOMAIN links' /\ links'[r] = links[r] /\ store'[r[1]] = store[r[1]]
      BY <2>1, <2>3, <2>4 DEF Underway
    <3>2. QED
      BY <2>4, <3>1, UnderwayKept
  <2>5. (s.do \in GraphDo => \A t \in Elems(Tail(todo[q])) : t.do \in GraphDo)'
    BY <2>1, <2>2 DEF Presents
  <2>6. (s.do = "link" => /\ Underway(q, s.of, s.left) /\ s.left # {}
                          /\ Tail(todo[q]) = IF IsBranch(s.of) THEN <<>> ELSE Pointer(s.of))'
    BY <2>1, <2>2, <2>4 DEF Presents
  <2>7. (s.do = "pointer" => /\ Underway(q, s.of, {})
                             /\ Tail(todo[q]) = <<>> /\ ~IsBranch(s.of))'
    BY <2>1, <2>2, <2>4 DEF Presents
  <2>8. QED
    BY <2>5, <2>6, <2>7 DEF Presents
<1>7. pc'[q] = pc[q] /\ todo'[q] = todo[q]
  BY DEF Kept
<1>8. QED
  BY <1>1, <1>3, <1>4, <1>5, <1>6, <1>7 DEF Hand

-----------------------------------------------------------------------------
(* Promises about the asset files.                                         *)

\* A step keeps the promise of an entry if it keeps entries, and what is to be
\* recorded.
LEMMA RecordedStep ==
  ASSUME Inv, Recorded, NEW p \in Proc, Elsewhere(p), UNCHANGED store, cut \subseteq cut',
         \A t \in Live : \A by : IsBranch(t) /\ Entered(t, by) => Entered(t, by)',
         \A t \in Live, a \in Asset \ cut' :
            IsBranch(t) /\ Writing(p) /\ ToRecord(p, t, Branch(a)) =>
               \/ Writing(p)' /\ ToRecord(p, t, Branch(a))'
               \/ Entered(t, Branch(a))'
  PROVE  Recorded'
<1>. SUFFICES ASSUME NEW a \in Asset \ cut', NEW n \in DOMAIN store[a][0],
                     IsBranch(store[a][0][n].spec)
              PROVE  \/ Entered(store[a][0][n].spec, Branch(a))'
                     \/ \E q \in Proc : Writing(q)' /\ ToRecord(q, store[a][0][n].spec, Branch(a))'
  BY DEF Recorded
<1>1. \A t : t = store[a][0][n].spec =>
         \/ Entered(t, Branch(a))'
         \/ \E q \in Proc : Writing(q)' /\ ToRecord(q, t, Branch(a))'
  <2>. SUFFICES ASSUME NEW t, t = store[a][0][n].spec
                PROVE  \/ Entered(t, Branch(a))'
                       \/ \E q \in Proc : Writing(q)' /\ ToRecord(q, t, Branch(a))'
    OBVIOUS
  <2>1. store[a] \in Files
    BY InvParts
  <2>2. t \in Live /\ IsBranch(t)
    BY <2>1, FileFacts
  <2>3. CASE Entered(t, Branch(a))
    BY <2>2, <2>3
  <2>4. CASE ~Entered(t, Branch(a))
    <3>1. PICK q \in Proc : Writing(q) /\ ToRecord(q, t, Branch(a))
      BY <2>4 DEF Recorded
    <3>2. CASE q = p
      BY <2>2, <3>1, <3>2
    <3>3. CASE q # p
      BY <3>1, <3>3, KeptFacts DEF Elsewhere
    <3>4. QED
      BY <3>2, <3>3
  <2>5. QED
    BY <2>3, <2>4
<1>2. QED
  BY <1>1

\* A step keeps the promise of a marker if it keeps markers, and what is to be
\* marked, and sees to the entries that it makes.
LEMMA MarkedStep ==
  ASSUME Inv, MarkedOrWill, NEW p \in Proc, Elsewhere(p), marked \subseteq marked', cut \subseteq cut',
         \A e \in entries' \ entries :
            \/ e.target[1] \in marked'
            \/ Writing(p)' /\ e.by[1] \in Consumers(p)' /\ ToMark(p, e.target[1])',
         \A b \in Asset : Writing(p) /\ ToMark(p, b) =>
            \/ Writing(p)' /\ Consumers(p)' = Consumers(p) /\ ToMark(p, b)'
            \/ b \in marked'
            \/ Consumers(p) \subseteq cut'
  PROVE  MarkedOrWill'
<1>. SUFFICES ASSUME NEW e \in entries'
              PROVE  \/ e.target[1] \in marked' \/ e.by[1] \in cut'
                     \/ \E q \in Proc :
                          Writing(q)' /\ e.by[1] \in Consumers(q)' /\ ToMark(q, e.target[1])'
  BY DEF MarkedOrWill
<1>1. CASE e \notin entries
  BY <1>1
<1>2. CASE e \in entries
  <2>1. e.target[1] \in Asset
    BY <1>2, InvParts, LiveFacts DEF LiveEntry, Node
  <2>2. CASE e.target[1] \in marked \/ e.by[1] \in cut
    BY <2>2
  <2>3. CASE ~(e.target[1] \in marked \/ e.by[1] \in cut)
    <3>1. PICK q \in Proc : Writing(q) /\ e.by[1] \in Consumers(q) /\ ToMark(q, e.target[1])
      BY <1>2, <2>3 DEF MarkedOrWill
    <3>2. CASE q = p
      BY <2>1, <3>1, <3>2
    <3>3. CASE q # p
      BY <3>1, <3>3, KeptFacts DEF Elsewhere
    <3>4. QED
      BY <3>2, <3>3
  <2>4. QED
    BY <2>2, <2>3
<1>3. QED
  BY <1>1, <1>2

\* A step keeps the promise of links that are right if it keeps right links, and
\* what is to be shown.
LEMMA AlignedStep ==
  ASSUME Inv, AlignedOrWill, NEW p \in Proc, Elsewhere(p), cut \subseteq cut',
         \A a \in Asset \ cut' :
            Aligned(a) \/ (Writing(p) /\ ToShow(p, Branch(a))) =>
               Aligned(a)' \/ (Writing(p)' /\ ToShow(p, Branch(a))')
  PROVE  AlignedOrWill'
<1>. SUFFICES ASSUME NEW a \in Asset \ cut'
              PROVE  Aligned(a)' \/ \E q \in Proc : Writing(q)' /\ ToShow(q, Branch(a))'
  BY DEF AlignedOrWill
<1>1. Aligned(a) \/ \E q \in Proc : Writing(q) /\ ToShow(q, Branch(a))
  BY DEF AlignedOrWill
<1>2. \A q \in Proc \ {p} : Writing(q) /\ ToShow(q, Branch(a)) =>
                               Writing(q)' /\ ToShow(q, Branch(a))'
  BY KeptFacts DEF Elsewhere
<1>3. QED
  BY <1>1, <1>2

\* What is presented stays so, if only what is not presented is touched.
LEMMA DeskStep ==
  ASSUME Inv, Desk, UNCHANGED store, cut \subseteq cut', pointed \subseteq pointed',
         DOMAIN links \subseteq DOMAIN links',
         \A r \in pointed : ~IsBranch(r) => links'[r] = links[r],
         \A r \in pointed' \ pointed :
            r \in Live /\ r \in DOMAIN links /\ (~IsBranch(r) /\ r[1] \notin cut' => Whole(r)')
  PROVE  Desk'
<1>1. Live' = Live
  BY SameStore
<1>2. \A r \in pointed' : r \in Live' /\ r \in DOMAIN links'
  BY <1>1 DEF Desk
<1>3. \A a \in Asset : Branch(a) \in DOMAIN links'
  BY DEF Desk, Branch
<1>4. ASSUME NEW r \in pointed', ~IsBranch(r), r[1] \notin cut' PROVE Whole(r)'
  <2>1. CASE r \notin pointed
    BY <1>4, <2>1
  <2>2. CASE r \in pointed
    <3>1. Whole(r) /\ links'[r] = links[r] /\ Sources(store, r)' = Sources(store, r)
      BY <1>4, <2>2 DEF Desk, Sources
    <3>2. QED
      BY <3>1 DEF Whole, Linked
  <2>3. QED
    BY <2>1, <2>2
<1>5. QED
  BY <1>2, <1>3, <1>4 DEF Desk

\* What is to be recorded or shown is the process's own.
LEMMA ShowFacts ==
  ASSUME Inv, Hands, NEW p \in Proc, Writing(p), NEW r
  PROVE  /\ ToShow(p, r) => r \in Subjects(p) /\ r[1] \in Consumers(p)
         /\ \A t : ToRecord(p, t, r) => r \in Subjects(p) /\ r[1] \in Consumers(p)
<1>1. Own(p) /\ todo[p] \in Seq(FinishStep)
  BY InvParts DEF Hands, Hand, Types, LocalTypes
<1>2. ASSUME NEW t, ToRecord(p, t, r) PROVE r \in Subjects(p)
  <2>1. CASE \E u \in updates[p] : u.by = r
    BY <2>1 DEF Subjects
  <2>2. CASE \E s \in Elems(todo[p]) : s.do = "entry" /\ s.by = r
    BY <2>2 DEF Subjects, About, SubjectsOf
  <2>3. QED
    BY <1>2, <2>1, <2>2 DEF ToRecord
<1>3. ASSUME ToShow(p, r) PROVE r \in Subjects(p)
  <2>1. CASE r \in shows[p] \/ \E u \in updates[p] : u.by = r
    BY <2>1 DEF Subjects
  <2>2. CASE todo[p] # <<>> /\ Final(todo[p]).do \in {"marks", "mark"} /\ Final(todo[p]).by = r
    <3>1. Final(todo[p]) \in Elems(todo[p])
      BY <1>1, <2>2, ElemsSplit
    <3>2. QED
      BY <2>2, <3>1 DEF Subjects, About, SubjectsOf
  <2>3. CASE todo[p] # <<>> /\ Head(todo[p]).do = "link" /\ Head(todo[p]).of = r
    <3>1. Head(todo[p]) \in Elems(todo[p])
      BY <1>1, <2>3, ElemsSplit
    <3>2. QED
      BY <2>3, <3>1 DEF Subjects, About, SubjectsOf
  <2>4. QED
    BY <1>3, <2>1, <2>2, <2>3 DEF ToShow
<1>4. QED
  BY <1>1, <1>2, <1>3 DEF Own

-----------------------------------------------------------------------------
(* Steps before a command writes, and those with which it is over.         *)

\* What they have in common: nothing that is promised changes, and the process
\* has nothing in its hands afterwards, whatever it drops.
Leaves(p) ==
    /\ pc'[p] \notin {"flush", "finish"} /\ Elsewhere(p)
    /\ UNCHANGED <<store, entries, marked, pointed, links>> /\ cut \subseteq cut'
    /\ \A u \in updates'[p] : u \in updates[p] \/ Follow(u)
    /\ Writing(p) => \/ Consumers(p) \subseteq cut'
                     \/ updates[p] = {} /\ todo[p] = <<>> /\ shows[p] = {}

\* They keep all promises.
LEMMA LeavesPromises ==
  ASSUME Inv, Promises, NEW p \in Proc, Leaves(p) PROVE Promises'
<1>1. /\ UNCHANGED <<store, entries, marked, pointed, links>> /\ cut \subseteq cut'
      /\ Elsewhere(p) /\ Hands
  BY DEF Leaves, Promises
<1>2. Hands'
  <2>1. ASSUME NEW q \in Proc \ {p} PROVE Hand(q)'
    BY <1>1, HandElsewhere DEF Elsewhere
  <2>2. Hand(p)'
    BY <1>1 DEF Leaves, Hands, Hand, Writing
  <2>3. QED
    BY <2>1, <2>2 DEF Hands
<1>3. ASSUME Writing(p), NEW a \in Asset \ cut'
      PROVE  /\ a \in Consumers(p) => updates[p] = {} /\ todo[p] = <<>> /\ shows[p] = {}
             /\ \A t : ~ToRecord(p, t, Branch(a))
             /\ ~ToShow(p, Branch(a))
  <2>1. Branch(a)[1] = a
    BY DEF Branch
  <2>2. a \in Consumers(p) => updates[p] = {} /\ todo[p] = <<>> /\ shows[p] = {}
    BY <1>3 DEF Leaves
  <2>3. \A t : ToRecord(p, t, Branch(a)) => a \in Consumers(p)
    BY <1>1, <1>3, <2>1, ShowFacts
  <2>4. ToShow(p, Branch(a)) => a \in Consumers(p)
    BY <1>1, <1>3, <2>1, ShowFacts
  <2>5. \A t : ~ToRecord(p, t, Branch(a))
    BY <2>2, <2>3, ElemsOne DEF ToRecord
  <2>6. ~ToShow(p, Branch(a))
    BY <2>2, <2>4 DEF ToShow
  <2>7. QED
    BY <2>2, <2>5, <2>6
<1>4. Recorded'
  <2>1. \A t \in Live : \A by : IsBranch(t) /\ Entered(t, by) => Entered(t, by)'
    BY <1>1 DEF Entered
  <2>2. QED
    BY <1>1, <1>3, <2>1, RecordedStep DEF Promises
<1>5. MarkedOrWill'
  <2>1. \A b \in Asset : Writing(p) /\ ToMark(p, b) => Consumers(p) \subseteq cut'
    <3>1. todo[p] = <<>> => \A b \in Asset : ~ToMark(p, b)
      BY ElemsOne DEF ToMark
    <3>2. QED
      BY <3>1 DEF Leaves
  <2>2. QED
    BY <1>1, <2>1, MarkedStep DEF Promises
<1>6. Desk'
  BY <1>1, DeskStep DEF Promises
<1>7. AlignedOrWill'
  <2>1. \A a \in Asset : Aligned(a)' <=> Aligned(a)
    BY <1>1 DEF Aligned
  <2>2. QED
    BY <1>1, <1>3, <2>1, AlignedStep DEF Promises
<1>8. QED
  BY <1>2, <1>4, <1>5, <1>6, <1>7 DEF Promises

\* A step that changes nothing that is promised keeps all promises, if it lets
\* nothing go.
LEMMA QuietPromises ==
  ASSUME Inv, Promises, NEW p \in Proc, Elsewhere(p), Hand(p)',
         UNCHANGED <<store, entries, marked, pointed, links, cut>>,
         \/ ~Writing(p)
         \/ /\ Writing(p)' /\ Consumers(p)' = Consumers(p)
            /\ UNCHANGED <<updates, todo, shows>>
  PROVE  Promises'
<1>1. Hands'
  <2>1. ASSUME NEW q \in Proc \ {p} PROVE Hand(q)'
    BY HandElsewhere DEF Elsewhere, Promises
  <2>2. QED
    BY <2>1 DEF Hands
<1>2. Recorded'
  <2>1. \A t \in Live : \A by : IsBranch(t) /\ Entered(t, by) => Entered(t, by)'
    BY DEF Entered
  <2>2. \A t, by : Writing(p) /\ ToRecord(p, t, by) => Writing(p)' /\ ToRecord(p, t, by)'
    BY DEF ToRecord
  <2>3. QED
    BY <2>1, <2>2, RecordedStep DEF Promises
<1>3. MarkedOrWill'
  <2>1. \A b \in Asset : Writing(p) /\ ToMark(p, b) =>
                            Writing(p)' /\ Consumers(p)' = Consumers(p) /\ ToMark(p, b)'
    BY DEF ToMark
  <2>2. QED
    BY <2>1, MarkedStep DEF Promises
<1>4. Desk'
  BY DeskStep DEF Promises
<1>5. AlignedOrWill'
  <2>1. \A a \in Asset : Aligned(a)' <=> Aligned(a)
    BY DEF Aligned
  <2>2. \A r : Writing(p) /\ ToShow(p, r) => Writing(p)' /\ ToShow(p, r)'
    BY DEF ToShow
  <2>3. QED
    BY <2>1, <2>2, AlignedStep DEF Promises
<1>6. QED
  BY <1>1, <1>2, <1>3, <1>4, <1>5 DEF Promises

\* The variables of processes are functions.
LEMMA ProcFacts ==
  ASSUME Inv, NEW p \in Proc
  PROVE  /\ DOMAIN pc = Proc /\ DOMAIN cmd = Proc /\ DOMAIN subs = Proc /\ DOMAIN pool = Proc
         /\ DOMAIN updates = Proc /\ DOMAIN unflushed = Proc
         /\ DOMAIN todo = Proc /\ DOMAIN shows = Proc /\ DOMAIN stack = Proc
         /\ pc = [q \in Proc |-> pc[q]] /\ cmd = [q \in Proc |-> cmd[q]]
         /\ todo[p] \in Seq(FinishStep)
BY InvParts DEF Types, LocalTypes

\* Steps of the search for consumers.
LEMMA SearchLeaves ==
  ASSUME Inv, NEW p \in Proc, Discover(p) \/ Descend(p) \/ Return(p) \/ DiscoverFails(p)
  PROVE  Leaves(p)
<1>1. pc[p] = "discover"
  <2>1. CASE Discover(p) \/ DiscoverFails(p)
    BY <2>1 DEF Discover, DiscoverFails
  <2>2. CASE Descend(p) \/ Return(p)
    BY <2>2, SearchFacts DEF Descend, Return, WriteReverse
  <2>3. QED
    BY <2>1, <2>2
<1>2. /\ UNCHANGED <<store, entries, marked, pointed, links, cut>>
      /\ UNCHANGED <<cmd, updates, unflushed, todo, shows>>
  BY DEF Discover, Descend, Return, WriteReverse, DiscoverFails, diskVars, graphVars, workspaceVars
<1>3. /\ \E l \in {"discover", "begin", "end"} : pc' = [pc EXCEPT ![p] = l]
      /\ \E x : subs' = [subs EXCEPT ![p] = x]
      /\ \E x : pool' = [pool EXCEPT ![p] = x]
  <2>. DEFINE A == \E l \in {"discover", "begin", "end"} : pc' = [pc EXCEPT ![p] = l]
              B == \E x : subs' = [subs EXCEPT ![p] = x]
              C == \E x : pool' = [pool EXCEPT ![p] = x]
  <2>1. ASSUME NEW g, Found(p, g) PROVE A /\ B
    BY <2>1 DEF Found, Goto
  <2>2. ASSUME NEW S, Read(p, S) PROVE C
    BY <2>2 DEF Read
  <2>3. UNCHANGED pc => A
    <3>1. pc = [pc EXCEPT ![p] = "discover"]
      BY <1>1, ProcFacts
    <3>2. QED
      BY <3>1
  <2>4. UNCHANGED subs => B
    <3>1. subs = [subs EXCEPT ![p] = subs[p]]
      BY InvParts DEF Types, LocalTypes
    <3>2. QED
      BY <3>1
  <2>5. UNCHANGED pool => C
    <3>1. pool = [pool EXCEPT ![p] = pool[p]]
      BY InvParts DEF Types, LocalTypes
    <3>2. QED
      BY <3>1
  <2>. SUFFICES A /\ B /\ C
    OBVIOUS
  <2>. HIDE DEF A, B, C
  <2>6. CASE Discover(p)
    <3>1. C
      BY <2>2, <2>6 DEF Discover
    <3>2. A /\ B
      BY <2>1, <2>3, <2>4, <2>6 DEF Discover
    <3>3. QED
      BY <3>1, <3>2
  <2>7. CASE Descend(p)
    <3>1. C
      BY <2>2, <2>7 DEF Descend
    <3>2. QED
      BY <2>3, <2>4, <2>7, <3>1 DEF Descend
  <2>8. CASE Return(p)
    <3>1. A /\ B
      BY <2>1, <2>3, <2>4, <2>8 DEF Return, WriteReverse, Pop
    <3>2. QED
      BY <2>5, <2>8, <3>1 DEF Return, WriteReverse
  <2>9. CASE DiscoverFails(p)
    <3>1. A
      BY <2>9 DEF DiscoverFails, Goto, A
    <3>2. QED
      BY <2>4, <2>5, <2>9, <3>1 DEF DiscoverFails
  <2>10. QED
    BY <2>6, <2>7, <2>8, <2>9
<1>4. Elsewhere(p)
  BY <1>2, <1>3 DEF Elsewhere, Kept
<1>5. pc'[p] \in {"discover", "begin", "end"}
  BY <1>3, ProcFacts
<1>6. QED
  BY <1>1, <1>2, <1>4, <1>5 DEF Leaves, Writing

\* Steps from the one part of a transaction to the next, and to its end.
LEMMA MovesLeave ==
  ASSUME Inv, NEW p \in Proc,
         \/ Begin(p) \/ Conflicts(p) \/ Invalid(p) \/ UpdateFails(p)
         \/ FlushFails(p) \/ EndFinish(p)
  PROVE  Leaves(p)
<1>1. /\ UNCHANGED <<store, entries, marked, pointed, links>>
      /\ UNCHANGED <<cmd, subs, pool, updates, unflushed, todo, shows>>
  BY DEF Begin, Conflicts, Invalid, UpdateFails, FlushFails, EndFinish,
         diskVars, graphVars, workspaceVars, localVars
<1>2. \E l \in {"validate", "end"} : pc' = [pc EXCEPT ![p] = l]
  BY DEF Begin, Conflicts, Invalid, UpdateFails, FlushFails, EndFinish, Goto
<1>3. cut \subseteq cut'
  BY DEF Begin, Conflicts, Invalid, UpdateFails, FlushFails, EndFinish
<1>4. Elsewhere(p) /\ pc'[p] \in {"validate", "end"}
  BY <1>1, <1>2, ProcFacts DEF Elsewhere, Kept
<1>5. Writing(p) => \/ Consumers(p) \subseteq cut'
                    \/ updates[p] = {} /\ todo[p] = <<>> /\ shows[p] = {}
  BY DEF Begin, Conflicts, Invalid, UpdateFails, FlushFails, EndFinish, Writing
<1>6. QED
  BY <1>1, <1>3, <1>4, <1>5 DEF Leaves

\* The start of a command.
LEMMA StartLeaves ==
  ASSUME Inv, NEW p \in Proc, NEW c \in Commands, Start(p, c) PROVE Leaves(p)
<1>1. /\ UNCHANGED <<store, entries, marked, pointed, links, cut>>
      /\ UNCHANGED <<subs, pool, updates, unflushed, todo, shows>>
  BY DEF Start, diskVars, graphVars, workspaceVars
<1>2. /\ pc[p] = "idle" /\ pc' = [pc EXCEPT ![p] = IF c.kind = "push" THEN "discover" ELSE "begin"]
      /\ cmd' = [cmd EXCEPT ![p] = c]
  BY DEF Start, Goto
<1>3. Elsewhere(p) /\ pc'[p] \in {"discover", "begin"}
  BY <1>1, <1>2, ProcFacts DEF Elsewhere, Kept
<1>4. QED
  BY <1>1, <1>2, <1>3 DEF Leaves, Writing

\* Validate decides what to write: a branch gets a commit of what it follows.
LEMMA ValidateLeaves ==
  ASSUME Inv, NEW p \in Proc, Validate(p) PROVE Leaves(p)
<1>1. /\ UNCHANGED <<store, entries, marked, pointed, links, cut>>
      /\ UNCHANGED <<cmd, subs, unflushed, todo, shows>>
  BY DEF Validate, diskVars, graphVars, workspaceVars
<1>2. /\ pc[p] = "validate" /\ Valid(p) /\ pc' = [pc EXCEPT ![p] = "update"]
      /\ updates' = [updates EXCEPT ![p] = Updates(p)]
      /\ \E x : pool' = [pool EXCEPT ![p] = x]
  BY DEF Validate, Goto, Read
<1>3. Elsewhere(p) /\ pc'[p] = "update" /\ updates'[p] = Updates(p)
  BY <1>1, <1>2, ProcFacts DEF Elsewhere, Kept
<1>4. \A u \in Updates(p) : Follow(u)
  BY <1>2, UpdatesFacts DEF Follow
<1>5. QED
  BY <1>1, <1>2, <1>3, <1>4 DEF Leaves, Writing

\* The end of a command, or of its process.
LEMMA ExitLeaves ==
  ASSUME Inv, NEW p \in Proc, End(p) \/ Crash(p) PROVE Leaves(p)
<1>1. UNCHANGED <<store, entries, marked, pointed, links>>
  BY DEF End, Crash, diskVars, graphVars, workspaceVars
<1>2. PICK l \in {"idle", "dead"} : Exit(p, l)
  BY DEF End, Crash
<1>3. cut \subseteq cut' /\ (Writing(p) => Consumers(p) \subseteq cut')
  BY DEF End, Crash, Writing
<1>4. Elsewhere(p)
  BY <1>2 DEF Exit, Goto, Elsewhere, Kept
<1>5. pc'[p] \in {"idle", "dead"} /\ updates'[p] = {}
  BY <1>2, ProcFacts DEF Exit, Goto
<1>6. QED
  BY <1>1, <1>3, <1>4, <1>5 DEF Leaves

-----------------------------------------------------------------------------
(* Steps that write asset files.                                           *)

\* The copy that a snapshot is about to write has its branch as it is.
LEMMA SnapshotHand ==
  ASSUME Inv, Desk, NEW p \in Proc, Update(p), cmd[p].kind = "snapshot" PROVE Hand(p)'
<1>1. PICK a \in Asset, c \in Nat \ {0} :
         /\ a = cmd[p].asset /\ Consumers(p) = {a} /\ c \notin DOMAIN store[a]
         /\ CommitBranch(store[a]) \in Files /\ DOMAIN CommitBranch(store[a]) = DOMAIN store[a] \cup {c}
         /\ CommitBranch(store[a])[c] = store[a][0]
         /\ \A i \in DOMAIN store[a] : CommitBranch(store[a])[i] = store[a][i]
         /\ pool' = [pool EXCEPT ![p] = With(@, a, CommitBranch(store[a]))]
         /\ unflushed' = [unflushed EXCEPT ![p] = {a}]
         /\ updates' = [updates EXCEPT ![p] = SnapshotChanges(a, c)]
         /\ todo' = [todo EXCEPT ![p] = <<Cache(<<a, c>>), Cache(Branch(a))>>]
         /\ shows' = [shows EXCEPT ![p] = {<<a, c>>}]
  BY SnapshotFacts
<1>2. /\ pc' = [pc EXCEPT ![p] = "flush"] /\ UNCHANGED <<store, pointed, cmd, subs>>
  BY DEF Update, Goto, diskVars, workspaceVars
<1>. DEFINE T == <<Cache(<<a, c>>), Cache(Branch(a))>>
<1>3. /\ pc'[p] = "flush" /\ unflushed'[p] = {a} /\ updates'[p] = SnapshotChanges(a, c)
      /\ todo'[p] = T /\ shows'[p] = {<<a, c>>} /\ pool'[p] = With(pool[p], a, CommitBranch(store[a]))
      /\ Consumers(p)' = {a}
  BY <1>1, <1>2, ProcFacts DEF Consumers
<1>4. \A s \in Elems(T) : s.do = "cache"
  BY DEF Elems, Cache
<1>5. \A u \in SnapshotChanges(a, c) : u.by = <<a, c>>
  BY DEF SnapshotChanges
<1>. HIDE DEF T
<1>6. About(T) = {} /\ Marked(T)
  BY <1>4 DEF About, SubjectsOf, Marked
<1>7. Subjects(p)' = {<<a, c>>}
  BY <1>3, <1>5, <1>6 DEF Subjects
<1>8. \A u \in updates'[p] : Follow(u)
  BY <1>3, <1>5 DEF Follow, IsBranch
<1>9. Own(p)'
  BY <1>3, <1>7 DEF Own
<1>10. Unpointed(p)'
  <2>1. <<a, c>> \notin Live
    BY <1>1, LiveFacts, InvParts DEF Node, Exists
  <2>2. QED
    BY <1>2, <1>7, <2>1 DEF Unpointed, Desk
<1>11. Fresh(p)'
  BY <1>3, <1>7 DEF Fresh, With
<1>12. Rewritten(p)'
  <2>1. pool'[p][a][0] = store[a][0]
    <3>1. 0 \in DOMAIN store[a]
      BY InvParts, FileFacts
    <3>2. QED
      BY <1>1, <1>3, <3>1 DEF With
  <2>2. QED
    BY <1>2, <1>3, <2>1 DEF Rewritten
<1>13. Marked(todo[p])' /\ (\A s \in Elems(todo[p]) : s.do = "cache")'
  BY <1>3, <1>4, <1>6
<1>14. QED
  BY <1>3, <1>8, <1>9, <1>10, <1>11, <1>12, <1>13 DEF Hand

\* The copies that other commands are about to write have the changes.
LEMMA ChangeHand ==
  ASSUME Inv, Inv', Hands, NEW p \in Proc, Update(p), cmd[p].kind # "snapshot" PROVE Hand(p)'
<1>1. PICK U \in SUBSET updates[p], W \in SUBSET Consumers(p) :
         /\ W = {u.by[1] : u \in U}
         /\ pool' = [pool EXCEPT ![p] = [a \in DOMAIN pool[p] \cup W |->
                       IF a \in W THEN AddSource(store[a], {u \in U : u.by[1] = a}) ELSE pool[p][a]]]
         /\ unflushed' = [unflushed EXCEPT ![p] = W]
         /\ updates' = [updates EXCEPT ![p] = U]
         /\ todo' = todo /\ shows' = shows
  BY ChangeFacts
<1>2. /\ pc[p] = "update" /\ pc' = [pc EXCEPT ![p] = "flush"] /\ UNCHANGED <<store, pointed, cmd, subs>>
  BY DEF Update, Goto, diskVars, workspaceVars
<1>3. Control /\ updates[p] \subseteq Change /\ Hand(p) /\ W \subseteq Asset
  BY InvParts, ConsumersFacts DEF Types, LocalTypes, Hands
<1>4. /\ pc'[p] = "flush" /\ unflushed'[p] = W /\ updates'[p] = U
      /\ todo'[p] = <<>> /\ shows'[p] = {} /\ Consumers(p)' = Consumers(p)
      /\ DOMAIN pool'[p] = DOMAIN pool[p] \cup W
      /\ \A a \in W : pool'[p][a] = AddSource(store[a], {u \in U : u.by[1] = a})
  BY <1>1, <1>2, <1>3, ProcFacts DEF Consumers, Control
<1>5. About(<<>>) = {} /\ Marked(<<>>) /\ Elems(<<>>) = {}
  BY ElemsOne DEF About, Marked
<1>6. Subjects(p)' = {u.by : u \in U}
  BY <1>4, <1>5 DEF Subjects
<1>7. \A u \in U : u.by[1] \in W /\ IsBranch(u.by) /\ u.by = Branch(u.by[1]) /\ u \in Change
  BY <1>1, <1>2, <1>3 DEF Control, Change, Node, IsBranch, Branch
<1>8. \A u \in updates'[p] : Follow(u)
  BY <1>3, <1>4 DEF Hand
<1>9. Own(p)'
  BY <1>4, <1>6, <1>7 DEF Own
<1>10. Unpointed(p)'
  BY <1>6, <1>7 DEF Unpointed
<1>11. Fresh(p)'
  BY <1>4, <1>6, <1>7 DEF Fresh
<1>12. Rewritten(p)'
  <2>. SUFFICES ASSUME NEW a \in W
                PROVE  /\ \E u \in U : u.by = Branch(a)
                       /\ \A n \in DOMAIN pool'[p][a][0] :
                            \/ n \in DOMAIN store[a][0] /\ pool'[p][a][0][n] = store[a][0][n]
                            \/ \E u \in U : /\ u.by = Branch(a)
                                            /\ pool'[p][a][0][n] = [spec |-> u.spec, pin |-> u.new]
    BY <1>2, <1>4 DEF Rewritten
  <2>. DEFINE V == {u \in U : u.by[1] = a}
              f == store[a]
  <2>1. V \in SUBSET Change /\ f \in Files /\ pool'[p][a] = AddSource(f, V)
    BY <1>3, <1>4, <1>7, InvParts
  <2>2. \A u \in V : u \in U /\ u.by = Branch(a)
    BY <1>7
  <2>3. \E u \in U : u.by = Branch(a)
    BY <1>1, <1>7
  <2>. HIDE DEF V, f
  <2>4. \A n \in DOMAIN AddSource(f, V)[0] :
           \/ n \in DOMAIN f[0] /\ AddSource(f, V)[0][n] = f[0][n]
           \/ \E u \in V : AddSource(f, V)[0][n] = [spec |-> u.spec, pin |-> u.new]
    <3>1. \A n \in DOMAIN AddSource(f, V)[0] :
             \/ /\ n \in DOMAIN f[0] /\ AddSource(f, V)[0][n] = f[0][n]
                /\ \A u \in V : u.name # n
             \/ \E u \in V : /\ u.name = n
                             /\ AddSource(f, V)[0][n] = [spec |-> u.spec, pin |-> u.new]
      BY <2>1, AddSourceFacts
    <3>2. QED
      BY <3>1
  <2>5. QED
    BY <2>1, <2>2, <2>3, <2>4 DEF f
<1>13. Marked(todo[p])' /\ (\A s \in Elems(todo[p]) : s.do = "cache")'
  BY <1>4, <1>5
<1>14. QED
  BY <1>4, <1>8, <1>9, <1>10, <1>11, <1>12, <1>13 DEF Hand

\* A command that starts to write promises what it is going to write.
LEMMA UpdatePromises ==
  ASSUME Inv, Inv', Promises, NEW p \in Proc, Update(p) PROVE Promises'
<1>1. /\ UNCHANGED <<store, entries, marked, pointed, links, cut, cmd, subs>>
      /\ pc[p] = "update" /\ pc' = [pc EXCEPT ![p] = "flush"]
  BY DEF Update, Goto, diskVars, graphVars, workspaceVars
<1>2. Hand(p)'
  BY SnapshotHand, ChangeHand DEF Promises
<1>3. /\ \E x : pool' = [pool EXCEPT ![p] = x]
      /\ \E x : unflushed' = [unflushed EXCEPT ![p] = x]
      /\ \E x : updates' = [updates EXCEPT ![p] = x]
      /\ \E x : todo' = [todo EXCEPT ![p] = x]
      /\ \E x : shows' = [shows EXCEPT ![p] = x]
  <2>1. CASE cmd[p].kind = "snapshot"
    BY <2>1, SnapshotFacts
  <2>2. CASE cmd[p].kind # "snapshot"
    <3>1. todo = [todo EXCEPT ![p] = todo[p]] /\ shows = [shows EXCEPT ![p] = shows[p]]
      BY InvParts DEF Types, LocalTypes
    <3>2. QED
      BY <2>2, <3>1, ChangeFacts
  <2>3. QED
    BY <2>1, <2>2
<1>4. Elsewhere(p) /\ ~Writing(p)
  BY <1>1, <1>3 DEF Elsewhere, Kept, Writing
<1>5. QED
  BY <1>1, <1>2, <1>4, QuietPromises

\* All files are written: what is in the hands of the process stays there.
LEMMA EndFlushPromises ==
  ASSUME Inv, Promises, NEW p \in Proc, EndFlush(p) PROVE Promises'
<1>1. /\ UNCHANGED <<store, entries, marked, pointed, links, cut>>
      /\ UNCHANGED <<cmd, subs, pool, updates, unflushed, todo, shows>>
      /\ pc[p] = "flush" /\ unflushed[p] = {} /\ pc' = [pc EXCEPT ![p] = "finish"]
  BY DEF EndFlush, Goto, diskVars, graphVars, workspaceVars, localVars
<1>2. Elsewhere(p) /\ pc'[p] = "finish" /\ Consumers(p)' = Consumers(p)
  BY <1>1, ProcFacts DEF Elsewhere, Kept, Consumers
<1>3. Hand(p)'
  <2>1. /\ \A u \in updates[p] : Follow(u)
        /\ Own(p) /\ Unpointed(p) /\ Fresh(p) /\ Marked(todo[p])
        /\ \A s \in Elems(todo[p]) : s.do = "cache"
    BY <1>1 DEF Promises, Hands, Hand, Writing
  <2>2. Subjects(p)' = Subjects(p)
    BY <1>1 DEF Subjects
  <2>3. (Own(p) /\ Unpointed(p) /\ Fresh(p) /\ Marked(todo[p]))'
    BY <1>1, <1>2, <2>1, <2>2 DEF Own, Unpointed, Fresh
  <2>4. ASSUME todo[p] # <<>> PROVE Presents(p)'
    <3>1. Elems(todo[p]) = {Head(todo[p])} \cup Elems(Tail(todo[p]))
      BY <2>4, ElemsSplit, ProcFacts
    <3>2. Head(todo[p]).do = "cache" /\ \A t \in Elems(Tail(todo[p])) : t.do \in GraphDo
      BY <2>1, <3>1 DEF GraphDo
    <3>3. QED
      BY <1>1, <3>2 DEF Presents
  <2>5. QED
    BY <1>1, <1>2, <2>1, <2>3, <2>4 DEF Hand
<1>4. QED
  BY <1>1, <1>2, <1>3, QuietPromises DEF Writing

\* An asset file is written: its branch is as it was, or its changes are still
\* to be recorded and shown.
LEMMA FlushPromises ==
  ASSUME Inv, Inv', Promises, NEW p \in Proc, Flush(p) PROVE Promises'
<1>1. PICK a \in unflushed[p] : /\ store' = [store EXCEPT ![a] = pool[p][a]]
                                /\ unflushed' = [unflushed EXCEPT ![p] = unflushed[p] \ {a}]
  BY DEF Flush
<1>2. /\ UNCHANGED <<entries, marked, pointed, links, cut>>
      /\ UNCHANGED <<pc, cmd, subs, pool, updates, todo, shows>> /\ pc[p] = "flush"
  BY DEF Flush, graphVars, workspaceVars
<1>3. /\ a \in Asset /\ a \in Consumers(p) /\ a \in DOMAIN pool[p] /\ pool[p][a] \in Files
      /\ store' \in [Asset -> Files] /\ store'[a] = pool[p][a]
      /\ \A b \in Asset \ {a} : store'[b] = store[b]
      /\ \A b \in Asset : Extends(store'[b], store[b])
      /\ \A q \in Proc \ {p} :
           pc[q] \in {"validate", "update", "flush", "finish"} => a \notin Consumers(q)
  BY <1>1, <1>2, FlushFacts
<1>4. Elsewhere(p) /\ Writing(p) /\ Writing(p)' /\ Consumers(p)' = Consumers(p)
  BY <1>1, <1>2 DEF Elsewhere, Kept, Writing, Consumers
<1>5. \A q \in Proc : /\ Writing(q)' <=> Writing(q)
                      /\ \A t, by : ToRecord(q, t, by)' <=> ToRecord(q, t, by)
                      /\ \A b : ToMark(q, b)' <=> ToMark(q, b)
                      /\ \A r : ToShow(q, r)' <=> ToShow(q, r)
  BY <1>2 DEF Writing, ToRecord, ToMark, ToShow
<1>6. Hand(p) /\ Rewritten(p)
  BY <1>2 DEF Promises, Hands, Hand
<1>7. Hands'
  <2>1. ASSUME NEW q \in Proc \ {p} PROVE Hand(q)'
    <3>1. Kept(q) /\ Hands
      BY <1>4 DEF Elsewhere, Promises
    <3>2. Writing(q) => \A b \in Consumers(q) : store'[b] = store[b]
      <4>1. Consumers(q) \subseteq Asset
        BY ConsumersFacts, InvParts
      <4>2. QED
        BY <1>3, <4>1 DEF Writing
    <3>3. /\ cut \subseteq cut' /\ pointed \subseteq pointed'
          /\ \A r \in DOMAIN links : r \in DOMAIN links' /\ links'[r] = links[r]
          /\ pointed' \ pointed = {}
      BY <1>2
    <3>4. QED
      BY <3>1, <3>2, <3>3, HandElsewhere
  <2>2. /\ \A u \in updates[p] : Follow(u)
        /\ Own(p) /\ Unpointed(p) /\ Fresh(p) /\ Marked(todo[p])
        /\ \A s \in Elems(todo[p]) : s.do = "cache"
    BY <1>2, <1>6 DEF Hand, Writing
  <2>3. Subjects(p)' = Subjects(p) /\ unflushed'[p] = unflushed[p] \ {a}
    BY <1>1, <1>2, ProcFacts DEF Subjects
  <2>4. Own(p)' /\ Unpointed(p)'
    BY <1>2, <1>4, <2>2, <2>3 DEF Own, Unpointed
  <2>5. Fresh(p)'
    <3>. SUFFICES ASSUME NEW r \in Subjects(p)
                  PROVE  /\ r[1] \in DOMAIN pool'[p]
                         /\ r[1] \notin unflushed'[p] => pool'[p][r[1]] = store'[r[1]]
      BY <2>3 DEF Fresh
    <3>1. r[1] \in Asset
      BY <2>2, ConsumersFacts, InvParts DEF Own
    <3>2. QED
      BY <1>2, <1>3, <2>2, <2>3, <3>1 DEF Fresh
  <2>6. Rewritten(p)'
    <3>1. \A b \in unflushed[p] \ {a} : store'[b] = store[b]
      BY <1>3, InvParts DEF Types, LocalTypes
    <3>2. QED
      BY <1>2, <1>6, <2>3, <3>1 DEF Rewritten
  <2>7. Hand(p)'
    BY <1>2, <2>2, <2>4, <2>5, <2>6 DEF Hand
  <2>8. QED
    BY <2>1, <2>7 DEF Hands
<1>8. Recorded'
  <2>. SUFFICES ASSUME NEW b \in Asset \ cut, NEW n \in DOMAIN store'[b][0], NEW t,
                       t = store'[b][0][n].spec, IsBranch(t)
                PROVE  \/ Entered(t, Branch(b))
                       \/ \E q \in Proc : Writing(q) /\ ToRecord(q, t, Branch(b))
    <3>1. \A t, by : Entered(t, by)' <=> Entered(t, by)
      BY <1>2 DEF Entered
    <3>2. QED
      BY <1>2, <1>5, <3>1 DEF Recorded
  <2>1. CASE n \in DOMAIN store[b][0] /\ store[b][0][n] = store'[b][0][n]
    BY <2>1 DEF Promises, Recorded
  <2>2. CASE ~(n \in DOMAIN store[b][0] /\ store[b][0][n] = store'[b][0][n])
    <3>1. b = a
      BY <1>3, <2>2
    <3>2. PICK u \in updates[p] : u.by = Branch(a) /\ store'[a][0][n] = [spec |-> u.spec, pin |-> u.new]
      <4>1. \A m \in DOMAIN pool[p][a][0] :
               \/ m \in DOMAIN store[a][0] /\ pool[p][a][0][m] = store[a][0][m]
               \/ \E u \in updates[p] : /\ u.by = Branch(a)
                                        /\ pool[p][a][0][m] = [spec |-> u.spec, pin |-> u.new]
        BY <1>6 DEF Rewritten
      <4>2. n \in DOMAIN pool[p][a][0] /\ pool[p][a][0][n] = store'[a][0][n]
        BY <1>3, <3>1
      <4>3. QED
        BY <2>2, <3>1, <4>1, <4>2
    <3>3. ToRecord(p, t, Branch(b))
      BY <3>1, <3>2 DEF ToRecord
    <3>4. QED
      BY <1>4, <3>3
  <2>3. QED
    BY <2>1, <2>2
<1>9. MarkedOrWill'
  BY <1>2, <1>4, <1>5, MarkedStep DEF Promises
<1>10. Desk'
  <2>1. Live \subseteq Live' /\ store \in [Asset -> Files]
    BY <1>3, Growth, InvParts
  <2>2. ASSUME NEW r \in pointed, ~IsBranch(r), r[1] \notin cut PROVE Whole(r)'
    <3>1. r \in Live /\ Whole(r)
      BY <2>2 DEF Promises, Desk
    <3>2. r[1] \in Asset /\ r[2] \in DOMAIN store[r[1]] \ {0}
      BY <2>1, <2>2, <3>1, LiveFacts DEF Node, Exists, IsBranch
    <3>3. Sources(store, r)' = Sources(store, r)
      BY <1>3, <3>2 DEF Extends, Sources
    <3>4. QED
      BY <1>2, <3>1, <3>3 DEF Whole, Linked
  <2>3. QED
    BY <1>2, <2>1, <2>2 DEF Promises, Desk
<1>11. AlignedOrWill'
  <2>. SUFFICES ASSUME NEW b \in Asset \ cut
                PROVE  Aligned(b)' \/ \E q \in Proc : Writing(q) /\ ToShow(q, Branch(b))
    BY <1>2, <1>5 DEF AlignedOrWill
  <2>1. CASE store'[b][0] = store[b][0]
    <3>1. Aligned(b) => Aligned(b)'
      BY <1>2, <2>1 DEF Aligned
    <3>2. QED
      BY <3>1 DEF Promises, AlignedOrWill
  <2>2. CASE store'[b][0] # store[b][0]
    <3>1. b = a
      BY <1>3, <2>2
    <3>2. \E u \in updates[p] : u.by = Branch(b)
      BY <1>3, <1>6, <2>2, <3>1 DEF Rewritten
    <3>3. QED
      BY <1>4, <3>2 DEF ToShow
  <2>3. QED
    BY <2>1, <2>2
<1>12. QED
  BY <1>7, <1>8, <1>9, <1>10, <1>11 DEF Promises

-----------------------------------------------------------------------------
(* Steps of Finish on the graph.                                           *)

\* What all steps of Finish have in common: the process is about no more than
\* before, and touches of the workspace what it is about.
Finishes(p) ==
    /\ pc[p] = "finish" /\ Elsewhere(p) /\ PoolGrows
    /\ UNCHANGED <<store, pc, cmd, subs, unflushed>>
    /\ updates'[p] \subseteq updates[p] /\ Subjects(p)' \subseteq Subjects(p)
    /\ cut \subseteq cut' /\ marked \subseteq marked' /\ pointed \subseteq pointed'
    /\ \A r \in pointed' \ pointed : r \in Subjects(p) \ Subjects(p)'
    /\ DOMAIN links \subseteq DOMAIN links'
    /\ \A r \in DOMAIN links \ Subjects(p) : links'[r] = links[r]

\* What is in anybody's hands stays right, if the new list of the process is.
LEMMA FinishHands ==
  ASSUME Inv, Hands, NEW p \in Proc, Finishes(p), Marked(todo[p])',
         todo'[p] # <<>> => Presents(p)'
  PROVE  Hands'
<1>1. /\ Writing(p) /\ Writing(p)' /\ Consumers(p)' = Consumers(p)
      /\ pc[p] = "finish" /\ pc'[p] = "finish"
  BY DEF Finishes, Writing, Consumers
<1>2. (\A u \in updates[p] : Follow(u)) /\ Own(p) /\ Unpointed(p) /\ Fresh(p)
  BY <1>1 DEF Hands, Hand
<1>3. ASSUME NEW q \in Proc \ {p} PROVE Hand(q)'
  <2>1. Kept(q) /\ UNCHANGED store /\ cut \subseteq cut' /\ pointed \subseteq pointed'
    BY DEF Finishes, Elsewhere
  <2>2. Writing(q) => \A r \in Subjects(p) : r[1] \notin Consumers(q)
    BY <1>1, <1>2, ApartFacts DEF Own
  <2>3. Writing(q) => /\ \A r \in DOMAIN links : r[1] \in Consumers(q) =>
                           r \in DOMAIN links' /\ links'[r] = links[r]
                      /\ \A r \in pointed' \ pointed : r[1] \notin Consumers(q)
    BY <2>2 DEF Finishes
  <2>4. QED
    BY <2>1, <2>3, HandElsewhere
<1>4. Hand(p)'
  <2>1. \A u \in updates'[p] : Follow(u)
    BY <1>2 DEF Finishes
  <2>2. Own(p)'
    BY <1>1, <1>2 DEF Own, Finishes
  <2>3. Unpointed(p)'
    BY <1>2 DEF Unpointed, Finishes
  <2>4. Fresh(p)'
    <3>1. \A a \in DOMAIN pool[p] : a \in DOMAIN pool'[p] /\ pool'[p][a] = pool[p][a]
      BY DEF Finishes, PoolGrows
    <3>2. QED
      BY <1>2, <3>1 DEF Fresh, Finishes
  <2>5. QED
    BY <1>1, <2>1, <2>2, <2>3, <2>4 DEF Hand
<1>5. QED
  BY <1>3, <1>4 DEF Hands

\* A step on the graph keeps all promises, if it does so for those of its own
\* process.
LEMMA GraphPromises ==
  ASSUME Inv, Promises, NEW p \in Proc, Finishes(p), UNCHANGED <<pointed, links>>,
         Marked(todo[p])', \A s \in Elems(todo'[p]) : s.do \in GraphDo,
         todo'[p] \in Seq(FinishStep),
         \A t \in Live : \A by : IsBranch(t) /\ Entered(t, by) => Entered(t, by)',
         \A t \in Live, a \in Asset \ cut' : IsBranch(t) /\ ToRecord(p, t, Branch(a)) =>
            ToRecord(p, t, Branch(a))' \/ Entered(t, Branch(a))',
         \A e \in entries' \ entries : e.by[1] \in Consumers(p) /\ ToMark(p, e.target[1])',
         \A b \in Asset : ToMark(p, b) =>
            ToMark(p, b)' \/ b \in marked' \/ Consumers(p) \subseteq cut',
         \A a \in Asset \ cut' : ToShow(p, Branch(a)) => ToShow(p, Branch(a))'
  PROVE  Promises'
<1>1. /\ Writing(p) /\ Writing(p)' /\ Consumers(p)' = Consumers(p) /\ Elsewhere(p)
      /\ UNCHANGED store /\ cut \subseteq cut' /\ marked \subseteq marked'
  BY DEF Finishes, Writing, Consumers
<1>2. Hands'
  <2>1. ASSUME todo'[p] # <<>> PROVE Presents(p)'
    <3>1. Elems(todo'[p]) = {Head(todo'[p])} \cup Elems(Tail(todo'[p]))
      BY <2>1, ElemsSplit
    <3>2. /\ Head(todo'[p]).do \in GraphDo
          /\ \A t \in Elems(Tail(todo'[p])) : t.do \in GraphDo
      BY <3>1
    <3>3. QED
      BY <3>2 DEF Presents, GraphDo
  <2>2. QED
    BY <2>1, FinishHands DEF Promises
<1>3. Recorded'
  BY <1>1, RecordedStep DEF Promises
<1>4. MarkedOrWill'
  BY <1>1, MarkedStep DEF Promises
<1>5. Desk'
  BY <1>1, DeskStep DEF Promises
<1>6. AlignedOrWill'
  <2>1. \A a \in Asset : Aligned(a)' <=> Aligned(a)
    BY <1>1 DEF Aligned
  <2>2. QED
    BY <1>1, <2>1, AlignedStep DEF Promises
<1>7. QED
  BY <1>2, <1>3, <1>4, <1>5, <1>6 DEF Promises

\* The first step of a list on the graph is done, or another one takes its place.
LEMMA ListStep ==
  ASSUME Inv, Hands, NEW p \in Proc, pc[p] = "finish", todo[p] # <<>>, Head(todo[p]).do \in GraphDo,
         NEW T, todo' = [todo EXCEPT ![p] = T],
         \/ T = Tail(todo[p])
         \/ \E x \in FinishStep : /\ T = <<x>> \o Tail(todo[p]) /\ x.do \in GraphDo \ {"entry"}
                                  /\ SubjectsOf(x) \subseteq SubjectsOf(Head(todo[p]))
  PROVE  /\ todo'[p] = T /\ T \in Seq(FinishStep)
         /\ Marked(T) /\ \A s \in Elems(T) : s.do \in GraphDo
         /\ About(T) \subseteq About(todo[p])
         /\ Elems(todo[p]) = {Head(todo[p])} \cup Elems(Tail(todo[p]))
         /\ Elems(Tail(todo[p])) \subseteq Elems(T)
         /\ Tail(todo[p]) # <<>> => T # <<>> /\ Final(T) = Final(todo[p])
         /\ Tail(todo[p]) = <<>> => Final(todo[p]) = Head(todo[p])
<1>. DEFINE L == todo[p]
            R == Tail(L)
<1>1. L \in Seq(FinishStep) /\ R \in Seq(FinishStep) /\ L # <<>> /\ todo'[p] = T
  BY ProcFacts
<1>2. Marked(L) /\ Presents(p)
  BY DEF Hands, Hand, Writing
<1>3. \A s \in Elems(R) : s.do \in GraphDo
  BY <1>2 DEF Presents
<1>4. Elems(L) = {Head(L)} \cup Elems(R) /\ Final(L) = IF R = <<>> THEN Head(L) ELSE Final(R)
  BY <1>1, ElemsSplit
<1>5. Marked(R) /\ \A x \in FinishStep : x.do # "entry" => Marked(<<x>> \o R)
  BY <1>1, <1>2, MarkedFacts
<1>6. About(R) \subseteq About(L)
  BY <1>4 DEF About
<1>. HIDE DEF L, R
<1>7. CASE T = R
  BY <1>1, <1>3, <1>4, <1>5, <1>6, <1>7 DEF L, R
<1>8. ASSUME NEW x \in FinishStep, T = <<x>> \o R, x.do \in GraphDo \ {"entry"},
             SubjectsOf(x) \subseteq SubjectsOf(Head(L))
      PROVE  /\ T \in Seq(FinishStep) /\ T # <<>> /\ Marked(T) /\ \A s \in Elems(T) : s.do \in GraphDo
             /\ About(T) \subseteq About(L) /\ Elems(R) \subseteq Elems(T)
             /\ R # <<>> => Final(T) = Final(R)
  <2>1. /\ T \in Seq(FinishStep) /\ T # <<>> /\ Elems(T) = {x} \cup Elems(R)
        /\ Final(T) = IF R = <<>> THEN x ELSE Final(R)
    BY <1>1, <1>8, ElemsAdd
  <2>2. Marked(T)
    BY <1>5, <1>8
  <2>3. \A s \in Elems(T) : SubjectsOf(s) \subseteq About(L)
    BY <1>4, <1>8, <2>1 DEF About
  <2>4. About(T) \subseteq About(L)
    BY <2>3 DEF About
  <2>5. QED
    BY <1>3, <1>8, <2>1, <2>2, <2>4
<1>9. QED
  BY <1>1, <1>4, <1>7, <1>8 DEF L, R

\* A process that reads leaves the others alone.
LEMMA ReadElsewhere ==
  ASSUME Inv, NEW p \in Proc, NEW S \in SUBSET Asset, Read(p, S) \/ UNCHANGED pool,
         UNCHANGED <<store, pc, cmd, subs, unflushed>>,
         updates' = updates \/ (\E x : updates' = [updates EXCEPT ![p] = x]),
         shows' = shows \/ (\E x : shows' = [shows EXCEPT ![p] = x]),
         \E x : todo' = [todo EXCEPT ![p] = x]
  PROVE  Elsewhere(p) /\ PoolGrows
<1>1. pool' = pool \/ \E x : pool' = [pool EXCEPT ![p] = x]
  BY DEF Read
<1>2. Elsewhere(p)
  BY <1>1, ProcFacts DEF Elsewhere, Kept
<1>3. PoolGrows
  <2>1. CASE UNCHANGED pool
    BY <2>1 DEF PoolGrows
  <2>2. CASE Read(p, S)
    BY <2>2, ReadFacts, InvParts
  <2>3. QED
    BY <2>1, <2>2
<1>4. QED
  BY <1>2, <1>3

\* The steps that a change makes end by marking, and enter the change.
LEMMA StepsFacts ==
  ASSUME NEW kind, NEW u, Follow(u)
  PROVE  /\ Marked(Steps(kind, u)) /\ Steps(kind, u) # <<>>
         /\ \A s \in Elems(Steps(kind, u)) : s.do \in GraphDo
         /\ About(Steps(kind, u)) \subseteq {u.by}
         /\ Final(Steps(kind, u)) = Marks(u.new, u.by)
         /\ IsBranch(u.by) /\ IsBranch(u.spec) =>
              Entry(u.spec, u.by, u.name) \in Elems(Steps(kind, u))
<1>. DEFINE moves == IsBranch(u.by) /\ IsBranch(u.spec)
            A == IF kind \in {"pull", "push"} THEN <<RemoveOf(u.old, u.by), Marks(u.old, u.by)>>
                 ELSE <<>>
            B == IF kind # "snapshot" THEN <<Cache(u.by)>> ELSE <<>>
            C == <<Entry(u.new, u.by, u.name)>>
            D == IF moves THEN <<Entry(u.spec, u.by, u.name)>> ELSE <<>>
            M == <<Marks(u.new, u.by)>>
            W == {RemoveOf(u.old, u.by), Marks(u.old, u.by), Cache(u.by),
                  Entry(u.new, u.by, u.name), Marks(u.new, u.by)}
                   \cup IF moves THEN {Entry(u.spec, u.by, u.name)} ELSE {}
            T == Steps(kind, u)
<1>1. T = (A \o B) \o (C \o D) \o M
  BY DEF Steps, AddDependent
<1>2. /\ RemoveOf(u.old, u.by) \in W /\ Marks(u.old, u.by) \in W /\ Cache(u.by) \in W
      /\ Entry(u.new, u.by, u.name) \in W /\ Marks(u.new, u.by) \in W
      /\ moves => Entry(u.spec, u.by, u.name) \in W
  OBVIOUS
<1>3. \A s \in W : /\ s.do \in GraphDo /\ SubjectsOf(s) \subseteq {u.by}
                   /\ s.do = "entry" => s.target[1] = u.new[1]
  BY DEF RemoveOf, Marks, Cache, Entry, GraphDo, SubjectsOf, Follow
<1>. HIDE DEF W, moves
<1>4. A \in Seq(W)
  <2>1. CASE kind \in {"pull", "push"}
    BY <1>2, <2>1
  <2>2. CASE kind \notin {"pull", "push"}
    BY <2>2
  <2>3. QED
    BY <2>1, <2>2
<1>5. B \in Seq(W) /\ C \in Seq(W) /\ D \in Seq(W) /\ M \in Seq(W)
  BY <1>2
<1>6. Elems(M) = {Marks(u.new, u.by)} /\ Final(M) = Marks(u.new, u.by) /\ M # <<>>
  BY ElemsOne
<1>7. moves => Elems(D) = {Entry(u.spec, u.by, u.name)}
  BY ElemsOne
<1>. HIDE DEF A, B, C, D, M, T
<1>8. A \o B \in Seq(W)
  BY <1>4, <1>5, ElemsJoin
<1>9. C \o D \in Seq(W) /\ Elems(C \o D) = Elems(C) \cup Elems(D)
  BY <1>5, ElemsJoin
<1>. DEFINE X == A \o B
            Y == C \o D
            Z == X \o Y
<1>10. Z \in Seq(W) /\ Elems(Z) = Elems(X) \cup Elems(Y) /\ T = Z \o M
  <2>1. X \in Seq(W) /\ Y \in Seq(W) /\ T = Z \o M
    BY <1>1, <1>8, <1>9
  <2>. HIDE DEF X, Y
  <2>2. QED
    BY <2>1, ElemsJoin
<1>11. /\ T \in Seq(W) /\ T # <<>> /\ Final(T) = Marks(u.new, u.by)
       /\ Elems(T) = Elems(Z) \cup Elems(M)
  <2>. HIDE DEF Z
  <2>1. QED
    BY <1>5, <1>6, <1>10, ElemsJoin
<1>12. \A s \in Elems(T) : s \in W
  BY <1>11 DEF Elems
<1>13. About(T) \subseteq {u.by} /\ \A s \in Elems(T) : s.do \in GraphDo
  BY <1>3, <1>12 DEF About
<1>14. Marked(T)
  <2>1. Marks(u.new, u.by).do = "marks" /\ Marks(u.new, u.by).target = u.new
    BY DEF Marks
  <2>2. QED
    BY <1>3, <1>11, <1>12, <2>1 DEF Marked
<1>15. moves => Entry(u.spec, u.by, u.name) \in Elems(T)
  BY <1>7, <1>9, <1>10, <1>11
<1>16. QED
  BY <1>11, <1>13, <1>14, <1>15 DEF T, moves

\* A change goes from the one list to the other.
LEMMA NextUpdatePromises ==
  ASSUME Inv, Inv', Promises, NEW p \in Proc, NextUpdate(p) PROVE Promises'
<1>1. pc[p] = "finish" /\ todo[p] = <<>>
  BY DEF NextUpdate
<1>2. PICK u \in updates[p] : /\ shows[p] \subseteq {u.by}
                              /\ todo' = [todo EXCEPT ![p] = Steps(cmd[p].kind, u)]
                              /\ updates' = [updates EXCEPT ![p] = updates[p] \ {u}]
  BY DEF NextUpdate
<1>3. /\ UNCHANGED <<store, cache, entries, marked, pointed, links, cut>>
      /\ UNCHANGED <<pc, cmd, pool, subs, unflushed, shows>>
  BY DEF NextUpdate, diskVars, graphVars, workspaceVars
<1>. DEFINE T == Steps(cmd[p].kind, u)
<1>4. todo'[p] = T /\ updates'[p] = updates[p] \ {u} /\ Elsewhere(p) /\ T \in Seq(FinishStep)'
  <2>1. todo'[p] \in Seq(FinishStep)'
    BY InvParts DEF Types, LocalTypes, Inv
  <2>2. QED
    BY <1>2, <1>3, <2>1, ProcFacts DEF Elsewhere, Kept
<1>5. Follow(u)
  BY DEF Promises, Hands, Hand
<1>. HIDE DEF T
<1>6. /\ Marked(T) /\ T # <<>> /\ About(T) \subseteq {u.by}
      /\ \A s \in Elems(T) : s.do \in GraphDo
      /\ Final(T) = Marks(u.new, u.by)
      /\ IsBranch(u.by) /\ IsBranch(u.spec) => Entry(u.spec, u.by, u.name) \in Elems(T)
  BY <1>5, StepsFacts DEF T
<1>7. Elems(todo[p]) = {} /\ About(todo[p]) = {}
  BY <1>1, ElemsOne DEF About
<1>8. Finishes(p)
  <2>1. Subjects(p)' \subseteq Subjects(p)
    BY <1>3, <1>4, <1>6 DEF Subjects
  <2>2. PoolGrows
    BY <1>3 DEF PoolGrows
  <2>3. QED
    BY <1>1, <1>3, <1>4, <2>1, <2>2 DEF Finishes
<1>9. todo'[p] \in Seq(FinishStep)
  BY <1>3, <1>4, SameStore
<1>10. \A t \in Live : \A by : IsBranch(t) /\ Entered(t, by) => Entered(t, by)'
  BY <1>3 DEF Entered
<1>11. ASSUME NEW t \in Live, NEW a \in Asset, IsBranch(t), ToRecord(p, t, Branch(a))
       PROVE  ToRecord(p, t, Branch(a))'
  <2>1. PICK w \in updates[p] : w.by = Branch(a) /\ w.spec = t
    BY <1>7, <1>11 DEF ToRecord
  <2>2. CASE w = u
    <3>1. IsBranch(u.by)
      BY <2>1, <2>2 DEF Branch, IsBranch
    <3>2. Entry(t, Branch(a), u.name) \in Elems(T)
      BY <1>6, <1>11, <2>1, <2>2, <3>1
    <3>3. QED
      BY <1>4, <3>2 DEF ToRecord, Entry
  <2>3. CASE w # u
    BY <1>4, <2>1, <2>3 DEF ToRecord
  <2>4. QED
    BY <2>2, <2>3
<1>12. \A b \in Asset : ~ToMark(p, b)
  BY <1>7 DEF ToMark
<1>13. ASSUME NEW a \in Asset, ToShow(p, Branch(a)) PROVE ToShow(p, Branch(a))'
  <2>1. Branch(a) = u.by => Final(T).do = "marks" /\ Final(T).by = Branch(a)
    BY <1>6 DEF Marks
  <2>2. CASE Branch(a) = u.by
    BY <1>4, <1>6, <2>1, <2>2 DEF ToShow
  <2>3. CASE Branch(a) # u.by
    <3>1. Branch(a) \notin shows[p]
      BY <1>2, <2>3
    <3>2. PICK w \in updates[p] : w.by = Branch(a)
      BY <1>1, <1>13, <3>1 DEF ToShow
    <3>3. w \in updates'[p]
      BY <1>4, <2>3, <3>2
    <3>4. QED
      BY <3>2, <3>3 DEF ToShow
  <2>4. QED
    BY <2>2, <2>3
<1>14. Marked(todo[p])' /\ \A s \in Elems(todo'[p]) : s.do \in GraphDo
  BY <1>4, <1>6
<1>15. entries' \ entries = {}
  BY <1>3
<1>16. QED
  BY <1>3, <1>8, <1>9, <1>10, <1>11, <1>12, <1>13, <1>14, <1>15, GraphPromises

\* A step of the list keeps all promises, if it does what it is there for.
LEMMA ListPromises ==
  ASSUME Inv, Inv', Promises, NEW p \in Proc, pc[p] = "finish", todo[p] # <<>>,
         Head(todo[p]).do \in GraphDo,
         NEW T, todo' = [todo EXCEPT ![p] = T],
         \/ T = Tail(todo[p])
         \/ \E x \in FinishStep : /\ T = <<x>> \o Tail(todo[p]) /\ x.do \in GraphDo \ {"entry"}
                                  /\ SubjectsOf(x) \subseteq SubjectsOf(Head(todo[p])),
         UNCHANGED <<store, pointed, links, cut, pc, cmd, subs, unflushed, updates>>,
         PoolGrows, Elsewhere(p), marked \subseteq marked',
         shows[p] \subseteq shows'[p], shows'[p] \subseteq shows[p] \cup SubjectsOf(Head(todo[p])),
         \A t \in Live : \A by : IsBranch(t) /\ Entered(t, by) => Entered(t, by)',
         \A t, by : Head(todo[p]).do = "entry" /\ t = Head(todo[p]).target /\ by = Head(todo[p]).by =>
            Entered(t, by)',
         \A e \in entries' \ entries : e.by[1] \in Consumers(p) /\ ToMark(p, e.target[1])',
         \A b : \/ Head(todo[p]).do = "marks" /\ b = Head(todo[p]).target[1]
                \/ Head(todo[p]).do = "mark" /\ b \in Head(todo[p]).left
                => b \in marked' \/ ToMark(p, b)',
         \A r : Tail(todo[p]) = <<>> /\ Head(todo[p]).do \in {"marks", "mark"} /\ r = Head(todo[p]).by =>
            ToShow(p, r)'
  PROVE  Promises'
<1>. DEFINE h == Head(todo[p])
            R == Tail(todo[p])
<1>1. /\ todo'[p] = T /\ T \in Seq(FinishStep) /\ Marked(T)
      /\ \A s \in Elems(T) : s.do \in GraphDo
      /\ About(T) \subseteq About(todo[p])
      /\ Elems(todo[p]) = {h} \cup Elems(R) /\ Elems(R) \subseteq Elems(T)
      /\ R # <<>> => T # <<>> /\ Final(T) = Final(todo[p])
      /\ R = <<>> => Final(todo[p]) = h
  BY ListStep DEF Promises
<1>2. SubjectsOf(h) \subseteq About(todo[p])
  BY <1>1 DEF About
<1>3. Finishes(p)
  <2>1. Subjects(p)' \subseteq Subjects(p)
    BY <1>1, <1>2 DEF Subjects
  <2>2. QED
    BY <2>1 DEF Finishes
<1>4. ASSUME NEW t \in Live, NEW a \in Asset, IsBranch(t), ToRecord(p, t, Branch(a))
      PROVE  ToRecord(p, t, Branch(a))' \/ Entered(t, Branch(a))'
  <2>1. CASE \E u \in updates[p] : u.by = Branch(a) /\ u.spec = t
    BY <2>1 DEF ToRecord
  <2>2. CASE \E s \in Elems(todo[p]) : s.do = "entry" /\ s.target = t /\ s.by = Branch(a)
    <3>1. PICK s \in Elems(todo[p]) : s.do = "entry" /\ s.target = t /\ s.by = Branch(a)
      BY <2>2
    <3>2. CASE s = h
      BY <3>1, <3>2
    <3>3. CASE s \in Elems(R)
      BY <1>1, <3>1, <3>3 DEF ToRecord
    <3>4. QED
      BY <1>1, <3>2, <3>3
  <2>3. QED
    BY <1>4, <2>1, <2>2 DEF ToRecord
<1>5. ASSUME NEW b \in Asset, ToMark(p, b) PROVE ToMark(p, b)' \/ b \in marked'
  <2>1. PICK s \in Elems(todo[p]) : \/ s.do = "marks" /\ s.target[1] = b
                                    \/ s.do = "mark" /\ b \in s.left
    BY <1>5 DEF ToMark
  <2>2. CASE s = h
    BY <2>1, <2>2
  <2>3. CASE s \in Elems(R)
    BY <1>1, <2>1, <2>3 DEF ToMark
  <2>4. QED
    BY <1>1, <2>2, <2>3
<1>6. ASSUME NEW a \in Asset, ToShow(p, Branch(a)) PROVE ToShow(p, Branch(a))'
  <2>1. CASE Branch(a) \in shows[p] \/ \E u \in updates[p] : u.by = Branch(a)
    BY <2>1 DEF ToShow
  <2>2. CASE Final(todo[p]).do \in {"marks", "mark"} /\ Final(todo[p]).by = Branch(a)
    <3>1. CASE R = <<>>
      <4>1. h.do \in {"marks", "mark"} /\ Branch(a) = h.by
        BY <1>1, <2>2, <3>1
      <4>2. QED
        BY <3>1, <4>1
    <3>2. CASE R # <<>>
      BY <1>1, <2>2, <3>2 DEF ToShow
    <3>3. QED
      BY <3>1, <3>2
  <2>3. h.do # "link"
    BY DEF GraphDo
  <2>4. QED
    BY <1>6, <2>1, <2>2, <2>3 DEF ToShow
<1>7. Marked(todo[p])' /\ (\A s \in Elems(todo'[p]) : s.do \in GraphDo) /\ todo'[p] \in Seq(FinishStep)
  BY <1>1
<1>8. QED
  BY <1>3, <1>4, <1>5, <1>6, <1>7, GraphPromises

\* A cache is read: then it is to be written.
LEMMA CacheReadPromises ==
  ASSUME Inv, Inv', Promises, NEW p \in Proc, CacheRead(p) PROVE Promises'
<1>. DEFINE h == Head(todo[p])
            x == [do |-> "write", ref |-> h.ref]
            T == <<x>> \o Tail(todo[p])
<1>1. /\ pc[p] = "finish" /\ todo[p] # <<>> /\ h.do = "cache"
      /\ todo' = [todo EXCEPT ![p] = T] /\ Read(p, {y[1] : y \in Reached(View(p), h.ref)})
  BY DEF CacheRead, Do
<1>2. UNCHANGED <<store, entries, marked, pointed, links, cut, pc, cmd, subs, unflushed, updates, shows>>
  BY DEF CacheRead, diskVars, graphVars, workspaceVars
<1>3. h.ref \in Node
  BY <1>1, StepFacts, FinishFacts, InvParts
<1>4. x \in FinishStep /\ x.do \in GraphDo \ {"entry"} /\ SubjectsOf(x) = {}
  BY <1>3 DEF FinishStep, GraphDo, SubjectsOf
<1>5. {y[1] : y \in Reached(View(p), h.ref)} \in SUBSET Asset
  <2>1. Reached(View(p), h.ref) \subseteq Node
    BY <1>3, SeenFacts, ViewFacts, ReachedRules, InvParts
  <2>2. QED
    BY <2>1 DEF Node
<1>6. Elsewhere(p) /\ PoolGrows
  BY <1>1, <1>2, <1>5, ReadElsewhere
<1>7. h.do \in GraphDo /\ h.do \notin {"entry", "marks", "mark"}
  BY <1>1 DEF GraphDo
<1>8. \A t \in Live : \A by : IsBranch(t) /\ Entered(t, by) => Entered(t, by)'
  BY <1>2 DEF Entered
<1>9. entries' \ entries = {}
  BY <1>2
<1>. HIDE DEF x, h
<1>10. \E y \in FinishStep : /\ T = <<y>> \o Tail(todo[p]) /\ y.do \in GraphDo \ {"entry"}
                            /\ SubjectsOf(y) \subseteq SubjectsOf(h)
  BY <1>4
<1>. HIDE DEF T
<1>11. QED
  BY <1>1, <1>2, <1>6, <1>7, <1>8, <1>9, <1>10, ListPromises DEF h

\* A cache is written.
LEMMA CacheWritePromises ==
  ASSUME Inv, Inv', Promises, NEW p \in Proc, CacheWrite(p) PROVE Promises'
<1>1. /\ pc[p] = "finish" /\ todo[p] # <<>> /\ Head(todo[p]).do = "write"
      /\ todo' = [todo EXCEPT ![p] = Tail(todo[p])]
  BY DEF CacheWrite, Do, Done
<1>2. UNCHANGED <<store, entries, marked, pointed, links, cut, pc, cmd, pool, subs, unflushed,
                  updates, shows>>
  BY DEF CacheWrite, workspaceVars
<1>3. Elsewhere(p) /\ PoolGrows
  BY <1>1, <1>2, ReadElsewhere
<1>4. Head(todo[p]).do \in GraphDo /\ Head(todo[p]).do \notin {"entry", "marks", "mark"}
  BY <1>1 DEF GraphDo
<1>5. \A t \in Live : \A by : IsBranch(t) /\ Entered(t, by) => Entered(t, by)'
  BY <1>2 DEF Entered
<1>6. entries' \ entries = {}
  BY <1>2
<1>7. QED
  BY <1>1, <1>2, <1>3, <1>4, <1>5, <1>6, ListPromises

\* An entry is made, and its asset is to be marked.
LEMMA AddEntryPromises ==
  ASSUME Inv, Inv', Promises, NEW p \in Proc, AddEntry(p) PROVE Promises'
<1>. DEFINE s == Head(todo[p])
            R == Tail(todo[p])
            new == [target |-> s.target, by |-> s.by, name |-> s.name]
<1>1. /\ pc[p] = "finish" /\ todo[p] # <<>> /\ s.do = "entry"
      /\ todo' = [todo EXCEPT ![p] = R]
      /\ entries' = Others(s.target, s.by) \cup {new}
  BY DEF AddEntry, Do, Done
<1>2. UNCHANGED <<store, marked, pointed, links, cut, pc, cmd, pool, subs, unflushed, updates, shows>>
  BY DEF AddEntry, workspaceVars
<1>3. Elsewhere(p) /\ PoolGrows
  BY <1>1, <1>2, ReadElsewhere
<1>4. s.do \in GraphDo /\ s.do \notin {"marks", "mark"}
  BY <1>1 DEF GraphDo
<1>5. \A t, by : Entered(t, by) => Entered(t, by)'
  BY <1>1 DEF Entered, Others
<1>6. \A t, by : t = s.target /\ by = s.by => Entered(t, by)'
  <2>1. new \in entries' /\ new.target = s.target /\ new.by = s.by
    BY <1>1
  <2>2. QED
    BY <2>1 DEF Entered
<1>7. s.by[1] \in Consumers(p) /\ Marked(todo[p])
  <2>1. s \in Elems(todo[p]) /\ Own(p) /\ Marked(todo[p])
    BY <1>1, ElemsSplit, ProcFacts DEF Promises, Hands, Hand, Writing
  <2>2. s.by \in Subjects(p)
    BY <1>1, <2>1 DEF Subjects, About, SubjectsOf
  <2>3. QED
    BY <2>1, <2>2 DEF Own
<1>8. todo'[p] = R
  BY <1>1, ProcFacts
<1>9. \A b : b = s.target[1] => ToMark(p, b)'
  <2>1. /\ Elems(todo[p]) = {s} \cup Elems(R) /\ Final(todo[p]) \in Elems(todo[p])
        /\ Final(todo[p]).do = "marks" /\ Final(todo[p]).target[1] = s.target[1]
    BY <1>1, <1>7, ElemsSplit, ProcFacts DEF Marked
  <2>2. Final(todo[p]) \in Elems(R)
    BY <1>1, <2>1
  <2>3. QED
    BY <1>8, <2>1, <2>2 DEF ToMark
<1>10. \A e \in entries' \ entries : e.by[1] \in Consumers(p) /\ ToMark(p, e.target[1])'
  <2>. SUFFICES ASSUME NEW e \in entries' \ entries, NEW b, b = e.target[1]
                PROVE  e.by[1] \in Consumers(p) /\ ToMark(p, b)'
    OBVIOUS
  <2>1. e = new
    BY <1>1 DEF Others
  <2>2. QED
    BY <1>7, <1>9, <2>1
<1>11. shows[p] \subseteq shows'[p] /\ shows'[p] \subseteq shows[p] \cup SubjectsOf(s)
  BY <1>2
<1>. HIDE DEF s, R, new
<1>12. QED
  BY <1>1, <1>2, <1>3, <1>4, <1>5, <1>6, <1>10, <1>11, ListPromises DEF s, R

\* An entry is taken back: it was one of a commit, which nobody follows.
LEMMA RemoveDependentPromises ==
  ASSUME Inv, Inv', Promises, NEW p \in Proc, RemoveDependent(p) PROVE Promises'
<1>1. /\ pc[p] = "finish" /\ todo[p] # <<>> /\ Head(todo[p]).do = "remove"
      /\ todo' = [todo EXCEPT ![p] = Tail(todo[p])]
      /\ entries' = Others(Head(todo[p]).target, Head(todo[p]).by)
  BY DEF RemoveDependent, Do, Done
<1>2. UNCHANGED <<store, marked, pointed, links, cut, pc, cmd, pool, subs, unflushed, updates, shows>>
  BY DEF RemoveDependent, workspaceVars
<1>3. Elsewhere(p) /\ PoolGrows
  BY <1>1, <1>2, ReadElsewhere
<1>4. Head(todo[p]).do \in GraphDo /\ Head(todo[p]).do \notin {"entry", "marks", "mark"}
  BY <1>1 DEF GraphDo
<1>5. \A t \in Live : \A by : IsBranch(t) /\ Entered(t, by) => Entered(t, by)'
  <2>1. ~IsBranch(Head(todo[p]).target)
    BY <1>1, StepFacts, FinishFacts, InvParts DEF Commits
  <2>2. QED
    BY <1>1, <2>1 DEF Entered, Others
<1>6. entries' \ entries = {}
  BY <1>1 DEF Others
<1>7. QED
  BY <1>1, <1>2, <1>3, <1>4, <1>5, <1>6, ListPromises

\* What is to be marked is found: the asset of the target is among it.
LEMMA MarkDependentsStalePromises ==
  ASSUME Inv, Inv', Promises, NEW p \in Proc, MarkDependentsStale(p) PROVE Promises'
<1>. DEFINE h == Head(todo[p])
            t == h.target
            x == [do |-> "mark", left |-> AssetsOf(t, Graph(p, t)), by |-> h.by]
            T == <<x>> \o Tail(todo[p])
<1>1. /\ pc[p] = "finish" /\ todo[p] # <<>> /\ h.do = "marks" /\ Known(p, t)
      /\ todo' = [todo EXCEPT ![p] = T] /\ Read(p, Walked(p, t))
  BY DEF MarkDependentsStale, Do
<1>2. UNCHANGED <<store, entries, marked, pointed, links, cut, pc, cmd, subs, unflushed, updates, shows>>
  BY DEF MarkDependentsStale, diskVars, graphVars, workspaceVars
<1>3. t \in Node /\ h.by \in Live
  BY <1>1, StepFacts, FinishFacts, InvParts
<1>4. AssetsOf(t, Graph(p, t)) \in SUBSET Asset /\ t[1] \in AssetsOf(t, Graph(p, t))
  <2>1. Graph(p, t) \in SUBSET LiveEdge
    BY <1>1, <1>3, KnownFacts, FinishFacts, InvParts
  <2>2. QED
    BY <1>3, <2>1, AssetsFacts, InvParts DEF AssetsOf
<1>5. x \in FinishStep
  BY <1>3, <1>4 DEF FinishStep
<1>6. x.do = "mark" /\ x.by = h.by /\ t[1] \in x.left /\ SubjectsOf(x) \subseteq SubjectsOf(h)
  BY <1>1, <1>4 DEF SubjectsOf
<1>7. Elsewhere(p) /\ PoolGrows
  BY <1>1, <1>2, <1>3, WalkedFacts, ReadElsewhere
<1>8. /\ todo'[p] = T /\ T # <<>> /\ x \in Elems(T)
      /\ Tail(todo[p]) = <<>> => Final(T) = x
  <2>. DEFINE R == Tail(todo[p])
  <2>1. R \in Seq(FinishStep)
    BY <1>1, FinishFacts
  <2>2. todo'[p] = T
    <3>. HIDE DEF T
    <3>1. QED
      BY <1>1, ProcFacts
  <2>. HIDE DEF x, R
  <2>3. /\ <<x>> \o R # <<>> /\ Elems(<<x>> \o R) = {x} \cup Elems(R)
        /\ Final(<<x>> \o R) = IF R = <<>> THEN x ELSE Final(R)
    BY <1>5, <2>1, ElemsAdd
  <2>4. QED
    BY <2>2, <2>3 DEF R
<1>9. \A q, by : IsBranch(q) /\ Entered(q, by) => Entered(q, by)'
  BY <1>2 DEF Entered
<1>10. entries' \ entries = {}
  BY <1>2
<1>11. \A b : b = t[1] => ToMark(p, b)'
  BY <1>6, <1>8 DEF ToMark
<1>12. \A r : Tail(todo[p]) = <<>> /\ r = h.by => ToShow(p, r)'
  BY <1>6, <1>8 DEF ToShow
<1>13. x.do \in GraphDo \ {"entry"} /\ h.do \in GraphDo /\ h.do \notin {"entry", "mark"}
  BY <1>1, <1>6 DEF GraphDo
<1>14. \E y \in FinishStep : /\ T = <<y>> \o Tail(todo[p]) /\ y.do \in GraphDo \ {"entry"}
                             /\ SubjectsOf(y) \subseteq SubjectsOf(h)
  <2>. HIDE DEF x
  <2>1. QED
    BY <1>5, <1>6, <1>13
<1>. HIDE DEF T, x
<1>15. shows[p] \subseteq shows'[p] /\ shows'[p] \subseteq shows[p] \cup SubjectsOf(h)
  BY <1>2
<1>16. QED
  BY <1>1, <1>2, <1>7, <1>9, <1>10, <1>11, <1>12, <1>13, <1>14, <1>15, ListPromises


\* A marker is made: the other ones are still to be made, and with the last one
\* what is recorded is to be presented.
LEMMA TouchMarkerPromises ==
  ASSUME Inv, Inv', Promises, NEW p \in Proc, TouchMarker(p) PROVE Promises'
<1>. DEFINE s == Head(todo[p])
            R == Tail(todo[p])
<1>1. pc[p] = "finish" /\ todo[p] # <<>> /\ s.do = "mark"
  BY DEF TouchMarker, Do
<1>2. PICK a \in s.left :
         /\ marked' = marked \cup {a}
         /\ IF s.left = {a}
              THEN /\ todo' = [todo EXCEPT ![p] = R]
                   /\ shows' = [shows EXCEPT ![p] = IF R = <<>> THEN shows[p] \cup {s.by} ELSE shows[p]]
              ELSE /\ todo' = [todo EXCEPT ![p] = <<[s EXCEPT !.left = s.left \ {a}]>> \o R]
                   /\ UNCHANGED shows
  BY DEF TouchMarker, Done
<1>3. UNCHANGED <<store, entries, pointed, links, cut, pc, cmd, pool, subs, unflushed, updates>>
  BY DEF TouchMarker, workspaceVars
<1>4. /\ s \in FinishStep /\ R \in Seq(FinishStep) /\ SubjectsOf(s) = {s.by}
      /\ s.do \in GraphDo \ {"entry", "marks"}
  BY <1>1, StepFacts, FinishFacts, InvParts DEF SubjectsOf, GraphDo
<1>5. \A t, by : Entered(t, by) => Entered(t, by)'
  BY <1>3 DEF Entered
<1>6. marked \subseteq marked' /\ entries' \ entries = {} /\ a \in marked'
  BY <1>2, <1>3
<1>7. CASE s.left = {a}
  <2>1. /\ todo' = [todo EXCEPT ![p] = R]
        /\ shows' = [shows EXCEPT ![p] = IF R = <<>> THEN shows[p] \cup {s.by} ELSE shows[p]]
    BY <1>2, <1>7
  <2>2. shows'[p] = IF R = <<>> THEN shows[p] \cup {s.by} ELSE shows[p]
    BY <2>1, ProcFacts
  <2>3. Elsewhere(p) /\ PoolGrows
    BY <1>3, <2>1, ReadElsewhere
  <2>4. \A b \in s.left : b \in marked'
    BY <1>6, <1>7
  <2>5. \A r : R = <<>> /\ r = s.by => ToShow(p, r)'
    BY <2>2 DEF ToShow
  <2>6. shows[p] \subseteq shows'[p] /\ shows'[p] \subseteq shows[p] \cup SubjectsOf(s)
    BY <1>4, <2>2
  <2>. HIDE DEF s, R
  <2>7. QED
    BY <1>1, <1>3, <1>4, <1>5, <1>6, <2>1, <2>3, <2>4, <2>5, <2>6, ListPromises DEF s, R
<1>8. CASE s.left # {a}
  <2>. DEFINE x == [s EXCEPT !.left = s.left \ {a}]
              T == <<x>> \o R
  <2>1. todo' = [todo EXCEPT ![p] = T] /\ UNCHANGED shows
    BY <1>2, <1>8
  <2>2. /\ x \in FinishStep /\ x.do = "mark" /\ x.by = s.by /\ x.left = s.left \ {a}
        /\ SubjectsOf(x) = SubjectsOf(s)
    BY <1>1, <1>4, StepFacts, FinishFacts, InvParts DEF FinishStep, SubjectsOf
  <2>. HIDE DEF x, R
  <2>3. /\ T # <<>> /\ Elems(T) = {x} \cup Elems(R)
        /\ Final(T) = IF R = <<>> THEN x ELSE Final(R)
    BY <1>4, <2>2, ElemsAdd
  <2>4. \E y \in FinishStep : /\ T = <<y>> \o R /\ y.do \in GraphDo \ {"entry"}
                              /\ SubjectsOf(y) \subseteq SubjectsOf(s)
    BY <2>2 DEF GraphDo
  <2>. HIDE DEF T
  <2>5. todo'[p] = T
    BY <2>1, ProcFacts
  <2>6. Elsewhere(p) /\ PoolGrows
    BY <1>3, <2>1, ReadElsewhere
  <2>7. \A b : b \in s.left => b \in marked' \/ ToMark(p, b)'
    BY <1>6, <2>2, <2>3, <2>5 DEF ToMark
  <2>8. \A r : R = <<>> /\ r = s.by => ToShow(p, r)'
    BY <2>2, <2>3, <2>5 DEF ToShow
  <2>9. shows[p] \subseteq shows'[p] /\ shows'[p] \subseteq shows[p] \cup SubjectsOf(s)
    BY <2>1
  <2>. HIDE DEF s
  <2>10. QED
    BY <1>1, <1>3, <1>4, <1>5, <1>6, <2>1, <2>4, <2>6, <2>7, <2>8, <2>9, ListPromises DEF s, R
<1>9. QED
  BY <1>7, <1>8

\* A step on the graph fails: what is let go is cut short.
LEMMA FinishFailsPromises ==
  ASSUME Inv, Inv', Promises, NEW p \in Proc, FinishFails(p) PROVE Promises'
<1>. DEFINE h == Head(todo[p])
            T == IF h.do \in {"cache", "write", "entry"} THEN <<>> ELSE Tail(todo[p])
            U == IF cmd[p].kind = "snapshot" THEN {} ELSE updates[p]
<1>1. /\ pc[p] = "finish" /\ todo[p] # <<>> /\ h.do \notin {"link", "pointer"}
      /\ todo' = [todo EXCEPT ![p] = T] /\ updates' = [updates EXCEPT ![p] = U]
      /\ cut' = cut \cup Consumers(p)
  BY DEF FinishFails
<1>2. UNCHANGED <<store, entries, marked, pointed, links, pc, cmd, pool, subs, unflushed, shows>>
  BY DEF FinishFails, diskVars, graphVars, workspaceVars
<1>3. Elsewhere(p) /\ PoolGrows
  <2>. HIDE DEF T, U
  <2>1. QED
    BY <1>1, <1>2, ReadElsewhere
<1>4. h.do \in GraphDo /\ Writing(p) /\ todo[p] \in Seq(FinishStep)
  BY <1>1, StepFacts, FinishFacts, InvParts, ProcFacts DEF FinishStep, GraphDo, Writing
<1>5. todo'[p] = T /\ updates'[p] = U
  <2>. HIDE DEF T, U
  <2>1. QED
    BY <1>1, ProcFacts
<1>6. /\ Marked(todo[p]) /\ Presents(p)
  BY <1>1, <1>4 DEF Promises, Hands, Hand
<1>7. /\ Elems(todo[p]) = {h} \cup Elems(Tail(todo[p])) /\ Tail(todo[p]) \in Seq(FinishStep)
      /\ \A s \in Elems(Tail(todo[p])) : s.do \in GraphDo
      /\ Marked(<<>>) /\ Marked(Tail(todo[p]))
  BY <1>1, <1>4, <1>6, ElemsSplit, MarkedFacts DEF Presents
<1>8. /\ T \in Seq(FinishStep) /\ Marked(T) /\ \A s \in Elems(T) : s.do \in GraphDo
      /\ Elems(T) \subseteq Elems(todo[p])
  <2>1. CASE h.do \in {"cache", "write", "entry"}
    <3>1. T = <<>> /\ <<>> \in Seq(FinishStep)
      BY <2>1
    <3>2. Elems(<<>>) = {}
      BY ElemsOne
    <3>. HIDE DEF T
    <3>3. QED
      BY <1>7, <3>1, <3>2
  <2>2. CASE h.do \notin {"cache", "write", "entry"}
    BY <1>7, <2>2
  <2>3. QED
    BY <2>1, <2>2
<1>9. U \subseteq updates[p]
  OBVIOUS
<1>. HIDE DEF T, U
<1>10. Finishes(p)
  <2>1. About(T) \subseteq About(todo[p])
    BY <1>8 DEF About
  <2>2. Subjects(p)' \subseteq Subjects(p)
    BY <1>2, <1>5, <1>9, <2>1 DEF Subjects
  <2>3. QED
    BY <1>1, <1>2, <1>3, <1>5, <1>9, <2>2 DEF Finishes
<1>11. \A t \in Live : \A by : IsBranch(t) /\ Entered(t, by) => Entered(t, by)'
  BY <1>2 DEF Entered
<1>12. ASSUME NEW a \in Asset \ cut'
       PROVE  ~ToShow(p, Branch(a)) /\ \A t : ~ToRecord(p, t, Branch(a))
  <2>1. a \notin Consumers(p) /\ Branch(a)[1] = a
    BY <1>1 DEF Branch
  <2>2. QED
    BY <1>4, <2>1, ShowFacts DEF Promises
<1>13. entries' \ entries = {}
  BY <1>2
<1>14. Consumers(p) \subseteq cut'
  BY <1>1
<1>15. Marked(todo[p])' /\ (\A s \in Elems(todo'[p]) : s.do \in GraphDo) /\ todo'[p] \in Seq(FinishStep)
  BY <1>5, <1>8
<1>16. QED
  BY <1>2, <1>10, <1>11, <1>12, <1>13, <1>14, <1>15, GraphPromises
-----------------------------------------------------------------------------
(* Steps of Finish in the workspace.                                       *)

ShowDo == {"link", "pointer"}

\* The lists that present r.
LEMMA LinksFacts ==
  ASSUME NEW r, NEW S, NEW T \in {<<>>, Pointer(r)}, NEW X, X = Links(r, S) \o T
  PROVE  /\ \A s \in Elems(X) : s.do \in ShowDo /\ s.of = r
         /\ S = {} => X = T
         /\ S # {} => /\ X # <<>> /\ Head(X) = [do |-> "link", of |-> r, left |-> S]
                      /\ Tail(X) = T
         /\ Links(r, S) \o <<>> = Links(r, S)
<1>. DEFINE x == [do |-> "link", of |-> r, left |-> S]
            y == [do |-> "pointer", of |-> r]
            W == {x, y}
<1>1. x \in W /\ y \in W /\ \A s \in W : s.do \in ShowDo /\ s.of = r
  BY DEF ShowDo
<1>2. T = <<>> \/ T = <<y>>
  BY DEF Pointer
<1>3. Links(r, S) = IF S = {} THEN <<>> ELSE <<x>>
  BY DEF Links
<1>. HIDE DEF W, x, y
<1>4. T \in Seq(W) /\ \A s \in Elems(T) : s \in W
  <2>1. CASE T = <<>>
    <3>1. Elems(<<>>) = {}
      BY ElemsOne
    <3>2. <<>> \in Seq(W)
      OBVIOUS
    <3>3. QED
      BY <2>1, <3>1, <3>2
  <2>2. CASE T = <<y>>
    <3>1. Elems(<<y>>) = {y} /\ <<y>> \in Seq(W)
      BY <1>1, ElemsOne
    <3>2. QED
      BY <1>1, <2>2, <3>1
  <2>3. QED
    BY <1>2, <2>1, <2>2
<1>5. Links(r, S) \o <<>> = Links(r, S)
  BY <1>3
<1>6. CASE S = {}
  <2>1. X = T
    BY <1>2, <1>3, <1>6
  <2>2. QED
    BY <1>1, <1>4, <1>5, <1>6, <2>1
<1>7. CASE S # {}
  <2>1. X = <<x>> \o T
    BY <1>3, <1>7
  <2>2. /\ <<x>> \o T # <<>> /\ Head(<<x>> \o T) = x /\ Tail(<<x>> \o T) = T
        /\ Elems(<<x>> \o T) = {x} \cup Elems(T)
    BY <1>1, <1>4, ElemsAdd
  <2>3. QED
    BY <1>1, <1>4, <1>5, <1>7, <2>1, <2>2 DEF x
<1>8. QED
  BY <1>6, <1>7

\* The list with which that ends.
LEMMA PointerFacts ==
  ASSUME NEW r
  PROVE  /\ \A s \in Elems(Pointer(r)) : s.do \in ShowDo /\ s.of = r
         /\ Pointer(r) # <<>> /\ Tail(Pointer(r)) = <<>>
         /\ Head(Pointer(r)) = [do |-> "pointer", of |-> r]
<1>. DEFINE y == [do |-> "pointer", of |-> r]
<1>1. y.do \in ShowDo /\ y.of = r
  BY DEF ShowDo
<1>2. Pointer(r) = <<y>>
  BY DEF Pointer
<1>. HIDE DEF y
<1>3. Elems(<<y>>) = {y}
  BY ElemsOne
<1>4. <<y>> # <<>> /\ Tail(<<y>>) = <<>> /\ Head(<<y>>) = y
  OBVIOUS
<1>5. QED
  BY <1>1, <1>2, <1>3, <1>4 DEF y

\* A step in the workspace keeps all promises, if it does so for those about it.
LEMMA ShowPromises ==
  ASSUME Inv, Promises, NEW p \in Proc, Finishes(p), UNCHANGED <<entries, marked>>,
         updates'[p] = updates[p],
         \A s \in Elems(todo[p]) : s.do \in ShowDo,
         \A s \in Elems(todo'[p]) : s.do \in ShowDo,
         todo'[p] # <<>> => Presents(p)',
         \A r \in pointed : ~IsBranch(r) => links'[r] = links[r],
         \A r \in pointed' \ pointed :
            r \in Live /\ r \in DOMAIN links /\ (~IsBranch(r) /\ r[1] \notin cut' => Whole(r)'),
         \A a \in Asset \ cut' : Aligned(a) \/ ToShow(p, Branch(a)) =>
            Aligned(a)' \/ ToShow(p, Branch(a))'
  PROVE  Promises'
<1>1. /\ Writing(p) /\ Writing(p)' /\ Consumers(p)' = Consumers(p) /\ Elsewhere(p)
      /\ UNCHANGED store /\ cut \subseteq cut' /\ pointed \subseteq pointed'
      /\ DOMAIN links \subseteq DOMAIN links'
  BY DEF Finishes, Writing, Consumers
<1>2. Hands'
  <2>1. Marked(todo[p])'
    BY DEF Marked, ShowDo
  <2>2. QED
    BY <2>1, FinishHands DEF Promises
<1>3. Recorded'
  <2>1. \A t, by : Entered(t, by) => Entered(t, by)'
    BY DEF Entered
  <2>2. \A t, by : ToRecord(p, t, by) => ToRecord(p, t, by)'
    BY DEF ToRecord, ShowDo
  <2>3. QED
    BY <1>1, <2>1, <2>2, RecordedStep DEF Promises
<1>4. MarkedOrWill'
  <2>1. \A b : ~ToMark(p, b)
    BY DEF ToMark, ShowDo
  <2>2. entries' \ entries = {} /\ marked \subseteq marked'
    OBVIOUS
  <2>3. QED
    BY <1>1, <2>1, <2>2, MarkedStep DEF Promises
<1>5. Desk'
  BY <1>1, DeskStep DEF Promises
<1>6. AlignedOrWill'
  BY <1>1, AlignedStep DEF Promises
<1>7. QED
  BY <1>2, <1>3, <1>4, <1>5, <1>6 DEF Promises

\* What is presented is in the process's hands: it exists, it has no pointer if it
\* is a commit, and the process has the asset file as it is.
LEMMA SubjectFacts ==
  ASSUME Inv, Hands, NEW p \in Proc, pc[p] = "finish", NEW r \in Subjects(p)
  PROVE  /\ r[1] \in Consumers(p) /\ (~IsBranch(r) => r \notin pointed)
         /\ r[1] \in DOMAIN pool[p] /\ pool[p][r[1]] = store[r[1]]
<1>1. Own(p) /\ Unpointed(p) /\ Fresh(p)
  BY DEF Hands, Hand, Writing
<1>2. unflushed[p] = {}
  BY FinishFacts
<1>3. QED
  BY <1>1, <1>2 DEF Own, Unpointed, Fresh

\* The links that a graph asks for are all that r needs.
LEMMA UnderwayStarts ==
  ASSUME NEW p, NEW r, NEW S, UNCHANGED store,
         S = {Edge(r, Sources(store, r)[n].pin, n) : n \in DOMAIN Sources(store, r)},
         r \in DOMAIN links', r \notin shows'[p], \A u \in updates'[p] : u.by # r
  PROVE  Underway(p, r, S)'
<1>1. Sources(store, r)' = Sources(store, r)
  BY DEF Sources
<1>2. \A e \in S : e.name \in DOMAIN Sources(store, r) /\ e.provider = Sources(store, r)[e.name].pin
  BY DEF Edge
<1>3. \A n \in DOMAIN Sources(store, r) : \E e \in S : e.name = n
  <2>. SUFFICES ASSUME NEW n \in DOMAIN Sources(store, r) PROVE \E e \in S : e.name = n
    OBVIOUS
  <2>1. Edge(r, Sources(store, r)[n].pin, n) \in S /\ Edge(r, Sources(store, r)[n].pin, n).name = n
    BY DEF Edge
  <2>2. QED
    BY <2>1
<1>4. QED
  BY <1>1, <1>2, <1>3 DEF Underway

\* The list of a process presents r, from the first link or from the pointer on.
LEMMA PresentsNext ==
  ASSUME NEW p, NEW r, NEW S, Underway(p, r, S)',
         todo'[p] = Links(r, S) \o (IF IsBranch(r) THEN <<>> ELSE Pointer(r))
  PROVE  /\ todo'[p] # <<>> => Presents(p)'
         /\ S # {} => ToShow(p, r)'
         /\ \A s \in Elems(todo'[p]) : s.do \in ShowDo /\ s.of = r
<1>1. PICK T : T = IF IsBranch(r) THEN <<>> ELSE Pointer(r)
  OBVIOUS
<1>2. PICK X : X = todo'[p]
  OBVIOUS
<1>3. /\ \A s \in Elems(X) : s.do \in ShowDo /\ s.of = r
      /\ S = {} => X = T
      /\ S # {} => /\ X # <<>> /\ Tail(X) = T
                   /\ Head(X) = [do |-> "link", of |-> r, left |-> S]
  BY <1>1, <1>2, LinksFacts
<1>4. CASE S # {}
  <2>1. PICK x : x = Head(X) /\ x.do = "link" /\ x.of = r /\ x.left = S
    BY <1>3, <1>4
  <2>2. ToShow(p, r)'
    BY <1>2, <1>3, <1>4, <2>1 DEF ToShow
  <2>3. Presents(p)'
    BY <1>1, <1>2, <1>3, <1>4, <2>1 DEF Presents, GraphDo
  <2>4. QED
    BY <1>2, <1>3, <2>2, <2>3
<1>5. CASE S = {}
  <2>1. ASSUME X # <<>> PROVE Presents(p)'
    <3>1. X = Pointer(r) /\ ~IsBranch(r)
      BY <1>1, <1>3, <1>5, <2>1
    <3>2. PICK x : x = Head(X) /\ x.do = "pointer" /\ x.of = r
      BY <3>1, PointerFacts
    <3>3. Tail(X) = <<>>
      BY <3>1, PointerFacts
    <3>4. Underway(p, r, {})'
      BY <1>5
    <3>5. x.do \notin GraphDo /\ x.do # "link"
      BY <3>2 DEF GraphDo
    <3>6. QED
      BY <1>2, <3>1, <3>2, <3>3, <3>4, <3>5 DEF Presents
  <2>2. QED
    BY <1>2, <1>3, <1>5, <2>1
<1>6. QED
  BY <1>4, <1>5

\* A branch begins to be presented: its sources are to be linked, or it has none.
LEMMA PresentSourcesPromises ==
  ASSUME Inv, Inv', Promises, NEW p \in Proc, PresentSources(p) PROVE Promises'
<1>. DEFINE SourcesOf(v, r) == {Edge(r, Sources(v, r)[n].pin, n) : n \in DOMAIN Sources(v, r)}
<1>1. PICK r \in shows[p] : /\ IsBranch(r) /\ pc[p] = "finish" /\ todo[p] = <<>>
                            /\ \A u \in updates[p] : u.by # r
                            /\ shows' = [shows EXCEPT ![p] = shows[p] \ {r}]
                            /\ todo' = [todo EXCEPT ![p] = Links(r, SourcesOf(View(p), r))]
  BY DEF PresentSources, Shown
<1>2. UNCHANGED <<store, entries, marked, pointed, links, cut, pc, cmd, pool, subs, unflushed, updates>>
  BY DEF PresentSources, diskVars, graphVars, workspaceVars
<1>3. Elsewhere(p) /\ PoolGrows
  <2>. HIDE DEF SourcesOf
  <2>1. QED
    BY <1>1, <1>2, ReadElsewhere
<1>4. r \in Node /\ r[1] \in Asset /\ r = Branch(r[1])
  BY <1>1, FinishFacts, LiveFacts, InvParts DEF Node, IsBranch, Branch
<1>5. Sources(View(p), r) = Sources(store, r)
  <2>1. r \in Subjects(p)
    BY DEF Subjects
  <2>2. r[1] \in DOMAIN pool[p] /\ pool[p][r[1]] = store[r[1]]
    BY <1>1, <2>1, SubjectFacts DEF Promises
  <2>3. QED
    BY <1>4, <2>2 DEF View, Sources
<1>6. PICK S : S = SourcesOf(store, r) /\ SourcesOf(View(p), r) = S
  BY <1>5
<1>7. todo'[p] = Links(r, S) /\ shows'[p] = shows[p] \ {r}
  <2>. HIDE DEF SourcesOf
  <2>1. QED
    BY <1>1, <1>6, ProcFacts
<1>8. Underway(p, r, S)'
  <2>1. r \in DOMAIN links' /\ r \notin shows'[p] /\ \A u \in updates'[p] : u.by # r
    BY <1>1, <1>2, <1>4, <1>7 DEF Promises, Desk
  <2>2. QED
    BY <1>2, <1>6, <2>1, UnderwayStarts
<1>9. S = {} => DOMAIN Sources(store, r) = {}
  BY <1>6
<1>10. todo'[p] = Links(r, S) \o (IF IsBranch(r) THEN <<>> ELSE Pointer(r))
  <2>1. Links(r, S) \o <<>> = Links(r, S)
    BY LinksFacts
  <2>2. QED
    BY <1>1, <1>7, <2>1
<1>11. /\ todo'[p] # <<>> => Presents(p)'
       /\ S # {} => ToShow(p, r)'
       /\ \A s \in Elems(todo'[p]) : s.do \in ShowDo /\ s.of = r
  BY <1>8, <1>10, PresentsNext
<1>12. About(todo[p]) = {} /\ Elems(todo[p]) = {} /\ About(todo'[p]) \subseteq {r}
  BY <1>1, <1>11, ElemsOne DEF About, SubjectsOf, ShowDo
<1>13. Finishes(p)
  <2>1. Subjects(p)' \subseteq Subjects(p)
    BY <1>1, <1>2, <1>7, <1>12 DEF Subjects
  <2>2. QED
    BY <1>1, <1>2, <1>3, <2>1 DEF Finishes
<1>14. ASSUME NEW a \in Asset, Aligned(a) \/ ToShow(p, Branch(a))
       PROVE  Aligned(a)' \/ ToShow(p, Branch(a))'
  <2>1. Aligned(a) => Aligned(a)'
    BY <1>2 DEF Aligned
  <2>2. CASE ToShow(p, Branch(a)) /\ Branch(a) # r
    BY <1>1, <1>2, <1>7, <2>2 DEF ToShow
  <2>3. CASE Branch(a) = r
    <3>1. CASE S = {}
      <4>1. DOMAIN store[a][0] = {}
        BY <1>9, <2>3, <3>1 DEF Sources, Branch
      <4>2. QED
        BY <1>2, <4>1 DEF Aligned
    <3>2. CASE S # {}
      <4>1. \A x : x = r => ToShow(p, x)'
        BY <1>11, <3>2
      <4>2. QED
        BY <2>3, <4>1
    <3>3. QED
      BY <3>1, <3>2
  <2>4. QED
    BY <1>14, <2>1, <2>2, <2>3
<1>15. QED
  BY <1>2, <1>11, <1>12, <1>13, <1>14, ShowPromises

\* The edges of a graph that lead from its object are its sources.
LEMMA OwnEdges ==
  ASSUME store \in [Asset -> Files], NEW r \in Live
  PROVE  {e \in Edges(store, r) : e.consumer = r}
           = {Edge(r, Sources(store, r)[n].pin, n) : n \in DOMAIN Sources(store, r)}
<1>. DEFINE S == {Edge(r, Sources(store, r)[n].pin, n) : n \in DOMAIN Sources(store, r)}
<1>1. r \in Node /\ Exists(store, r)
  BY LiveFacts
<1>2. r \in Reached(store, r)
  BY <1>1, ViewFacts, ReachedRules DEF Walks
<1>3. ASSUME NEW e \in Edges(store, r), e.consumer = r PROVE e \in S
  <2>1. PICK x \in {y \in Reached(store, r) : Exists(store, y)} :
           e \in {Edge(x, Sources(store, x)[n].pin, n) : n \in DOMAIN Sources(store, x)}
    BY <1>3 DEF Edges
  <2>2. e.consumer = x
    BY <2>1 DEF Edge
  <2>3. QED
    BY <1>3, <2>1, <2>2
<1>4. ASSUME NEW e \in S PROVE e \in Edges(store, r) /\ e.consumer = r
  <2>1. e \in Edges(store, r)
    BY <1>1, <1>2, <1>4 DEF Edges
  <2>2. e.consumer = r
    BY <1>4 DEF Edge
  <2>3. QED
    BY <2>1, <2>2
<1>5. QED
  BY <1>3, <1>4

\* A commit gets a directory of its own: nothing of it is linked or pointed to.
LEMMA PresentFilesFacts ==
  ASSUME Inv, Promises, NEW p \in Proc, pc[p] = "finish", NEW r \in shows[p], ~IsBranch(r),
         links' = [x \in DOMAIN links \cup {r} |-> IF x = r THEN Ws!NoLinks ELSE links[x]]
  PROVE  /\ r \in Live /\ r \in Subjects(p) /\ r \notin pointed
         /\ r \in DOMAIN links' /\ DOMAIN links \subseteq DOMAIN links'
         /\ \A x \in DOMAIN links \ {r} : links'[x] = links[x]
         /\ \A a \in Asset : Branch(a) # r /\ links'[Branch(a)] = links[Branch(a)]
<1>1. r \in Live /\ r \in Subjects(p)
  BY FinishFacts DEF Subjects
<1>2. r \notin pointed
  BY <1>1, SubjectFacts DEF Promises
<1>3. /\ r \in DOMAIN links' /\ DOMAIN links \subseteq DOMAIN links'
      /\ \A x \in DOMAIN links \ {r} : links'[x] = links[x]
  OBVIOUS
<1>4. \A a \in Asset : Branch(a) # r /\ Branch(a) \in DOMAIN links
  <2>1. \A a \in Asset : Branch(a) \in DOMAIN links
    BY DEF Promises, Desk
  <2>2. \A a \in Asset : IsBranch(Branch(a))
    BY DEF Branch, IsBranch
  <2>3. QED
    BY <2>1, <2>2
<1>5. QED
  BY <1>1, <1>2, <1>3, <1>4

\* A commit begins to be presented, by a list that presents it.
LEMMA PresentingPromises ==
  ASSUME Inv, Promises, NEW p \in Proc, pc[p] = "finish", todo[p] = <<>>,
         NEW r \in shows[p], ~IsBranch(r), \A u \in updates[p] : u.by # r,
         links' = [x \in DOMAIN links \cup {r} |-> IF x = r THEN Ws!NoLinks ELSE links[x]],
         Elsewhere(p), PoolGrows,
         UNCHANGED <<store, entries, marked, pointed, pc, cmd, subs, unflushed, updates>>,
         cut \subseteq cut', shows'[p] = shows[p] \ {r},
         NEW S, Underway(p, r, S)', todo'[p] = Links(r, S) \o Pointer(r)
  PROVE  Promises'
<1>1. /\ r \in Live /\ r \in Subjects(p) /\ r \notin pointed
      /\ r \in DOMAIN links' /\ DOMAIN links \subseteq DOMAIN links'
      /\ \A x \in DOMAIN links \ {r} : links'[x] = links[x]
      /\ \A a \in Asset : Branch(a) # r /\ links'[Branch(a)] = links[Branch(a)]
  BY PresentFilesFacts
<1>2. /\ todo'[p] # <<>> => Presents(p)'
      /\ \A s \in Elems(todo'[p]) : s.do \in ShowDo /\ s.of = r
  BY PresentsNext
<1>3. About(todo[p]) = {} /\ Elems(todo[p]) = {} /\ About(todo'[p]) \subseteq {r}
  BY <1>2, ElemsOne DEF About, SubjectsOf, ShowDo
<1>4. Finishes(p)
  <2>1. Subjects(p)' \subseteq Subjects(p)
    BY <1>1, <1>3 DEF Subjects
  <2>2. pointed' \ pointed = {} /\ pointed \subseteq pointed' /\ marked \subseteq marked'
    OBVIOUS
  <2>3. QED
    BY <1>1, <2>1, <2>2 DEF Finishes
<1>5. \A x \in pointed : links'[x] = links[x]
  BY <1>1 DEF Promises, Desk
<1>6. ASSUME NEW a \in Asset, Aligned(a) \/ ToShow(p, Branch(a))
      PROVE  Aligned(a)' \/ ToShow(p, Branch(a))'
  <2>1. Aligned(a) => Aligned(a)'
    BY <1>1 DEF Aligned
  <2>2. ToShow(p, Branch(a)) => ToShow(p, Branch(a))'
    BY <1>1 DEF ToShow
  <2>3. QED
    BY <1>6, <2>1, <2>2
<1>7. pointed' \ pointed = {}
  OBVIOUS
<1>8. QED
  BY <1>2, <1>3, <1>4, <1>5, <1>6, <1>7, ShowPromises

\* ... by its graph: its sources are to be linked, then its pointer made.
LEMMA PresentCommitPromises ==
  ASSUME Inv, Inv', Promises, NEW p \in Proc, PresentCommit(p) PROVE Promises'
<1>1. PICK r \in shows[p] :
         /\ ~IsBranch(r) /\ pc[p] = "finish" /\ todo[p] = <<>>
         /\ \A u \in updates[p] : u.by # r
         /\ shows' = [shows EXCEPT ![p] = shows[p] \ {r}]
         /\ Known(p, r) /\ Ws!PresentFiles(r)
         /\ todo' = [todo EXCEPT ![p] = Links(r, {e \in Graph(p, r) : e.consumer = r}) \o Pointer(r)]
         /\ Read(p, Walked(p, r))
  BY DEF PresentCommit, Shown
<1>2. /\ links' = [x \in DOMAIN links \cup {r} |-> IF x = r THEN Ws!NoLinks ELSE links[x]]
      /\ UNCHANGED pointed
  BY <1>1 DEF Ws!PresentFiles, Ws!LinkTo
<1>3. UNCHANGED <<store, entries, marked, cut, pc, cmd, subs, unflushed, updates>>
  BY DEF PresentCommit, graphVars
<1>4. r \in Node /\ r \in Live /\ unflushed[p] = {}
  BY <1>1, FinishFacts, LiveFacts, InvParts
<1>5. Elsewhere(p) /\ PoolGrows
  <2>1. Walked(p, r) \in SUBSET Asset
    BY <1>4, WalkedFacts
  <2>2. QED
    BY <1>1, <1>3, <2>1, ReadElsewhere
<1>6. PICK S : /\ S = {Edge(r, Sources(store, r)[n].pin, n) : n \in DOMAIN Sources(store, r)}
               /\ {e \in Graph(p, r) : e.consumer = r} = S
  <2>1. Graph(p, r) = Edges(store, r)
    BY <1>1, <1>4, KnownFacts, InvParts
  <2>2. QED
    BY <1>4, <2>1, OwnEdges, InvParts
<1>7. todo'[p] = Links(r, S) \o Pointer(r) /\ shows'[p] = shows[p] \ {r}
  BY <1>1, <1>6, ProcFacts
<1>8. Underway(p, r, S)'
  <2>1. r \in DOMAIN links' /\ r \notin shows'[p] /\ \A u \in updates'[p] : u.by # r
    BY <1>1, <1>2, <1>3, <1>7
  <2>2. QED
    BY <1>3, <1>6, <2>1, UnderwayStarts
<1>9. QED
  BY <1>1, <1>2, <1>3, <1>5, <1>7, <1>8, PresentingPromises

\* ... or without its sources: then it is cut short.
LEMMA PresentCommitAlonePromises ==
  ASSUME Inv, Inv', Promises, NEW p \in Proc, PresentCommitAlone(p) PROVE Promises'
<1>1. PICK r \in shows[p] :
         /\ ~IsBranch(r) /\ pc[p] = "finish" /\ todo[p] = <<>>
         /\ \A u \in updates[p] : u.by # r
         /\ shows' = [shows EXCEPT ![p] = shows[p] \ {r}]
         /\ Ws!PresentFiles(r)
         /\ todo' = [todo EXCEPT ![p] = Pointer(r)]
         /\ cut' = cut \cup {r[1]}
  BY DEF PresentCommitAlone, Shown
<1>2. /\ links' = [x \in DOMAIN links \cup {r} |-> IF x = r THEN Ws!NoLinks ELSE links[x]]
      /\ UNCHANGED pointed
  BY <1>1 DEF Ws!PresentFiles, Ws!LinkTo
<1>3. UNCHANGED <<store, entries, marked, pc, cmd, pool, subs, unflushed, updates>>
  BY DEF PresentCommitAlone, graphVars
<1>4. Elsewhere(p) /\ PoolGrows
  BY <1>1, <1>3, ReadElsewhere
<1>5. PICK S : S = {}
  OBVIOUS
<1>6. todo'[p] = Links(r, S) \o Pointer(r) /\ shows'[p] = shows[p] \ {r}
  <2>1. Links(r, {}) \o Pointer(r) = Pointer(r)
    BY LinksFacts
  <2>2. QED
    BY <1>1, <1>5, <2>1, ProcFacts
<1>7. Underway(p, r, S)'
  BY <1>1, <1>2, <1>3, <1>5, <1>6 DEF Underway
<1>8. QED
  BY <1>1, <1>2, <1>3, <1>4, <1>6, <1>7, PresentingPromises

\* The link or the pointer at hand, and what there is to be done of it.
LEMMA ShowStepFacts ==
  ASSUME Inv, Promises, NEW p \in Proc, pc[p] = "finish", todo[p] # <<>>,
         NEW s, s = Head(todo[p]), s.do \in ShowDo
  PROVE  /\ s.of \in Live /\ s.of \in Node /\ s.of \in Subjects(p)
         /\ (~IsBranch(s.of) => s.of \notin pointed)
         /\ s.do = "link" => /\ Underway(p, s.of, s.left) /\ s.left # {}
                             /\ Tail(todo[p]) = IF IsBranch(s.of) THEN <<>> ELSE Pointer(s.of)
         /\ s.do = "pointer" => /\ Underway(p, s.of, {})
                                /\ Tail(todo[p]) = <<>> /\ ~IsBranch(s.of)
         /\ \A t \in Elems(todo[p]) : t.do \in ShowDo
         /\ \A r : ToShow(p, r) => \/ r \in shows[p] \/ \E u \in updates[p] : u.by = r
                                   \/ s.do = "link" /\ r = s.of
<1>1. Presents(p) /\ todo[p] \in Seq(FinishStep)
  BY ProcFacts DEF Promises, Hands, Hand
<1>2. Elems(todo[p]) = {s} \cup Elems(Tail(todo[p])) /\ Final(todo[p]) \in Elems(todo[p])
  BY <1>1, ElemsSplit
<1>3. s.of \in Live /\ s.of \in Node
  BY StepFacts, FinishFacts, LiveFacts, InvParts DEF ShowDo
<1>4. s.of \in Subjects(p)
  BY <1>2 DEF Subjects, About, SubjectsOf, ShowDo
<1>5. ~IsBranch(s.of) => s.of \notin pointed
  BY <1>4, SubjectFacts DEF Promises
<1>6. s.do = "link" => /\ Underway(p, s.of, s.left) /\ s.left # {}
                       /\ Tail(todo[p]) = IF IsBranch(s.of) THEN <<>> ELSE Pointer(s.of)
  BY <1>1 DEF Presents
<1>7. s.do = "pointer" => /\ Underway(p, s.of, {})
                          /\ Tail(todo[p]) = <<>> /\ ~IsBranch(s.of)
  BY <1>1 DEF Presents
<1>8. \A t \in Elems(Tail(todo[p])) : t.do \in ShowDo
  <2>1. Tail(todo[p]) = <<>> \/ Tail(todo[p]) = Pointer(s.of)
    BY <1>6, <1>7 DEF ShowDo
  <2>2. CASE Tail(todo[p]) = <<>>
    <3>1. Elems(<<>>) = {}
      BY ElemsOne
    <3>2. QED
      BY <2>2, <3>1
  <2>3. CASE Tail(todo[p]) = Pointer(s.of)
    BY <2>3, PointerFacts
  <2>4. QED
    BY <2>1, <2>2, <2>3
<1>9. \A t \in Elems(todo[p]) : t.do \in ShowDo
  BY <1>2, <1>8
<1>10. ASSUME NEW r, ToShow(p, r)
       PROVE  \/ r \in shows[p] \/ \E u \in updates[p] : u.by = r
              \/ s.do = "link" /\ r = s.of
  <2>1. Final(todo[p]).do \notin {"marks", "mark"}
    BY <1>2, <1>9 DEF ShowDo
  <2>2. QED
    BY <1>10, <2>1 DEF ToShow
<1>11. QED
  BY <1>3, <1>4, <1>5, <1>6, <1>7, <1>9, <1>10

\* A step on the list that presents r, as far as the promises are concerned.
Presenting(p, r) ==
    /\ pc[p] = "finish" /\ todo[p] # <<>>
    /\ Head(todo[p]).do \in ShowDo /\ Head(todo[p]).of = r
    /\ \E x : todo' = [todo EXCEPT ![p] = x]
    /\ UNCHANGED <<store, entries, marked, pc, cmd, pool, subs, unflushed, updates, shows>>
    /\ cut \subseteq cut' /\ pointed \subseteq pointed'
    /\ DOMAIN links \subseteq DOMAIN links'
    /\ \A x \in DOMAIN links \ {r} : links'[x] = links[x]
    /\ \A t \in Elems(todo'[p]) : t.do \in ShowDo /\ t.of = r
    /\ todo'[p] # <<>> => Presents(p)'
    /\ \A x \in pointed' \ pointed :
          /\ x = r /\ ~IsBranch(r) /\ todo'[p] = <<>> /\ r \in DOMAIN links
          /\ r \notin shows[p] /\ \A u \in updates[p] : u.by # r
          /\ r[1] \notin cut' => Whole(r)'
    /\ \A a \in Asset \ cut' : Branch(a) = r => Aligned(a)' \/ ToShow(p, Branch(a))'

\* It keeps them.
LEMMA ShowStepPromises ==
  ASSUME Inv, Promises, NEW p \in Proc, NEW r, Presenting(p, r)
  PROVE  Promises'
<1>. USE DEF Presenting
<1>1. /\ r \in Live /\ r \in Subjects(p) /\ (~IsBranch(r) => r \notin pointed)
      /\ \A t \in Elems(todo[p]) : t.do \in ShowDo
      /\ \A x : ToShow(p, x) => \/ x \in shows[p] \/ \E u \in updates[p] : u.by = x
                                \/ Head(todo[p]).do = "link" /\ x = r
  <2>1. PICK s : s = Head(todo[p])
    OBVIOUS
  <2>2. /\ s.of \in Live /\ s.of \in Subjects(p)
        /\ (~IsBranch(s.of) => s.of \notin pointed)
        /\ \A t \in Elems(todo[p]) : t.do \in ShowDo
        /\ \A x : ToShow(p, x) => \/ x \in shows[p] \/ \E u \in updates[p] : u.by = x
                                  \/ s.do = "link" /\ x = s.of
    BY <2>1, ShowStepFacts
  <2>3. QED
    BY <2>1, <2>2
<1>2. Elsewhere(p) /\ PoolGrows
  BY ReadElsewhere
<1>3. About(todo'[p]) \subseteq {r}
  BY DEF About, SubjectsOf, ShowDo
<1>4. todo'[p] = <<>> => About(todo'[p]) = {}
  BY ElemsOne DEF About
<1>5. Finishes(p)
  <2>1. Subjects(p)' \subseteq Subjects(p)
    BY <1>1, <1>3 DEF Subjects
  <2>2. \A x \in pointed' \ pointed : x \in Subjects(p) \ Subjects(p)'
    BY <1>1, <1>4 DEF Subjects
  <2>3. \A x \in DOMAIN links \ Subjects(p) : links'[x] = links[x]
    BY <1>1
  <2>4. QED
    BY <1>2, <2>1, <2>2, <2>3 DEF Finishes
<1>6. \A x \in pointed : ~IsBranch(x) => links'[x] = links[x]
  BY <1>1 DEF Promises, Desk
<1>7. \A x \in pointed' \ pointed :
         x \in Live /\ x \in DOMAIN links /\ (~IsBranch(x) /\ x[1] \notin cut' => Whole(x)')
  BY <1>1
<1>8. ASSUME NEW a \in Asset \ cut', Aligned(a) \/ ToShow(p, Branch(a))
      PROVE  Aligned(a)' \/ ToShow(p, Branch(a))'
  <2>1. CASE Branch(a) = r
    BY <2>1
  <2>2. CASE Branch(a) # r
    <3>1. Branch(a) \in DOMAIN links /\ links'[Branch(a)] = links[Branch(a)]
      BY <2>2 DEF Promises, Desk
    <3>2. Aligned(a) => Aligned(a)'
      BY <3>1 DEF Aligned
    <3>3. ToShow(p, Branch(a)) => ToShow(p, Branch(a))'
      BY <1>1, <2>2 DEF ToShow
    <3>4. QED
      BY <1>8, <3>2, <3>3
  <2>3. QED
    BY <2>1, <2>2
<1>9. QED
  BY <1>1, <1>5, <1>6, <1>7, <1>8, ShowPromises

\* A commit's pointer is made: its sources are all linked.
LEMMA WritePointerPromises ==
  ASSUME Inv, Inv', Promises, NEW p \in Proc, WritePointer(p) PROVE Promises'
<1>1. PICK s : s = Head(todo[p])
  OBVIOUS
<1>2. PICK r : r = s.of
  OBVIOUS
<1>3. /\ pc[p] = "finish" /\ todo[p] # <<>> /\ s.do = "pointer"
      /\ todo' = [todo EXCEPT ![p] = Tail(todo[p])]
      /\ pointed' = pointed \cup {r} /\ UNCHANGED links
  BY <1>1, <1>2 DEF WritePointer, Do, Done, Ws!WritePointer
<1>4. UNCHANGED <<store, entries, marked, cut, pc, cmd, pool, subs, unflushed, updates, shows>>
  BY DEF WritePointer, graphVars
<1>5. s.do \in ShowDo
  BY <1>3 DEF ShowDo
<1>6. /\ r \in Live /\ Underway(p, r, {}) /\ Tail(todo[p]) = <<>> /\ ~IsBranch(r)
  BY <1>1, <1>2, <1>3, <1>5, ShowStepFacts
<1>7. todo'[p] = <<>>
  BY <1>3, <1>6, ProcFacts
<1>8. Elems(todo'[p]) = {}
  <2>1. Elems(<<>>) = {}
    BY ElemsOne
  <2>2. QED
    BY <1>7, <2>1
<1>9. /\ r \in DOMAIN links /\ r \notin shows[p] /\ \A u \in updates[p] : u.by # r
      /\ r[1] \notin cut => \A n \in DOMAIN Sources(store, r) : Linked(r, n)
  BY <1>6 DEF Underway, Good
<1>10. r[1] \notin cut' => Whole(r)'
  <2>1. Sources(store, r)' = Sources(store, r)
    BY <1>4 DEF Sources
  <2>2. QED
    BY <1>3, <1>4, <1>9, <2>1 DEF Whole, Linked
<1>11. \A a \in Asset : Branch(a) # r
  BY <1>6 DEF Branch, IsBranch
<1>12. /\ cut \subseteq cut' /\ pointed \subseteq pointed' /\ pointed' \ pointed \subseteq {r}
       /\ DOMAIN links \subseteq DOMAIN links' /\ \A x \in DOMAIN links \ {r} : links'[x] = links[x]
  BY <1>3, <1>4
<1>13. \A x \in pointed' \ pointed :
          /\ x = r /\ ~IsBranch(r) /\ todo'[p] = <<>> /\ r \in DOMAIN links
          /\ r \notin shows[p] /\ \A u \in updates[p] : u.by # r
          /\ r[1] \notin cut' => Whole(r)'
  BY <1>6, <1>7, <1>9, <1>10, <1>12
<1>14. /\ \E x : todo' = [todo EXCEPT ![p] = x]
       /\ \A t \in Elems(todo'[p]) : t.do \in ShowDo /\ t.of = r
       /\ todo'[p] # <<>> => Presents(p)'
       /\ \A a \in Asset \ cut' : Branch(a) = r => Aligned(a)' \/ ToShow(p, Branch(a))'
  BY <1>3, <1>7, <1>8, <1>11
<1>15. pc[p] = "finish" /\ todo[p] # <<>> /\ s.do \in ShowDo
  BY <1>3, <1>5
<1>16. UNCHANGED <<store, entries, marked, pc, cmd, pool, subs, unflushed, updates, shows>>
  BY <1>4
<1>17. QED
  <2>1. Presenting(p, r)
    BY <1>1, <1>2, <1>12, <1>13, <1>14, <1>15, <1>16 DEF Presenting
  <2>2. QED
    BY <2>1, ShowStepPromises

\* A presentation fails: it is cut short.
LEMMA PresentFailsPromises ==
  ASSUME Inv, Inv', Promises, NEW p \in Proc, PresentFails(p) PROVE Promises'
<1>1. PICK s : s = Head(todo[p])
  OBVIOUS
<1>2. PICK r : r = s.of
  OBVIOUS
<1>3. /\ pc[p] = "finish" /\ todo[p] # <<>> /\ s.do \in ShowDo
      /\ todo' = [todo EXCEPT ![p] = <<>>] /\ cut' = cut \cup {r[1]}
      /\ UNCHANGED pointed
      /\ links' = links \/ \E f : links' = [links EXCEPT ![r] = f]
  BY <1>1, <1>2 DEF PresentFails, Do, Ws!AliasFails, workspaceVars, ShowDo
<1>4. UNCHANGED <<store, entries, marked, pc, cmd, pool, subs, unflushed, updates, shows>>
  BY DEF PresentFails, graphVars
<1>5. todo'[p] = <<>>
  BY <1>3, ProcFacts
<1>6. Elems(todo'[p]) = {}
  <2>1. Elems(<<>>) = {}
    BY ElemsOne
  <2>2. QED
    BY <1>5, <2>1
<1>7. \A a \in Asset \ cut' : Branch(a) # r
  BY <1>3 DEF Branch
<1>8. /\ cut \subseteq cut' /\ pointed \subseteq pointed' /\ pointed' \ pointed = {}
      /\ DOMAIN links \subseteq DOMAIN links' /\ \A x \in DOMAIN links \ {r} : links'[x] = links[x]
  BY <1>3
<1>9. /\ \E x : todo' = [todo EXCEPT ![p] = x]
      /\ \A t \in Elems(todo'[p]) : t.do \in ShowDo /\ t.of = r
      /\ todo'[p] # <<>> => Presents(p)'
      /\ \A a \in Asset \ cut' : Branch(a) = r => Aligned(a)' \/ ToShow(p, Branch(a))'
  BY <1>3, <1>5, <1>6, <1>7
<1>10. \A x \in pointed' \ pointed :
          /\ x = r /\ ~IsBranch(r) /\ todo'[p] = <<>> /\ r \in DOMAIN links
          /\ r \notin shows[p] /\ \A u \in updates[p] : u.by # r
          /\ r[1] \notin cut' => Whole(r)'
  BY <1>8
<1>11. pc[p] = "finish" /\ todo[p] # <<>> /\ s.do \in ShowDo
  BY <1>3
<1>12. QED
  <2>1. Presenting(p, r)
    BY <1>1, <1>2, <1>4, <1>8, <1>9, <1>10, <1>11 DEF Presenting
  <2>2. QED
    BY <2>1, ShowStepPromises

\* A source of r is linked: what is left to be linked is right.
LEMMA LinkedOne ==
  ASSUME NEW p, NEW r, NEW S, NEW e \in S, Underway(p, r, S), e.provider \in pointed,
         UNCHANGED <<store, pointed, cut, updates, shows>>,
         links' = [links EXCEPT ![r] = Ws!LinkTo(links[r], e.name, e.provider)]
  PROVE  \A L : L = S \ {e} => Underway(p, r, L)'
<1>1. r \in DOMAIN links /\ DOMAIN links' = DOMAIN links
  BY DEF Underway
<1>2. /\ links'[r] = Ws!LinkTo(links[r], e.name, e.provider)
      /\ e.name \in DOMAIN Sources(store, r) /\ e.provider = Sources(store, r)[e.name].pin
      /\ Sources(store, r)' = Sources(store, r)
  BY <1>1 DEF Underway, Sources
<1>3. /\ DOMAIN links'[r] = DOMAIN links[r] \cup {e.name}
      /\ links'[r][e.name] = e.provider
      /\ \A n \in DOMAIN links[r] : n # e.name => links'[r][n] = links[r][n]
  BY <1>2 DEF Ws!LinkTo
<1>4. \A n : n = e.name => Good(r, n)'
  BY <1>2, <1>3 DEF Good, Linked
<1>5. \A n : n # e.name /\ Good(r, n) => Good(r, n)'
  BY <1>2, <1>3 DEF Good, Linked
<1>6. ASSUME NEW L, L = S \ {e}, r[1] \notin cut, NEW n \in DOMAIN Sources(store, r)
      PROVE  Good(r, n)' \/ \E f \in L : f.name = n
  <2>1. Good(r, n) \/ \E f \in S : f.name = n
    BY <1>6 DEF Underway
  <2>2. CASE n = e.name
    BY <1>4, <2>2
  <2>3. CASE n # e.name
    BY <1>5, <1>6, <2>1, <2>3
  <2>4. QED
    BY <2>2, <2>3
<1>7. /\ \A f \in S : f.name \in DOMAIN Sources(store, r) /\ f.provider = Sources(store, r)[f.name].pin
      /\ r \notin shows[p] /\ \A u \in updates[p] : u.by # r
  BY DEF Underway
<1>8. QED
  BY <1>1, <1>2, <1>6, <1>7 DEF Underway

\* A source is linked, or is not as its target is not presented.
LEMMA LinkSourcePromises ==
  ASSUME Inv, Inv', Promises, NEW p \in Proc, LinkSource(p) PROVE Promises'
<1>1. PICK s : s = Head(todo[p])
  OBVIOUS
<1>2. PICK r : r = s.of
  OBVIOUS
<1>3. pc[p] = "finish" /\ todo[p] # <<>> /\ s.do = "link"
  BY <1>1 DEF LinkSource, Do
<1>4. PICK e \in s.left :
         \/ /\ Ws!Alias(r, e.name, e.provider)
            /\ todo' = [todo EXCEPT ![p] = Links(r, s.left \ {e}) \o Tail(todo[p])]
         \/ /\ Ws!AliasRefused(r, e.name, e.provider)
            /\ todo' = [todo EXCEPT ![p] = <<>>]
  BY <1>1, <1>2 DEF LinkSource
<1>5. UNCHANGED <<store, entries, marked, pointed, cut, pc, cmd, pool, subs, unflushed, updates, shows>>
  BY <1>4 DEF LinkSource, graphVars, Ws!Alias, Ws!AliasRefused
<1>6. s.do \in ShowDo
  BY <1>3 DEF ShowDo
<1>7. /\ r \in Live /\ r \in Node /\ Underway(p, r, s.left)
      /\ Tail(todo[p]) = IF IsBranch(r) THEN <<>> ELSE Pointer(r)
  BY <1>1, <1>2, <1>3, <1>6, ShowStepFacts
<1>8. r \in DOMAIN links
  BY <1>7 DEF Underway
<1>9. /\ cut \subseteq cut' /\ pointed \subseteq pointed'
      /\ \A x \in pointed' \ pointed :
            /\ x = r /\ ~IsBranch(r) /\ todo'[p] = <<>> /\ r \in DOMAIN links
            /\ r \notin shows[p] /\ \A u \in updates[p] : u.by # r
            /\ r[1] \notin cut' => Whole(r)'
  BY <1>5
<1>10. DOMAIN links \subseteq DOMAIN links' /\ \A x \in DOMAIN links \ {r} : links'[x] = links[x]
  BY <1>4 DEF Ws!Alias, Ws!AliasRefused
<1>11. UNCHANGED <<store, entries, marked, pc, cmd, pool, subs, unflushed, updates, shows>>
  BY <1>5
<1>12. CASE /\ Ws!Alias(r, e.name, e.provider)
            /\ todo' = [todo EXCEPT ![p] = Links(r, s.left \ {e}) \o Tail(todo[p])]
  <2>1. /\ e.provider \in pointed
        /\ links' = [links EXCEPT ![r] = Ws!LinkTo(links[r], e.name, e.provider)]
    BY <1>12 DEF Ws!Alias
  <2>2. PICK L : L = s.left \ {e}
    OBVIOUS
  <2>3. todo'[p] = Links(r, L) \o (IF IsBranch(r) THEN <<>> ELSE Pointer(r))
    BY <1>7, <1>12, <2>2, ProcFacts
  <2>4. PICK S : S = s.left
    OBVIOUS
  <2>5. Underway(p, r, L)'
    <3>1. Underway(p, r, S) /\ e \in S /\ L = S \ {e}
      BY <1>7, <2>2, <2>4
    <3>2. QED
      BY <1>5, <2>1, <3>1, LinkedOne
  <2>6. /\ todo'[p] # <<>> => Presents(p)'
        /\ L # {} => ToShow(p, r)'
        /\ \A t \in Elems(todo'[p]) : t.do \in ShowDo /\ t.of = r
    BY <2>3, <2>5, PresentsNext
  <2>7. ASSUME NEW a \in Asset \ cut', Branch(a) = r PROVE Aligned(a)' \/ ToShow(p, Branch(a))'
    <3>1. CASE L # {}
      <4>1. \A x : x = r => ToShow(p, x)'
        BY <2>6, <3>1
      <4>2. QED
        BY <2>7, <4>1
    <3>2. CASE L = {}
      <4>1. r[1] = a /\ Sources(store, r)' = store'[a][0]
        BY <2>7 DEF Branch, Sources
      <4>2. \A n \in DOMAIN store'[a][0] : Good(r, n)'
        BY <2>5, <2>7, <3>2, <4>1 DEF Underway
      <4>3. \A n \in DOMAIN store'[a][0] : n \in DOMAIN links'[r] => links'[r][n] = store'[a][0][n].pin
        BY <4>1, <4>2 DEF Good, Linked
      <4>4. \A x : x = r => (DOMAIN links'[x] = DOMAIN store'[a][0] =>
                               \A n \in DOMAIN store'[a][0] : links'[x][n] = store'[a][0][n].pin)
        BY <4>3
      <4>5. Aligned(a)'
        BY <2>7, <4>4 DEF Aligned
      <4>6. QED
        BY <4>5
    <3>3. QED
      BY <3>1, <3>2
  <2>8. \E x : todo' = [todo EXCEPT ![p] = x]
    BY <1>12
  <2>9. Presenting(p, r)
    BY <1>1, <1>2, <1>3, <1>6, <1>9, <1>10, <1>11, <2>6, <2>7, <2>8 DEF Presenting
  <2>10. QED
    BY <2>9, ShowStepPromises
<1>13. CASE /\ Ws!AliasRefused(r, e.name, e.provider)
            /\ todo' = [todo EXCEPT ![p] = <<>>]
  <2>1. links' = [links EXCEPT ![r] = Ws!Unlinked(links[r], e.name)]
    BY <1>13 DEF Ws!AliasRefused
  <2>2. e.name \notin DOMAIN links'[r] /\ e.name \in DOMAIN Sources(store, r)
    BY <1>7, <1>8, <2>1 DEF Ws!Unlinked, Ws!Restrict, Underway
  <2>3. todo'[p] = <<>>
    BY <1>13, ProcFacts
  <2>4. Elems(todo'[p]) = {}
    <3>1. Elems(<<>>) = {}
      BY ElemsOne
    <3>2. QED
      BY <2>3, <3>1
  <2>5. ASSUME NEW a \in Asset \ cut', Branch(a) = r PROVE Aligned(a)' \/ ToShow(p, Branch(a))'
    <3>1. e.name \in DOMAIN store'[a][0]
      BY <1>5, <2>2, <2>5 DEF Sources, Branch
    <3>2. \A x : x = r => DOMAIN links'[x] # DOMAIN store'[a][0]
      BY <2>2, <3>1
    <3>3. Aligned(a)'
      BY <2>5, <3>2 DEF Aligned
    <3>4. QED
      BY <3>3
  <2>6. /\ \E x : todo' = [todo EXCEPT ![p] = x]
        /\ todo'[p] # <<>> => Presents(p)'
        /\ \A t \in Elems(todo'[p]) : t.do \in ShowDo /\ t.of = r
    BY <1>13, <2>3, <2>4
  <2>7. Presenting(p, r)
    BY <1>1, <1>2, <1>3, <1>6, <1>9, <1>10, <1>11, <2>5, <2>6 DEF Presenting
  <2>8. QED
    BY <2>7, ShowStepPromises
<1>14. QED
  BY <1>4, <1>12, <1>13

-----------------------------------------------------------------------------
(* Theorems.                                                               *)

\* In the beginning nothing is promised: no branch has sources.
LEMMA InitPromises == Init => Promises
<1>. SUFFICES ASSUME Init PROVE Promises
  OBVIOUS
<1>1. \A a \in Asset : DOMAIN store[a] = {0, 1} /\ \A i \in {0, 1} : store[a][i] = Nothing
  BY DEF Init
<1>2. DOMAIN Nothing = {}
  BY DEF Nothing
<1>3. pointed = Asset \X {0, 1} /\ links = [r \in Asset \X {0, 1} |-> Ws!NoLinks]
  BY DEF Init, Ws!InitWorkspace
<1>4. \A a \in Asset : DOMAIN store[a][0] = {}
  BY <1>1, <1>2
<1>5. Hands
  <2>. SUFFICES ASSUME NEW p \in Proc PROVE Hand(p)
    BY DEF Hands
  <2>1. pc[p] = "idle" /\ updates[p] = {}
    BY DEF Init
  <2>2. QED
    BY <2>1 DEF Hand, Writing
<1>6. Recorded
  BY <1>4 DEF Recorded
<1>7. MarkedOrWill
  BY DEF Init, MarkedOrWill
<1>8. Desk
  <2>1. pointed \subseteq Live
    <3>. SUFFICES ASSUME NEW r \in pointed PROVE r \in Live
      OBVIOUS
    <3>1. PICK a \in Asset, i \in {0, 1} : r = <<a, i>>
      BY <1>3
    <3>2. i \in DOMAIN store[a]
      BY <1>1
    <3>3. QED
      BY <3>1, <3>2 DEF Live
  <2>2. pointed \subseteq DOMAIN links /\ \A a \in Asset : Branch(a) \in DOMAIN links
    BY <1>3 DEF Branch
  <2>3. ASSUME NEW r \in pointed PROVE Whole(r)
    <3>1. r[1] \in Asset /\ r[2] \in {0, 1}
      BY <1>3
    <3>2. DOMAIN Sources(store, r) = {}
      BY <1>1, <1>2, <3>1 DEF Sources
    <3>3. QED
      BY <3>2 DEF Whole
  <2>4. QED
    BY <2>1, <2>2, <2>3 DEF Desk
<1>9. AlignedOrWill
  BY <1>4 DEF AlignedOrWill, Aligned
<1>10. QED
  BY <1>5, <1>6, <1>7, <1>8, <1>9 DEF Promises

\* Nothing that is promised, or in anybody's hands, changes.
LEMMA StutterPromises ==
  ASSUME Inv, Promises, UNCHANGED vars PROVE Promises'
<1>1. UNCHANGED <<store, entries, marked, pointed, links, cut, pc, cmd, pool, subs, updates, unflushed,
                  todo, shows>>
  BY DEF vars, diskVars, graphVars, workspaceVars, localVars
<1>2. \A q \in Proc : Kept(q)
  BY <1>1 DEF Kept
<1>3. Hands'
  <2>1. ASSUME NEW q \in Proc PROVE Hand(q)'
    BY <1>1, <1>2, HandElsewhere DEF Promises
  <2>2. QED
    BY <2>1 DEF Hands
<1>4. \A q \in Proc : /\ Consumers(q)' = Consumers(q) /\ (Writing(q)' <=> Writing(q))
                      /\ \A t, by : ToRecord(q, t, by)' <=> ToRecord(q, t, by)
                      /\ \A a : ToMark(q, a)' <=> ToMark(q, a)
                      /\ \A r : ToShow(q, r)' <=> ToShow(q, r)
  BY <1>2, KeptFacts
<1>5. Recorded'
  <2>. SUFFICES ASSUME NEW a \in Asset \ cut', NEW n \in DOMAIN store'[a][0],
                       IsBranch(store'[a][0][n].spec)
                PROVE  \A t : t = store'[a][0][n].spec =>
                         \/ Entered(t, Branch(a))'
                         \/ \E q \in Proc : Writing(q)' /\ ToRecord(q, t, Branch(a))'
    BY DEF Recorded
  <2>1. PICK t : t = store[a][0][n].spec
    OBVIOUS
  <2>2. \/ Entered(t, Branch(a))
        \/ \E q \in Proc : Writing(q) /\ ToRecord(q, t, Branch(a))
    BY <1>1, <2>1 DEF Promises, Recorded
  <2>3. Entered(t, Branch(a)) => Entered(t, Branch(a))'
    BY <1>1 DEF Entered
  <2>4. QED
    BY <1>1, <1>4, <2>1, <2>2, <2>3
<1>6. MarkedOrWill'
  BY <1>1, <1>4 DEF Promises, MarkedOrWill
<1>7. Desk'
  <2>1. /\ UNCHANGED store /\ cut \subseteq cut' /\ pointed \subseteq pointed'
        /\ DOMAIN links \subseteq DOMAIN links' /\ pointed' \ pointed = {}
        /\ \A r \in pointed : ~IsBranch(r) => links'[r] = links[r]
    BY <1>1
  <2>2. QED
    BY <2>1, DeskStep DEF Promises
<1>8. AlignedOrWill'
  <2>1. \A a \in Asset : Aligned(a)' <=> Aligned(a)
    BY <1>1 DEF Aligned
  <2>2. QED
    BY <1>1, <1>4, <2>1 DEF Promises, AlignedOrWill
<1>9. QED
  BY <1>3, <1>5, <1>6, <1>7, <1>8 DEF Promises

\* Every step keeps what is promised or takes it in hand.
LEMMA StepPromises == Inv /\ Inv' /\ Promises /\ [Next]_vars => Promises'
<1>. SUFFICES ASSUME Inv, Inv', Promises, [Next]_vars PROVE Promises'
  OBVIOUS
<1>1. CASE UNCHANGED vars
  BY <1>1, StutterPromises
<1>2. ASSUME NEW p \in Proc, NEW c \in Commands, Start(p, c) PROVE Promises'
  BY <1>2, StartLeaves, LeavesPromises
<1>3. ASSUME NEW p \in Proc, Crash(p) PROVE Promises'
  BY <1>3, ExitLeaves, LeavesPromises
<1>4. ASSUME NEW p \in Proc, Step(p) PROVE Promises'
  <2>1. CASE Discover(p) \/ Descend(p) \/ Return(p) \/ DiscoverFails(p)
    BY <2>1, SearchLeaves, LeavesPromises
  <2>2. CASE Begin(p) \/ Conflicts(p) \/ Invalid(p) \/ UpdateFails(p) \/ FlushFails(p) \/ EndFinish(p)
    BY <2>2, MovesLeave, LeavesPromises
  <2>3. CASE Validate(p)
    BY <2>3, ValidateLeaves, LeavesPromises
  <2>4. CASE End(p)
    BY <2>4, ExitLeaves, LeavesPromises
  <2>5. CASE Update(p) \/ Flush(p) \/ EndFlush(p)
    BY <2>5, UpdatePromises, FlushPromises, EndFlushPromises
  <2>6. CASE NextUpdate(p) \/ CacheRead(p) \/ CacheWrite(p)
    BY <2>6, NextUpdatePromises, CacheReadPromises, CacheWritePromises
  <2>7. CASE AddEntry(p) \/ RemoveDependent(p) \/ MarkDependentsStale(p)
    BY <2>7, AddEntryPromises, RemoveDependentPromises, MarkDependentsStalePromises
  <2>8. CASE TouchMarker(p) \/ FinishFails(p)
    BY <2>8, TouchMarkerPromises, FinishFailsPromises
  <2>9. CASE PresentSources(p) \/ PresentCommit(p) \/ PresentCommitAlone(p)
    BY <2>9, PresentSourcesPromises, PresentCommitPromises, PresentCommitAlonePromises
  <2>10. CASE LinkSource(p) \/ WritePointer(p) \/ PresentFails(p)
    BY <2>10, LinkSourcePromises, WritePointerPromises, PresentFailsPromises
  <2>11. QED
    BY <1>4, <2>1, <2>2, <2>3, <2>4, <2>5, <2>6, <2>7, <2>8, <2>9, <2>10 DEF Step
<1>5. QED
  BY <1>1, <1>2, <1>3, <1>4 DEF Next

\* What is to be derived from the asset files is there, or a process that has it
\* in its hands is still at work, or an error or a crash cut it short.
THEOREM PromisesKept == Spec => [](Inv /\ Promises)
<1>1. Init => Inv /\ Promises
  BY InitInv, InitPromises
<1>2. Inv /\ Promises /\ [Next]_vars => (Inv /\ Promises)'
  BY StepInv, StepPromises
<1>3. QED
  BY <1>1, <1>2, PTL DEF Spec

\* What is in the hands of a process that writes is about its own branches.
LEMMA InHand ==
  ASSUME Inv, Promises, NEW a \in Asset, ~Busy(a), NEW p \in Proc, Writing(p)
  PROVE  ~ToShow(p, Branch(a)) /\ \A t : ~ToRecord(p, t, Branch(a))
<1>1. a \notin Consumers(p) /\ Branch(a)[1] = a
  BY DEF Busy, Writing, Branch
<1>2. QED
  BY <1>1, ShowFacts DEF Promises

\* A push finds everybody who follows the branch: each of them is an entry there
\* when its command is over (sourcepush.go).
THEOREM EveryFollowerRecorded == Spec => []FollowersRecorded
<1>1. Inv /\ Promises => FollowersRecorded
  <2>. SUFFICES ASSUME Inv, Promises, NEW a \in Asset \ cut, ~Busy(a), NEW n \in DOMAIN store[a][0],
                       IsBranch(store[a][0][n].spec)
                PROVE  Entered(store[a][0][n].spec, Branch(a))
    BY DEF FollowersRecorded, Entered
  <2>1. \A p \in Proc : Writing(p) => ~ToRecord(p, store[a][0][n].spec, Branch(a))
    BY InHand
  <2>2. QED
    BY <2>1 DEF Promises, Recorded
<1>2. QED
  BY <1>1, PromisesKept, PTL

\* A cached reverse graph without a marker has every direct dependent whose command
\* is over: no entry is made that is not marked afterwards (dependedby.go).
THEOREM ReverseCachesRight == Spec => []ReverseCachedRight
<1>1. Promises => ReverseCachedRight
  <2>. SUFFICES ASSUME Promises, NEW r \in Live, Hit(r), NEW e \in entries, e.target = r
                PROVE  Busy(e.by[1]) \/ e.by[1] \in cut
    BY DEF ReverseCachedRight
  <2>1. e.target[1] \notin marked
    BY DEF Hit
  <2>2. QED
    BY <2>1 DEF Promises, MarkedOrWill, Busy, Writing
<1>2. QED
  BY <1>1, PromisesKept, PTL

\* A commit with a pointer has all its sources linked, to commits that have one:
\* the pointer is written last (workspace.go).
THEOREM EveryPresentedWhole == Spec => []PresentedWhole
<1>1. Promises => PresentedWhole
  BY DEF Promises, Desk, Whole, Linked, PresentedWhole
<1>2. QED
  BY <1>1, PromisesKept, PTL

\* The links of a branch lead to what it is pinned to when its command is over.
THEOREM BranchesShowPins == Spec => []BranchShowsPins
<1>1. Inv /\ Promises => BranchShowsPins
  <2>. SUFFICES ASSUME Inv, Promises, NEW a \in Asset \ cut, ~Busy(a) PROVE Aligned(a)
    BY DEF BranchShowsPins, Aligned
  <2>1. QED
    BY InHand DEF Promises, AlignedOrWill
<1>2. QED
  BY <1>1, PromisesKept, PTL
=============================================================================
