--------------------------- MODULE HistoryProofs ---------------------------
(***************************************************************************)
(* The activity log, for any number of processes, entries and faults.      *)
(*                                                                         *)
(* LogInv: who is in the lock holds it, so what findActiveSegment told its *)
(* caller is still so when it writes.  ReadInv, on top of it: what was     *)
(* recorded when a reader began is in what it has read, in a segment that  *)
(* it has still to read, or nowhere; a write changes no segment that was   *)
(* not the last one when it was listed.  KeptInv: each entry that is lost, *)
(* and each line that waits without its end to spoil another one, is paid  *)
(* for by one write that was cut short.                                    *)
(***************************************************************************)
EXTENDS History, FiniteSetTheorems, TLAPS

\* A segment without an end has a line that lacks it.
UnendedHasLine ==
    \A i \in DOMAIN segments : ~segments[i].ended => segments[i].lines # <<>>

\* Whoever is in the lock holds it.
LockHeld == \A p \in Proc : doing[p] \in InLock => logLock = p

\* Whoever is to write has something to write, and room for it.
HasRoom ==
    \A p \in Proc :
        /\ doing[p] \in InLock \cup {"lock"} => entry[p] \in Entry
        /\ doing[p] = "append" =>
             /\ active[p] \in 1 .. Len(segments) + 1
             /\ active[p] <= Len(segments) =>
                  Len(segments[active[p]].lines) < MaxEntriesPerSegment

\* What a reader has still to read exists.
UnreadThere == \A p \in Proc : \A k \in DOMAIN unread[p] : unread[p][k] \in 1 .. Len(segments)

LogInv == TypeOKLog /\ UnendedHasLine /\ LockHeld /\ HasRoom /\ UnreadThere /\ SegmentsBounded

-----------------------------------------------------------------------------
(* What a write does.                                                      *)

\* The segment that is written to, as it was.
Before(i) == IF i > Len(segments) THEN NewSegment ELSE segments[i]

\* The file is there, and all the others are what they were.
LEMMA OpenedFacts ==
  ASSUME segments \in Seq(Segment), NEW i \in 1 .. Len(segments) + 1
  PROVE  /\ Opened(i) \in Seq(Segment)
         /\ Len(Opened(i)) = IF i > Len(segments) THEN i ELSE Len(segments)
         /\ Opened(i)[i] = Before(i)
         /\ Before(i) \in Segment
         /\ \A j \in 1 .. Len(segments) : Opened(i)[j] = segments[j]
<1>1. NewSegment \in Segment
  BY DEF NewSegment, Segment
<1>2. CASE i > Len(segments)
  BY <1>1, <1>2 DEF Opened, Before
<1>3. CASE i <= Len(segments)
  BY <1>3 DEF Opened, Before
<1>4. QED
  BY <1>2, <1>3

\* One line at most is added, and no entry but the one that is written.
LEMMA WriteLineFacts ==
  ASSUME NEW s \in Segment, ~s.ended => s.lines # <<>>,
         NEW x \in Entry \cup {Garbage}, NEW b \in BOOLEAN
  PROVE  /\ WriteLine(s, x, b) \in Segment
         /\ WriteLine(s, x, b).ended = b
         /\ WriteLine(s, x, b).lines # <<>>
         /\ Len(WriteLine(s, x, b).lines) <= Len(s.lines) + 1
         /\ ~s.ended => Len(WriteLine(s, x, b).lines) = Len(s.lines)
         /\ EntriesOf(WriteLine(s, x, b)) \subseteq EntriesOf(s) \cup {x}
<1> DEFINE w == WriteLine(s, x, b)
<1>0. s.lines \in Seq(Entry \cup {Garbage}) /\ s.ended \in BOOLEAN
  BY DEF Segment
<1>1. CASE s.ended
  <2>1. w = [lines |-> Append(s.lines, x), ended |-> b]
    BY <1>1 DEF WriteLine
  <2>2. /\ Append(s.lines, x) \in Seq(Entry \cup {Garbage})
        /\ Len(Append(s.lines, x)) = Len(s.lines) + 1
        /\ \A k \in 1 .. Len(s.lines) + 1 :
             Append(s.lines, x)[k] = IF k <= Len(s.lines) THEN s.lines[k] ELSE x
    BY <1>0
  <2>3. QED
    BY <1>0, <1>1, <2>1, <2>2 DEF Segment, EntriesOf, ToSet
<1>2. CASE ~s.ended
  <2>1. w = [lines |-> [s.lines EXCEPT ![Len(s.lines)] = Garbage], ended |-> b]
    BY <1>2 DEF WriteLine
  <2>2. w.lines = [k \in 1 .. Len(s.lines) |->
                     IF k = Len(s.lines) THEN Garbage ELSE s.lines[k]]
    BY <1>0, <2>1
  <2>3. \A k \in 1 .. Len(s.lines) : s.lines[k] \in Entry \cup {Garbage}
    BY <1>0
  <2>4. Len(s.lines) \in Nat \ {0}
    BY <1>0, <1>2
  <2>5. /\ w.lines \in Seq(Entry \cup {Garbage})
        /\ Len(w.lines) = Len(s.lines)
    BY <2>2, <2>3, <2>4
  <2>6. QED
    BY <1>0, <1>2, <2>1, <2>2, <2>3, <2>4, <2>5 DEF Segment, EntriesOf, ToSet
<1>3. QED
  BY <1>0, <1>1, <1>2

\* The segments after a write to segment i.
LEMMA Written ==
  ASSUME LogInv, NEW i \in 1 .. Len(segments) + 1,
         i <= Len(segments) => Len(segments[i].lines) < MaxEntriesPerSegment,
         NEW x \in Entry \cup {Garbage}, NEW b \in BOOLEAN,
         segments' = [Opened(i) EXCEPT ![i] = WriteLine(@, x, b)]
  PROVE  /\ segments' \in Seq(Segment)
         /\ Len(segments') = IF i > Len(segments) THEN i ELSE Len(segments)
         /\ \A j \in 1 .. Len(segments) : j # i => segments'[j] = segments[j]
         /\ segments'[i] = WriteLine(Before(i), x, b)
         /\ Before(i) \in Segment
         /\ ~Before(i).ended => Before(i).lines # <<>>
         /\ Len(segments'[i].lines) <= MaxEntriesPerSegment
<1>1. /\ Opened(i) \in Seq(Segment)
      /\ Len(Opened(i)) = IF i > Len(segments) THEN i ELSE Len(segments)
      /\ Opened(i)[i] = Before(i)
      /\ Before(i) \in Segment
      /\ \A j \in 1 .. Len(segments) : Opened(i)[j] = segments[j]
  BY OpenedFacts DEF LogInv, TypeOKLog
<1>2. /\ ~Before(i).ended => Before(i).lines # <<>>
      /\ Len(Before(i).lines) < MaxEntriesPerSegment
  BY HistoryAssumption DEF LogInv, TypeOKLog, UnendedHasLine, Before, NewSegment
<1>3. /\ WriteLine(Before(i), x, b) \in Segment
      /\ Len(WriteLine(Before(i), x, b).lines) <= MaxEntriesPerSegment
  <2>1. Len(WriteLine(Before(i), x, b).lines) <= Len(Before(i).lines) + 1
    BY <1>1, <1>2, WriteLineFacts
  <2>2. WriteLine(Before(i), x, b) \in Segment
    BY <1>1, <1>2, WriteLineFacts
  <2>3. Len(Before(i).lines) \in Nat /\ Len(WriteLine(Before(i), x, b).lines) \in Nat
    BY <1>1, <2>2 DEF Segment
  <2>4. QED
    BY <1>2, <2>1, <2>2, <2>3, HistoryAssumption
<1>4. segments' = [Opened(i) EXCEPT ![i] = WriteLine(Before(i), x, b)]
  BY <1>1
<1>5. i \in 1 .. Len(Opened(i)) /\ Len(segments) \in Nat
  BY <1>1 DEF LogInv, TypeOKLog
<1>6. QED
  BY <1>1, <1>2, <1>3, <1>4, <1>5

-----------------------------------------------------------------------------
(* Types and bounds.                                                       *)

\* A write leaves types, lines and bounds in order, and puts its entry nowhere
\* but where others are.
LEMMA WriteStep ==
  ASSUME LogInv, NEW p \in Proc, AppendEntry(p) \/ AppendCut(p) \/ AppendFails(p)
  PROVE  /\ segments' \in Seq(Segment)
         /\ Len(segments') >= Len(segments)
         /\ UnendedHasLine'
         /\ SegmentsBounded'
         /\ \A j \in 1 .. Len(segments') :
              EntriesOf(segments'[j]) \subseteq EntriesOf(Before(j)) \cup {entry[p]}
<1> DEFINE i == active[p]
<1>0. /\ segments \in Seq(Segment) /\ Len(segments) \in Nat
      /\ entry[p] \in Entry \cup {Garbage}
  BY DEF LogInv, TypeOKLog
<1>1. ASSUME doing[p] = "append",
             NEW x \in {entry[p], Garbage}, NEW b \in BOOLEAN,
             segments' = [Opened(i) EXCEPT ![i] = WriteLine(@, x, b)]
      PROVE  /\ segments' \in Seq(Segment)
             /\ Len(segments') >= Len(segments)
             /\ UnendedHasLine'
             /\ SegmentsBounded'
             /\ \A j \in 1 .. Len(segments') :
                  EntriesOf(segments'[j]) \subseteq EntriesOf(Before(j)) \cup {entry[p]}
  <2>1. /\ i \in 1 .. Len(segments) + 1
        /\ i <= Len(segments) => Len(segments[i].lines) < MaxEntriesPerSegment
    BY <1>1 DEF LogInv, HasRoom
  <2>2. /\ segments' \in Seq(Segment)
        /\ Len(segments') = IF i > Len(segments) THEN i ELSE Len(segments)
        /\ \A j \in 1 .. Len(segments) : j # i => segments'[j] = segments[j]
        /\ segments'[i] = WriteLine(Before(i), x, b)
        /\ Before(i) \in Segment
        /\ ~Before(i).ended => Before(i).lines # <<>>
        /\ Len(segments'[i].lines) <= MaxEntriesPerSegment
    BY <1>0, <1>1, <2>1, Written
  <2>3. /\ WriteLine(Before(i), x, b).lines # <<>>
        /\ EntriesOf(WriteLine(Before(i), x, b)) \subseteq EntriesOf(Before(i)) \cup {entry[p]}
    <3>1. /\ WriteLine(Before(i), x, b).lines # <<>>
          /\ EntriesOf(WriteLine(Before(i), x, b)) \subseteq EntriesOf(Before(i)) \cup {x}
      BY <1>0, <2>2, WriteLineFacts
    <3>2. QED
      BY <3>1 DEF EntriesOf
  <2>4. \A j \in 1 .. Len(segments') : j = i \/ (j \in 1 .. Len(segments) /\ segments'[j] = segments[j])
    BY <1>0, <2>1, <2>2
  <2>5. \A j \in 1 .. Len(segments') :
           EntriesOf(segments'[j]) \subseteq EntriesOf(Before(j)) \cup {entry[p]}
    BY <1>0, <2>2, <2>3, <2>4 DEF Before
  <2>6. QED
    BY <1>0, <2>2, <2>3, <2>4, <2>5 DEF LogInv, UnendedHasLine, SegmentsBounded
<1>2. CASE AppendEntry(p)
  BY <1>0, <1>1, <1>2 DEF AppendEntry
<1>3. CASE AppendCut(p)
  <2>1. PICK x \in {entry[p], Garbage} :
          segments' = [Opened(i) EXCEPT ![i] = WriteLine(@, x, FALSE)]
    BY <1>3 DEF AppendCut
  <2>2. QED
    BY <1>0, <1>1, <1>3, <2>1 DEF AppendCut
<1>4. CASE AppendFails(p)
  <2>1. CASE segments' = segments
    BY <1>0, <2>1 DEF LogInv, UnendedHasLine, SegmentsBounded, Before
  <2>2. CASE doing[p] = "append" /\ segments' = Opened(i)
    <3>1. i \in 1 .. Len(segments) + 1
      BY <2>2 DEF LogInv, HasRoom
    <3>2. /\ Opened(i) \in Seq(Segment)
          /\ Len(Opened(i)) = IF i > Len(segments) THEN i ELSE Len(segments)
          /\ Opened(i)[i] = Before(i)
          /\ \A j \in 1 .. Len(segments) : Opened(i)[j] = segments[j]
      BY <1>0, <3>1, OpenedFacts
    <3>3. i > Len(segments) => Opened(i)[i] = NewSegment
      BY <3>2 DEF Before
    <3>4. NewSegment.ended = TRUE /\ Len(NewSegment.lines) = 0
      BY DEF NewSegment
    <3>5. \A j \in 1 .. Len(segments') :
            \/ j \in 1 .. Len(segments) /\ segments'[j] = segments[j]
            \/ segments'[j] = NewSegment
      BY <1>0, <2>2, <3>1, <3>2, <3>3
    <3>6. EntriesOf(NewSegment) = {}
      BY DEF EntriesOf, ToSet, NewSegment
    <3>7. \A j \in 1 .. Len(segments') : EntriesOf(segments'[j]) \subseteq EntriesOf(Before(j))
      BY <1>0, <3>5, <3>6 DEF Before
    <3>8. QED
      BY <1>0, <2>2, <3>1, <3>2, <3>4, <3>5, <3>7, HistoryAssumption
      DEF LogInv, UnendedHasLine, SegmentsBounded
  <2>3. CASE doing[p] = "append" /\ segments' = [Opened(i) EXCEPT ![i] = WriteLine(@, entry[p], TRUE)]
    BY <1>0, <1>1, <2>3
  <2>4. QED
    BY <1>4, <2>1, <2>2, <2>3 DEF AppendFails
<1>5. QED
  BY <1>2, <1>3, <1>4

\* The inductive step: one case per call.
LEMMA LogInvStep ==
  ASSUME LogInv, [NextLog]_logVars PROVE LogInv'
<1> USE HistoryAssumption DEF Now, LogFault, readerVars
<1>0. TypeOKLog /\ Len(segments) \in Nat
  BY DEF LogInv, TypeOKLog
<1>1. ASSUME NEW p \in Proc, NEW e \in Entry, Record(p, e) PROVE LogInv'
  BY <1>0, <1>1 DEF Record, LogInv, TypeOKLog, UnendedHasLine, LockHeld, HasRoom, UnreadThere,
     SegmentsBounded, Doing, InLock
<1>2. ASSUME NEW p \in Proc, LogLocked(p) PROVE LogInv'
  <2>1. LockHeld'
    BY <1>0, <1>2 DEF LogLocked, Log!Acquire, LogInv, TypeOKLog, LockHeld, Doing, InLock
  <2>2. QED
    BY <1>0, <1>2, <2>1 DEF LogLocked, Log!Acquire, LogInv, TypeOKLog, UnendedHasLine, HasRoom, UnreadThere,
       SegmentsBounded, Doing, InLock
<1>3. ASSUME NEW p \in Proc, LogLockTimeout(p) PROVE LogInv'
  BY <1>0, <1>3 DEF LogLockTimeout, LogInv, TypeOKLog, UnendedHasLine, LockHeld, HasRoom, UnreadThere,
     SegmentsBounded, Doing, InLock
<1>4. ASSUME NEW p \in Proc, FindActive(p) PROVE LogInv'
  <2>1. HasRoom'
    BY <1>0, <1>4 DEF FindActive, Full, Last, LogInv, TypeOKLog, Segment, HasRoom, InLock
  <2>2. QED
    BY <1>0, <1>4, <2>1 DEF FindActive, LogInv, TypeOKLog, UnendedHasLine, LockHeld, UnreadThere,
       SegmentsBounded, Doing, InLock
<1>5. ASSUME NEW p \in Proc, AppendEntry(p) \/ AppendCut(p) \/ AppendFails(p) PROVE LogInv'
  <2>1. /\ segments' \in Seq(Segment) /\ Len(segments') >= Len(segments)
        /\ UnendedHasLine' /\ SegmentsBounded'
    BY <1>5, WriteStep
  <2>2. /\ doing[p] \in {"find", "append"}
        /\ \E d \in {"done", "failed"} : doing' = [doing EXCEPT ![p] = d]
        /\ UNCHANGED <<logLock, entry, active, readerVars, recorded>>
        /\ cuts' \in Nat /\ faults' \in Nat
    <3>1. CASE AppendEntry(p) BY <1>0, <3>1 DEF AppendEntry, TypeOKLog
    <3>2. CASE AppendCut(p) BY <1>0, <3>2 DEF AppendCut, TypeOKLog
    <3>3. CASE AppendFails(p) BY <1>0, <3>3 DEF AppendFails, TypeOKLog
    <3>4. QED
      BY <1>5, <3>1, <3>2, <3>3
  <2>3. \A q \in Proc : doing'[q] \in InLock => doing[q] \in InLock
    BY <1>0, <2>2 DEF TypeOKLog, InLock
  <2>4. \A q \in Proc : doing'[q] # "append"
    <3>1. \A q \in Proc : q # p => doing[q] # "append"
      BY <1>0, <2>2 DEF LogInv, LockHeld, InLock
    <3>2. QED
      BY <1>0, <2>2, <3>1 DEF TypeOKLog
  <2>5. HasRoom'
    BY <1>0, <2>2, <2>3, <2>4 DEF LogInv, HasRoom, TypeOKLog, InLock
  <2>6. TypeOKLog'
    BY <1>0, <2>1, <2>2 DEF TypeOKLog, Doing, InLock
  <2>7. LockHeld'
    BY <2>2, <2>3 DEF LogInv, LockHeld
  <2>8. UnreadThere'
    BY <1>0, <2>1, <2>2, <2>6 DEF LogInv, UnreadThere, TypeOKLog
  <2>9. QED
    BY <2>1, <2>5, <2>6, <2>7, <2>8 DEF LogInv
<1>6. ASSUME NEW p \in Proc, Unlock(p) PROVE LogInv'
  <2>1. \A q \in Proc : q # p => doing[q] \notin InLock
    BY <1>6 DEF Unlock, LogInv, LockHeld, InLock
  <2>2. TypeOKLog'
    BY <1>0, <1>6 DEF Unlock, Log!Release, LogInv, TypeOKLog, HasRoom, Doing, InLock
  <2>3. LockHeld' /\ HasRoom'
    BY <1>0, <1>6, <2>1 DEF Unlock, LogInv, TypeOKLog, LockHeld, HasRoom, InLock
  <2>4. QED
    BY <1>6, <2>2, <2>3 DEF Unlock, LogInv, UnendedHasLine, UnreadThere, SegmentsBounded
<1>7. ASSUME NEW p \in Proc, List(p) PROVE LogInv'
  <2>1. [j \in DOMAIN segments |-> j] \in Seq(Nat)
    BY <1>0 DEF TypeOKLog
  <2>2. QED
    BY <1>0, <1>7, <2>1 DEF List, LogInv, TypeOKLog, UnendedHasLine, LockHeld, HasRoom, UnreadThere,
       SegmentsBounded, Doing, InLock
<1>8. ASSUME NEW p \in Proc, ReadSegment(p) PROVE LogInv'
  <2> DEFINE s == segments[Head(unread[p])]
  <2>1. /\ unread[p] \in Seq(Nat) /\ unread[p] # <<>>
        /\ Head(unread[p]) \in 1 .. Len(segments)
    BY <1>0, <1>8 DEF ReadSegment, TypeOKLog, LogInv, UnreadThere
  <2>2. s \in Segment
    BY <1>0, <2>1 DEF TypeOKLog
  <2>3. EntriesOf(s) \subseteq Entry
    BY <2>2 DEF EntriesOf, ToSet, Segment
  <2>4. /\ Tail(unread[p]) \in Seq(Nat)
        /\ \A k \in DOMAIN Tail(unread[p]) : Tail(unread[p])[k] \in 1 .. Len(segments)
    BY <1>0, <2>1 DEF LogInv, UnreadThere
  <2>5. TypeOKLog' /\ UnreadThere'
    BY <1>0, <1>8, <2>3, <2>4 DEF ReadSegment, TypeOKLog, LogInv, UnreadThere
  <2>6. QED
    BY <1>0, <1>8, <2>5 DEF ReadSegment, LogInv, UnendedHasLine, LockHeld, HasRoom, UnreadThere,
       SegmentsBounded
<1>9. ASSUME NEW p \in Proc, EndRead(p) PROVE LogInv'
  BY <1>0, <1>9 DEF EndRead, LogInv, TypeOKLog, UnendedHasLine, LockHeld, HasRoom, UnreadThere,
     SegmentsBounded, Doing, InLock
<1>10. ASSUME NEW p \in Proc, LogCrash(p) PROVE LogInv'
  BY <1>0, <1>10 DEF LogCrash, LogInv, TypeOKLog, UnendedHasLine, LockHeld, HasRoom, UnreadThere,
     SegmentsBounded, Doing, InLock
<1>11. ASSUME NEW p \in Proc, LogLockExpires(p) PROVE LogInv'
  BY <1>0, <1>11 DEF LogLockExpires, Log!Release, LogInv, TypeOKLog, UnendedHasLine, LockHeld, HasRoom, UnreadThere,
     SegmentsBounded, Doing, InLock
<1>12. CASE UNCHANGED logVars
  BY <1>12 DEF logVars, LogInv, TypeOKLog, UnendedHasLine, LockHeld, HasRoom, UnreadThere, SegmentsBounded
<1>13. QED
  BY <1>1, <1>2, <1>3, <1>4, <1>5, <1>6, <1>7, <1>8, <1>9, <1>10, <1>11, <1>12
  DEF NextLog, Recording, Reading

\* The lock, the segments and those who read and write them agree.
THEOREM LogInvariant == SpecLog => []LogInv
<1>1. InitLog => LogInv
  BY HistoryAssumption DEF InitLog, LogInv, TypeOKLog, UnendedHasLine, LockHeld, HasRoom,
     UnreadThere, SegmentsBounded, Doing, InLock
<1>2. LogInv /\ [NextLog]_logVars => LogInv'
  BY LogInvStep
<1>3. QED
  BY <1>1, <1>2, PTL DEF SpecLog

\* No segment outgrows its limit.
THEOREM Bounded == SpecLog => []SegmentsBounded
<1>1. LogInv => SegmentsBounded
  BY DEF LogInv
<1>2. QED
  BY <1>1, LogInvariant, PTL

-----------------------------------------------------------------------------
(* Readers.                                                                *)

\* No two processes record the same entry, and nobody one that is recorded.
EntryFresh ==
    \A p \in Proc :
        /\ entry[p] \notin recorded
        /\ \A q \in Proc : q # p /\ entry[p] \in Entry => entry[q] # entry[p]

OwedRecorded == \A p \in Proc : owed[p] \subseteq recorded

\* What a reader is owed and has not seen is in a segment that it has not read.
NothingMissed ==
    \A p \in Proc : doing[p] = "read" => \A j \in 1 .. Len(segments) :
        \/ \E k \in DOMAIN unread[p] : unread[p][k] = j
        \/ EntriesOf(segments[j]) \cap owed[p] \subseteq seen[p]

ReadInv == EntryFresh /\ OwedRecorded /\ NothingMissed

\* The inductive step of the readers: only a new entry, a write and a read
\* matter to it.
LEMMA ReadStep ==
  ASSUME LogInv, ReadInv, [NextLog]_logVars PROVE ReadInv'
<1> USE HistoryAssumption DEF Now, readerVars
<1>0. TypeOKLog /\ Len(segments) \in Nat
  BY DEF LogInv, TypeOKLog
<1>1. ASSUME NEW p \in Proc, NEW e \in Entry, Fresh(e), Record(p, e) PROVE ReadInv'
  BY <1>0, <1>1 DEF Record, Fresh, ReadInv, EntryFresh, OwedRecorded, NothingMissed, TypeOKLog
<1>2. ASSUME NEW p \in Proc, LogLocked(p) PROVE ReadInv'
  BY <1>0, <1>2 DEF LogLocked, ReadInv, EntryFresh, OwedRecorded, NothingMissed, TypeOKLog
<1>3. ASSUME NEW p \in Proc, LogLockTimeout(p) PROVE ReadInv'
  BY <1>0, <1>3 DEF LogLockTimeout, ReadInv, EntryFresh, OwedRecorded, NothingMissed, TypeOKLog
<1>4. ASSUME NEW p \in Proc, FindActive(p) PROVE ReadInv'
  BY <1>0, <1>4 DEF FindActive, ReadInv, EntryFresh, OwedRecorded, NothingMissed, TypeOKLog
<1>5. ASSUME NEW p \in Proc, AppendEntry(p) \/ AppendCut(p) \/ AppendFails(p) PROVE ReadInv'
  <2>1. /\ segments' \in Seq(Segment) /\ Len(segments') >= Len(segments)
        /\ \A j \in 1 .. Len(segments') :
             EntriesOf(segments'[j]) \subseteq EntriesOf(Before(j)) \cup {entry[p]}
    BY <1>5, WriteStep
  <2>2. /\ doing[p] \in {"find", "append"}
        /\ \E d \in {"done", "failed"} : doing' = [doing EXCEPT ![p] = d]
        /\ UNCHANGED <<entry, readerVars, recorded>>
    <3>1. CASE AppendEntry(p) BY <3>1 DEF AppendEntry
    <3>2. CASE AppendCut(p) BY <3>2 DEF AppendCut
    <3>3. CASE AppendFails(p) BY <3>3 DEF AppendFails
    <3>4. QED
      BY <1>5, <3>1, <3>2, <3>3
  <2>3. \A q \in Proc : entry[p] \notin owed[q]
    BY DEF ReadInv, EntryFresh, OwedRecorded
  <2>4. EntriesOf(NewSegment) = {}
    BY DEF EntriesOf, ToSet, NewSegment
  <2>5. ASSUME NEW q \in Proc, doing'[q] = "read", NEW j \in 1 .. Len(segments'),
               \A k \in DOMAIN unread'[q] : unread'[q][k] # j
        PROVE  EntriesOf(segments'[j]) \cap owed'[q] \subseteq seen'[q]
    <3>1. doing[q] = "read"
      BY <1>0, <2>2, <2>5 DEF TypeOKLog
    <3>2. EntriesOf(Before(j)) \cap owed[q] \subseteq seen[q]
      BY <1>0, <2>1, <2>2, <2>4, <2>5, <3>1 DEF ReadInv, NothingMissed, Before
    <3>3. QED
      BY <2>1, <2>2, <2>3, <3>2
  <2>6. QED
    BY <2>2, <2>5 DEF ReadInv, EntryFresh, OwedRecorded, NothingMissed
<1>6. ASSUME NEW p \in Proc, Unlock(p) PROVE ReadInv'
  <2>1. entry[p] \in Entry
    BY <1>6 DEF Unlock, LogInv, HasRoom, InLock
  <2>2. EntryFresh'
    BY <1>0, <1>6, <2>1 DEF Unlock, ReadInv, EntryFresh, TypeOKLog
  <2>3. OwedRecorded' /\ NothingMissed'
    BY <1>0, <1>6 DEF Unlock, ReadInv, OwedRecorded, NothingMissed, TypeOKLog
  <2>4. QED
    BY <2>2, <2>3 DEF ReadInv
<1>7. ASSUME NEW p \in Proc, List(p) PROVE ReadInv'
  <2>1. unread'[p] = [j \in 1 .. Len(segments) |-> j]
    BY <1>0, <1>7 DEF List, TypeOKLog
  <2>2. \A j \in 1 .. Len(segments) : j \in DOMAIN unread'[p] /\ unread'[p][j] = j
    BY <2>1
  <2>3. NothingMissed'
    BY <1>0, <1>7, <2>2 DEF List, ReadInv, NothingMissed, TypeOKLog
  <2>4. QED
    BY <1>0, <1>7, <2>3 DEF List, ReadInv, EntryFresh, OwedRecorded, TypeOKLog
<1>8. ASSUME NEW p \in Proc, ReadSegment(p) PROVE ReadInv'
  <2>1. /\ unread[p] \in Seq(Nat) /\ unread[p] # <<>>
        /\ unread'[p] = Tail(unread[p])
        /\ seen'[p] = seen[p] \cup EntriesOf(segments[Head(unread[p])])
        /\ \A q \in Proc \ {p} : unread'[q] = unread[q] /\ seen'[q] = seen[q]
    BY <1>0, <1>8 DEF ReadSegment, TypeOKLog
  <2>2. \A k \in DOMAIN unread[p] :
           k = 1 \/ (k - 1 \in DOMAIN Tail(unread[p]) /\ Tail(unread[p])[k - 1] = unread[p][k])
    BY <2>1
  <2>3. NothingMissed'
    <3>1. ASSUME NEW q \in Proc, doing[q] = "read", NEW j \in 1 .. Len(segments),
                 \A k \in DOMAIN unread'[q] : unread'[q][k] # j
          PROVE  EntriesOf(segments[j]) \cap owed[q] \subseteq seen'[q]
      <4>1. CASE q # p
        BY <2>1, <3>1, <4>1 DEF ReadInv, NothingMissed
      <4>2. CASE q = p /\ unread[p][1] = j
        BY <2>1, <4>2
      <4>3. CASE q = p /\ unread[p][1] # j
        <5>1. \A k \in DOMAIN Tail(unread[p]) : Tail(unread[p])[k] # j
          BY <2>1, <3>1, <4>3
        <5>2. \A k \in DOMAIN unread[p] : unread[p][k] # j
          BY <2>2, <4>3, <5>1
        <5>3. QED
          BY <2>1, <3>1, <4>3, <5>2 DEF ReadInv, NothingMissed
      <4>4. QED
        BY <4>1, <4>2, <4>3
    <3>2. QED
      BY <1>8, <3>1 DEF ReadSegment, NothingMissed
  <2>4. QED
    BY <1>8, <2>3 DEF ReadSegment, ReadInv, EntryFresh, OwedRecorded
<1>9. ASSUME NEW p \in Proc, EndRead(p) PROVE ReadInv'
  BY <1>0, <1>9 DEF EndRead, ReadInv, EntryFresh, OwedRecorded, NothingMissed, TypeOKLog
<1>10. ASSUME NEW p \in Proc, LogCrash(p) PROVE ReadInv'
  BY <1>0, <1>10 DEF LogCrash, ReadInv, EntryFresh, OwedRecorded, NothingMissed, TypeOKLog
<1>11. ASSUME NEW p \in Proc, LogLockExpires(p) PROVE ReadInv'
  BY <1>11 DEF LogLockExpires, ReadInv, EntryFresh, OwedRecorded, NothingMissed
<1>12. CASE UNCHANGED logVars
  BY <1>12 DEF logVars, ReadInv, EntryFresh, OwedRecorded, NothingMissed
<1>13. QED
  BY <1>1, <1>2, <1>3, <1>4, <1>5, <1>6, <1>7, <1>8, <1>9, <1>10, <1>11, <1>12
  DEF NextLog, Recording, Reading

\* What a reader is owed it has, or it is in a segment still to be read.
THEOREM ReadInvariant == SpecLog => []ReadInv
<1>1. InitLog => ReadInv
  BY HistoryAssumption DEF InitLog, ReadInv, EntryFresh, OwedRecorded, NothingMissed
<1>2. LogInv /\ ReadInv /\ [NextLog]_logVars => ReadInv'
  BY ReadStep
<1>3. QED
  BY <1>1, <1>2, LogInvariant, PTL DEF SpecLog

\* A reader misses nothing, however many write meanwhile and whatever fails.
THEOREM ReadersComplete == SpecLog => []ReadersSeeRecorded
<1>1. LogInv /\ ReadInv => ReadersSeeRecorded
  <2> SUFFICES ASSUME LogInv, ReadInv, NEW p \in Proc, doing[p] = "read", unread[p] = <<>>,
                      NEW e \in owed[p] \cap Readable
               PROVE  e \in seen[p]
    BY DEF ReadersSeeRecorded
  <2>1. PICK j \in DOMAIN segments : e \in EntriesOf(segments[j])
    BY DEF Readable
  <2>2. j \in 1 .. Len(segments)
    BY DEF LogInv, TypeOKLog
  <2>3. QED
    BY <2>1, <2>2 DEF ReadInv, NothingMissed
<1>2. QED
  BY <1>1, LogInvariant, ReadInvariant, PTL

-----------------------------------------------------------------------------
(* What is recorded is kept.                                               *)

\* The entries that are recorded or about to be, and cannot be read.
DoneEntries == {entry[p] : p \in {q \in Proc : doing[q] = "done"}}
Missing     == (recorded \cup DoneEntries) \ Readable

Unended == {i \in DOMAIN segments : ~segments[i].ended}

\* The line that the next write will spoil is nobody's.
LastFree ==
    \A i \in Unended :
        /\ Last(segments[i].lines) \notin recorded
        /\ \A p \in Proc : doing[p] \in {"lock", "find", "append", "done"} =>
             entry[p] # Last(segments[i].lines)

\* Each write that was cut short has cost an entry, or leaves a line to spoil.
Paid ==
    /\ IsFiniteSet(Missing) /\ IsFiniteSet(Unended)
    /\ Cardinality(Missing) + Cardinality(Unended) <= cuts

KeptInv == LastFree /\ Paid

\* One more element makes a set at most one larger.
LEMMA AddOne ==
  ASSUME NEW S, IsFiniteSet(S), NEW x
  PROVE  /\ IsFiniteSet(S \cup {x})
         /\ Cardinality(S \cup {x}) <= Cardinality(S) + 1
<1>1. /\ IsFiniteSet(S \cup {x})
      /\ Cardinality(S \cup {x}) = IF x \in S THEN Cardinality(S) ELSE Cardinality(S) + 1
  BY FS_AddElement
<1>2. Cardinality(S) \in Nat
  BY FS_CardinalityType
<1>3. QED
  BY <1>1, <1>2

\* Nothing more is missing and no line more is without its end.
LEMMA PaidStays ==
  ASSUME Paid, cuts \in Nat, cuts' = cuts, Missing' \subseteq Missing, Unended' \subseteq Unended
  PROVE  Paid'
<1>1. /\ IsFiniteSet(Missing') /\ Cardinality(Missing') <= Cardinality(Missing)
      /\ IsFiniteSet(Unended') /\ Cardinality(Unended') <= Cardinality(Unended)
  BY FS_Subset DEF Paid
<1>2. /\ Cardinality(Missing) \in Nat /\ Cardinality(Unended) \in Nat
      /\ Cardinality(Missing') \in Nat /\ Cardinality(Unended') \in Nat
  BY <1>1, FS_CardinalityType DEF Paid
<1>3. QED
  BY <1>1, <1>2 DEF Paid

\* One write is cut short, and one line more is without its end.
LEMMA PaidCut ==
  ASSUME Paid, cuts \in Nat, cuts' = cuts + 1, Missing' \subseteq Missing,
         NEW i, Unended' \subseteq Unended \cup {i}
  PROVE  Paid'
<1>1. /\ IsFiniteSet(Unended \cup {i})
      /\ Cardinality(Unended \cup {i}) <= Cardinality(Unended) + 1
  BY AddOne DEF Paid
<1>2. /\ IsFiniteSet(Missing') /\ Cardinality(Missing') <= Cardinality(Missing)
      /\ IsFiniteSet(Unended') /\ Cardinality(Unended') <= Cardinality(Unended \cup {i})
  BY <1>1, FS_Subset DEF Paid
<1>3. /\ Cardinality(Missing) \in Nat /\ Cardinality(Unended) \in Nat
      /\ Cardinality(Missing') \in Nat /\ Cardinality(Unended') \in Nat
      /\ Cardinality(Unended \cup {i}) \in Nat
  BY <1>1, <1>2, FS_CardinalityType DEF Paid
<1>4. QED
  BY <1>1, <1>2, <1>3 DEF Paid

\* A line without an end is ended by an entry that is spoiled with it.
LEMMA PaidSpoiled ==
  ASSUME Paid, cuts \in Nat, cuts' = cuts, NEW e, Missing' \subseteq Missing \cup {e},
         NEW i \in Unended, Unended' \subseteq Unended \ {i}
  PROVE  Paid'
<1>1. /\ IsFiniteSet(Missing \cup {e}) /\ IsFiniteSet(Unended \ {i})
      /\ Cardinality(Missing \cup {e}) <= Cardinality(Missing) + 1
      /\ Cardinality(Unended \ {i}) = Cardinality(Unended) - 1
  BY AddOne, FS_RemoveElement DEF Paid
<1>2. /\ IsFiniteSet(Missing') /\ Cardinality(Missing') <= Cardinality(Missing \cup {e})
      /\ IsFiniteSet(Unended') /\ Cardinality(Unended') <= Cardinality(Unended \ {i})
  BY <1>1, FS_Subset
<1>3. /\ Cardinality(Missing) \in Nat /\ Cardinality(Unended) \in Nat
      /\ Cardinality(Missing') \in Nat /\ Cardinality(Unended') \in Nat
      /\ Cardinality(Missing \cup {e}) \in Nat /\ Cardinality(Unended \ {i}) \in Nat
  BY <1>1, <1>2, FS_CardinalityType DEF Paid
<1>4. QED
  BY <1>1, <1>2, <1>3 DEF Paid

\* What a write adds to a segment, and what it spoils.
LEMMA WriteLineKeeps ==
  ASSUME NEW s \in Segment, ~s.ended => s.lines # <<>>,
         NEW x \in Entry \cup {Garbage}, NEW b \in BOOLEAN
  PROVE  /\ s.ended => EntriesOf(s) \cup ({x} \ {Garbage}) \subseteq EntriesOf(WriteLine(s, x, b))
         /\ ~s.ended => EntriesOf(s) \ {Last(s.lines)} \subseteq EntriesOf(WriteLine(s, x, b))
         /\ Last(WriteLine(s, x, b).lines) \in {x, Garbage}
<1> DEFINE w == WriteLine(s, x, b)
<1>0. s.lines \in Seq(Entry \cup {Garbage}) /\ s.ended \in BOOLEAN /\ Len(s.lines) \in Nat
  BY DEF Segment
<1>1. CASE s.ended
  <2>1. w.lines = Append(s.lines, x)
    BY <1>1 DEF WriteLine
  <2>2. /\ Len(w.lines) = Len(s.lines) + 1
        /\ w.lines[Len(s.lines) + 1] = x
        /\ DOMAIN w.lines = 1 .. Len(s.lines) + 1
        /\ \A k \in DOMAIN s.lines : k \in DOMAIN w.lines /\ w.lines[k] = s.lines[k]
    BY <1>0, <2>1
  <2>3. QED
    BY <1>0, <1>1, <2>2 DEF EntriesOf, ToSet, Last
<1>2. CASE ~s.ended
  <2>1. w.lines = [s.lines EXCEPT ![Len(s.lines)] = Garbage]
    BY <1>2 DEF WriteLine
  <2>2. Len(s.lines) \in DOMAIN s.lines
    BY <1>0, <1>2
  <2>3. w.lines = [k \in 1 .. Len(s.lines) |->
                     IF k = Len(s.lines) THEN Garbage ELSE s.lines[k]]
    BY <1>0, <2>1
  <2>4. /\ Len(w.lines) = Len(s.lines)
        /\ w.lines[Len(s.lines)] = Garbage
        /\ DOMAIN w.lines = DOMAIN s.lines
        /\ \A k \in DOMAIN s.lines : k # Len(s.lines) => w.lines[k] = s.lines[k]
    BY <1>0, <2>2, <2>3
  <2>5. QED
    BY <1>0, <1>2, <2>2, <2>4 DEF EntriesOf, ToSet, Last
<1>3. QED
  BY <1>0, <1>1, <1>2

\* What a write to the active segment does to all that can be read, and to the
\* lines without an end.
LEMMA WrittenKeeps ==
  ASSUME LogInv, NEW p \in Proc, doing[p] = "append",
         NEW x \in {entry[p], Garbage}, NEW b \in BOOLEAN,
         segments' = [Opened(active[p]) EXCEPT ![active[p]] = WriteLine(@, x, b)]
  PROVE  LET i == active[p] IN
         /\ Unended' = IF b THEN Unended \ {i} ELSE Unended \cup {i}
         /\ i \notin Unended => Readable \cup ({x} \ {Garbage}) \subseteq Readable'
         /\ i \in Unended => Readable \ {Last(segments[i].lines)} \subseteq Readable'
         /\ \A j \in Unended \ {i} : segments'[j] = segments[j]
         /\ Last(segments'[i].lines) \in {x, Garbage}
<1> DEFINE i == active[p]
<1>0. /\ segments \in Seq(Segment) /\ Len(segments) \in Nat
      /\ x \in Entry \cup {Garbage}
  BY DEF LogInv, TypeOKLog
<1>1. /\ i \in 1 .. Len(segments) + 1
      /\ i <= Len(segments) => Len(segments[i].lines) < MaxEntriesPerSegment
  BY DEF LogInv, HasRoom
<1>2. /\ segments' \in Seq(Segment)
      /\ Len(segments') = IF i > Len(segments) THEN i ELSE Len(segments)
      /\ \A j \in 1 .. Len(segments) : j # i => segments'[j] = segments[j]
      /\ segments'[i] = WriteLine(Before(i), x, b)
      /\ Before(i) \in Segment
      /\ ~Before(i).ended => Before(i).lines # <<>>
  BY <1>0, <1>1, Written
<1>3. /\ DOMAIN segments = 1 .. Len(segments) /\ DOMAIN segments' = 1 .. Len(segments')
      /\ i \in DOMAIN segments' /\ DOMAIN segments' = DOMAIN segments \cup {i}
  <2>1. DOMAIN segments = 1 .. Len(segments) /\ DOMAIN segments' = 1 .. Len(segments')
    BY <1>0, <1>2
  <2>2. CASE i > Len(segments)
    <3>1. i = Len(segments) + 1 /\ Len(segments') = i
      BY <1>0, <1>1, <1>2, <2>2
    <3>2. \A n \in Nat : 1 .. n + 1 = (1 .. n) \cup {n + 1} /\ n + 1 \in 1 .. n + 1
      OBVIOUS
    <3>3. QED
      BY ONLY <1>0, <2>1, <3>1, <3>2
  <2>3. CASE ~(i > Len(segments))
    <3>1. i \in 1 .. Len(segments) /\ Len(segments') = Len(segments)
      BY <1>0, <1>1, <1>2, <2>3
    <3>2. QED
      BY <2>1, <3>1
  <2>4. QED
    BY <2>2, <2>3
<1>4. /\ Before(i).ended => EntriesOf(Before(i)) \cup ({x} \ {Garbage}) \subseteq EntriesOf(segments'[i])
      /\ ~Before(i).ended => EntriesOf(Before(i)) \ {Last(Before(i).lines)} \subseteq EntriesOf(segments'[i])
      /\ Last(segments'[i].lines) \in {x, Garbage}
  BY <1>0, <1>2, WriteLineKeeps
<1>5. segments'[i].ended = b
  BY <1>2 DEF WriteLine
<1>6. /\ i \in Unended <=> ~Before(i).ended
      /\ i \in DOMAIN segments => Before(i) = segments[i]
  BY <1>0, <1>1, <1>3 DEF Unended, Before, NewSegment
<1>7. Unended' = IF b THEN Unended \ {i} ELSE Unended \cup {i}
  BY <1>2, <1>3, <1>5 DEF Unended
<1>8. \A e \in Readable : \/ \E j \in DOMAIN segments \ {i} : e \in EntriesOf(segments'[j])
                          \/ i \in DOMAIN segments /\ e \in EntriesOf(Before(i))
  BY <1>2, <1>3, <1>6 DEF Readable
<1>9. \A e : (\E j \in DOMAIN segments' : e \in EntriesOf(segments'[j])) => e \in Readable'
  BY DEF Readable
<1>10. /\ i \notin Unended => Readable \cup ({x} \ {Garbage}) \subseteq Readable'
       /\ i \in Unended => Readable \ {Last(segments[i].lines)} \subseteq Readable'
  BY <1>3, <1>4, <1>6, <1>8, <1>9 DEF Unended
<1>11. \A j \in Unended \ {i} : segments'[j] = segments[j]
  BY <1>2, <1>3 DEF Unended
<1>12. QED
  BY <1>4, <1>7, <1>10, <1>11

\* Alone in the lock, who writes is nobody else's successor there.
LEMMA NobodyDone ==
  ASSUME LogInv, NEW p \in Proc, doing[p] \in {"find", "append"}
  PROVE  /\ DoneEntries = {}
         /\ \A q \in Proc : q # p => doing[q] \notin InLock
<1>1. \A q \in Proc : q # p => doing[q] \notin InLock
  BY DEF LogInv, LockHeld, InLock
<1>2. QED
  BY <1>1 DEF DoneEntries, InLock

\* The states in which an entry is not yet given up.
Pending == {"lock", "find", "append", "done"}

\* A write of the entry, whole or cut short: what it spoils was paid for, and
\* what it leaves without an end is paid for by itself.
LEMMA KeptAppend ==
  ASSUME LogInv, EntryFresh, KeptInv, NEW p \in Proc, doing[p] = "append",
         NEW d \in {"done", "failed"}, doing' = [doing EXCEPT ![p] = d],
         UNCHANGED <<entry, recorded>>,
         NEW x \in {entry[p], Garbage}, NEW b \in BOOLEAN,
         segments' = [Opened(active[p]) EXCEPT ![active[p]] = WriteLine(@, x, b)],
         d = "done" => x = entry[p] /\ b,
         cuts' = IF b THEN cuts ELSE cuts + 1
  PROVE  KeptInv'
<1> DEFINE i == active[p]
<1>0. /\ doing \in [Proc -> Doing] /\ cuts \in Nat
      /\ entry[p] \in Entry /\ entry[p] \notin recorded
      /\ Garbage \notin Entry /\ recorded \subseteq Entry
      /\ \A q \in Proc : doing[q] \in Pending => entry[q] \in Entry
      /\ \A q \in Proc : q # p => entry[q] # entry[p]
  BY HistoryAssumption DEF LogInv, TypeOKLog, HasRoom, EntryFresh, InLock, Pending
<1>1. /\ Unended' = IF b THEN Unended \ {i} ELSE Unended \cup {i}
      /\ i \notin Unended => Readable \cup ({x} \ {Garbage}) \subseteq Readable'
      /\ i \in Unended => Readable \ {Last(segments[i].lines)} \subseteq Readable'
      /\ \A j \in Unended \ {i} : segments'[j] = segments[j]
      /\ Last(segments'[i].lines) \in {x, Garbage}
  BY WrittenKeeps
<1>2. DoneEntries = {} /\ \A q \in Proc : q # p => doing[q] \notin InLock
  BY NobodyDone
<1>3. DoneEntries' = IF d = "done" THEN {entry[p]} ELSE {}
  BY <1>0, <1>2 DEF DoneEntries, InLock
<1>4. i \in Unended => Last(segments[i].lines) \notin recorded
  BY DEF KeptInv, LastFree
<1>5. LastFree'
  <2>1. ASSUME NEW j \in Unended'
        PROVE  /\ Last(segments'[j].lines) \notin recorded
               /\ \A q \in Proc : doing'[q] \in Pending => entry[q] # Last(segments'[j].lines)
    <3>1. CASE j \in Unended /\ j # i
      BY <1>0, <1>1, <3>1 DEF KeptInv, LastFree, Pending
    <3>2. CASE j = i
      <4>1. d = "failed" /\ Last(segments'[i].lines) \in {entry[p], Garbage}
        BY <1>1, <2>1, <3>2
      <4>2. \A q \in Proc : doing'[q] \in Pending => q # p /\ doing[q] \in Pending
        BY <1>0, <4>1 DEF Pending
      <4>3. QED
        BY <1>0, <3>2, <4>1, <4>2
    <3>3. QED
      BY <1>1, <2>1, <3>1, <3>2
  <2>2. QED
    BY <2>1 DEF LastFree, Pending
<1>6. Paid'
  <2>1. CASE ~b
    <3>1. Missing' \subseteq Missing
      BY <1>1, <1>2, <1>3, <1>4, <2>1 DEF Missing
    <3>2. QED
      BY <1>0, <1>1, <2>1, <3>1, PaidCut DEF KeptInv
  <2>2. CASE b /\ i \in Unended
    <3>1. Missing' \subseteq Missing \cup {entry[p]}
      BY <1>1, <1>2, <1>3, <1>4, <2>2 DEF Missing
    <3>2. QED
      BY <1>0, <1>1, <2>2, <3>1, PaidSpoiled DEF KeptInv
  <2>3. CASE b /\ i \notin Unended
    <3>1. Missing' \subseteq Missing
      BY <1>0, <1>1, <1>2, <1>3, <2>3 DEF Missing
    <3>2. QED
      BY <1>0, <1>1, <2>3, <3>1, PaidStays DEF KeptInv
  <2>4. QED
    BY <2>1, <2>2, <2>3
<1>7. QED
  BY <1>5, <1>6 DEF KeptInv

\* An error before the write, or with it; in the one case nothing was written.
LEMMA KeptFails ==
  ASSUME LogInv, EntryFresh, KeptInv, NEW p \in Proc, AppendFails(p)
  PROVE  KeptInv'
<1> DEFINE i == active[p]
<1>0. /\ doing \in [Proc -> Doing] /\ cuts \in Nat
      /\ segments \in Seq(Segment) /\ Len(segments) \in Nat
      /\ doing[p] \in {"find", "append"}
      /\ doing' = [doing EXCEPT ![p] = "failed"]
      /\ UNCHANGED <<entry, recorded, cuts>>
  BY DEF AppendFails, Now, LogInv, TypeOKLog
<1>1. DoneEntries = {} /\ DoneEntries' = {}
  BY <1>0, NobodyDone DEF DoneEntries, InLock
<1>2. ASSUME Unended' \subseteq Unended, Readable \subseteq Readable',
             \A j \in Unended : segments'[j] = segments[j]
      PROVE  KeptInv'
  <2>1. LastFree'
    BY <1>0, <1>2 DEF KeptInv, LastFree
  <2>2. Missing' \subseteq Missing
    BY <1>0, <1>1, <1>2 DEF Missing
  <2>3. QED
    BY <1>0, <1>2, <2>1, <2>2, PaidStays DEF KeptInv
<1>3. CASE segments' = segments
  BY <1>2, <1>3 DEF Unended, Readable
<1>4. CASE doing[p] = "append" /\ segments' = Opened(i)
  <2>1. i \in 1 .. Len(segments) + 1
    BY <1>4 DEF LogInv, HasRoom
  <2>2. /\ segments' \in Seq(Segment)
        /\ Len(segments') = IF i > Len(segments) THEN i ELSE Len(segments)
        /\ segments'[i] = Before(i)
        /\ \A j \in 1 .. Len(segments) : segments'[j] = segments[j]
    BY <1>0, <1>4, <2>1, OpenedFacts
  <2>3. /\ DOMAIN segments = 1 .. Len(segments)
        /\ DOMAIN segments \subseteq DOMAIN segments'
        /\ \A j \in DOMAIN segments' \ DOMAIN segments : segments'[j] = NewSegment
    BY <1>0, <2>1, <2>2 DEF Before
  <2>4. NewSegment.ended
    BY DEF NewSegment
  <2>5. QED
    BY <1>2, <2>2, <2>3, <2>4 DEF Unended, Readable
<1>5. CASE doing[p] = "append" /\ segments' = [Opened(i) EXCEPT ![i] = WriteLine(@, entry[p], TRUE)]
  BY <1>0, <1>5, KeptAppend
<1>6. QED
  BY <1>3, <1>4, <1>5 DEF AppendFails

\* The three ends that an append can take.
LEMMA KeptWrite ==
  ASSUME LogInv, EntryFresh, KeptInv, NEW p \in Proc,
         AppendEntry(p) \/ AppendCut(p) \/ AppendFails(p)
  PROVE  KeptInv'
<1>1. CASE AppendEntry(p)
  BY <1>1, KeptAppend DEF AppendEntry, Now
<1>2. CASE AppendCut(p)
  <2>1. PICK x \in {entry[p], Garbage} :
          segments' = [Opened(active[p]) EXCEPT ![active[p]] = WriteLine(@, x, FALSE)]
    BY <1>2 DEF AppendCut
  <2>2. QED
    BY <1>2, <2>1, KeptAppend DEF AppendCut, Now
<1>3. QED
  BY <1>1, <1>2, KeptFails

\* Of the other calls only Unlock changes what is recorded.
LEMMA KeptStep ==
  ASSUME LogInv, EntryFresh, KeptInv, [NextLog]_logVars
  PROVE  KeptInv'
<1> USE DEF Now, readerVars
<1>0. /\ doing \in [Proc -> Doing] /\ cuts \in Nat
      /\ entry \in [Proc -> Entry \cup {Garbage}]
      /\ segments \in Seq(Segment) /\ Garbage \notin Entry
  BY HistoryAssumption DEF LogInv, TypeOKLog
<1>1. \A i \in Unended : Last(segments[i].lines) \in Readable \cup {Garbage}
  <2>1. SUFFICES ASSUME NEW i \in Unended
                 PROVE  Last(segments[i].lines) \in EntriesOf(segments[i]) \cup {Garbage}
    BY DEF Unended, Readable
  <2>2. /\ segments[i].lines \in Seq(Entry \cup {Garbage})
        /\ segments[i].lines # <<>>
    <3>1. i \in DOMAIN segments /\ ~segments[i].ended
      BY DEF Unended
    <3>2. segments[i] \in Segment
      BY <1>0, <3>1
    <3>3. QED
      BY <3>1, <3>2 DEF Segment, LogInv, UnendedHasLine
  <2>3. Len(segments[i].lines) \in DOMAIN segments[i].lines
    BY <2>2
  <2>4. QED
    BY <2>3 DEF EntriesOf, ToSet, Last
<1>2. ASSUME UNCHANGED <<segments, recorded, cuts>>,
             \A q \in Proc : doing'[q] \in Pending =>
               \/ doing[q] \in Pending /\ entry'[q] = entry[q]
               \/ entry'[q] \in Entry \ Readable,
             \A q \in Proc : doing'[q] = "done" => doing[q] = "done" /\ entry'[q] = entry[q]
      PROVE  KeptInv'
  <2>1. LastFree'
    BY <1>0, <1>1, <1>2 DEF KeptInv, LastFree, Unended, Pending
  <2>2. Missing' \subseteq Missing /\ Unended' = Unended
    BY <1>2 DEF Missing, DoneEntries, Unended, Readable
  <2>3. QED
    BY <1>0, <1>2, <2>1, <2>2, PaidStays DEF KeptInv
<1>3. ASSUME NEW p \in Proc, NEW e \in Entry, Fresh(e), Record(p, e) PROVE KeptInv'
  BY <1>0, <1>2, <1>3 DEF Record, Fresh, Pending
<1>4. ASSUME NEW p \in Proc, LogLocked(p) \/ LogLockTimeout(p) \/ FindActive(p) PROVE KeptInv'
  <2>1. CASE LogLocked(p) BY <1>0, <1>2, <2>1 DEF LogLocked, Pending
  <2>2. CASE LogLockTimeout(p) BY <1>0, <1>2, <2>2 DEF LogLockTimeout, Pending
  <2>3. CASE FindActive(p) BY <1>0, <1>2, <2>3 DEF FindActive, Pending
  <2>4. QED
    BY <1>4, <2>1, <2>2, <2>3
<1>5. ASSUME NEW p \in Proc, AppendEntry(p) \/ AppendCut(p) \/ AppendFails(p) PROVE KeptInv'
  BY <1>5, KeptWrite
<1>6. ASSUME NEW p \in Proc, Unlock(p) PROVE KeptInv'
  <2>1. /\ doing[p] \in {"done", "failed"} /\ doing' = [doing EXCEPT ![p] = "nothing"]
        /\ entry' = [entry EXCEPT ![p] = Garbage]
        /\ recorded' = recorded \cup (IF doing[p] = "done" THEN {entry[p]} ELSE {})
        /\ UNCHANGED <<segments, cuts>>
    BY <1>6 DEF Unlock
  <2>2. LastFree'
    BY <1>0, <2>1 DEF KeptInv, LastFree, Unended
  <2>3. (recorded \cup DoneEntries)' \subseteq recorded \cup DoneEntries
    BY <1>0, <2>1 DEF DoneEntries
  <2>4. Missing' \subseteq Missing /\ Unended' = Unended
    BY <2>1, <2>3 DEF Missing, Unended, Readable
  <2>5. QED
    BY <1>0, <2>1, <2>2, <2>4, PaidStays DEF KeptInv
<1>7. ASSUME NEW p \in Proc, Reading(p) PROVE KeptInv'
  <2>1. CASE List(p) BY <1>0, <1>2, <2>1 DEF List, Pending
  <2>2. CASE ReadSegment(p) BY <1>0, <1>2, <2>2 DEF ReadSegment, Pending
  <2>3. CASE EndRead(p) BY <1>0, <1>2, <2>3 DEF EndRead, Pending
  <2>4. QED
    BY <1>7, <2>1, <2>2, <2>3 DEF Reading
<1>8. ASSUME NEW p \in Proc, LogCrash(p) PROVE KeptInv'
  BY <1>0, <1>2, <1>8 DEF LogCrash, Pending
<1>9. ASSUME NEW p \in Proc, LogLockExpires(p) PROVE KeptInv'
  BY <1>0, <1>2, <1>9 DEF LogLockExpires
<1>10. CASE UNCHANGED logVars
  BY <1>0, <1>2, <1>10 DEF logVars
<1>11. QED
  BY <1>3, <1>4, <1>5, <1>6, <1>7, <1>8, <1>9, <1>10 DEF NextLog, Recording

\* No more entries are lost than writes were cut short.
THEOREM Kept == SpecLog => []RecordedKept
<1>1. InitLog => KeptInv
  <2> SUFFICES ASSUME InitLog PROVE KeptInv
    OBVIOUS
  <2>1. Unended = {} /\ Missing = {} /\ cuts = 0
    BY DEF InitLog, Unended, Missing, DoneEntries
  <2>2. QED
    BY <2>1, FS_EmptySet DEF KeptInv, LastFree, Paid
<1>2. LogInv /\ ReadInv /\ KeptInv /\ [NextLog]_logVars => KeptInv'
  BY KeptStep DEF ReadInv
<1>3. LogInv /\ KeptInv => RecordedKept
  <2> SUFFICES ASSUME LogInv, KeptInv PROVE RecordedKept
    OBVIOUS
  <2>1. recorded \ Readable \subseteq Missing
    BY DEF Missing
  <2>2. /\ IsFiniteSet(recorded \ Readable)
        /\ Cardinality(recorded \ Readable) <= Cardinality(Missing)
    BY <2>1, FS_Subset DEF KeptInv, Paid
  <2>3. /\ Cardinality(recorded \ Readable) \in Nat /\ cuts \in Nat
        /\ Cardinality(Missing) \in Nat /\ Cardinality(Unended) \in Nat
    BY <2>2, FS_CardinalityType DEF KeptInv, Paid, LogInv, TypeOKLog
  <2>4. QED
    BY <2>2, <2>3 DEF RecordedKept, KeptInv, Paid
<1>4. QED
  BY <1>1, <1>2, <1>3, LogInvariant, ReadInvariant, PTL DEF SpecLog

\* Every reachable state of the log is well typed.
THEOREM TypeCorrectLog == SpecLog => []TypeOKLog
<1>1. LogInv => TypeOKLog
  BY DEF LogInv
<1>2. QED
  BY <1>1, LogInvariant, PTL
=============================================================================
