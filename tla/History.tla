------------------------------ MODULE History ------------------------------
(***************************************************************************)
(* The activity log (internal/history/history.go): an entry for each       *)
(* command that changed the repository, one line per entry, in segment     *)
(* files of at most MaxEntriesPerSegment lines.  Record is called when the *)
(* transaction is over, best effort; it appends with one write (AppendLine *)
(* of internal/fsutil/atomic.go), in the lock .vit/history/.lock.  ReadAll *)
(* lists the segments and reads them one by one, in no lock.               *)
(*                                                                         *)
(* A write may be cut short, by an error or with the process: what is left *)
(* has no end, and the next entry is written behind it on the same line.   *)
(***************************************************************************)
EXTENDS Naturals, Sequences, SequencesExt, FiniteSets

CONSTANTS
    Proc, NoOne,
    Entry,                  \* what is recorded; each entry once
    Garbage,                \* a line that does not parse
    MaxEntriesPerSegment,
    MaxFaults               \* bound on the errors

ASSUME HistoryAssumption ==
    /\ NoOne \notin Proc
    /\ Garbage \notin Entry
    /\ MaxEntriesPerSegment \in Nat \ {0}
    /\ MaxFaults \in Nat

VARIABLES
    segments,   \* the segment files in the order of their names
    logLock,    \* holder of .vit/history/.lock
    doing,      \* control state of each process
    entry,      \* the entry it records
    active,     \* the segment it has found to write to
    unread,     \* a reader: the segments that it has listed and not read
    seen,       \* a reader: the entries that it has read
    owed,       \* a reader: the entries that were recorded when it began
    recorded,   \* the entries for which Record has returned without error
    cuts,       \* writes that were cut short
    faults

logVars == <<segments, logLock, doing, entry, active, unread, seen, owed,
             recorded, cuts, faults>>

\* Control states of Record, in the lock and before it, and of ReadAll.
InLock == {"find", "append", "done", "failed"}
Doing  == {"nothing", "lock", "read", "dead"} \cup InLock

Segment    == [lines : Seq(Entry \cup {Garbage}), ended : BOOLEAN]
NewSegment == [lines |-> <<>>, ended |-> TRUE]

InitLog ==
    /\ segments = <<>> /\ logLock = NoOne
    /\ doing = [p \in Proc |-> "nothing"]
    /\ entry = [p \in Proc |-> Garbage]
    /\ active = [p \in Proc |-> 0]
    /\ unread = [p \in Proc |-> <<>>]
    /\ seen = [p \in Proc |-> {}]
    /\ owed = [p \in Proc |-> {}]
    /\ recorded = {} /\ cuts = 0 /\ faults = 0

-----------------------------------------------------------------------------
(* Lines and segments.                                                     *)

\* What is written goes to a new line, or behind what has no end.
WriteLine(s, x, ended) ==
    [lines |-> IF s.ended THEN Append(s.lines, x)
               ELSE [s.lines EXCEPT ![Len(s.lines)] = Garbage],
     ended |-> ended]

\* os.OpenFile with O_CREATE: the active segment may be the one after the last.
Opened(i) == IF i > Len(segments) THEN Append(segments, NewSegment) ELSE segments

\* The entries of the lines that parse; the others are skipped.
EntriesOf(s) == ToSet(s.lines) \ {Garbage}
Readable     == UNION {EntriesOf(segments[i]) : i \in DOMAIN segments}

Log == INSTANCE ExclusiveLock WITH Nobody <- NoOne, holder <- logLock

Now(p, d) == doing' = [doing EXCEPT ![p] = d]
LogFault  == faults < MaxFaults /\ faults' = faults + 1

readerVars == <<unread, seen, owed>>

-----------------------------------------------------------------------------
(* Record                                                                  *)

Record(p, e) ==
    /\ doing[p] = "nothing"
    /\ Now(p, "lock")
    /\ entry' = [entry EXCEPT ![p] = e]
    /\ UNCHANGED <<segments, logLock, active, readerVars, recorded, cuts, faults>>

LogLocked(p) ==
    /\ doing[p] = "lock"
    /\ Log!Acquire(p)
    /\ Now(p, "find")
    /\ UNCHANGED <<segments, entry, active, readerVars, recorded, cuts, faults>>

\* WithExclusiveLock times out or os.MkdirAll fails, and Record gives up.
LogLockTimeout(p) ==
    /\ doing[p] = "lock"
    /\ LogFault \/ (logLock # NoOne /\ UNCHANGED faults)
    /\ Now(p, "nothing")
    /\ entry' = [entry EXCEPT ![p] = Garbage]
    /\ UNCHANGED <<segments, logLock, active, readerVars, recorded, cuts>>

\* findActiveSegment: is the last segment full?  The other one counts one line
\* too few.
FullLate(s) == Len(s.lines) > MaxEntriesPerSegment
Full(s)     == Len(s.lines) >= MaxEntriesPerSegment

\* findActiveSegment and nextSegmentName: the last segment, or a new one.
FindActive(p) ==
    /\ doing[p] = "find"
    /\ active' = [active EXCEPT ![p] =
                    IF segments = <<>> \/ Full(Last(segments))
                      THEN Len(segments) + 1 ELSE Len(segments)]
    /\ Now(p, "append")
    /\ UNCHANGED <<segments, logLock, entry, readerVars, recorded, cuts, faults>>

\* AppendLine
AppendEntry(p) ==
    LET i == active[p] IN
    /\ doing[p] = "append"
    /\ segments' = [Opened(i) EXCEPT ![i] = WriteLine(@, entry[p], TRUE)]
    /\ Now(p, "done")
    /\ UNCHANGED <<logLock, entry, active, readerVars, recorded, cuts, faults>>

\* The disk is full, or the process is about to die: of the entry there is a
\* part, or all but its end.
AppendCut(p) ==
    LET i == active[p] IN
    /\ doing[p] = "append" /\ LogFault
    /\ \E x \in {entry[p], Garbage} :
         segments' = [Opened(i) EXCEPT ![i] = WriteLine(@, x, FALSE)]
    /\ cuts' = cuts + 1
    /\ Now(p, "failed")
    /\ UNCHANGED <<logLock, entry, active, readerVars, recorded>>

\* Another error: nothing is written but an empty file, or f.Sync fails and
\* all is.
AppendFails(p) ==
    LET i == active[p] IN
    /\ doing[p] \in {"find", "append"} /\ LogFault
    /\ segments' \in {segments}
         \cup IF doing[p] = "find" THEN {}
              ELSE {Opened(i), [Opened(i) EXCEPT ![i] = WriteLine(@, entry[p], TRUE)]}
    /\ Now(p, "failed")
    /\ UNCHANGED <<logLock, entry, active, readerVars, recorded, cuts>>

\* The deferred unlock, and Record returns; without the error in the other one.
UnlockHiding(p) ==
    /\ doing[p] \in {"done", "failed"}
    /\ Log!Release(p)
    /\ recorded' = recorded \cup {entry[p]}
    /\ Now(p, "nothing")
    /\ entry' = [entry EXCEPT ![p] = Garbage]
    /\ active' = [active EXCEPT ![p] = 0]
    /\ UNCHANGED <<segments, readerVars, cuts, faults>>

Unlock(p) ==
    /\ doing[p] \in {"done", "failed"}
    /\ Log!Release(p)
    /\ recorded' = recorded \cup (IF doing[p] = "done" THEN {entry[p]} ELSE {})
    /\ Now(p, "nothing")
    /\ entry' = [entry EXCEPT ![p] = Garbage]
    /\ active' = [active EXCEPT ![p] = 0]
    /\ UNCHANGED <<segments, readerVars, cuts, faults>>

-----------------------------------------------------------------------------
(* ReadAll                                                                 *)

\* listSegments; and one that leaves out the segment in use.
ListClosed(p) ==
    /\ doing[p] = "nothing"
    /\ Now(p, "read")
    /\ unread' = [unread EXCEPT ![p] = [i \in 1 .. Len(segments) - 1 |-> i]]
    /\ owed' = [owed EXCEPT ![p] = recorded]
    /\ UNCHANGED <<segments, logLock, entry, active, seen, recorded, cuts, faults>>

List(p) ==
    /\ doing[p] = "nothing"
    /\ Now(p, "read")
    /\ unread' = [unread EXCEPT ![p] = [i \in DOMAIN segments |-> i]]
    /\ owed' = [owed EXCEPT ![p] = recorded]
    /\ UNCHANGED <<segments, logLock, entry, active, seen, recorded, cuts, faults>>

ReadSegment(p) ==
    /\ doing[p] = "read" /\ unread[p] # <<>>
    /\ seen' = [seen EXCEPT ![p] = @ \cup EntriesOf(segments[Head(unread[p])])]
    /\ unread' = [unread EXCEPT ![p] = Tail(@)]
    /\ UNCHANGED <<segments, logLock, doing, entry, active, owed, recorded, cuts, faults>>

\* All are read, or one cannot be.
EndRead(p) ==
    /\ doing[p] = "read"
    /\ LogFault \/ (unread[p] = <<>> /\ UNCHANGED faults)
    /\ Now(p, "nothing")
    /\ unread' = [unread EXCEPT ![p] = <<>>]
    /\ seen' = [seen EXCEPT ![p] = {}]
    /\ owed' = [owed EXCEPT ![p] = {}]
    /\ UNCHANGED <<segments, logLock, entry, active, recorded, cuts>>

-----------------------------------------------------------------------------

LogCrash(p) ==
    /\ doing[p] # "dead"
    /\ Now(p, "dead")
    /\ entry' = [entry EXCEPT ![p] = Garbage]
    /\ active' = [active EXCEPT ![p] = 0]
    /\ unread' = [unread EXCEPT ![p] = <<>>]
    /\ seen' = [seen EXCEPT ![p] = {}]
    /\ owed' = [owed EXCEPT ![p] = {}]
    /\ UNCHANGED <<segments, logLock, recorded, cuts, faults>>

\* The orphan of a dead process goes, see LockFile.
LogLockExpires(p) ==
    /\ doing[p] = "dead"
    /\ Log!Release(p)
    /\ UNCHANGED <<segments, doing, entry, active, readerVars, recorded, cuts, faults>>

\* GenerateUID: no two entries are the same.
Fresh(e) == e \notin recorded \cup Readable /\ \A p \in Proc : entry[p] # e

Recording(p) ==
    \/ LogLocked(p) \/ LogLockTimeout(p) \/ FindActive(p)
    \/ AppendEntry(p) \/ AppendCut(p) \/ AppendFails(p) \/ Unlock(p)

Reading(p) == List(p) \/ ReadSegment(p) \/ EndRead(p)

NextLog ==
    \E p \in Proc :
        \/ \E e \in {x \in Entry : Fresh(x)} : Record(p, e)
        \/ Recording(p) \/ Reading(p)
        \/ LogCrash(p) \/ LogLockExpires(p)

SpecLog == InitLog /\ [][NextLog]_logVars

-----------------------------------------------------------------------------
(* Properties                                                              *)

TypeOKLog ==
    /\ segments \in Seq(Segment)
    /\ logLock \in Proc \cup {NoOne}
    /\ doing \in [Proc -> Doing]
    /\ entry \in [Proc -> Entry \cup {Garbage}]
    /\ active \in [Proc -> Nat]
    /\ unread \in [Proc -> Seq(Nat)]
    /\ seen \in [Proc -> SUBSET Entry]
    /\ owed \in [Proc -> SUBSET Entry]
    /\ recorded \subseteq Entry
    /\ cuts \in Nat /\ faults \in Nat

\* "seg-NNNNNN.jsonl": no segment outgrows its limit, whoever writes after whom
\* and whatever was cut short.
SegmentsBounded ==
    \A i \in DOMAIN segments : Len(segments[i].lines) <= MaxEntriesPerSegment

\* "append-only activity log": of the entries that Record took, no more can be
\* lost than writes were cut short; one line without an end costs one entry.
RecordedKept == Cardinality(recorded \ Readable) <= cuts

\* A reader that takes no lock misses nothing that was recorded when it began
\* (and can be read at all), though segments are added while it reads.
ReadersSeeRecorded ==
    \A p \in Proc : doing[p] = "read" /\ unread[p] = <<>> =>
        owed[p] \cap Readable \subseteq seen[p]
=============================================================================
