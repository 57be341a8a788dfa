----------------------------- MODULE Transaction -----------------------------
(***************************************************************************)
(* withTransaction of internal/transaction/transaction.go.  A process      *)
(* takes .vit/transaction.lock, removes the transaction files that look    *)
(* abandoned, scans the others for a conflict, validates its operation,    *)
(* writes one file per object it will modify and gives the lock back.  Its *)
(* files are touched while the operation runs and removed when it ends.    *)
(*                                                                         *)
(* The lock is the abstract one of ExclusiveLock.  Time is a Tick, as in   *)
(* LockFile: how long a process may be silent is the guard of Tick.        *)
(***************************************************************************)
EXTENDS Naturals, TransactionIds

CONSTANTS
    Proc, NoOne,
    Requests,            \* the sets of identifiers that commands declare
    LockAcquireTimeout,  \* age beyond which a transaction file is abandoned
    KeepaliveInterval,   \* longest silence of a running touchFilesLoop
    MaxSilence,          \* longest time with a file and without touchFilesLoop
    MaxCrashes           \* bound on the number of crashes

ASSUME TransactionAssumption ==
    /\ NoOne \notin Proc
    /\ Requests \subseteq SUBSET Tid
    /\ LockAcquireTimeout \in Nat /\ KeepaliveInterval \in Nat
    /\ MaxSilence \in Nat /\ MaxCrashes \in Nat

VARIABLES
    txLock,    \* holder of .vit/transaction.lock
    present,   \* the transaction files that exist
    age,       \* of each file, ticks since it was written or touched
    writer,    \* of each file, the process that wrote it last
    pc,        \* control state of each process
    request,   \* the identifiers the process declares
    todo,      \* identifiers left to inspect, to write or to remove
    doomed,    \* files found abandoned by os.Stat and not removed yet
    touching,  \* is the process's touchFilesLoop running?
    silent,    \* ticks since the process wrote its first file or touched them
    crashes

vars == <<txLock, present, age, writer, pc, request, todo, doomed, touching,
          silent, crashes>>

fileVars == <<present, age, writer>>

PC == {"idle", "lock", "clean", "scan", "validate", "write", "run", "finish", "dead"}

\* Control states under the transaction lock.
Locked == {"clean", "scan", "validate", "write"}

\* Control states in which the operation counts as running for the others.
Active == {"validate", "write", "run"}

\* The files of p that exist because p runs: written and not yet removed.
Mine(p) == CASE pc[p] = "write"  -> request[p] \ todo[p]
             [] pc[p] = "run"    -> request[p]
             [] pc[p] = "finish" -> todo[p]
             [] OTHER            -> {}

OlderUnbounded(n) == n + 1
Older(n) == IF n > LockAcquireTimeout THEN n ELSE n + 1

TypeOK ==
    /\ txLock \in Proc \cup {NoOne}
    /\ present \subseteq Tid
    /\ age \in [Tid -> 0 .. LockAcquireTimeout + 1]
    /\ writer \in [Tid -> Proc \cup {NoOne}]
    /\ pc \in [Proc -> PC]
    /\ request \in [Proc -> SUBSET Tid]
    /\ todo \in [Proc -> SUBSET Tid]
    /\ doomed \in [Proc -> SUBSET Tid]
    /\ touching \in [Proc -> BOOLEAN]
    /\ silent \in [Proc -> 0 .. LockAcquireTimeout + 1]
    /\ crashes \in 0 .. MaxCrashes

Init ==
    /\ txLock = NoOne
    /\ present = {}
    /\ age = [t \in Tid |-> 0]
    /\ writer = [t \in Tid |-> NoOne]
    /\ pc = [p \in Proc |-> "idle"]
    /\ request = [p \in Proc |-> {}]
    /\ todo = [p \in Proc |-> {}]
    /\ doomed = [p \in Proc |-> {}]
    /\ touching = [p \in Proc |-> FALSE]
    /\ silent = [p \in Proc |-> 0]
    /\ crashes = 0

-----------------------------------------------------------------------------

Lock == INSTANCE ExclusiveLock WITH Nobody <- NoOne, holder <- txLock

Goto(p, l) == pc' = [pc EXCEPT ![p] = l]

\* The command ends: the process and what it knew are gone.
Exit(p) ==
    /\ Goto(p, "idle")
    /\ request' = [request EXCEPT ![p] = {}]
    /\ todo' = [todo EXCEPT ![p] = {}]
    /\ silent' = [silent EXCEPT ![p] = 0]
    /\ UNCHANGED <<doomed, touching, crashes>>

\* os.Remove of the files F (writer and age are those of existing files).
RemoveFiles(F) ==
    /\ present' = present \ F
    /\ age' = [t \in Tid |-> IF t \in F THEN 0 ELSE age[t]]
    /\ writer' = [t \in Tid |-> IF t \in F THEN NoOne ELSE writer[t]]

\* A command reaches RunTreeChanged or RunEdit with its identifiers.
Start(p, S) ==
    /\ pc[p] = "idle"
    /\ Goto(p, "lock")
    /\ request' = [request EXCEPT ![p] = S]
    /\ UNCHANGED <<txLock, fileVars, todo, doomed, touching, silent, crashes>>

\* WithExclusiveLock succeeds; cleanOrphanedTransactions lists the directory.
TakeLock(p) ==
    /\ pc[p] = "lock"
    /\ Lock!Acquire(p)
    /\ Goto(p, "clean")
    /\ todo' = [todo EXCEPT ![p] = {t \in present : TopLevel(t)}]
    /\ UNCHANGED <<fileVars, request, doomed, touching, silent, crashes>>

\* WithExclusiveLock with a deadline that only the lock of a dead process meets.
LockTimeoutOfDead(p) ==
    /\ pc[p] = "lock" /\ \E q \in Proc : txLock = q /\ pc[q] = "dead"
    /\ Exit(p)
    /\ UNCHANGED <<txLock, fileVars>>

\* WithExclusiveLock times out.
LockTimeout(p) ==
    /\ pc[p] = "lock" /\ txLock # NoOne
    /\ Exit(p)
    /\ UNCHANGED <<txLock, fileVars>>

\* A cleanup that starts one tick early.
CleanStatEarly(p, t) ==
    /\ pc[p] = "clean" /\ doomed[p] = {} /\ t \in todo[p]
    /\ todo' = [todo EXCEPT ![p] = @ \ {t}]
    /\ doomed' = [doomed EXCEPT ![p] =
                    IF t \in present /\ age[t] >= LockAcquireTimeout THEN {t} ELSE {}]
    /\ UNCHANGED <<txLock, fileVars, pc, request, touching, silent, crashes>>

\* cleanOrphanedTransactions: os.Stat of one listed file.
CleanStat(p, t) ==
    /\ pc[p] = "clean" /\ doomed[p] = {} /\ t \in todo[p]
    /\ todo' = [todo EXCEPT ![p] = @ \ {t}]
    /\ doomed' = [doomed EXCEPT ![p] =
                    IF t \in present /\ age[t] > LockAcquireTimeout THEN {t} ELSE {}]
    /\ UNCHANGED <<txLock, fileVars, pc, request, touching, silent, crashes>>

\* A cleanup whose os.Remove fails without notice.
CleanRemoveNothing(p) ==
    /\ pc[p] = "clean" /\ doomed[p] # {}
    /\ doomed' = [doomed EXCEPT ![p] = {}]
    /\ UNCHANGED <<txLock, fileVars, pc, request, todo, touching, silent, crashes>>

\* cleanOrphanedTransactions: os.Remove of the file just found abandoned.
CleanRemove(p) ==
    /\ pc[p] = "clean" /\ doomed[p] # {}
    /\ RemoveFiles(doomed[p])
    /\ doomed' = [doomed EXCEPT ![p] = {}]
    /\ UNCHANGED <<txLock, pc, request, todo, touching, silent, crashes>>

CleanEnd(p) ==
    /\ pc[p] = "clean" /\ doomed[p] = {} /\ todo[p] = {}
    /\ Goto(p, "scan")
    /\ UNCHANGED <<txLock, fileVars, request, todo, doomed, touching, silent, crashes>>

\* scanExistingTransactions: one os.ReadDir; what does not decode is skipped.
Scanned == {t \in present : TopLevel(t) /\ Decodes(t)}

\* extraValidate refuses (or panics): WithExclusiveLock's defer unlocks.
ScanRejects(p) ==
    /\ pc[p] = "scan"
    /\ Rejects(request[p], Scanned)
    /\ Lock!Release(p)
    /\ Exit(p)
    /\ UNCHANGED fileVars

ScanAccepts(p) ==
    /\ pc[p] = "scan"
    /\ ~Rejects(request[p], Scanned)
    /\ Goto(p, "validate")
    /\ UNCHANGED <<txLock, fileVars, request, todo, doomed, touching, silent, crashes>>

\* Operation.Validate returns an error ...
ValidateRejects(p) ==
    /\ pc[p] = "validate"
    /\ Lock!Release(p)
    /\ Exit(p)
    /\ UNCHANGED fileVars

\* ... or accepts, and the files are written one by one.
ValidateAccepts(p) ==
    /\ pc[p] = "validate"
    /\ Goto(p, "write")
    /\ todo' = [todo EXCEPT ![p] = request[p]]
    /\ silent' = [silent EXCEPT ![p] = 0]
    /\ UNCHANGED <<txLock, fileVars, request, doomed, touching, crashes>>

\* JSONHandler.Write of one transaction file (temporary file and rename).
WriteFile(p, t) ==
    /\ pc[p] = "write" /\ t \in todo[p]
    /\ present' = present \cup {t}
    /\ age' = [age EXCEPT ![t] = 0]
    /\ writer' = [writer EXCEPT ![t] = p]
    /\ todo' = [todo EXCEPT ![p] = @ \ {t}]
    /\ UNCHANGED <<txLock, pc, request, doomed, touching, silent, crashes>>

\* The write fails: the error leaves the files written so far behind.
WriteFails(p) ==
    /\ pc[p] = "write" /\ todo[p] # {}
    /\ Lock!Release(p)
    /\ Exit(p)
    /\ UNCHANGED fileVars

\* All files are written: unlock, start touchFilesLoop, run operation().
BeginOperation(p) ==
    /\ pc[p] = "write" /\ todo[p] = {}
    /\ Lock!Release(p)
    /\ Goto(p, "run")
    /\ touching' = [touching EXCEPT ![p] = TRUE]
    /\ UNCHANGED <<fileVars, request, todo, doomed, silent, crashes>>

\* A touchFilesLoop whose os.Chtimes reaches none of the files.
TouchNothing(p) ==
    /\ pc[p] = "run" /\ touching[p]
    /\ silent' = [silent EXCEPT ![p] = 0]
    /\ UNCHANGED <<txLock, fileVars, pc, request, todo, doomed, touching, crashes>>

\* One round of touchFilesLoop: os.Chtimes of every file that still exists.
Touch(p) ==
    /\ pc[p] = "run" /\ touching[p]
    /\ age' = [t \in Tid |-> IF t \in request[p] \cap present THEN 0 ELSE age[t]]
    /\ silent' = [silent EXCEPT ![p] = 0]
    /\ UNCHANGED <<txLock, present, writer, pc, request, todo, doomed, touching, crashes>>

\* The command's context is cancelled: the loop returns, the operation goes on
\* until it notices.
Cancel(p) ==
    /\ pc[p] = "run" /\ touching[p]
    /\ touching' = [touching EXCEPT ![p] = FALSE]
    /\ UNCHANGED <<txLock, fileVars, pc, request, todo, doomed, silent, crashes>>

\* operation() returns, with or without error: tx.finish stops the loop ...
EndOperation(p) ==
    /\ pc[p] = "run"
    /\ Goto(p, "finish")
    /\ touching' = [touching EXCEPT ![p] = FALSE]
    /\ todo' = [todo EXCEPT ![p] = request[p]]
    /\ UNCHANGED <<txLock, fileVars, request, doomed, silent, crashes>>

\* ... and removes the files by name, without the lock.
FinishRemove(p, t) ==
    /\ pc[p] = "finish" /\ t \in todo[p]
    /\ RemoveFiles({t})
    /\ todo' = [todo EXCEPT ![p] = @ \ {t}]
    /\ UNCHANGED <<txLock, pc, request, doomed, touching, silent, crashes>>

\* recordHistory and the command's deferred Close calls end the process.
Return(p) ==
    /\ pc[p] = "finish" /\ todo[p] = {}
    /\ Exit(p)
    /\ UNCHANGED <<txLock, fileVars>>

-----------------------------------------------------------------------------

Crash(p) ==
    /\ pc[p] \notin {"idle", "dead"} /\ crashes < MaxCrashes
    /\ crashes' = crashes + 1
    /\ Goto(p, "dead")
    /\ touching' = [touching EXCEPT ![p] = FALSE]
    /\ todo' = [todo EXCEPT ![p] = {}]
    /\ doomed' = [doomed EXCEPT ![p] = {}]
    /\ request' = [request EXCEPT ![p] = {}]
    /\ silent' = [silent EXCEPT ![p] = 0]
    /\ UNCHANGED <<txLock, fileVars>>

\* The lock of a dead process is an orphan that LockFile's users clear.
LockExpires(p) ==
    /\ pc[p] = "dead"
    /\ Lock!Release(p)
    /\ UNCHANGED <<fileVars, pc, request, todo, doomed, touching, silent, crashes>>

SilenceBound(p) == IF touching[p] THEN KeepaliveInterval ELSE MaxSilence

Tick ==
    /\ \A p \in Proc : pc[p] \in {"write", "run", "finish"} => silent[p] < SilenceBound(p)
    /\ age' = [t \in Tid |-> IF t \in present THEN Older(age[t]) ELSE age[t]]
    /\ silent' = [p \in Proc |-> IF pc[p] \in {"write", "run", "finish"}
                                   THEN Older(silent[p]) ELSE silent[p]]
    /\ UNCHANGED <<txLock, present, writer, pc, request, todo, doomed, touching, crashes>>

-----------------------------------------------------------------------------

Step(p) ==
    \/ TakeLock(p) \/ LockTimeout(p)
    \/ \E t \in Tid : CleanStat(p, t)
    \/ CleanRemove(p) \/ CleanEnd(p)
    \/ ScanRejects(p) \/ ScanAccepts(p)
    \/ ValidateRejects(p) \/ ValidateAccepts(p)
    \/ \E t \in Tid : WriteFile(p, t)
    \/ WriteFails(p)
    \/ BeginOperation(p) \/ EndOperation(p)
    \/ \E t \in Tid : FinishRemove(p, t)
    \/ Return(p)
    \/ LockExpires(p)

Next ==
    \/ \E p \in Proc :
         \/ \E S \in Requests : Start(p, S)
         \/ Step(p)
         \/ Touch(p) \/ Cancel(p) \/ Crash(p)
    \/ Tick

Spec == Init /\ [][Next]_vars

\* Processes make their next step, files age; nobody must start or crash.
FairSpec == Spec /\ WF_vars(Tick) /\ \A p \in Proc : WF_vars(Step(p)) /\ WF_vars(Touch(p))

-----------------------------------------------------------------------------
(* Properties                                                              *)

\* Nobody who runs is silent longer than the age of an abandoned file.
Timely == MaxSilence <= LockAcquireTimeout /\ KeepaliveInterval <= LockAcquireTimeout

\* Every identifier survives the round trip through its file name.
NamesCarry == \A t \in Tid : Decodes(t) /\ TopLevel(t)

\* operation.go: "Transaction ensures that 2 conflicting operation can't
\* happen concurrently", from Validate to the end of Finish, crashes included.
NoConflictingOperations ==
    \A p, q \in Proc :
        p # q /\ pc[p] \in Active /\ pc[q] \in Active
            => \A s \in request[p], t \in request[q] : ~Conflict(s, t)

\* The files of a running operation exist, were written by it and are not old
\* enough to be taken for abandoned: nobody's cleanup, finish or eviction takes
\* them ("keepalive for the duration of operation(), serving as defacto
\* lockfile").
RunningKeepsFiles ==
    \A p \in Proc : \A t \in Mine(p) :
        t \in present /\ writer[t] = p /\ age[t] <= LockAcquireTimeout

\* RunEdit: "Conflicts with TreeChanged on overlapping paths, or same-ref
\* operations": a scan refuses an operation only for such a conflict.
RejectedOnlyByConflict ==
    [][\A p \in Proc : pc[p] = "scan" /\ pc'[p] = "idle"
            => \E t \in present, s \in request[p] : Conflict(s, t)]_vars

\* The transaction layer implements Isolation: what runs is what is declared
\* by the processes past their scan.
Running(p) == IF pc[p] \in Active THEN request[p] ELSE {}
Iso == INSTANCE Isolation WITH running <- [p \in Proc |-> Running(p)]
ImplementsIsolation == Iso!Spec

\* Every command ends, whatever conflicts it meets.
CommandsEnd == \A p \in Proc : pc[p] # "idle" ~> pc[p] \in {"idle", "dead"}

\* A file left by a dead process or by a failed write does not refuse others
\* for ever: as long as commands come that scan, it is removed in the end, or
\* written again by one of them.
AbandonedFilesGo ==
    \A t \in Tid :
        []<>(\E p \in Proc : pc[p] = "scan")
            => []<>~(t \in present /\ age[t] > LockAcquireTimeout)
=============================================================================
