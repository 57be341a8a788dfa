------------------------------ MODULE LockFile ------------------------------
(***************************************************************************)
(* The directory lock of internal/fsutil/lockfile.go, one system call per  *)
(* action.  A lock is a directory: os.Mkdir takes it, os.Remove releases   *)
(* it, its modification time is the sign of life of its holder.  A process *)
(* that finds a directory older than LockAcquireTimeout takes its holder   *)
(* for dead and removes it; the os.Stat and the os.Remove are two calls.   *)
(*                                                                         *)
(* Time is a Tick that ages the directory and the waiters together.  The   *)
(* modification time is one machine's and the time it is compared with     *)
(* another's: each look at it may be wrong by up to MaxSkew.  What the     *)
(* environment owes (how long a holder can stay silent) is the guard of    *)
(* Tick; backoff doubling is abstracted to "at least one tick".            *)
(***************************************************************************)
EXTENDS Naturals

CONSTANTS
    Proc,                \* vit processes that meet on one lock path
    NoOne,               \* creator of a directory that does not exist
    LockAcquireTimeout,  \* age beyond which a lock is an orphan, in ticks
    KeepaliveInterval,   \* longest silence of a running keepalive goroutine
    MaxSilence,          \* longest critical section without keepalive
    MaxSkew,             \* largest difference between two clocks, in ticks
    MaxCrashes           \* bound on the number of crashes

ASSUME LockAssumption ==
    /\ NoOne \notin Proc
    /\ LockAcquireTimeout \in Nat /\ KeepaliveInterval \in Nat
    /\ MaxSilence \in Nat /\ MaxSkew \in Nat /\ MaxCrashes \in Nat

VARIABLES
    dir,      \* process that created the lock directory, or NoOne: no directory
    age,      \* ticks since the modification time of the directory
    parent,   \* does the parent of the lock directory exist?
    pc,       \* control state of each process
    keep,     \* is the process's keepalive goroutine running?
    silent,   \* ticks since a holder last created or touched the directory
    waited,   \* ticks since the process called Acquire... or WaitForLockRelease
    rested,   \* has the backoff of a waiting process elapsed?
    crashes

vars == <<dir, age, parent, pc, keep, silent, waited, rested, crashes>>

fsVars   == <<dir, age, parent>>
timeVars == <<silent, waited, rested>>

\* Control states of AcquireExclusiveLock, then of WaitForLockRelease.
Acquiring == {"firstStat", "firstRemove", "mkdir", "mkdirAll", "mkdirAgain",
              "stat", "remove", "sleep"}
Peeking   == {"peek", "peekRemove", "peekSleep"}
PC        == Acquiring \cup Peeking \cup {"idle", "hold", "dead"}

Holders == {p \in Proc : pc[p] = "hold"}

\* Ages saturate where every clock has them above the timeout: only "older or
\* not" is observed.
MaxAge == LockAcquireTimeout + MaxSkew + 1
OlderUnbounded(n) == n + 1
Older(n) == IF n = MaxAge THEN n ELSE n + 1

TypeOK ==
    /\ dir \in Proc \cup {NoOne}
    /\ age \in 0 .. MaxAge
    /\ parent \in BOOLEAN
    /\ pc \in [Proc -> PC]
    /\ keep \in [Proc -> BOOLEAN]
    /\ silent \in [Proc -> 0 .. MaxAge]
    /\ waited \in [Proc -> 0 .. MaxAge]
    /\ rested \in [Proc -> BOOLEAN]
    /\ crashes \in 0 .. MaxCrashes

Init ==
    /\ dir = NoOne /\ age = 0
    /\ parent \in BOOLEAN
    /\ pc = [p \in Proc |-> "idle"]
    /\ keep = [p \in Proc |-> FALSE]
    /\ silent = [p \in Proc |-> 0]
    /\ waited = [p \in Proc |-> 0]
    /\ rested = [p \in Proc |-> FALSE]
    /\ crashes = 0

-----------------------------------------------------------------------------
(* What the system calls do to the file system.                            *)

DirExists == dir # NoOne

\* time.Since(info.ModTime()) > LockAcquireTimeout, by the clock of who looks,
\* and one tick too early.
SeemsExpiredEarly == DirExists /\ age + MaxSkew >= LockAcquireTimeout
SeemsExpired      == DirExists /\ age + MaxSkew > LockAcquireTimeout

\* The same by every clock.
Expired == DirExists /\ age > LockAcquireTimeout + MaxSkew

Goto(p, l) == pc' = [pc EXCEPT ![p] = l]

\* A successful os.Mkdir by p.
MakeDir(p) ==
    /\ dir' = p /\ age' = 0
    /\ silent' = [silent EXCEPT ![p] = 0]

\* os.Remove(lockDir): whoever created it, and no error if it is gone.
RemoveDir == dir' = NoOne /\ age' = 0

-----------------------------------------------------------------------------
(* AcquireExclusiveLock and AcquireExclusiveLockWithKeepalive              *)

StartAcquire(p, keepalive) ==
    /\ pc[p] = "idle"
    /\ Goto(p, "firstStat")
    /\ keep' = [keep EXCEPT ![p] = keepalive]
    /\ waited' = [waited EXCEPT ![p] = 0]
    /\ UNCHANGED <<fsVars, silent, rested, crashes>>

\* cleanOrphanedLock: os.Stat, and on to os.Remove only if the lock is old.
OrphanStat(p) ==
    /\ \/ SeemsExpired /\ pc[p] = "firstStat" /\ Goto(p, "firstRemove")
       \/ SeemsExpired /\ pc[p] = "stat"      /\ Goto(p, "remove")
       \/ ~Expired     /\ pc[p] = "firstStat" /\ Goto(p, "mkdir")
       \/ ~Expired     /\ pc[p] = "stat"      /\ Goto(p, "sleep")
    /\ UNCHANGED <<fsVars, keep, timeVars, crashes>>

\* cleanOrphanedLock: the os.Remove decided by an earlier os.Stat.
OrphanRemove(p) ==
    /\ \/ pc[p] = "firstRemove" /\ Goto(p, "mkdir")
       \/ pc[p] = "remove" /\ Goto(p, "sleep")
    /\ RemoveDir
    /\ UNCHANGED <<parent, keep, timeVars, crashes>>

\* os.Mkdir(lockDir) at the top of the loop.
TryMkdir(p) ==
    /\ pc[p] = "mkdir"
    /\ \/ /\ parent /\ ~DirExists
          /\ MakeDir(p)
          /\ Goto(p, "hold")
          /\ UNCHANGED <<parent, keep, waited, rested, crashes>>
       \/ /\ parent /\ DirExists
          /\ Goto(p, "stat")
          /\ UNCHANGED <<fsVars, keep, timeVars, crashes>>
       \/ /\ ~parent
          /\ Goto(p, "mkdirAll")
          /\ UNCHANGED <<fsVars, keep, timeVars, crashes>>

\* os.MkdirAll of the parent, taken when os.Mkdir failed for want of it.
MkdirParent(p) ==
    /\ pc[p] = "mkdirAll"
    /\ parent' = TRUE
    /\ Goto(p, "mkdirAgain")
    /\ UNCHANGED <<dir, age, keep, timeVars, crashes>>

\* The second os.Mkdir as an os.MkdirAll, which succeeds if the directory exists.
MkdirAgainAnyway(p) ==
    /\ pc[p] = "mkdirAgain"
    /\ MakeDir(p)
    /\ Goto(p, "hold")
    /\ UNCHANGED <<parent, keep, waited, rested, crashes>>

\* The second os.Mkdir; its failure falls through to cleanOrphanedLock.
MkdirAgain(p) ==
    /\ pc[p] = "mkdirAgain"
    /\ \/ /\ ~DirExists
          /\ MakeDir(p)
          /\ Goto(p, "hold")
          /\ UNCHANGED <<parent, keep, waited, rested, crashes>>
       \/ /\ DirExists
          /\ Goto(p, "stat")
          /\ UNCHANGED <<fsVars, keep, timeVars, crashes>>

\* The select of the loop: either the backoff timer fires ...
BackoffElapsed(p) ==
    /\ \/ pc[p] = "sleep" /\ Goto(p, "mkdir")
       \/ pc[p] = "peekSleep" /\ Goto(p, "peek")
    /\ rested[p]
    /\ rested' = [rested EXCEPT ![p] = FALSE]
    /\ UNCHANGED <<fsVars, keep, silent, waited, crashes>>

\* A deadline for those who wait for the release only, and a deadline after
\* which the lock directory is removed.
GiveUpPeeking(p) ==
    /\ pc[p] = "peekSleep"
    /\ waited[p] >= LockAcquireTimeout
    /\ Goto(p, "idle")
    /\ rested' = [rested EXCEPT ![p] = FALSE]
    /\ UNCHANGED <<fsVars, keep, silent, waited, crashes>>

GiveUpReleasing(p) ==
    /\ pc[p] \in {"sleep", "peekSleep"}
    /\ waited[p] >= LockAcquireTimeout
    /\ RemoveDir
    /\ Goto(p, "idle")
    /\ keep' = [keep EXCEPT ![p] = FALSE]
    /\ rested' = [rested EXCEPT ![p] = FALSE]
    /\ UNCHANGED <<parent, silent, waited, crashes>>

\* The call returns an error.
Refused(p) ==
    /\ Goto(p, "idle")
    /\ keep' = [keep EXCEPT ![p] = FALSE]
    /\ rested' = [rested EXCEPT ![p] = FALSE]
    /\ UNCHANGED <<fsVars, silent, waited, crashes>>

\* ... or the deadline of LockAcquireTimeout does: ErrLockAcquireTimeout ...
GiveUp(p) ==
    /\ pc[p] \in {"sleep", "peekSleep"}
    /\ waited[p] >= LockAcquireTimeout
    /\ Refused(p)

\* ... or the caller's context is done before that.  os.MkdirAll may fail, too,
\* and the os.Stat of WaitForLockRelease.
Fails(p) ==
    /\ pc[p] \in {"sleep", "peekSleep", "mkdirAll", "peek"}
    /\ Refused(p)

-----------------------------------------------------------------------------
(* The critical section and its keepalive goroutine.                       *)

\* os.Chtimes(lockDir, now, now): touches the directory at the path, if any.
Keepalive(p) ==
    /\ pc[p] = "hold" /\ keep[p]
    /\ age' = 0
    /\ silent' = [silent EXCEPT ![p] = 0]
    /\ UNCHANGED <<dir, parent, pc, keep, waited, rested, crashes>>

\* The caller's context is cancelled: the goroutine returns, the lock stays.
CancelKeepalive(p) ==
    /\ pc[p] = "hold" /\ keep[p]
    /\ keep' = [keep EXCEPT ![p] = FALSE]
    /\ UNCHANGED <<fsVars, pc, timeVars, crashes>>

\* stop() closes the goroutine's channel, then ReleaseExclusiveLock calls
\* os.Remove(lockDir), unconditionally.
Release(p) ==
    /\ pc[p] = "hold"
    /\ RemoveDir
    /\ Goto(p, "idle")
    /\ keep' = [keep EXCEPT ![p] = FALSE]
    /\ UNCHANGED <<parent, timeVars, crashes>>

-----------------------------------------------------------------------------
(* WaitForLockRelease: wait until the lock is free, without taking it.     *)

StartWait(p) ==
    /\ pc[p] = "idle"
    /\ Goto(p, "peek")
    /\ waited' = [waited EXCEPT ![p] = 0]
    /\ UNCHANGED <<fsVars, keep, silent, rested, crashes>>

\* A wait that takes every lock it finds for an orphan.
PeekStatAnyAge(p) ==
    /\ pc[p] = "peek"
    /\ Goto(p, IF DirExists THEN "peekRemove" ELSE "idle")
    /\ UNCHANGED <<fsVars, keep, timeVars, crashes>>

PeekStat(p) ==
    /\ pc[p] = "peek"
    /\ \/ ~DirExists   /\ Goto(p, "idle")
       \/ SeemsExpired /\ Goto(p, "peekRemove")
       \/ DirExists /\ ~Expired /\ Goto(p, "peekSleep")
    /\ UNCHANGED <<fsVars, keep, timeVars, crashes>>

\* A wait that reports an orphan as released and leaves it where it is.
PeekRemoveNothing(p) ==
    /\ pc[p] = "peekRemove"
    /\ Goto(p, "idle")
    /\ UNCHANGED <<fsVars, keep, timeVars, crashes>>

PeekRemove(p) ==
    /\ pc[p] = "peekRemove"
    /\ RemoveDir
    /\ Goto(p, "idle")
    /\ UNCHANGED <<parent, keep, timeVars, crashes>>

-----------------------------------------------------------------------------
(* The environment: time and crashes.                                      *)

\* How long the environment lets a holder be silent before its next step.
SilenceBound(p) == IF keep[p] THEN KeepaliveInterval ELSE MaxSilence

Tick ==
    /\ \A p \in Holders : silent[p] < SilenceBound(p)
    /\ age' = IF DirExists THEN Older(age) ELSE 0
    /\ silent' = [p \in Proc |-> IF p \in Holders THEN Older(silent[p]) ELSE 0]
    /\ waited' = [p \in Proc |->
                    IF pc[p] \in Acquiring \cup Peeking THEN Older(waited[p]) ELSE 0]
    /\ rested' = [p \in Proc |-> pc[p] \in {"sleep", "peekSleep"}]
    /\ UNCHANGED <<dir, parent, pc, keep, crashes>>

\* kill -9, power loss: the directory stays, nobody touches it any more.
Crash(p) ==
    /\ pc[p] \notin {"idle", "dead"}
    /\ crashes < MaxCrashes
    /\ crashes' = crashes + 1
    /\ Goto(p, "dead")
    /\ keep' = [keep EXCEPT ![p] = FALSE]
    /\ rested' = [rested EXCEPT ![p] = FALSE]
    /\ UNCHANGED <<fsVars, silent, waited>>

-----------------------------------------------------------------------------

Step(p) ==
    \/ OrphanStat(p) \/ OrphanRemove(p)
    \/ TryMkdir(p) \/ MkdirParent(p) \/ MkdirAgain(p)
    \/ BackoffElapsed(p) \/ GiveUp(p)
    \/ Release(p)
    \/ PeekStat(p) \/ PeekRemove(p)

Next ==
    \/ \E p \in Proc :
         \/ \E keepalive \in BOOLEAN : StartAcquire(p, keepalive)
         \/ StartWait(p)
         \/ Step(p)
         \/ Keepalive(p) \/ CancelKeepalive(p)
         \/ Fails(p) \/ Crash(p)
    \/ Tick

Spec == Init /\ [][Next]_vars

(***************************************************************************)
(* Fairness: a process that is scheduled makes its next call; time passes; *)
(* Go's select picks uniformly among the ready cases, so a deadline that   *)
(* is ready again and again is taken (strong fairness on GiveUp).  Nobody  *)
(* is obliged to call, to cancel, to fail or to crash.                     *)
(***************************************************************************)
Fairness ==
    /\ \A p \in Proc : WF_vars(Step(p)) /\ WF_vars(Keepalive(p)) /\ SF_vars(GiveUp(p))
    /\ WF_vars(Tick)

FairSpec == Spec /\ Fairness

-----------------------------------------------------------------------------
(* Properties                                                              *)

\* The environment is timely: nobody who holds the lock is silent for longer
\* than the age at which the fastest clock of the others takes it for an orphan,
\* and nobody dies.
Timely ==
    /\ MaxSilence + MaxSkew <= LockAcquireTimeout
    /\ KeepaliveInterval + MaxSkew <= LockAcquireTimeout
    /\ MaxCrashes = 0

\* Two processes are never inside the lock together (the promise of
\* AcquireExclusiveLock: "acquires an exclusive lock").
MutualExclusion == \A p, q \in Holders : p = q

\* A process inside the lock owns the directory others see, and that
\* directory is no older than the holder's own silence.
HolderOwnsDir == \A p \in Holders : dir = p /\ age <= silent[p]

\* Release, cleanOrphanedLock and WaitForLockRelease remove by path: the
\* directory they remove is never the one a holder other than the remover
\* stands in, and the holder itself never removes a successor's directory.
OnlyOwnDirRemoved ==
    [][dir # NoOne /\ dir' = NoOne /\ dir \in Holders => dir \notin Holders']_vars

\* A lock taken here implements the abstract lock.
Inside == INSTANCE ExclusiveLock WITH
            Nobody <- NoOne,
            holder <- IF Holders = {} THEN NoOne ELSE CHOOSE p \in Proc : pc[p] = "hold"
ImplementsExclusiveLock == Inside!Spec

\* Every attempt ends: with the lock, with ErrLockAcquireTimeout or with the
\* death of the caller.  No lock makes a process wait for ever.
AttemptsEnd ==
    \A p \in Proc : pc[p] \in Acquiring \cup Peeking ~> pc[p] \in {"idle", "hold", "dead"}

\* A lock left by a dead process does not survive the next caller that comes to
\* take it once it has expired for everybody, nor one that waits and has seen it.
OrphanCleared ==
    \A p, q \in Proc :
        (dir = q /\ pc[q] = "dead" /\ Expired /\ pc[p] \in {"firstStat", "peekRemove"})
            ~> (dir # q \/ pc[p] = "dead")
=============================================================================
