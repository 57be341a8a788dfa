--------------------------- MODULE LockFileProofs ---------------------------
(***************************************************************************)
(* What LockFile's runs check for a few processes, proved for every set of *)
(* processes, every timeout and every difference of their clocks.          *)
(*                                                                         *)
(* The argument: nobody dies, so a lock directory always belongs to a      *)
(* process inside the lock (DirHasHolder); that process is never silent    *)
(* longer than the timeout, less what a clock may be fast, and the         *)
(* directory is no older than its silence; so no os.Stat finds an orphan   *)
(* and no process is ever on its way to remove one (NobodyRemoves).        *)
(***************************************************************************)
EXTENDS LockFile, TLAPS

\* A lock directory belongs to a process inside the lock.
DirHasHolder == dir # NoOne => dir \in Holders

\* No process has decided to remove a directory it takes for an orphan.
NobodyRemoves == \A p \in Proc : pc[p] \notin {"firstRemove", "remove", "peekRemove"}

\* A holder's silence never exceeds the timeout, by any clock.
SilenceShort == \A p \in Holders : silent[p] + MaxSkew <= LockAcquireTimeout

IInv == TypeOK /\ HolderOwnsDir /\ DirHasHolder /\ NobodyRemoves /\ SilenceShort

-----------------------------------------------------------------------------

\* Type correctness: saturation keeps ages and waits within the timeout.
THEOREM TypeCorrect == Spec => []TypeOK
<1> USE LockAssumption DEF TypeOK, MaxAge
<1>1. Init => TypeOK
  BY DEF Init, PC, Acquiring, Peeking
<1>2. TypeOK /\ [Next]_vars => TypeOK'
  <2> SUFFICES ASSUME TypeOK, [Next]_vars PROVE TypeOK'
    OBVIOUS
  <2> USE DEF PC, Acquiring, Peeking, Goto, fsVars, timeVars
  <2>1. ASSUME NEW p \in Proc, NEW b \in BOOLEAN, StartAcquire(p, b) PROVE TypeOK'
    BY <2>1 DEF StartAcquire
  <2>2. ASSUME NEW p \in Proc, StartWait(p) PROVE TypeOK'
    BY <2>2 DEF StartWait
  <2>3. ASSUME NEW p \in Proc, Step(p) PROVE TypeOK'
    <3>1. CASE OrphanStat(p)   BY <3>1 DEF OrphanStat
    <3>2. CASE OrphanRemove(p) BY <3>2 DEF OrphanRemove, RemoveDir
    <3>3. CASE TryMkdir(p)     BY <3>3 DEF TryMkdir, MakeDir
    <3>4. CASE MkdirParent(p)  BY <3>4 DEF MkdirParent
    <3>5. CASE MkdirAgain(p)   BY <3>5 DEF MkdirAgain, MakeDir
    <3>6. CASE BackoffElapsed(p) BY <3>6 DEF BackoffElapsed
    <3>7. CASE GiveUp(p)       BY <3>7 DEF GiveUp, Refused
    <3>8. CASE Release(p)      BY <3>8 DEF Release, RemoveDir
    <3>9. CASE PeekStat(p)     BY <3>9 DEF PeekStat
    <3>10. CASE PeekRemove(p)  BY <3>10 DEF PeekRemove, RemoveDir
    <3>11. QED
      BY <2>3, <3>1, <3>2, <3>3, <3>4, <3>5, <3>6, <3>7, <3>8, <3>9, <3>10 DEF Step
  <2>4. ASSUME NEW p \in Proc, Keepalive(p) PROVE TypeOK'
    BY <2>4 DEF Keepalive
  <2>5. ASSUME NEW p \in Proc, CancelKeepalive(p) PROVE TypeOK'
    BY <2>5 DEF CancelKeepalive
  <2>6. ASSUME NEW p \in Proc, Fails(p) \/ Crash(p) PROVE TypeOK'
    <3>1. CASE Fails(p) BY <3>1 DEF Fails, Refused
    <3>2. CASE Crash(p) BY <3>2 DEF Crash
    <3>3. QED
      BY <2>6, <3>1, <3>2
  <2>7. CASE Tick
    BY <2>7 DEF Tick, Older, DirExists
  <2>8. CASE UNCHANGED vars
    BY <2>8 DEF vars
  <2>9. QED
    BY <2>1, <2>2, <2>3, <2>4, <2>5, <2>6, <2>7, <2>8 DEF Next
<1>3. QED
  BY <1>1, <1>2, PTL DEF Spec

\* When holders are timely, no directory is ever an orphan, by any clock.
LEMMA NothingExpires ==
  ASSUME IInv PROVE ~SeemsExpired
BY LockAssumption DEF IInv, TypeOK, MaxAge, HolderOwnsDir, DirHasHolder, SilenceShort,
     Holders, SeemsExpired, DirExists

\* The inductive step: one case per system call.
LEMMA InductiveStep ==
  ASSUME Timely, IInv, TypeOK', [Next]_vars PROVE IInv'
<1> USE LockAssumption
    DEF IInv, HolderOwnsDir, DirHasHolder, NobodyRemoves, SilenceShort,
        Holders, Goto, fsVars, timeVars
<1>0. TypeOK
  OBVIOUS
<1>1. ASSUME NEW p \in Proc, NEW b \in BOOLEAN, StartAcquire(p, b) PROVE IInv'
  BY <1>1, <1>0 DEF StartAcquire, TypeOK
<1>2. ASSUME NEW p \in Proc, StartWait(p) PROVE IInv'
  BY <1>2, <1>0 DEF StartWait, TypeOK
<1>3. ASSUME NEW p \in Proc, Step(p) PROVE IInv'
  <2>1. CASE OrphanStat(p)
    <3>1. /\ pc' = [pc EXCEPT ![p] = "mkdir"] \/ pc' = [pc EXCEPT ![p] = "sleep"]
          /\ pc[p] # "hold"
          /\ UNCHANGED <<fsVars, keep, timeVars, crashes>>
      BY <2>1, NothingExpires DEF OrphanStat
    <3>2. QED
      BY <3>1, <1>0 DEF TypeOK
  <2>2. CASE OrphanRemove(p)
    BY <2>2 DEF OrphanRemove
  <2>3. ASSUME MakeDir(p), pc' = [pc EXCEPT ![p] = "hold"], dir = NoOne PROVE IInv'
    BY <2>3, <1>0 DEF MakeDir, Timely, TypeOK
  <2>4. CASE TryMkdir(p)
    <3>1. CASE UNCHANGED fsVars /\ UNCHANGED timeVars
      BY <2>4, <3>1, <1>0 DEF TryMkdir, MakeDir, DirExists, TypeOK
    <3>2. QED
      BY <2>3, <2>4, <3>1 DEF TryMkdir, DirExists
  <2>5. CASE MkdirParent(p)
    BY <2>5, <1>0 DEF MkdirParent, TypeOK
  <2>6. CASE MkdirAgain(p)
    <3>1. CASE UNCHANGED fsVars /\ UNCHANGED timeVars
      BY <2>6, <3>1, <1>0 DEF MkdirAgain, MakeDir, DirExists, TypeOK
    <3>2. QED
      BY <2>3, <2>6, <3>1 DEF MkdirAgain, DirExists
  <2>7. CASE BackoffElapsed(p)
    BY <2>7, <1>0 DEF BackoffElapsed, TypeOK
  <2>8. CASE GiveUp(p)
    BY <2>8, <1>0 DEF GiveUp, Refused, TypeOK
  <2>9. CASE Release(p)
    <3>1. Holders' = Holders \ {p} /\ Holders = {p} /\ dir' = NoOne
      BY <2>9, <1>0 DEF Release, RemoveDir, TypeOK
    <3>2. NobodyRemoves'
      BY <2>9, <1>0 DEF Release, TypeOK
    <3>3. QED
      BY <3>1, <3>2
  <2>10. CASE PeekStat(p)
    BY <2>10, <1>0, NothingExpires DEF PeekStat, TypeOK
  <2>11. CASE PeekRemove(p)
    BY <2>11 DEF PeekRemove
  <2>12. QED
    BY <1>3, <2>1, <2>2, <2>4, <2>5, <2>6, <2>7, <2>8, <2>9, <2>10, <2>11 DEF Step
<1>4. ASSUME NEW p \in Proc, Keepalive(p) PROVE IInv'
  BY <1>4, <1>0 DEF Keepalive, Timely, TypeOK
<1>5. ASSUME NEW p \in Proc, CancelKeepalive(p) PROVE IInv'
  BY <1>5, <1>0 DEF CancelKeepalive, TypeOK
<1>6. ASSUME NEW p \in Proc, Fails(p) \/ Crash(p) PROVE IInv'
  BY <1>6, <1>0 DEF Fails, Refused, Crash, Timely, TypeOK
<1>7. CASE Tick
  <2>1. \A p \in Holders : silent[p] + MaxSkew < LockAcquireTimeout
    BY <1>7, <1>0 DEF Tick, SilenceBound, Timely, TypeOK, MaxAge
  <2>2. \A p \in Holders : silent'[p] = silent[p] + 1
    BY <1>7, <1>0, <2>1 DEF Tick, Older, TypeOK, MaxAge
  <2>3. \A p \in Holders : dir = p /\ age' = age + 1
    BY <1>7, <1>0, <2>1 DEF Tick, Older, DirExists, TypeOK, MaxAge
  <2>4. UNCHANGED <<dir, pc>>
    BY <1>7 DEF Tick
  <2>5. QED
    BY <2>1, <2>2, <2>3, <2>4, <1>0 DEF TypeOK, MaxAge
<1>8. CASE UNCHANGED vars
  BY <1>8 DEF vars, TypeOK
<1>9. QED
  BY <1>1, <1>2, <1>3, <1>4, <1>5, <1>6, <1>7, <1>8 DEF Next

\* The inductive invariant holds whenever the environment is timely.
THEOREM LockInvariant ==
  ASSUME Timely PROVE Spec => []IInv
<1>1. Init => IInv
  BY LockAssumption DEF Init, IInv, TypeOK, MaxAge, HolderOwnsDir, DirHasHolder,
       NobodyRemoves, SilenceShort, Holders, PC, Acquiring, Peeking
<1>2. IInv /\ TypeOK' /\ [Next]_vars => IInv'
  BY InductiveStep
<1>3. QED
  BY <1>1, <1>2, TypeCorrect, PTL DEF Spec

\* AcquireExclusiveLock is exclusive for any number of timely processes.
THEOREM LockExclusive ==
  ASSUME Timely PROVE Spec => []MutualExclusion
<1>1. IInv => MutualExclusion
  BY DEF IInv, HolderOwnsDir, MutualExclusion
<1>2. QED
  BY <1>1, LockInvariant, PTL

\* Who is inside the lock owns the directory that the others see.
THEOREM HolderIsOwner ==
  ASSUME Timely PROVE Spec => []HolderOwnsDir
<1>1. IInv => HolderOwnsDir
  BY DEF IInv
<1>2. QED
  BY <1>1, LockInvariant, PTL

\* No removal by path ever takes the directory of a holder that stays inside.
THEOREM RemovalSafe ==
  ASSUME Timely PROVE Spec => OnlyOwnDirRemoved
<1>1. IInv /\ IInv'
        => [dir # NoOne /\ dir' = NoOne /\ dir \in Holders => dir \notin Holders']_vars
  BY LockAssumption DEF IInv, HolderOwnsDir, Holders
<1>2. QED
  BY <1>1, LockInvariant, PTL DEF OnlyOwnDirRemoved

-----------------------------------------------------------------------------

\* The process the refinement mapping names is the creator of the directory.
LEMMA InsideIsDir ==
  ASSUME IInv
  PROVE  (IF Holders = {} THEN NoOne ELSE CHOOSE p \in Proc : pc[p] = "hold") = dir
<1>1. CASE Holders = {}
  BY <1>1 DEF IInv, DirHasHolder
<1>2. CASE Holders # {}
  <2>1. \E p \in Proc : pc[p] = "hold"
    BY <1>2 DEF Holders
  <2>2. \A p \in Proc : pc[p] = "hold" => p = dir
    BY DEF IInv, HolderOwnsDir, Holders
  <2>3. QED
    BY <1>2, <2>1, <2>2
<1>3. QED
  BY <1>1, <1>2

\* A step takes the directory from nobody to a process, or back, or leaves it.
LEMMA DirSteps ==
  ASSUME [Next]_vars
  PROVE  \/ dir' = dir
         \/ dir = NoOne /\ dir' \in Proc
         \/ dir' = NoOne
BY DEF Next, Step, vars, fsVars, StartAcquire, StartWait, OrphanStat, OrphanRemove,
     TryMkdir, MkdirParent, MkdirAgain, BackoffElapsed, GiveUp, Release, PeekStat,
     PeekRemove, Fails, Refused, Keepalive, CancelKeepalive, Crash, Tick, MakeDir, RemoveDir, DirExists

\* The directory lock implements the abstract lock, whatever the number of
\* timely processes: what is built on ExclusiveLock may be built on LockFile.
THEOREM LockImplements ==
  ASSUME Timely PROVE Spec => ImplementsExclusiveLock
<1> DEFINE h == IF Holders = {} THEN NoOne ELSE CHOOSE p \in Proc : pc[p] = "hold"
<1>1. Init => h = NoOne
  BY DEF Init, Holders
<1>2. IInv /\ IInv' /\ [Next]_vars => [Inside!Next]_h
  <2> SUFFICES ASSUME IInv, IInv', [Next]_vars PROVE [Inside!Next]_h
    OBVIOUS
  <2>1. h = dir
    BY InsideIsDir
  <2>2. h' = dir'
    <3>1. ASSUME IInv' PROVE (IF Holders' = {} THEN NoOne ELSE CHOOSE p \in Proc : pc'[p] = "hold") = dir'
      <4>1. CASE Holders' = {}
        BY <3>1, <4>1 DEF IInv, DirHasHolder
      <4>2. CASE Holders' # {}
        <5>1. \E p \in Proc : pc'[p] = "hold"
          BY <4>2 DEF Holders
        <5>2. \A p \in Proc : pc'[p] = "hold" => p = dir'
          BY <3>1 DEF IInv, HolderOwnsDir, Holders
        <5>3. QED
          BY <4>2, <5>1, <5>2
      <4>3. QED
        BY <4>1, <4>2
    <3>2. QED
      BY <3>1
  <2>3. dir \in Proc \cup {NoOne} /\ dir' \in Proc \cup {NoOne}
    BY DEF IInv, TypeOK
  <2>4. QED
    BY <2>1, <2>2, <2>3, DirSteps DEF Inside!Next, Inside!Acquire, Inside!Release
<1>3. QED
  BY <1>1, <1>2, LockInvariant, PTL
  DEF Spec, ImplementsExclusiveLock, Inside!Spec, Inside!Init
=============================================================================
