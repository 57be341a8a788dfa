--------------------------- MODULE ExclusiveLock ---------------------------
(***************************************************************************)
(* What a lock of internal/fsutil/lockfile.go promises: at most one        *)
(* process is inside it at any time.  LockFile implements this module when *)
(* its holders are timely; Transaction and AssetStore are built on it.     *)
(***************************************************************************)

CONSTANTS Proc,    \* the processes that use the lock
          Nobody   \* the value of holder when the lock is free

VARIABLE holder

Init == holder = Nobody

Acquire(p) == holder = Nobody /\ holder' = p

Release(p) == holder = p /\ holder' = Nobody

Next == \E p \in Proc : Acquire(p) \/ Release(p)

Spec == Init /\ [][Next]_holder
=============================================================================
