-------------------------- MODULE TransactionProofs --------------------------
(***************************************************************************)
(* Isolation of operations, proved for every set of processes, requests    *)
(* and timeouts: if names survive their round trip through the file system *)
(* (NamesCarry) and running processes are timely, no two conflicting       *)
(* operations run together, although processes die and writes fail.        *)
(*                                                                         *)
(* The argument: a process past its scan excludes every process that still *)
(* has a file (Claims), because that file was in the directory when it     *)
(* scanned or will be written under the lock it holds.  A file of a        *)
(* process that runs is never old (FilesHeld), so it is never doomed by    *)
(* another's cleanup (DoomedIsNobodys); and since two processes never hold *)
(* the same file, no finish removes another's.                             *)
(***************************************************************************)
EXTENDS Transaction, TLAPS

LockHeld == \A p \in Proc : pc[p] \in Locked => txLock = p

TodoInRequest == \A p \in Proc :
    /\ pc[p] \in {"write", "run", "finish"} => todo[p] \subseteq request[p]
    /\ pc[p] = "run" => todo[p] = {}

FilesHeld == \A p \in Proc :
    /\ pc[p] \in {"write", "run", "finish"} => silent[p] <= LockAcquireTimeout
    /\ \A t \in Mine(p) : t \in present /\ writer[t] = p /\ age[t] <= silent[p]

DoomedIsNobodys == \A p \in Proc :
    /\ doomed[p] # {} => pc[p] = "clean"
    /\ \A q \in Proc : doomed[p] \cap Mine(q) = {}

\* What the scan of p must have seen of q: the files q has or will have.
Claim(q) == IF pc[q] \in Active THEN request[q] ELSE Mine(q)

Claims == \A p, q \in Proc :
    p # q /\ pc[p] \in Active
        => \A s \in request[p], t \in Claim(q) : ~Conflict(s, t)

IInv == TypeOK /\ LockHeld /\ TodoInRequest /\ FilesHeld /\ DoomedIsNobodys /\ Claims

-----------------------------------------------------------------------------
(* Facts about the operators                                               *)

\* Every identifier conflicts with itself: a process whose file has the same
\* name as one it wants to write is never accepted.
LEMMA ConflictReflexive == \A t \in Tid : Conflict(t, t)
BY TidAssumption DEF Conflict, PathsOverlap, IsPrefix

LEMMA ConflictSymmetric == \A s, t \in Tid : Conflict(s, t) => Conflict(t, s)
BY DEF Conflict, PathsOverlap

\* What is accepted conflicts with no file, if names survive.
LEMMA AcceptedIsClear ==
  ASSUME NamesCarry, TypeOK, NEW p \in Proc, ~Rejects(request[p], Scanned)
  PROVE  \A s \in request[p], t \in present : ~Conflict(s, t)
BY DEF NamesCarry, TypeOK, Rejects, Scanned

-----------------------------------------------------------------------------

\* Type correctness: files, identifiers and ages stay within their sets.
THEOREM TypeCorrect == Spec => []TypeOK
<1> USE TransactionAssumption DEF TypeOK
<1>1. Init => TypeOK
  BY DEF Init, PC
<1>2. TypeOK /\ [Next]_vars => TypeOK'
  <2> SUFFICES ASSUME TypeOK, [Next]_vars PROVE TypeOK'
    OBVIOUS
  <2> USE DEF PC, Goto, Exit, RemoveFiles, fileVars, Lock!Acquire, Lock!Release
  <2>1. ASSUME NEW p \in Proc, NEW S \in Requests, Start(p, S) PROVE TypeOK'
    BY <2>1 DEF Start
  <2>2. ASSUME NEW p \in Proc, Step(p) PROVE TypeOK'
    <3>1. CASE TakeLock(p) BY <3>1 DEF TakeLock
    <3>2. CASE LockTimeout(p) BY <3>2 DEF LockTimeout
    <3>3. ASSUME NEW t \in Tid, CleanStat(p, t) PROVE TypeOK'
      BY <3>3 DEF CleanStat
    <3>4. CASE CleanRemove(p) BY <3>4 DEF CleanRemove
    <3>5. CASE CleanEnd(p) BY <3>5 DEF CleanEnd
    <3>6. CASE ScanRejects(p) BY <3>6 DEF ScanRejects
    <3>7. CASE ScanAccepts(p) BY <3>7 DEF ScanAccepts
    <3>8. CASE ValidateRejects(p) BY <3>8 DEF ValidateRejects
    <3>9. CASE ValidateAccepts(p) BY <3>9 DEF ValidateAccepts
    <3>10. ASSUME NEW t \in Tid, WriteFile(p, t) PROVE TypeOK'
      BY <3>10 DEF WriteFile
    <3>11. CASE WriteFails(p) BY <3>11 DEF WriteFails
    <3>12. CASE BeginOperation(p) BY <3>12 DEF BeginOperation
    <3>13. CASE EndOperation(p) BY <3>13 DEF EndOperation
    <3>14. ASSUME NEW t \in Tid, FinishRemove(p, t) PROVE TypeOK'
      BY <3>14 DEF FinishRemove
    <3>15. CASE Return(p) BY <3>15 DEF Return
    <3>16. CASE LockExpires(p) BY <3>16 DEF LockExpires
    <3>17. QED
      BY <2>2, <3>1, <3>2, <3>3, <3>4, <3>5, <3>6, <3>7, <3>8, <3>9, <3>10, <3>11,
         <3>12, <3>13, <3>14, <3>15, <3>16 DEF Step
  <2>3. ASSUME NEW p \in Proc, Touch(p) PROVE TypeOK'
    BY <2>3 DEF Touch
  <2>4. ASSUME NEW p \in Proc, Cancel(p) PROVE TypeOK'
    BY <2>4 DEF Cancel
  <2>5. ASSUME NEW p \in Proc, Crash(p) PROVE TypeOK'
    BY <2>5 DEF Crash
  <2>6. CASE Tick
    BY <2>6 DEF Tick, Older
  <2>7. CASE UNCHANGED vars
    BY <2>7 DEF vars
  <2>8. QED
    BY <2>1, <2>2, <2>3, <2>4, <2>5, <2>6, <2>7 DEF Next
<1>3. QED
  BY <1>1, <1>2, PTL DEF Spec

-----------------------------------------------------------------------------
(* The inductive invariant                                                 *)

\* Two processes never have the same file.
LEMMA FilesDisjoint ==
  ASSUME IInv, NEW p \in Proc, NEW q \in Proc, p # q PROVE Mine(p) \cap Mine(q) = {}
BY DEF IInv, FilesHeld

\* Two processes are never both under the lock.
LEMMA LockedAlone ==
  ASSUME IInv, NEW p \in Proc, NEW q \in Proc, pc[p] \in Locked, pc[q] \in Locked
  PROVE  p = q
BY DEF IInv, LockHeld

\* A file of a running process is younger than the timeout.
LEMMA FilesYoung ==
  ASSUME IInv, NEW p \in Proc, NEW t \in Mine(p)
  PROVE  t \in Tid /\ age[t] <= LockAcquireTimeout
BY TransactionAssumption DEF IInv, TypeOK, FilesHeld, TodoInRequest, Mine

\* Steps that leave the files alone and neither take nor extend a claim.
LEMMA QuietStep ==
  ASSUME IInv, TypeOK', NEW p \in Proc,
         UNCHANGED fileVars, UNCHANGED doomed,
         \A q \in Proc \ {p} :
            /\ pc'[q] = pc[q] /\ request'[q] = request[q]
            /\ todo'[q] = todo[q] /\ silent'[q] = silent[q],
         \/ pc'[p] \in {"idle", "lock", "dead"}
         \/ pc'[p] \in {"clean", "scan"},
         doomed[p] = {},
         LockHeld'
  PROVE  IInv'
<1>1. Mine(p)' = {} /\ \A q \in Proc \ {p} : Mine(q)' = Mine(q)
  BY DEF Mine
<1>2. TodoInRequest'
  BY DEF IInv, TodoInRequest
<1>3. FilesHeld'
  BY <1>1 DEF IInv, FilesHeld, fileVars
<1>4. DoomedIsNobodys'
  BY <1>1 DEF IInv, DoomedIsNobodys
<1>5. Claims'
  BY <1>1 DEF IInv, Claims, Claim, Active
<1>6. QED
  BY <1>2, <1>3, <1>4, <1>5 DEF IInv

\* The inductive step: one case per action.
LEMMA InductiveStep ==
  ASSUME Timely, NamesCarry, IInv, TypeOK', [Next]_vars PROVE IInv'
<1> USE TransactionAssumption DEF Goto, Exit, Lock!Acquire, Lock!Release
<1>0. TypeOK /\ LockHeld /\ TodoInRequest /\ FilesHeld /\ DoomedIsNobodys /\ Claims
  BY DEF IInv
<1>1. ASSUME NEW p \in Proc, NEW S \in Requests, Start(p, S) PROVE IInv'
  <2>1. LockHeld' /\ doomed[p] = {}
    BY <1>0, <1>1 DEF Start, LockHeld, Locked, DoomedIsNobodys, TypeOK
  <2>2. QED
    BY <1>0, <1>1, <2>1, QuietStep DEF Start, TypeOK
<1>2. ASSUME NEW p \in Proc, Step(p) PROVE IInv'
  <2>1. CASE TakeLock(p)
    <3>1. LockHeld' /\ doomed[p] = {}
      BY <1>0, <2>1 DEF TakeLock, LockHeld, Locked, DoomedIsNobodys, TypeOK
    <3>2. QED
      BY <1>0, <2>1, <3>1, QuietStep DEF TakeLock, TypeOK
  <2>2. CASE LockTimeout(p)
    <3>1. LockHeld' /\ doomed[p] = {}
      BY <1>0, <2>2 DEF LockTimeout, LockHeld, Locked, DoomedIsNobodys, TypeOK
    <3>2. QED
      BY <1>0, <2>2, <3>1, QuietStep DEF LockTimeout, TypeOK
  <2>3. ASSUME NEW t \in Tid, CleanStat(p, t) PROVE IInv'
    <3>1. \A q \in Proc : Mine(q)' = Mine(q)
      BY <1>0, <2>3 DEF CleanStat, Mine, TypeOK
    <3>2. \A q \in Proc : Claim(q)' = Claim(q)
      BY <2>3, <3>1 DEF CleanStat, Claim, Active
    <3>3. LockHeld' /\ TodoInRequest'
      BY <1>0, <2>3 DEF CleanStat, LockHeld, TodoInRequest, TypeOK
    <3>4. FilesHeld'
      BY <1>0, <2>3, <3>1 DEF CleanStat, FilesHeld, fileVars
    <3>5. DoomedIsNobodys'
      <4>1. \A q \in Proc : doomed'[p] \cap Mine(q) = {}
        BY <2>3, FilesYoung, <1>0 DEF CleanStat, TypeOK
      <4>2. QED
        BY <1>0, <2>3, <3>1, <4>1 DEF CleanStat, DoomedIsNobodys, TypeOK
    <3>6. Claims'
      BY <1>0, <2>3, <3>2 DEF CleanStat, Claims
    <3>7. QED
      BY <3>3, <3>4, <3>5, <3>6 DEF IInv
  <2>4. CASE CleanRemove(p)
    <3>1. \A q \in Proc : Mine(q)' = Mine(q)
      BY <2>4 DEF CleanRemove, Mine
    <3>2. \A q \in Proc : Claim(q)' = Claim(q)
      BY <2>4, <3>1 DEF CleanRemove, Claim, Active
    <3>3. LockHeld' /\ TodoInRequest'
      BY <1>0, <2>4 DEF CleanRemove, LockHeld, TodoInRequest
    <3>4. FilesHeld'
      <4>1. \A q \in Proc : Mine(q) \cap doomed[p] = {}
        BY <1>0 DEF DoomedIsNobodys
      <4>2. \A q \in Proc : \A t \in Mine(q) : t \in Tid
        BY FilesYoung
      <4>3. QED
        BY <1>0, <2>4, <3>1, <4>1, <4>2 DEF CleanRemove, RemoveFiles, FilesHeld, TypeOK
    <3>5. DoomedIsNobodys'
      BY <1>0, <2>4, <3>1 DEF CleanRemove, DoomedIsNobodys, TypeOK
    <3>6. Claims'
      BY <1>0, <2>4, <3>2 DEF CleanRemove, Claims
    <3>7. QED
      BY <3>3, <3>4, <3>5, <3>6 DEF IInv
  <2>5. CASE CleanEnd(p)
    <3>1. LockHeld'
      BY <1>0, <2>5 DEF CleanEnd, LockHeld, Locked, TypeOK
    <3>2. QED
      BY <1>0, <2>5, <3>1, QuietStep DEF CleanEnd, TypeOK
  <2>6. CASE ScanRejects(p)
    <3>1. LockHeld' /\ doomed[p] = {}
      BY <1>0, <2>6, LockedAlone
      DEF ScanRejects, LockHeld, Locked, DoomedIsNobodys, TypeOK
    <3>2. QED
      BY <1>0, <2>6, <3>1, QuietStep DEF ScanRejects, TypeOK
  <2>7. CASE ScanAccepts(p)
    <3>1. \A q \in Proc : Mine(q)' = Mine(q)
      BY <1>0, <2>7 DEF ScanAccepts, Mine, TypeOK
    <3>2. LockHeld' /\ TodoInRequest'
      BY <1>0, <2>7 DEF ScanAccepts, LockHeld, Locked, TodoInRequest, TypeOK
    <3>3. FilesHeld'
      BY <1>0, <2>7, <3>1 DEF ScanAccepts, FilesHeld, fileVars, TypeOK
    <3>4. DoomedIsNobodys'
      BY <1>0, <2>7, <3>1 DEF ScanAccepts, DoomedIsNobodys, TypeOK
    <3>5. Claims'
      <4>1. \A s \in request[p], t \in present : ~Conflict(s, t)
        BY <1>0, <2>7, AcceptedIsClear DEF ScanAccepts
      <4>2. \A q \in Proc \ {p} : Claim(q) = Mine(q) /\ Claim(q) \subseteq present
        <5> SUFFICES ASSUME NEW q \in Proc \ {p}
                     PROVE  Claim(q) = Mine(q) /\ Claim(q) \subseteq present
          OBVIOUS
        <5>1. pc[q] \notin Locked
          BY <2>7, LockedAlone DEF ScanAccepts, Locked
        <5>2. QED
          BY <5>1, <1>0 DEF Claim, Active, Locked, Mine, FilesHeld
      <4>3. \A q \in Proc \ {p} : Claim(q)' = Claim(q) /\ pc'[q] = pc[q]
        BY <1>0, <2>7, <3>1 DEF ScanAccepts, Claim, Active, TypeOK
      <4>4. Claim(p)' = request[p] /\ request' = request
        BY <1>0, <2>7 DEF ScanAccepts, Claim, Active, TypeOK
      <4>5. \A q \in Proc \ {p} : pc[q] \in Active =>
               \A s \in request[q], t \in request[p] : ~Conflict(s, t)
        <5> SUFFICES ASSUME NEW q \in Proc \ {p}, pc[q] \in Active,
                            NEW s \in request[q], NEW t \in request[p]
                     PROVE  ~Conflict(s, t)
          OBVIOUS
        <5>1. s \in present /\ s \in Tid /\ t \in Tid
          BY <4>2, <1>0 DEF Claim, TypeOK
        <5>2. QED
          BY <4>1, <5>1, ConflictSymmetric
      <4>6. QED
        BY <1>0, <4>1, <4>2, <4>3, <4>4, <4>5 DEF Claims
    <3>6. QED
      BY <3>2, <3>3, <3>4, <3>5 DEF IInv
  <2>8. CASE ValidateRejects(p)
    <3>1. LockHeld' /\ doomed[p] = {}
      BY <1>0, <2>8, LockedAlone
      DEF ValidateRejects, LockHeld, Locked, DoomedIsNobodys, TypeOK
    <3>2. QED
      BY <1>0, <2>8, <3>1, QuietStep DEF ValidateRejects, TypeOK
  <2>9. CASE ValidateAccepts(p)
    <3>1. \A q \in Proc : Mine(q)' = Mine(q)
      BY <1>0, <2>9 DEF ValidateAccepts, Mine, TypeOK
    <3>2. \A q \in Proc : Claim(q)' = Claim(q)
      BY <1>0, <2>9, <3>1 DEF ValidateAccepts, Claim, Active, TypeOK
    <3>3. LockHeld' /\ TodoInRequest'
      BY <1>0, <2>9 DEF ValidateAccepts, LockHeld, Locked, TodoInRequest, TypeOK
    <3>4. FilesHeld'
      <4>1. Mine(p)' = {}
        BY <1>0, <2>9 DEF ValidateAccepts, Mine, TypeOK
      <4>2. QED
        BY <1>0, <2>9, <3>1, <4>1 DEF ValidateAccepts, FilesHeld, fileVars, TypeOK
    <3>5. DoomedIsNobodys'
      BY <1>0, <2>9, <3>1 DEF ValidateAccepts, DoomedIsNobodys, TypeOK
    <3>6. Claims'
      BY <1>0, <2>9, <3>2 DEF ValidateAccepts, Claims, Active, TypeOK
    <3>7. QED
      BY <3>3, <3>4, <3>5, <3>6 DEF IInv
  <2>10. ASSUME NEW t \in Tid, WriteFile(p, t) PROVE IInv'
    <3>1. /\ Mine(p)' = Mine(p) \cup {t}
          /\ \A q \in Proc \ {p} : Mine(q)' = Mine(q)
      BY <1>0, <2>10 DEF WriteFile, Mine, TypeOK, TodoInRequest
    <3>2. \A q \in Proc : Claim(q)' = Claim(q)
      BY <1>0, <2>10, <3>1 DEF WriteFile, Claim, Active, TypeOK
    <3>3. LockHeld' /\ TodoInRequest'
      BY <1>0, <2>10 DEF WriteFile, LockHeld, TodoInRequest, TypeOK
    <3>4. \A q \in Proc \ {p} : t \notin Mine(q)
      <4> SUFFICES ASSUME NEW q \in Proc \ {p}, t \in Mine(q) PROVE FALSE
        OBVIOUS
      <4>1. pc[p] \in Active /\ t \in request[p]
        BY <1>0, <2>10 DEF WriteFile, Active, TodoInRequest
      <4>2. t \in Claim(q)
        BY <1>0 DEF Claim, Mine, TodoInRequest, Active
      <4>3. QED
        BY <1>0, <4>1, <4>2, ConflictReflexive DEF Claims
    <3>5. FilesHeld'
      BY <1>0, <2>10, <3>1, <3>4, FilesYoung DEF WriteFile, FilesHeld, TypeOK
    <3>6. DoomedIsNobodys'
      <4>1. \A q \in Proc : doomed[q] = {}
        BY <1>0, <2>10, LockedAlone DEF WriteFile, DoomedIsNobodys, Locked
      <4>2. QED
        BY <2>10, <4>1 DEF WriteFile, DoomedIsNobodys
    <3>7. Claims'
      BY <1>0, <2>10, <3>2 DEF WriteFile, Claims
    <3>8. QED
      BY <3>3, <3>5, <3>6, <3>7 DEF IInv
  <2>11. CASE WriteFails(p)
    <3>1. LockHeld' /\ doomed[p] = {}
      BY <1>0, <2>11, LockedAlone
      DEF WriteFails, LockHeld, Locked, DoomedIsNobodys, TypeOK
    <3>2. QED
      BY <1>0, <2>11, <3>1, QuietStep DEF WriteFails, TypeOK
  <2>12. CASE BeginOperation(p)
    <3>1. \A q \in Proc : Mine(q)' = Mine(q)
      BY <1>0, <2>12 DEF BeginOperation, Mine, TypeOK
    <3>2. \A q \in Proc : Claim(q)' = Claim(q)
      BY <1>0, <2>12, <3>1 DEF BeginOperation, Claim, Active, TypeOK
    <3>3. LockHeld' /\ TodoInRequest'
      BY <1>0, <2>12, LockedAlone DEF BeginOperation, LockHeld, Locked, TodoInRequest, TypeOK
    <3>4. FilesHeld'
      BY <1>0, <2>12, <3>1 DEF BeginOperation, FilesHeld, fileVars, TypeOK
    <3>5. DoomedIsNobodys'
      BY <1>0, <2>12, <3>1 DEF BeginOperation, DoomedIsNobodys, TypeOK
    <3>6. Claims'
      BY <1>0, <2>12, <3>2 DEF BeginOperation, Claims, Active, TypeOK
    <3>7. QED
      BY <3>3, <3>4, <3>5, <3>6 DEF IInv
  <2>13. CASE EndOperation(p)
    <3>1. \A q \in Proc : Mine(q)' = Mine(q)
      <4>1. Mine(p)' = request[p] /\ Mine(p) = request[p]
        BY <1>0, <2>13 DEF EndOperation, Mine, TypeOK
      <4>2. \A q \in Proc \ {p} : pc'[q] = pc[q] /\ todo'[q] = todo[q] /\ request'[q] = request[q]
        BY <1>0, <2>13 DEF EndOperation, TypeOK
      <4>3. \A q \in Proc \ {p} : Mine(q)' = Mine(q)
        BY <4>2 DEF Mine
      <4>4. QED
        BY <4>1, <4>3
    <3>2. \A q \in Proc : Claim(q)' = Claim(q)
      BY <1>0, <2>13, <3>1 DEF EndOperation, Claim, Active, Mine, TypeOK
    <3>3. LockHeld' /\ TodoInRequest'
      BY <1>0, <2>13 DEF EndOperation, LockHeld, Locked, TodoInRequest, TypeOK
    <3>4. FilesHeld'
      BY <1>0, <2>13, <3>1 DEF EndOperation, FilesHeld, fileVars, TypeOK
    <3>5. DoomedIsNobodys'
      BY <1>0, <2>13, <3>1 DEF EndOperation, DoomedIsNobodys, TypeOK
    <3>6. Claims'
      BY <1>0, <2>13, <3>2 DEF EndOperation, Claims, Active, TypeOK
    <3>7. QED
      BY <3>3, <3>4, <3>5, <3>6 DEF IInv
  <2>14. ASSUME NEW t \in Tid, FinishRemove(p, t) PROVE IInv'
    <3>1. /\ Mine(p)' = Mine(p) \ {t} /\ t \in Mine(p)
          /\ \A q \in Proc \ {p} : Mine(q)' = Mine(q)
      BY <1>0, <2>14 DEF FinishRemove, Mine, TypeOK
    <3>2. \A q \in Proc : Claim(q)' \subseteq Claim(q)
      BY <1>0, <2>14, <3>1 DEF FinishRemove, Claim, Active, TypeOK
    <3>3. LockHeld' /\ TodoInRequest'
      BY <1>0, <2>14 DEF FinishRemove, LockHeld, TodoInRequest, TypeOK
    <3>4. \A q \in Proc \ {p} : t \notin Mine(q)
      BY <3>1, FilesDisjoint
    <3>5. FilesHeld'
      <4>1. \A q \in Proc : \A u \in Mine(q)' : u \in Mine(q) /\ u # t /\ u \in Tid
        BY <3>1, <3>4, FilesYoung
      <4>2. QED
        BY <1>0, <2>14, <4>1 DEF FinishRemove, RemoveFiles, FilesHeld, TypeOK
    <3>6. DoomedIsNobodys'
      BY <1>0, <2>14, <3>1 DEF FinishRemove, DoomedIsNobodys
    <3>7. Claims'
      BY <1>0, <2>14, <3>2 DEF FinishRemove, Claims
    <3>8. QED
      BY <3>3, <3>5, <3>6, <3>7 DEF IInv
  <2>15. CASE Return(p)
    <3>1. LockHeld' /\ doomed[p] = {}
      BY <1>0, <2>15 DEF Return, LockHeld, Locked, DoomedIsNobodys, TypeOK
    <3>2. QED
      BY <1>0, <2>15, <3>1, QuietStep DEF Return, TypeOK
  <2>16. CASE LockExpires(p)
    <3>1. LockHeld' /\ doomed[p] = {}
      BY <1>0, <2>16 DEF LockExpires, LockHeld, Locked, DoomedIsNobodys
    <3>2. QED
      BY <1>0, <2>16, <3>1, QuietStep DEF LockExpires
  <2>17. QED
    BY <1>2, <2>1, <2>2, <2>3, <2>4, <2>5, <2>6, <2>7, <2>8, <2>9, <2>10, <2>11,
       <2>12, <2>13, <2>14, <2>15, <2>16 DEF Step
<1>3. ASSUME NEW p \in Proc, Touch(p) PROVE IInv'
  <2>1. \A q \in Proc : Mine(q)' = Mine(q) /\ Claim(q)' = Claim(q)
    BY <1>3 DEF Touch, Mine, Claim
  <2>2. LockHeld' /\ TodoInRequest' /\ DoomedIsNobodys' /\ Claims'
    BY <1>0, <1>3, <2>1 DEF Touch, LockHeld, TodoInRequest, DoomedIsNobodys, Claims
  <2>3. FilesHeld'
    <3>1. \A q \in Proc : \A t \in Mine(q) : age'[t] = age[t] \/ age'[t] = 0
      BY <1>3, FilesYoung DEF Touch
    <3>2. Mine(p) = request[p] /\ \A t \in Mine(p) : age'[t] = 0
      BY <1>0, <1>3, FilesYoung DEF Touch, Mine, FilesHeld
    <3>3. \A q \in Proc : \A t \in Mine(q) : t \in present /\ writer[t] = q /\ t \in Tid
      BY <1>0, FilesYoung DEF FilesHeld
    <3>4. ASSUME NEW q \in Proc \ {p} PROVE \A t \in Mine(q) : age'[t] <= silent'[q]
      BY <1>0, <1>3, <3>1, <3>3, <3>4 DEF Touch, FilesHeld, TypeOK
    <3>5. QED
      BY <1>0, <1>3, <2>1, <3>2, <3>3, <3>4 DEF Touch, FilesHeld, TypeOK
  <2>4. QED
    BY <2>2, <2>3 DEF IInv
<1>4. ASSUME NEW p \in Proc, Cancel(p) PROVE IInv'
  <2>1. \A q \in Proc : Mine(q)' = Mine(q) /\ Claim(q)' = Claim(q)
    BY <1>4 DEF Cancel, Mine, Claim
  <2>2. QED
    BY <1>0, <1>4, <2>1 DEF Cancel, IInv, LockHeld, TodoInRequest, FilesHeld,
         DoomedIsNobodys, Claims, fileVars
<1>5. ASSUME NEW p \in Proc, Crash(p) PROVE IInv'
  <2>1. LockHeld'
    BY <1>0, <1>5 DEF Crash, LockHeld, Locked, TypeOK
  <2>2. /\ Mine(p)' = {} /\ Claim(p)' = {}
        /\ \A q \in Proc \ {p} : Mine(q)' = Mine(q) /\ Claim(q)' = Claim(q)
    BY <1>0, <1>5 DEF Crash, Mine, Claim, Active, TypeOK
  <2>3. TodoInRequest' /\ FilesHeld'
    BY <1>0, <1>5, <2>2 DEF Crash, TodoInRequest, FilesHeld, fileVars, TypeOK
  <2>4. DoomedIsNobodys'
    BY <1>0, <1>5, <2>2 DEF Crash, DoomedIsNobodys, TypeOK
  <2>5. Claims'
    BY <1>0, <1>5, <2>2 DEF Crash, Claims, Active, TypeOK
  <2>6. QED
    BY <2>1, <2>3, <2>4, <2>5 DEF IInv
<1>6. CASE Tick
  <2>1. \A q \in Proc : Mine(q)' = Mine(q) /\ Claim(q)' = Claim(q)
    BY <1>6 DEF Tick, Mine, Claim
  <2>2. LockHeld' /\ TodoInRequest' /\ DoomedIsNobodys' /\ Claims'
    BY <1>0, <1>6, <2>1 DEF Tick, LockHeld, TodoInRequest, DoomedIsNobodys, Claims
  <2>3. ASSUME NEW q \in Proc, pc[q] \in {"write", "run", "finish"}
        PROVE  silent'[q] = silent[q] + 1 /\ silent[q] + 1 <= LockAcquireTimeout
    BY <1>0, <1>6, <2>3 DEF Tick, SilenceBound, Older, Timely, TypeOK
  <2>4. ASSUME NEW q \in Proc, NEW t \in Mine(q)
        PROVE  /\ pc[q] \in {"write", "run", "finish"}
               /\ t \in present /\ writer[t] = q /\ age'[t] <= age[t] + 1
    BY <1>0, <1>6, <2>4, FilesYoung DEF Tick, Older, FilesHeld, Mine, TypeOK
  <2>5. FilesHeld'
    <3>1. ASSUME NEW q \in Proc, NEW t \in Mine(q) PROVE age'[t] <= silent'[q]
      BY <1>0, <2>3, <2>4, <3>1, FilesYoung DEF FilesHeld, TypeOK
    <3>2. QED
      BY <1>6, <2>1, <2>3, <2>4, <3>1 DEF Tick, FilesHeld
  <2>6. QED
    BY <2>2, <2>5 DEF IInv
<1>7. CASE UNCHANGED vars
  <2>1. \A q \in Proc : Mine(q)' = Mine(q) /\ Claim(q)' = Claim(q)
    BY <1>7 DEF vars, Mine, Claim
  <2>2. QED
    BY <1>0, <1>7, <2>1 DEF vars, IInv, LockHeld, TodoInRequest, FilesHeld,
         DoomedIsNobodys, Claims
<1>8. QED
  BY <1>1, <1>2, <1>3, <1>4, <1>5, <1>6, <1>7 DEF Next

-----------------------------------------------------------------------------

\* The inductive invariant holds of every timely execution whose names carry.
THEOREM TransactionInvariant ==
  ASSUME Timely, NamesCarry PROVE Spec => []IInv
<1>1. Init => IInv
  <2> SUFFICES ASSUME Init PROVE IInv
    OBVIOUS
  <2>1. TypeOK
    BY TransactionAssumption DEF Init, TypeOK, PC
  <2>2. \A p \in Proc : pc[p] = "idle" /\ doomed[p] = {}
    BY DEF Init
  <2>3. \A p \in Proc : Mine(p) = {}
    BY <2>2 DEF Mine
  <2>4. QED
    BY <2>1, <2>2, <2>3 DEF IInv, LockHeld, TodoInRequest, FilesHeld, DoomedIsNobodys,
         Claims, Active, Locked
<1>2. IInv /\ TypeOK' /\ [Next]_vars => IInv'
  BY InductiveStep
<1>3. QED
  BY <1>1, <1>2, TypeCorrect, PTL DEF Spec

\* operation.go: "2 conflicting operation can't happen concurrently", for any
\* number of processes, although processes die and writes fail half way.
THEOREM Isolated ==
  ASSUME Timely, NamesCarry PROVE Spec => []NoConflictingOperations
<1>1. IInv => NoConflictingOperations
  BY DEF IInv, Claims, Claim, NoConflictingOperations
<1>2. QED
  BY <1>1, TransactionInvariant, PTL

\* The files that stand for a running operation are its own and never look
\* abandoned, for any number of processes.
THEOREM FilesProtected ==
  ASSUME Timely, NamesCarry PROVE Spec => []RunningKeepsFiles
<1>1. IInv => RunningKeepsFiles
  <2> SUFFICES ASSUME IInv, NEW p \in Proc, NEW t \in Mine(p)
               PROVE  t \in present /\ writer[t] = p /\ age[t] <= LockAcquireTimeout
    BY DEF RunningKeepsFiles
  <2>1. QED
    BY FilesYoung DEF IInv, FilesHeld
<1>2. QED
  BY <1>1, TransactionInvariant, PTL

\* What a step does to the operations that run: one of them begins, one of
\* them ends, or none is concerned.
LEMMA RunningSteps ==
  ASSUME IInv, [Next]_vars
  PROVE  \/ \A q \in Proc : Running(q)' = Running(q)
         \/ \E p \in Proc : /\ \A q \in Proc \ {p} : Running(q)' = Running(q)
                            /\ Running(p)' = {} \/ ScanAccepts(p)
<1> DEFINE Same == \A q \in Proc : Running(q)' = Running(q)
           Ends(p) == /\ \A q \in Proc \ {p} : Running(q)' = Running(q)
                      /\ Running(p)' = {}
           Begins(p) == /\ \A q \in Proc \ {p} : Running(q)' = Running(q)
                        /\ ScanAccepts(p)
<1> USE DEF IInv, TypeOK, Running, Active, Goto, Exit
<1>1. ASSUME NEW p \in Proc, NEW S \in Requests, Start(p, S) PROVE Ends(p)
  BY <1>1 DEF Start
<1>2. ASSUME NEW p \in Proc, Step(p) PROVE Same \/ Ends(p) \/ Begins(p)
  <2>1. ASSUME TakeLock(p) \/ CleanEnd(p) \/ LockTimeout(p) \/ ScanRejects(p)
                 \/ ValidateRejects(p) \/ WriteFails(p) \/ EndOperation(p) \/ Return(p)
        PROVE  Ends(p)
    BY <2>1 DEF TakeLock, CleanEnd, LockTimeout, ScanRejects, ValidateRejects,
         WriteFails, EndOperation, Return
  <2>2. ASSUME \/ \E t \in Tid : CleanStat(p, t) \/ WriteFile(p, t) \/ FinishRemove(p, t)
               \/ CleanRemove(p) \/ LockExpires(p) \/ ValidateAccepts(p) \/ BeginOperation(p)
        PROVE  Same
    BY <2>2 DEF CleanStat, WriteFile, FinishRemove, CleanRemove, LockExpires,
         ValidateAccepts, BeginOperation
  <2>3. ASSUME ScanAccepts(p) PROVE Begins(p)
    BY <2>3 DEF ScanAccepts
  <2>4. QED
    BY <1>2, <2>1, <2>2, <2>3 DEF Step
<1>3. ASSUME NEW p \in Proc, Touch(p) \/ Cancel(p) PROVE Same
  BY <1>3 DEF Touch, Cancel
<1>4. ASSUME NEW p \in Proc, Crash(p) PROVE Ends(p)
  BY <1>4 DEF Crash
<1>5. ASSUME Tick \/ UNCHANGED vars PROVE Same
  BY <1>5 DEF Tick, vars
<1>6. QED
  BY <1>1, <1>2, <1>3, <1>4, <1>5 DEF Next

\* Isolation has the conflict relation of the transaction layer.
LEMMA SameConflict == \A s, t : Iso!Conflict(s, t) <=> Conflict(s, t)
BY DEF Iso!Conflict, Conflict, Iso!PathsOverlap, PathsOverlap, Iso!Tree, Tree,
   Iso!IsPrefix, IsPrefix

\* The transaction layer implements Isolation for any number of processes: a
\* component that runs its operations through RunEdit and RunTreeChanged may be
\* modelled over Isolation alone.
THEOREM TransactionImplements ==
  ASSUME Timely, NamesCarry PROVE Spec => ImplementsIsolation
<1> DEFINE running == [p \in Proc |-> Running(p)]
<1>1. Init => Iso!Init
  BY DEF Init, Iso!Init, Running, Active
<1>2. IInv /\ IInv' /\ [Next]_vars => [Iso!Next]_running
  <2> SUFFICES ASSUME IInv, IInv', [Next]_vars PROVE [Iso!Next]_running
    OBVIOUS
  <2>1. CASE \A q \in Proc : Running(q)' = Running(q)
    BY <2>1
  <2>2. ASSUME NEW p \in Proc, \A q \in Proc \ {p} : Running(q)' = Running(q),
               Running(p)' = {}
        PROVE  Iso!End(p)
    BY <2>2 DEF Iso!End
  <2>3. ASSUME NEW p \in Proc, \A q \in Proc \ {p} : Running(q)' = Running(q),
               ScanAccepts(p)
        PROVE  Iso!Begin(p, request[p])
    <3>1. Running(p) = {} /\ Running(p)' = request[p] /\ request' = request
          /\ pc'[p] \in Active
      BY <2>3 DEF IInv, TypeOK, ScanAccepts, Running, Active, Goto
    <3>2. ASSUME NEW q \in Proc PROVE ~Iso!Excluded(request[p], Running(q))
      <4>1. CASE q = p \/ Running(q) = {}
        BY <3>1, <4>1 DEF Iso!Excluded
      <4>2. CASE q # p /\ Running(q) # {}
        <5>1. Running(q) = Running(q)'
          BY <2>3, <4>2
        <5>2. Running(q)' = Claim(q)'
          BY <4>2, <5>1 DEF Claim, Running
        <5>3. \A s \in request[p], t \in Claim(q)' : ~Conflict(s, t)
          BY <3>1, <4>2 DEF IInv, Claims
        <5>4. QED
          BY <5>1, <5>2, <5>3, SameConflict DEF Iso!Excluded
      <4>3. QED
        BY <4>1, <4>2
    <3>3. running' = [running EXCEPT ![p] = request[p]]
      BY <2>3, <3>1
    <3>4. QED
      BY <3>1, <3>2, <3>3 DEF Iso!Begin
  <2>4. ASSUME NEW p \in Proc PROVE request[p] \in SUBSET Tid
    BY DEF IInv, TypeOK
  <2>5. QED
    BY <2>1, <2>2, <2>3, <2>4, RunningSteps DEF Iso!Next
<1>3. QED
  BY <1>1, <1>2, TransactionInvariant, PTL DEF Spec, ImplementsIsolation, Iso!Spec
=============================================================================
