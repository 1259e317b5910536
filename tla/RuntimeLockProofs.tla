------------------------- MODULE RuntimeLockProofs -------------------------
(* Proofs about RuntimeLock, for every number of processes, inodes and PIDs. *)
EXTENDS RuntimeLock, TLAPS

USE NoneAssumption, ClearersAssumption, BoundAssumption, ProcfsAssumption, NoInfoAssumption

(***************************************************************************)
(* The inductive invariant.                                                *)
(***************************************************************************)

\* The steps at which a process has the lock file open.
FdSteps == {"flock", "verify", "truncate", "write", "held", "pflock", "pread", "pclose",
            "cflock", "cread", "cfree", "cclose", "cremove"}

\* The steps at which a process holds the exclusive flock of its open inode.
ExSteps == {"verify", "truncate", "write", "held", "cfree"}

FdOpen == \A p \in Proc : pc[p] \in FdSteps => fd[p] \in Inode

\* The converse of NoLeakedFlock: at those steps the flock is really held.
HoldsFlock == \A p \in Proc : pc[p] \in ExSteps => ex[fd[p]] = p

\* Until a clear cuts an owned lock, every owner's inode is the one at the path.
OwnerAtPath == cut = {} => \A p \in Proc : Owns(p) => fd[p] = path

\* An owner's metadata is its own, and once written it is what the inode holds.
OwnInfo ==
  \A p \in Proc : Owns(p) =>
    /\ mine[p] \in RuntimeLockInfo
    /\ mine[p].pid = p
    /\ mine[p].st = StartTime(p)

Published == \A p \in Proc : pc[p] = "held" => content[fd[p]] = mine[p]

TypeInv == TypeOK /\ FdOpen
FlockInv == HoldsFlock /\ NoLeakedFlock
LockInv == TypeInv /\ FlockInv /\ OwnerAtPath /\ OwnInfo /\ Published

(***************************************************************************)
(* Type correctness, with the fact that descriptors in use are open.       *)
(***************************************************************************)

LEMMA TypeInit == Init => TypeInv
  BY DEF Init, TypeInv, FdOpen, FdSteps, TypeOK, Steps, maxAttempts

LEMMA TypeNext == TypeInv /\ [Next]_vars => TypeInv'
<1> SUFFICES ASSUME TypeInv, [Next]_vars PROVE TypeInv'
  OBVIOUS
<1> USE DEF TypeInv, TypeOK, FdOpen, FdSteps, Steps, AcquireSteps, ProbeSteps, ClearSteps,
       maxAttempts
<1>1. CASE UNCHANGED vars
  BY <1>1 DEF vars
<1>2. CASE \E p \in Proc : Step(p) \/ StartAcquire(p) \/ StartProbe(p) \/ Release(p)
                             \/ Crash(p) \/ ReusePid(p)
  <2>1. ASSUME NEW p \in Proc, StartAcquire(p) PROVE TypeInv'
    BY <2>1 DEF StartAcquire, Goto
  <2>2. ASSUME NEW p \in Proc, AcqOpen(p) PROVE TypeInv'
    BY <2>2 DEF AcqOpen, Goto
  <2>3. ASSUME NEW p \in Proc, AcqFlockGot(p) PROVE TypeInv'
    BY <2>3 DEF AcqFlockGot, Goto, ExclusiveFree
  <2>4. ASSUME NEW p \in Proc, AcqFlockBusy(p) PROVE TypeInv'
    BY <2>4 DEF AcqFlockBusy, Goto, Leave, CloseFd
  <2>5. ASSUME NEW p \in Proc, AcqVerifyMatch(p) PROVE TypeInv'
    BY <2>5 DEF AcqVerifyMatch, Goto, StartTime, RuntimeLockInfo, lockedInodeMatchesPath
  <2>6. ASSUME NEW p \in Proc, AcqVerifyMismatch(p) PROVE TypeInv'
    <3>1. CASE attempt' = [attempt EXCEPT ![p] = @ + 1] /\ Goto(p, "open")
      BY <2>6, <3>1 DEF AcqVerifyMismatch, Goto, Leave, CloseFd
    <3>2. CASE Leave(p, "idle")
      BY <2>6, <3>2 DEF AcqVerifyMismatch, Goto, Leave, CloseFd
    <3>3. QED
      BY <2>6, <3>1, <3>2 DEF AcqVerifyMismatch
  <2>7. ASSUME NEW p \in Proc, AcqTruncate(p) PROVE TypeInv'
    BY <2>7 DEF AcqTruncate, Goto
  <2>8. ASSUME NEW p \in Proc, AcqWrite(p) PROVE TypeInv'
    BY <2>8 DEF AcqWrite, Goto
  <2>9. ASSUME NEW p \in Proc, AcqWriteFails(p) PROVE TypeInv'
    BY <2>9 DEF AcqWriteFails, Goto, Leave, CloseFd
  <2>10. ASSUME NEW p \in Proc, Release(p) PROVE TypeInv'
    BY <2>10 DEF Release, Goto, Leave, CloseFd
  <2>11. ASSUME NEW p \in Proc, StartProbe(p) PROVE TypeInv'
    BY <2>11 DEF StartProbe, Goto
  <2>12. ASSUME NEW p \in Proc, ProbeOpen(p) PROVE TypeInv'
    BY <2>12 DEF ProbeOpen, Goto, Leave, AfterFreeProbe
  <2>13. ASSUME NEW p \in Proc, ProbeFlock(p) PROVE TypeInv'
    BY <2>13 DEF ProbeFlock, Goto
  <2>14. ASSUME NEW p \in Proc, ProbeClose(p) PROVE TypeInv'
    BY <2>14 DEF ProbeClose, Goto, Leave, AfterFreeProbe, CloseFd
  <2>15. ASSUME NEW p \in Proc, ProbeRead(p) PROVE TypeInv'
    BY <2>15 DEF ProbeRead, readHolderBestEffort, Goto, Leave, CloseFd
  <2>16. ASSUME NEW p \in Proc, ClearOpen(p) PROVE TypeInv'
    BY <2>16 DEF ClearOpen, Goto, Reprobe
  <2>17. ASSUME NEW p \in Proc, ClearFlock(p) PROVE TypeInv'
    BY <2>17 DEF ClearFlock, Goto, ExclusiveFree
  <2>18. ASSUME NEW p \in Proc, clearFreeRuntimeLock(p) PROVE TypeInv'
    BY <2>18 DEF clearFreeRuntimeLock, Goto, Unlink
  <2>19. ASSUME NEW p \in Proc, ClearClose(p) PROVE TypeInv'
    BY <2>19 DEF ClearClose, Goto, Reprobe, CloseFd
  <2>20. ASSUME NEW p \in Proc, clearHeldRuntimeLock(p) PROVE TypeInv'
    <3>1. CASE Leave(p, "idle") /\ CloseFd(p)
      BY <2>20, <3>1 DEF clearHeldRuntimeLock, Goto, Leave, CloseFd
    <3>2. CASE Goto(p, "cremove") /\ UNCHANGED <<fd, ex, sh, overtaken, attempt, mine, seen, purpose>>
      BY <2>20, <3>2 DEF clearHeldRuntimeLock, Goto
    <3>3. QED
      BY <2>20, <3>1, <3>2 DEF clearHeldRuntimeLock
  <2>21. ASSUME NEW p \in Proc, ClearHeldRemove(p) PROVE TypeInv'
    BY <2>21 DEF ClearHeldRemove, Goto, Unlink
  <2>22. ASSUME NEW p \in Proc, Crash(p) PROVE TypeInv'
    BY <2>22 DEF Crash, Goto, Leave, CloseFd
  <2>23. ASSUME NEW p \in Proc, ReusePid(p) PROVE TypeInv'
    BY <2>23 DEF ReusePid, Goto
  <2>24. ASSUME NEW p \in Proc, SyscallFails(p) PROVE TypeInv'
    BY <2>24 DEF SyscallFails, Goto, Leave, CloseFd
  <2>25. QED
    BY <1>2, <2>1, <2>2, <2>3, <2>4, <2>5, <2>6, <2>7, <2>8, <2>9, <2>10, <2>11, <2>12,
       <2>13, <2>14, <2>15, <2>16, <2>17, <2>18, <2>19, <2>20, <2>21, <2>22, <2>23, <2>24 DEF Step
<1>3. CASE \E i \in Inode : Age(i)
  BY <1>3 DEF Age
<1>4. QED
  BY <1>1, <1>2, <1>3 DEF Next

\* Every variable of the lock protocol keeps its type.
THEOREM TypeCorrect == Spec => []TypeOK
<1>1. TypeInv => TypeOK
  BY DEF TypeInv
<1>2. QED
  BY TypeInit, TypeNext, <1>1, PTL DEF Spec

(***************************************************************************)
(* Flock ownership: held exactly at the steps that own it.                 *)
(***************************************************************************)

LEMMA FlockNext == TypeInv /\ FlockInv /\ [Next]_vars => FlockInv'
<1> SUFFICES ASSUME TypeInv, FlockInv, [Next]_vars PROVE FlockInv'
  OBVIOUS
<1> USE DEF TypeInv, TypeOK, FdOpen, FdSteps, FlockInv, HoldsFlock, NoLeakedFlock, ExSteps, Owns
<1>1. CASE UNCHANGED vars
  BY <1>1 DEF vars
<1>2. CASE \E p \in Proc : Step(p) \/ StartAcquire(p) \/ StartProbe(p) \/ Release(p)
                             \/ Crash(p) \/ ReusePid(p)
  <2>1. ASSUME NEW p \in Proc, StartAcquire(p) PROVE FlockInv'
    BY <2>1 DEF StartAcquire, Goto
  <2>2. ASSUME NEW p \in Proc, AcqOpen(p) PROVE FlockInv'
    BY <2>2 DEF AcqOpen, Goto
  <2>3. ASSUME NEW p \in Proc, AcqFlockGot(p) PROVE FlockInv'
    BY <2>3 DEF AcqFlockGot, Goto, ExclusiveFree
  <2>4. ASSUME NEW p \in Proc, AcqFlockBusy(p) PROVE FlockInv'
    BY <2>4 DEF AcqFlockBusy, Goto, Leave, CloseFd
  <2>5. ASSUME NEW p \in Proc, AcqVerifyMatch(p) PROVE FlockInv'
    BY <2>5 DEF AcqVerifyMatch, Goto
  <2>6. ASSUME NEW p \in Proc, AcqVerifyMismatch(p) PROVE FlockInv'
    BY <2>6 DEF AcqVerifyMismatch, Goto, Leave, CloseFd
  <2>7. ASSUME NEW p \in Proc, AcqTruncate(p) PROVE FlockInv'
    BY <2>7 DEF AcqTruncate, Goto
  <2>8. ASSUME NEW p \in Proc, AcqWrite(p) PROVE FlockInv'
    BY <2>8 DEF AcqWrite, Goto
  <2>9. ASSUME NEW p \in Proc, AcqWriteFails(p) PROVE FlockInv'
    BY <2>9 DEF AcqWriteFails, Goto, Leave, CloseFd
  <2>10. ASSUME NEW p \in Proc, Release(p) PROVE FlockInv'
    BY <2>10 DEF Release, Goto, Leave, CloseFd
  <2>11. ASSUME NEW p \in Proc, StartProbe(p) PROVE FlockInv'
    BY <2>11 DEF StartProbe, Goto
  <2>12. ASSUME NEW p \in Proc, ProbeOpen(p) PROVE FlockInv'
    BY <2>12 DEF ProbeOpen, Goto, Leave, AfterFreeProbe
  <2>13. ASSUME NEW p \in Proc, ProbeFlock(p) PROVE FlockInv'
    BY <2>13 DEF ProbeFlock, Goto
  <2>14. ASSUME NEW p \in Proc, ProbeClose(p) PROVE FlockInv'
    BY <2>14 DEF ProbeClose, Goto, Leave, AfterFreeProbe, CloseFd
  <2>15. ASSUME NEW p \in Proc, ProbeRead(p) PROVE FlockInv'
    BY <2>15 DEF ProbeRead, readHolderBestEffort, Goto, Leave, CloseFd
  <2>16. ASSUME NEW p \in Proc, ClearOpen(p) PROVE FlockInv'
    BY <2>16 DEF ClearOpen, Goto, Reprobe
  <2>17. ASSUME NEW p \in Proc, ClearFlock(p) PROVE FlockInv'
    BY <2>17 DEF ClearFlock, Goto, ExclusiveFree
  <2>18. ASSUME NEW p \in Proc, clearFreeRuntimeLock(p) PROVE FlockInv'
    BY <2>18 DEF clearFreeRuntimeLock, Goto, Unlink
  <2>19. ASSUME NEW p \in Proc, ClearClose(p) PROVE FlockInv'
    BY <2>19 DEF ClearClose, Goto, Reprobe, CloseFd
  <2>20. ASSUME NEW p \in Proc, clearHeldRuntimeLock(p) PROVE FlockInv'
    BY <2>20 DEF clearHeldRuntimeLock, Goto, Leave, CloseFd
  <2>21. ASSUME NEW p \in Proc, ClearHeldRemove(p) PROVE FlockInv'
    BY <2>21 DEF ClearHeldRemove, Goto, Unlink
  <2>22. ASSUME NEW p \in Proc, Crash(p) PROVE FlockInv'
    BY <2>22 DEF Crash, Goto, Leave, CloseFd
  <2>23. ASSUME NEW p \in Proc, ReusePid(p) PROVE FlockInv'
    BY <2>23 DEF ReusePid, Goto
  <2>24. ASSUME NEW p \in Proc, SyscallFails(p) PROVE FlockInv'
    BY <2>24 DEF SyscallFails, Goto, Leave, CloseFd
  <2>25. QED
    BY <1>2, <2>1, <2>2, <2>3, <2>4, <2>5, <2>6, <2>7, <2>8, <2>9, <2>10, <2>11, <2>12,
       <2>13, <2>14, <2>15, <2>16, <2>17, <2>18, <2>19, <2>20, <2>21, <2>22, <2>23, <2>24 DEF Step
<1>3. CASE \E i \in Inode : Age(i)
  BY <1>3 DEF Age
<1>4. QED
  BY <1>1, <1>2, <1>3 DEF Next

LEMMA OwnerNext == TypeInv /\ FlockInv /\ OwnerAtPath /\ [Next]_vars => OwnerAtPath'
<1> SUFFICES ASSUME TypeInv, FlockInv, OwnerAtPath, [Next]_vars PROVE OwnerAtPath'
  OBVIOUS
<1> USE DEF TypeInv, TypeOK, FdOpen, FdSteps, OwnerAtPath, Owns
<1>1. CASE UNCHANGED vars
  BY <1>1 DEF vars
<1>2. CASE \E p \in Proc : Step(p) \/ StartAcquire(p) \/ StartProbe(p) \/ Release(p)
                             \/ Crash(p) \/ ReusePid(p)
  <2>1. ASSUME NEW p \in Proc, StartAcquire(p) PROVE OwnerAtPath'
    BY <2>1 DEF StartAcquire, Goto
  <2>2. ASSUME NEW p \in Proc, AcqOpen(p) PROVE OwnerAtPath'
    BY <2>2 DEF AcqOpen, Goto
  <2>3. ASSUME NEW p \in Proc, AcqFlockGot(p) PROVE OwnerAtPath'
    BY <2>3 DEF AcqFlockGot, Goto
  <2>4. ASSUME NEW p \in Proc, AcqFlockBusy(p) PROVE OwnerAtPath'
    BY <2>4 DEF AcqFlockBusy, Goto, Leave, CloseFd
  <2>5. ASSUME NEW p \in Proc, AcqVerifyMatch(p) PROVE OwnerAtPath'
    BY <2>5 DEF AcqVerifyMatch, Goto, lockedInodeMatchesPath
  <2>6. ASSUME NEW p \in Proc, AcqVerifyMismatch(p) PROVE OwnerAtPath'
    BY <2>6 DEF AcqVerifyMismatch, Goto, Leave, CloseFd
  <2>7. ASSUME NEW p \in Proc, AcqTruncate(p) PROVE OwnerAtPath'
    BY <2>7 DEF AcqTruncate, Goto
  <2>8. ASSUME NEW p \in Proc, AcqWrite(p) PROVE OwnerAtPath'
    BY <2>8 DEF AcqWrite, Goto
  <2>9. ASSUME NEW p \in Proc, AcqWriteFails(p) PROVE OwnerAtPath'
    BY <2>9 DEF AcqWriteFails, Goto, Leave, CloseFd
  <2>10. ASSUME NEW p \in Proc, Release(p) PROVE OwnerAtPath'
    BY <2>10 DEF Release, Goto, Leave, CloseFd
  <2>11. ASSUME NEW p \in Proc, StartProbe(p) PROVE OwnerAtPath'
    BY <2>11 DEF StartProbe, Goto
  <2>12. ASSUME NEW p \in Proc, ProbeOpen(p) PROVE OwnerAtPath'
    BY <2>12 DEF ProbeOpen, Goto, Leave, AfterFreeProbe
  <2>13. ASSUME NEW p \in Proc, ProbeFlock(p) PROVE OwnerAtPath'
    BY <2>13 DEF ProbeFlock, Goto
  <2>14. ASSUME NEW p \in Proc, ProbeClose(p) PROVE OwnerAtPath'
    BY <2>14 DEF ProbeClose, Goto, Leave, AfterFreeProbe, CloseFd
  <2>15. ASSUME NEW p \in Proc, ProbeRead(p) PROVE OwnerAtPath'
    BY <2>15 DEF ProbeRead, readHolderBestEffort, Goto, Leave, CloseFd
  <2>16. ASSUME NEW p \in Proc, ClearOpen(p) PROVE OwnerAtPath'
    BY <2>16 DEF ClearOpen, Goto, Reprobe
  <2>17. ASSUME NEW p \in Proc, ClearFlock(p) PROVE OwnerAtPath'
    BY <2>17 DEF ClearFlock, Goto
  <2>18. ASSUME NEW p \in Proc, clearFreeRuntimeLock(p) PROVE OwnerAtPath'
    BY <2>18 DEF clearFreeRuntimeLock, Goto, Unlink
  <2>19. ASSUME NEW p \in Proc, ClearClose(p) PROVE OwnerAtPath'
    BY <2>19 DEF ClearClose, Goto, Reprobe, CloseFd
  <2>20. ASSUME NEW p \in Proc, clearHeldRuntimeLock(p) PROVE OwnerAtPath'
    BY <2>20 DEF clearHeldRuntimeLock, Goto, Leave, CloseFd
  <2>21. ASSUME NEW p \in Proc, ClearHeldRemove(p) PROVE OwnerAtPath'
    BY <2>21 DEF ClearHeldRemove, Goto, Unlink
  <2>22. ASSUME NEW p \in Proc, Crash(p) PROVE OwnerAtPath'
    BY <2>22 DEF Crash, Goto, Leave, CloseFd
  <2>23. ASSUME NEW p \in Proc, ReusePid(p) PROVE OwnerAtPath'
    BY <2>23 DEF ReusePid, Goto
  <2>24. ASSUME NEW p \in Proc, SyscallFails(p) PROVE OwnerAtPath'
    BY <2>24 DEF SyscallFails, Goto, Leave, CloseFd
  <2>25. QED
    BY <1>2, <2>1, <2>2, <2>3, <2>4, <2>5, <2>6, <2>7, <2>8, <2>9, <2>10, <2>11, <2>12,
       <2>13, <2>14, <2>15, <2>16, <2>17, <2>18, <2>19, <2>20, <2>21, <2>22, <2>23, <2>24 DEF Step
<1>3. CASE \E i \in Inode : Age(i)
  BY <1>3 DEF Age
<1>4. QED
  BY <1>1, <1>2, <1>3 DEF Next

LEMMA InfoNext == TypeInv /\ OwnInfo /\ [Next]_vars => OwnInfo'
<1> SUFFICES ASSUME TypeInv, OwnInfo, [Next]_vars PROVE OwnInfo'
  OBVIOUS
<1> USE DEF TypeInv, TypeOK, OwnInfo, Owns, StartTime
<1>1. CASE UNCHANGED vars
  BY <1>1 DEF vars, StartTime
<1>2. CASE \E p \in Proc : Step(p) \/ StartAcquire(p) \/ StartProbe(p) \/ Release(p)
                             \/ Crash(p) \/ ReusePid(p)
  <2>1. ASSUME NEW p \in Proc, StartAcquire(p) PROVE OwnInfo'
    BY <2>1 DEF StartAcquire, Goto
  <2>2. ASSUME NEW p \in Proc, AcqOpen(p) PROVE OwnInfo'
    BY <2>2 DEF AcqOpen, Goto
  <2>3. ASSUME NEW p \in Proc, AcqFlockGot(p) PROVE OwnInfo'
    BY <2>3 DEF AcqFlockGot, Goto
  <2>4. ASSUME NEW p \in Proc, AcqFlockBusy(p) PROVE OwnInfo'
    BY <2>4 DEF AcqFlockBusy, Goto, Leave, CloseFd
  <2>5. ASSUME NEW p \in Proc, AcqVerifyMatch(p) PROVE OwnInfo'
    BY <2>5 DEF AcqVerifyMatch, Goto, RuntimeLockInfo
  <2>6. ASSUME NEW p \in Proc, AcqVerifyMismatch(p) PROVE OwnInfo'
    BY <2>6 DEF AcqVerifyMismatch, Goto, Leave, CloseFd
  <2>7. ASSUME NEW p \in Proc, AcqTruncate(p) PROVE OwnInfo'
    BY <2>7 DEF AcqTruncate, Goto
  <2>8. ASSUME NEW p \in Proc, AcqWrite(p) PROVE OwnInfo'
    BY <2>8 DEF AcqWrite, Goto
  <2>9. ASSUME NEW p \in Proc, AcqWriteFails(p) PROVE OwnInfo'
    BY <2>9 DEF AcqWriteFails, Goto, Leave, CloseFd
  <2>10. ASSUME NEW p \in Proc, Release(p) PROVE OwnInfo'
    BY <2>10 DEF Release, Goto, Leave, CloseFd
  <2>11. ASSUME NEW p \in Proc, StartProbe(p) PROVE OwnInfo'
    BY <2>11 DEF StartProbe, Goto
  <2>12. ASSUME NEW p \in Proc, ProbeOpen(p) PROVE OwnInfo'
    BY <2>12 DEF ProbeOpen, Goto, Leave, AfterFreeProbe
  <2>13. ASSUME NEW p \in Proc, ProbeFlock(p) PROVE OwnInfo'
    BY <2>13 DEF ProbeFlock, Goto
  <2>14. ASSUME NEW p \in Proc, ProbeClose(p) PROVE OwnInfo'
    BY <2>14 DEF ProbeClose, Goto, Leave, AfterFreeProbe, CloseFd
  <2>15. ASSUME NEW p \in Proc, ProbeRead(p) PROVE OwnInfo'
    BY <2>15 DEF ProbeRead, readHolderBestEffort, Goto, Leave, CloseFd
  <2>16. ASSUME NEW p \in Proc, ClearOpen(p) PROVE OwnInfo'
    BY <2>16 DEF ClearOpen, Goto, Reprobe
  <2>17. ASSUME NEW p \in Proc, ClearFlock(p) PROVE OwnInfo'
    BY <2>17 DEF ClearFlock, Goto
  <2>18. ASSUME NEW p \in Proc, clearFreeRuntimeLock(p) PROVE OwnInfo'
    BY <2>18 DEF clearFreeRuntimeLock, Goto, Unlink
  <2>19. ASSUME NEW p \in Proc, ClearClose(p) PROVE OwnInfo'
    BY <2>19 DEF ClearClose, Goto, Reprobe, CloseFd
  <2>20. ASSUME NEW p \in Proc, clearHeldRuntimeLock(p) PROVE OwnInfo'
    BY <2>20 DEF clearHeldRuntimeLock, Goto, Leave, CloseFd
  <2>21. ASSUME NEW p \in Proc, ClearHeldRemove(p) PROVE OwnInfo'
    BY <2>21 DEF ClearHeldRemove, Goto, Unlink
  <2>22. ASSUME NEW p \in Proc, Crash(p) PROVE OwnInfo'
    BY <2>22 DEF Crash, Goto, Leave, CloseFd
  <2>23. ASSUME NEW p \in Proc, ReusePid(p) PROVE OwnInfo'
    BY <2>23 DEF ReusePid, Goto
  <2>24. ASSUME NEW p \in Proc, SyscallFails(p) PROVE OwnInfo'
    BY <2>24 DEF SyscallFails, Goto, Leave, CloseFd
  <2>25. QED
    BY <1>2, <2>1, <2>2, <2>3, <2>4, <2>5, <2>6, <2>7, <2>8, <2>9, <2>10, <2>11, <2>12,
       <2>13, <2>14, <2>15, <2>16, <2>17, <2>18, <2>19, <2>20, <2>21, <2>22, <2>23, <2>24 DEF Step
<1>3. CASE \E i \in Inode : Age(i)
  BY <1>3 DEF Age
<1>4. QED
  BY <1>1, <1>2, <1>3 DEF Next

LEMMA PublishedNext == TypeInv /\ FlockInv /\ Published /\ [Next]_vars => Published'
<1> SUFFICES ASSUME TypeInv, FlockInv, Published, [Next]_vars PROVE Published'
  OBVIOUS
<1> USE DEF TypeInv, TypeOK, FdOpen, FdSteps, FlockInv, HoldsFlock, ExSteps, Published
<1>1. CASE UNCHANGED vars
  BY <1>1 DEF vars
<1>2. CASE \E p \in Proc : Step(p) \/ StartAcquire(p) \/ StartProbe(p) \/ Release(p)
                             \/ Crash(p) \/ ReusePid(p)
  <2>1. ASSUME NEW p \in Proc, StartAcquire(p) PROVE Published'
    BY <2>1 DEF StartAcquire, Goto
  <2>2. ASSUME NEW p \in Proc, AcqOpen(p) PROVE Published'
    BY <2>2 DEF AcqOpen, Goto
  <2>3. ASSUME NEW p \in Proc, AcqFlockGot(p) PROVE Published'
    BY <2>3 DEF AcqFlockGot, Goto
  <2>4. ASSUME NEW p \in Proc, AcqFlockBusy(p) PROVE Published'
    BY <2>4 DEF AcqFlockBusy, Goto, Leave, CloseFd
  <2>5. ASSUME NEW p \in Proc, AcqVerifyMatch(p) PROVE Published'
    BY <2>5 DEF AcqVerifyMatch, Goto
  <2>6. ASSUME NEW p \in Proc, AcqVerifyMismatch(p) PROVE Published'
    BY <2>6 DEF AcqVerifyMismatch, Goto, Leave, CloseFd
  <2>7. ASSUME NEW p \in Proc, AcqTruncate(p) PROVE Published'
    BY <2>7 DEF AcqTruncate, Goto
  <2>8. ASSUME NEW p \in Proc, AcqWrite(p) PROVE Published'
    BY <2>8 DEF AcqWrite, Goto
  <2>9. ASSUME NEW p \in Proc, AcqWriteFails(p) PROVE Published'
    BY <2>9 DEF AcqWriteFails, Goto, Leave, CloseFd
  <2>10. ASSUME NEW p \in Proc, Release(p) PROVE Published'
    BY <2>10 DEF Release, Goto, Leave, CloseFd
  <2>11. ASSUME NEW p \in Proc, StartProbe(p) PROVE Published'
    BY <2>11 DEF StartProbe, Goto
  <2>12. ASSUME NEW p \in Proc, ProbeOpen(p) PROVE Published'
    BY <2>12 DEF ProbeOpen, Goto, Leave, AfterFreeProbe
  <2>13. ASSUME NEW p \in Proc, ProbeFlock(p) PROVE Published'
    BY <2>13 DEF ProbeFlock, Goto
  <2>14. ASSUME NEW p \in Proc, ProbeClose(p) PROVE Published'
    BY <2>14 DEF ProbeClose, Goto, Leave, AfterFreeProbe, CloseFd
  <2>15. ASSUME NEW p \in Proc, ProbeRead(p) PROVE Published'
    BY <2>15 DEF ProbeRead, readHolderBestEffort, Goto, Leave, CloseFd
  <2>16. ASSUME NEW p \in Proc, ClearOpen(p) PROVE Published'
    BY <2>16 DEF ClearOpen, Goto, Reprobe
  <2>17. ASSUME NEW p \in Proc, ClearFlock(p) PROVE Published'
    BY <2>17 DEF ClearFlock, Goto
  <2>18. ASSUME NEW p \in Proc, clearFreeRuntimeLock(p) PROVE Published'
    BY <2>18 DEF clearFreeRuntimeLock, Goto, Unlink
  <2>19. ASSUME NEW p \in Proc, ClearClose(p) PROVE Published'
    BY <2>19 DEF ClearClose, Goto, Reprobe, CloseFd
  <2>20. ASSUME NEW p \in Proc, clearHeldRuntimeLock(p) PROVE Published'
    BY <2>20 DEF clearHeldRuntimeLock, Goto, Leave, CloseFd
  <2>21. ASSUME NEW p \in Proc, ClearHeldRemove(p) PROVE Published'
    BY <2>21 DEF ClearHeldRemove, Goto, Unlink
  <2>22. ASSUME NEW p \in Proc, Crash(p) PROVE Published'
    BY <2>22 DEF Crash, Goto, Leave, CloseFd
  <2>23. ASSUME NEW p \in Proc, ReusePid(p) PROVE Published'
    BY <2>23 DEF ReusePid, Goto
  <2>24. ASSUME NEW p \in Proc, SyscallFails(p) PROVE Published'
    BY <2>24 DEF SyscallFails, Goto, Leave, CloseFd
  <2>25. QED
    BY <1>2, <2>1, <2>2, <2>3, <2>4, <2>5, <2>6, <2>7, <2>8, <2>9, <2>10, <2>11, <2>12,
       <2>13, <2>14, <2>15, <2>16, <2>17, <2>18, <2>19, <2>20, <2>21, <2>22, <2>23, <2>24 DEF Step
<1>3. CASE \E i \in Inode : Age(i)
  BY <1>3 DEF Age
<1>4. QED
  BY <1>1, <1>2, <1>3 DEF Next

(***************************************************************************)
(* The theorems.                                                           *)
(***************************************************************************)

LEMMA LockInvInit == Init => LockInv
<1>1. Init => FlockInv
  BY DEF Init, FlockInv, HoldsFlock, ExSteps, NoLeakedFlock, Owns
<1>2. Init => OwnerAtPath /\ OwnInfo /\ Published
  BY DEF Init, OwnerAtPath, OwnInfo, Published, Owns
<1>3. QED
  BY TypeInit, <1>1, <1>2 DEF LockInv

LEMMA LockInvNext == LockInv /\ [Next]_vars => LockInv'
  BY TypeNext, FlockNext, OwnerNext, InfoNext, PublishedNext DEF LockInv

LEMMA LockInvAlways == Spec => []LockInv
  BY LockInvInit, LockInvNext, PTL DEF Spec

\* No call path leaks a flock (the error and retry paths of acquire, probe and
\* clear all close what they opened).
THEOREM NoLeak == Spec => []NoLeakedFlock
<1>1. LockInv => NoLeakedFlock
  BY DEF LockInv, FlockInv
<1>2. QED
  BY LockInvAlways, <1>1, PTL

\* Two owners have the inode at the path open and hold its one exclusive flock,
\* so they are the same process, unless a clear unlinked an owned lock.
THEOREM Exclusion == Spec => []ExclusionUnlessCut
<1>1. LockInv => ExclusionUnlessCut
  BY DEF LockInv, TypeInv, FdOpen, FdSteps, FlockInv, HoldsFlock, ExSteps, OwnerAtPath, Owns,
         ExclusionUnlessCut, MutualExclusion
<1>2. QED
  BY LockInvAlways, <1>1, PTL

\* A settled holder within its age is never classified stale.
THEOREM SettledNotStale == Spec => []SettledHolderNotStale
<1>1. LockInv => SettledHolderNotStale
  BY DEF LockInv, OwnInfo, Published, Owns, SettledHolderNotStale, runtimeLockProbeStale,
         runtimeLockHolderStale, holderStillAlive
<1>2. QED
  BY LockInvAlways, <1>1, PTL

(***************************************************************************)
(* The free arm of a clear that no other clear overtakes.                  *)
(***************************************************************************)

\* The path leaves a clear's open file only by another clear's unlink.
StillAtPath == \A p \in Proc : Clearing(p) => p \in overtaken \/ fd[p] = path

FreeArmInv == StillAtPath /\ LoneClearSparesOwner

LEMMA FreeArmNext == LockInv /\ FreeArmInv /\ [Next]_vars => FreeArmInv'
<1> SUFFICES ASSUME LockInv, FreeArmInv, [Next]_vars PROVE FreeArmInv'
  OBVIOUS
<1> USE DEF LockInv, TypeInv, TypeOK, FdOpen, FdSteps, FreeArmInv, StillAtPath, Clearing,
       LoneClearSparesOwner
<1>1. CASE UNCHANGED vars
  BY <1>1 DEF vars
<1>2. CASE \E p \in Proc : Step(p) \/ StartAcquire(p) \/ StartProbe(p) \/ Release(p)
                             \/ Crash(p) \/ ReusePid(p)
  <2>1. ASSUME NEW p \in Proc, StartAcquire(p) PROVE FreeArmInv'
    BY <2>1 DEF StartAcquire, Goto
  <2>2. ASSUME NEW p \in Proc, AcqOpen(p) PROVE FreeArmInv'
    BY <2>2 DEF AcqOpen, Goto
  <2>3. ASSUME NEW p \in Proc, AcqFlockGot(p) PROVE FreeArmInv'
    BY <2>3 DEF AcqFlockGot, Goto
  <2>4. ASSUME NEW p \in Proc, AcqFlockBusy(p) PROVE FreeArmInv'
    BY <2>4 DEF AcqFlockBusy, Goto, Leave, CloseFd
  <2>5. ASSUME NEW p \in Proc, AcqVerifyMatch(p) PROVE FreeArmInv'
    BY <2>5 DEF AcqVerifyMatch, Goto
  <2>6. ASSUME NEW p \in Proc, AcqVerifyMismatch(p) PROVE FreeArmInv'
    BY <2>6 DEF AcqVerifyMismatch, Goto, Leave, CloseFd
  <2>7. ASSUME NEW p \in Proc, AcqTruncate(p) PROVE FreeArmInv'
    BY <2>7 DEF AcqTruncate, Goto
  <2>8. ASSUME NEW p \in Proc, AcqWrite(p) PROVE FreeArmInv'
    BY <2>8 DEF AcqWrite, Goto
  <2>9. ASSUME NEW p \in Proc, AcqWriteFails(p) PROVE FreeArmInv'
    BY <2>9 DEF AcqWriteFails, Goto, Leave, CloseFd
  <2>10. ASSUME NEW p \in Proc, Release(p) PROVE FreeArmInv'
    BY <2>10 DEF Release, Goto, Leave, CloseFd
  <2>11. ASSUME NEW p \in Proc, StartProbe(p) PROVE FreeArmInv'
    BY <2>11 DEF StartProbe, Goto
  <2>12. ASSUME NEW p \in Proc, ProbeOpen(p) PROVE FreeArmInv'
    BY <2>12 DEF ProbeOpen, Goto, Leave, AfterFreeProbe
  <2>13. ASSUME NEW p \in Proc, ProbeFlock(p) PROVE FreeArmInv'
    BY <2>13 DEF ProbeFlock, Goto
  <2>14. ASSUME NEW p \in Proc, ProbeClose(p) PROVE FreeArmInv'
    BY <2>14 DEF ProbeClose, Goto, Leave, AfterFreeProbe, CloseFd
  <2>15. ASSUME NEW p \in Proc, ProbeRead(p) PROVE FreeArmInv'
    BY <2>15 DEF ProbeRead, Goto, Leave, CloseFd
  <2>16. ASSUME NEW p \in Proc, ClearOpen(p) PROVE FreeArmInv'
    BY <2>16 DEF ClearOpen, Goto, Reprobe
  <2>17. ASSUME NEW p \in Proc, ClearFlock(p) PROVE FreeArmInv'
    BY <2>17 DEF ClearFlock, Goto
  <2>18. ASSUME NEW p \in Proc, clearFreeRuntimeLock(p) PROVE FreeArmInv'
    BY <2>18 DEF clearFreeRuntimeLock, Goto, Unlink, FlockInv, HoldsFlock, ExSteps, Owns
  <2>19. ASSUME NEW p \in Proc, ClearClose(p) PROVE FreeArmInv'
    BY <2>19 DEF ClearClose, Goto, Reprobe, CloseFd
  <2>20. ASSUME NEW p \in Proc, clearHeldRuntimeLock(p) PROVE FreeArmInv'
    BY <2>20 DEF clearHeldRuntimeLock, Goto, Leave, CloseFd
  <2>21. ASSUME NEW p \in Proc, ClearHeldRemove(p) PROVE FreeArmInv'
    BY <2>21 DEF ClearHeldRemove, Goto, Unlink
  <2>22. ASSUME NEW p \in Proc, Crash(p) PROVE FreeArmInv'
    BY <2>22 DEF Crash, Goto, Leave, CloseFd
  <2>23. ASSUME NEW p \in Proc, ReusePid(p) PROVE FreeArmInv'
    BY <2>23 DEF ReusePid, Goto
  <2>24. ASSUME NEW p \in Proc, SyscallFails(p) PROVE FreeArmInv'
    BY <2>24 DEF SyscallFails, Goto, Leave, CloseFd
  <2>25. QED
    BY <1>2, <2>1, <2>2, <2>3, <2>4, <2>5, <2>6, <2>7, <2>8, <2>9, <2>10, <2>11, <2>12,
       <2>13, <2>14, <2>15, <2>16, <2>17, <2>18, <2>19, <2>20, <2>21, <2>22, <2>23, <2>24 DEF Step
<1>3. CASE \E i \in Inode : Age(i)
  BY <1>3 DEF Age
<1>4. QED
  BY <1>1, <1>2, <1>3 DEF Next

\* However many processes run `wdm lock clear', the free arm unlinks a lock that
\* a process owns only when another clear unlinked the file it had opened: until
\* then the inode it locked is the one at the path, and an owner would hold that
\* inode's flock (clearFreeRuntimeLock).
THEOREM LoneClearSpares == Spec => []LoneClearSparesOwner
<1>1. Init => FreeArmInv
  BY DEF Init, FreeArmInv, StillAtPath, Clearing, LoneClearSparesOwner
<1>2. FreeArmInv => LoneClearSparesOwner
  BY DEF FreeArmInv
<1>3. QED
  BY LockInvAlways, FreeArmNext, <1>1, <1>2, PTL DEF Spec

(***************************************************************************)
(* The retry loop of an acquisition ends.                                  *)
(***************************************************************************)

\* What each step of an acquisition has left.
LEMMA StepsLeftValues ==
  ASSUME NEW p \in Proc
  PROVE  /\ pc[p] = "open" => StepsLeft(p) = 5 * (maxAttempts - attempt[p]) + 5
         /\ pc[p] = "flock" => StepsLeft(p) = 5 * (maxAttempts - attempt[p]) + 4
         /\ pc[p] = "verify" => StepsLeft(p) = 5 * (maxAttempts - attempt[p]) + 3
         /\ pc[p] = "truncate" => StepsLeft(p) = 5 * (maxAttempts - attempt[p]) + 2
         /\ pc[p] = "write" => StepsLeft(p) = 5 * (maxAttempts - attempt[p]) + 1
         /\ pc[p] \notin AcquireSteps => StepsLeft(p) = 0
  BY DEF StepsLeft, AcquireSteps

\* The same of the next state.
LEMMA StepsLeftNextValues ==
  ASSUME NEW p \in Proc
  PROVE  /\ pc'[p] = "open" => StepsLeft(p)' = 5 * (maxAttempts - attempt'[p]) + 5
         /\ pc'[p] = "flock" => StepsLeft(p)' = 5 * (maxAttempts - attempt'[p]) + 4
         /\ pc'[p] = "verify" => StepsLeft(p)' = 5 * (maxAttempts - attempt'[p]) + 3
         /\ pc'[p] = "truncate" => StepsLeft(p)' = 5 * (maxAttempts - attempt'[p]) + 2
         /\ pc'[p] = "write" => StepsLeft(p)' = 5 * (maxAttempts - attempt'[p]) + 1
         /\ pc'[p] \notin AcquireSteps => StepsLeft(p)' = 0
  BY DEF StepsLeft, AcquireSteps

\* An acquisition in progress has a step left, and no step of it adds one.
LEMMA AcquireStep ==
  ASSUME TypeInv, NEW p \in Proc, pc[p] \in AcquireSteps,
         \/ AcqOpen(p) \/ AcqFlockGot(p) \/ AcqFlockBusy(p) \/ AcqVerifyMatch(p)
         \/ AcqVerifyMismatch(p) \/ AcqTruncate(p) \/ AcqWrite(p) \/ AcqWriteFails(p)
         \/ SyscallFails(p) \/ Crash(p)
  PROVE  StepsLeft(p)' < StepsLeft(p)
<1>1. /\ pc \in [Proc -> Steps] /\ attempt \in [Proc -> 0..2] /\ attempt[p] \in 0..2 /\ maxAttempts = 2
      /\ pc[p] \in {"open", "flock", "verify", "truncate", "write"}
  BY DEF TypeInv, TypeOK, maxAttempts, AcquireSteps
<1>2. StepsLeft(p) \in Nat /\ StepsLeft(p) > 0
  BY <1>1, StepsLeftValues
<1>3. CASE pc'[p] \notin AcquireSteps
  BY <1>2, <1>3, StepsLeftNextValues
<1>4. CASE AcqOpen(p) \/ AcqFlockGot(p) \/ AcqVerifyMatch(p) \/ AcqTruncate(p)
  <2>1. /\ attempt' = attempt
        /\ <<pc[p], pc'[p]>> \in {<<"open", "flock">>, <<"flock", "verify">>,
                                 <<"verify", "truncate">>, <<"truncate", "write">>}
    BY <1>1, <1>4 DEF AcqOpen, AcqFlockGot, AcqVerifyMatch, AcqTruncate, Goto
  <2>2. QED
    BY <1>1, <2>1, StepsLeftValues, StepsLeftNextValues
<1>5. CASE AcqVerifyMismatch(p) /\ Goto(p, "open")
  <2>1. pc[p] = "verify" /\ pc'[p] = "open" /\ attempt'[p] = attempt[p] + 1
    BY <1>1, <1>5 DEF AcqVerifyMismatch, Goto, Leave
  <2>2. QED
    BY <1>1, <2>1, StepsLeftValues, StepsLeftNextValues
<1>6. CASE \/ AcqFlockBusy(p) \/ (AcqVerifyMismatch(p) /\ ~Goto(p, "open")) \/ AcqWrite(p)
           \/ AcqWriteFails(p) \/ SyscallFails(p) \/ Crash(p)
  <2>1. pc'[p] \in {"idle", "held", "dead"}
    BY <1>1, <1>6
    DEF AcqFlockBusy, AcqVerifyMismatch, AcqWrite, AcqWriteFails, SyscallFails, Crash, Leave, Goto
  <2>2. QED
    BY <1>3, <2>1 DEF AcquireSteps
<1>7. QED
  BY <1>4, <1>5, <1>6

\* Only its own steps move an acquisition.
LEMMA OthersLeaveAcquisition ==
  ASSUME TypeInv, NEW p \in Proc, pc[p] \in AcquireSteps, [Next]_vars,
         ~(\/ AcqOpen(p) \/ AcqFlockGot(p) \/ AcqFlockBusy(p) \/ AcqVerifyMatch(p)
           \/ AcqVerifyMismatch(p) \/ AcqTruncate(p) \/ AcqWrite(p) \/ AcqWriteFails(p)
           \/ SyscallFails(p) \/ Crash(p))
  PROVE  pc'[p] = pc[p] /\ attempt'[p] = attempt[p]
<1>0. /\ pc \in [Proc -> Steps] /\ attempt \in [Proc -> 0..maxAttempts]
      /\ pc[p] \in {"open", "flock", "verify", "truncate", "write"}
  BY DEF TypeInv, TypeOK, AcquireSteps
<1>1. ASSUME NEW q \in Proc, q # p,
             Step(q) \/ StartAcquire(q) \/ StartProbe(q) \/ Release(q) \/ Crash(q) \/ ReusePid(q)
      PROVE  pc'[p] = pc[p] /\ attempt'[p] = attempt[p]
  <2> USE <1>0, <1>1 DEF Goto, Leave
  <2>1. CASE AcqOpen(q) \/ AcqFlockGot(q) \/ AcqFlockBusy(q) \/ AcqVerifyMatch(q)
    BY <2>1 DEF AcqOpen, AcqFlockGot, AcqFlockBusy, AcqVerifyMatch
  <2>2. CASE AcqVerifyMismatch(q) \/ AcqTruncate(q) \/ AcqWrite(q) \/ AcqWriteFails(q)
    BY <2>2 DEF AcqVerifyMismatch, AcqTruncate, AcqWrite, AcqWriteFails
  <2>3. CASE ProbeOpen(q) \/ ProbeFlock(q) \/ ProbeClose(q) \/ ProbeRead(q)
    BY <2>3 DEF ProbeOpen, ProbeFlock, ProbeClose, ProbeRead, AfterFreeProbe
  <2>4. CASE ClearOpen(q) \/ ClearFlock(q) \/ clearFreeRuntimeLock(q) \/ ClearClose(q)
    BY <2>4 DEF ClearOpen, ClearFlock, clearFreeRuntimeLock, ClearClose, Reprobe
  <2>5. CASE clearHeldRuntimeLock(q) \/ ClearHeldRemove(q) \/ SyscallFails(q)
    BY <2>5 DEF clearHeldRuntimeLock, ClearHeldRemove, SyscallFails
  <2>6. CASE StartAcquire(q) \/ StartProbe(q) \/ Release(q) \/ Crash(q) \/ ReusePid(q)
    BY <2>6 DEF StartAcquire, StartProbe, Release, Crash, ReusePid
  <2>7. QED
    BY <2>1, <2>2, <2>3, <2>4, <2>5, <2>6 DEF Step
<1>2. ~(Step(p) \/ StartAcquire(p) \/ StartProbe(p) \/ Release(p) \/ Crash(p) \/ ReusePid(p))
  BY <1>0 DEF Step, ProbeOpen, ProbeFlock, ProbeClose, ProbeRead, ClearOpen, ClearFlock,
     clearFreeRuntimeLock, ClearClose, clearHeldRuntimeLock, ClearHeldRemove, StartAcquire,
     StartProbe, Release, ReusePid
<1>3. CASE \E i \in Inode : Age(i)
  BY <1>3 DEF Age
<1>4. CASE UNCHANGED vars
  BY <1>4 DEF vars
<1>5. QED
  BY <1>1, <1>2, <1>3, <1>4 DEF Next

\* However many processes acquire, probe and clear, an acquisition takes at most
\* ten steps: each one brings its end nearer, a retry included, and nothing
\* another process does moves it away (AcquireRuntimeLock, maxAttempts).
THEOREM AcquireEnds == Spec => AcquireReturns
<1>1. LockInv /\ [Next]_vars =>
        [\A p \in Proc : pc[p] \in AcquireSteps =>
           StepsLeft(p)' < StepsLeft(p) \/ UNCHANGED <<pc[p], attempt[p]>>]_vars
  BY AcquireStep, OthersLeaveAcquisition DEF LockInv
<1>2. QED
  BY <1>1, LockInvAlways, PTL DEF Spec, AcquireReturns

(***************************************************************************)
(* Until a clear cuts an owner off, the file lock implements the abstract  *)
(* lock.                                                                   *)
(***************************************************************************)

HeldBy == {p \in Proc : pc[p] = "held"}

\* What was cut stays cut: `cut` is a history variable.
LEMMA CutGrows == TypeInv /\ [Next]_vars => cut \subseteq cut'
<1> SUFFICES ASSUME TypeInv, [Next]_vars PROVE cut \subseteq cut'
  OBVIOUS
<1>1. CASE UNCHANGED vars
  BY <1>1 DEF vars
<1>2. ASSUME NEW p \in Proc, Step(p) PROVE cut \subseteq cut'
  <2>1. CASE AcqOpen(p) \/ AcqFlockGot(p) \/ AcqFlockBusy(p) \/ AcqVerifyMatch(p)
    BY <2>1 DEF AcqOpen, AcqFlockGot, AcqFlockBusy, AcqVerifyMatch
  <2>2. CASE AcqVerifyMismatch(p) \/ AcqTruncate(p) \/ AcqWrite(p) \/ AcqWriteFails(p)
    BY <2>2 DEF AcqVerifyMismatch, AcqTruncate, AcqWrite, AcqWriteFails
  <2>3. CASE ProbeOpen(p) \/ ProbeFlock(p) \/ ProbeClose(p) \/ ProbeRead(p)
    BY <2>3 DEF ProbeOpen, ProbeFlock, ProbeClose, ProbeRead
  <2>4. CASE ClearOpen(p) \/ ClearFlock(p) \/ clearFreeRuntimeLock(p)
    BY <2>4 DEF ClearOpen, ClearFlock, clearFreeRuntimeLock, Unlink
  <2>5. CASE ClearClose(p) \/ clearHeldRuntimeLock(p) \/ ClearHeldRemove(p) \/ SyscallFails(p)
    BY <2>5 DEF ClearClose, clearHeldRuntimeLock, ClearHeldRemove, SyscallFails, Unlink
  <2>6. QED
    BY <1>2, <2>1, <2>2, <2>3, <2>4, <2>5 DEF Step
<1>3. ASSUME NEW p \in Proc, StartAcquire(p) \/ StartProbe(p) \/ Release(p) \/ Crash(p) \/ ReusePid(p)
      PROVE cut \subseteq cut'
  BY <1>3 DEF StartAcquire, StartProbe, Release, Crash, ReusePid
<1>4. CASE \E i \in Inode : Age(i)
  BY <1>4 DEF Age
<1>5. QED
  BY <1>1, <1>2, <1>3, <1>4 DEF Next

\* A step adds one holder, at the end of its acquisition, or takes at most one
\* away, by its own release or death.
LEMMA HeldByStep ==
  TypeInv /\ [Next]_vars =>
    \/ HeldBy' = HeldBy
    \/ \E p \in Proc : Owns(p) /\ HeldBy' = HeldBy \cup {p}
    \/ \E p \in Proc : HeldBy' = HeldBy \ {p}
<1> SUFFICES ASSUME TypeInv, [Next]_vars
             PROVE  \/ HeldBy' = HeldBy
                    \/ \E p \in Proc : Owns(p) /\ HeldBy' = HeldBy \cup {p}
                    \/ \E p \in Proc : HeldBy' = HeldBy \ {p}
  OBVIOUS
<1>0. pc \in [Proc -> Steps]
  BY DEF TypeInv, TypeOK
<1> USE <1>0 DEF HeldBy, Goto, Leave
<1>1. CASE UNCHANGED vars
  BY <1>1 DEF vars
<1>2. ASSUME NEW p \in Proc, AcqWrite(p) PROVE Owns(p) /\ HeldBy' = HeldBy \cup {p}
  BY <1>2 DEF AcqWrite, Owns
<1>3. ASSUME NEW p \in Proc, Release(p) \/ Crash(p) PROVE HeldBy' = HeldBy \ {p}
  BY <1>3 DEF Release, Crash
<1>4. ASSUME NEW p \in Proc, StartAcquire(p) \/ StartProbe(p) \/ ReusePid(p) PROVE HeldBy' = HeldBy
  BY <1>4 DEF StartAcquire, StartProbe, ReusePid
<1>5. ASSUME NEW p \in Proc, Step(p), ~AcqWrite(p) PROVE HeldBy' = HeldBy
  <2>1. CASE AcqOpen(p) \/ AcqFlockGot(p) \/ AcqFlockBusy(p) \/ AcqVerifyMatch(p)
    BY <2>1 DEF AcqOpen, AcqFlockGot, AcqFlockBusy, AcqVerifyMatch
  <2>2. CASE AcqVerifyMismatch(p) \/ AcqTruncate(p) \/ AcqWriteFails(p)
    BY <2>2 DEF AcqVerifyMismatch, AcqTruncate, AcqWriteFails
  <2>3. CASE ProbeOpen(p) \/ ProbeFlock(p) \/ ProbeClose(p) \/ ProbeRead(p)
    BY <2>3 DEF ProbeOpen, ProbeFlock, ProbeClose, ProbeRead, AfterFreeProbe
  <2>4. CASE ClearOpen(p) \/ ClearFlock(p) \/ clearFreeRuntimeLock(p)
    BY <2>4 DEF ClearOpen, ClearFlock, clearFreeRuntimeLock, Reprobe
  <2>5. CASE ClearClose(p) \/ clearHeldRuntimeLock(p) \/ ClearHeldRemove(p) \/ SyscallFails(p)
    BY <2>5 DEF ClearClose, clearHeldRuntimeLock, ClearHeldRemove, SyscallFails, Reprobe
  <2>6. QED
    BY <1>5, <2>1, <2>2, <2>3, <2>4, <2>5 DEF Step
<1>6. CASE \E i \in Inode : Age(i)
  BY <1>6 DEF Age
<1>7. QED
  BY <1>1, <1>2, <1>3, <1>4, <1>5, <1>6 DEF Next

\* A step of the lock protocol is an acquisition, a departure, or no step at
\* all of the abstract lock.
LEMMA StepRefines == LockInv /\ [Next]_vars => [Abstract!Next]_Holders
<1> SUFFICES ASSUME LockInv, [Next]_vars PROVE Abstract!Next \/ Holders' = Holders
  OBVIOUS
<1>1. cut \subseteq cut'
  BY CutGrows DEF LockInv
<1>2. CASE cut # {}
  BY <1>1, <1>2 DEF Holders
<1>3. ASSUME cut = {} PROVE Abstract!Next \/ Holders' = Holders
  <2>1. MutualExclusion
    BY <1>3 DEF LockInv, TypeInv, FdOpen, FdSteps, FlockInv, HoldsFlock, ExSteps, OwnerAtPath,
                Owns, MutualExclusion
  <2>2. Holders = HeldBy /\ \A p, q \in Proc : p \in HeldBy /\ Owns(q) => p = q
    BY <1>3, <2>1 DEF Holders, HeldBy, MutualExclusion, Owns
  <2>3. \A p, q \in HeldBy : p = q
    BY <2>2 DEF HeldBy, Owns
  <2>4. CASE cut' # {}
    <3>1. Holders' = {}
      BY <2>4 DEF Holders
    <3>2. CASE Holders = {}
      BY <3>1, <3>2
    <3>3. CASE Holders # {}
      <4>1. PICK p \in Proc : Holders = {p}
        BY <3>3, <2>2, <2>3 DEF HeldBy
      <4>2. QED
        BY <3>1, <4>1 DEF Abstract!Next, Abstract!Leave
    <3>4. QED
      BY <3>2, <3>3
  <2>5. CASE cut' = {}
    <3>1. Holders' = HeldBy'
      BY <2>5 DEF Holders, HeldBy
    <3>2. CASE HeldBy' = HeldBy
      BY <2>2, <3>1, <3>2
    <3>3. ASSUME NEW p \in Proc, Owns(p), HeldBy' = HeldBy \cup {p}
          PROVE  Abstract!Next \/ Holders' = Holders
      <4>1. HeldBy = {} \/ p \in HeldBy
        BY <2>2, <3>3 DEF HeldBy
      <4>2. QED
        BY <2>2, <3>1, <3>3, <4>1 DEF Abstract!Next, Abstract!Acquire
    <3>4. ASSUME NEW p \in Proc, HeldBy' = HeldBy \ {p}
          PROVE  Abstract!Next \/ Holders' = Holders
      BY <2>2, <3>1, <3>4 DEF Abstract!Next, Abstract!Leave
    <3>5. QED
      BY <3>2, <3>3, <3>4, HeldByStep DEF LockInv
  <2>6. QED
    BY <2>4, <2>5
<1>4. QED
  BY <1>2, <1>3

\* Until a clear cuts an owner off, no interleaving of acquisitions, probes,
\* clears, crashes and PID reuse lets two processes hold the runtime lock or
\* takes it from its holder.
THEOREM LockRefinement == Spec => RefinesGlobalLock
<1>1. Init => Abstract!Init
  BY DEF Init, Abstract!Init, Holders
<1>2. QED
  BY <1>1, StepRefines, LockInvAlways, PTL DEF Spec, RefinesGlobalLock, Abstract!Spec
=============================================================================
