---------------------------- MODULE RuntimeLock ----------------------------
(***************************************************************************)
(* The global runtime.lock that serialises every state-changing engine     *)
(* operation across wdm processes: AcquireRuntimeLock, Release,            *)
(* ProbeRuntimeLock and the recovery flow ClearStaleRuntimeLock, with      *)
(* process crashes and PID reuse.  One action per system call: a flock     *)
(* belongs to an inode, the path names at most one inode, and a clear may  *)
(* unlink the path while other processes keep the old inode open.          *)
(***************************************************************************)
EXTENDS Naturals, FiniteSets

CONSTANTS Proc,            \* PIDs of wdm processes
          Clearers,        \* processes that may run `wdm lock clear`
          LongRunners,     \* processes that may outlive staleRuntimeLockAge
          Mortal,          \* bound: processes that may crash
          Inode,           \* inodes the lock file may be given (recycled)
          None,            \* no inode, no process
          NoInfo,          \* empty or unparseable holder metadata (PID 0)
          Procfs,          \* whether /proc start times can be read
          MaxIncarnation,  \* bound: processes that may share one PID
          MaxAcquire       \* bound: acquisitions that reach the metadata write

ASSUME NoneAssumption == None \notin Proc /\ None \notin Inode
ASSUME ClearersAssumption == Clearers \subseteq Proc
ASSUME BoundAssumption == MaxIncarnation \in Nat \ {0} /\ MaxAcquire \in Nat
ASSUME ProcfsAssumption == Procfs \in BOOLEAN

\* The holder JSON: PID, StartedAt (unique per acquisition), StartedTime.
RuntimeLockInfo == [pid: Proc, at: Nat, st: Nat]

ASSUME NoInfoAssumption == NoInfo \notin RuntimeLockInfo

\* const maxAttempts in AcquireRuntimeLock.
maxAttempts == 2

VARIABLES path,     \* inode at the lock path, or None
          content,  \* metadata bytes of each inode
          ex,       \* holder of LOCK_EX on each inode
          sh,       \* holders of LOCK_SH on each inode
          pc,       \* where each process is
          fd,       \* the inode each process has open
          attempt,  \* current iteration of the retry loop
          inc,      \* kernel start time of the process behind each PID
          mine,     \* metadata of the process's acquisition in progress
          seen,     \* holder fingerprint its last probe observed
          purpose,  \* why it probes: "status" or "clear"
          clock,    \* next StartedAt
          overage,  \* acquisitions started more than MaxHeldAge ago
          overtaken, \* clears whose open file another clear has unlinked (history)
          cut       \* how an owned lock was unlinked (history)

vars == <<path, content, ex, sh, pc, fd, attempt, inc, mine, seen, purpose,
          clock, overage, overtaken, cut>>

AcquireSteps == {"open", "flock", "verify", "truncate", "write"}
ProbeSteps == {"popen", "pflock", "pread", "pclose"}
ClearSteps == {"copen", "cflock", "cread", "cfree", "cclose", "cremove"}
Steps == {"idle", "held", "dead"} \cup AcquireSteps \cup ProbeSteps \cup ClearSteps

\* Past the inode check: AcquireRuntimeLock will return (or has returned) a handle.
Owns(p) == pc[p] \in {"truncate", "write", "held"}

Init ==
  /\ path = None
  /\ content = [i \in Inode |-> NoInfo]
  /\ ex = [i \in Inode |-> None]
  /\ sh = [i \in Inode |-> {}]
  /\ pc = [p \in Proc |-> "idle"]
  /\ fd = [p \in Proc |-> None]
  /\ attempt = [p \in Proc |-> 0]
  /\ inc = [p \in Proc |-> 1]
  /\ mine = [p \in Proc |-> NoInfo]
  /\ seen = [p \in Proc |-> NoInfo]
  /\ purpose = [p \in Proc |-> "status"]
  /\ clock = 0
  /\ overage = {}
  /\ overtaken = {}
  /\ cut = {}

Goto(p, step) == pc' = [pc EXCEPT ![p] = step]

\* The call returns or the process dies: its local variables are gone.
Leave(p, step) ==
  /\ Goto(p, step)
  /\ attempt' = [attempt EXCEPT ![p] = 0]
  /\ mine' = [mine EXCEPT ![p] = NoInfo]
  /\ seen' = [seen EXCEPT ![p] = NoInfo]
  /\ purpose' = [purpose EXCEPT ![p] = "status"]

\* Closing a descriptor (or dying) drops whatever flock it carries.
CloseFd(p) ==
  /\ fd' = [fd EXCEPT ![p] = None]
  /\ ex' = [i \in Inode |-> IF ex[i] = p THEN None ELSE ex[i]]
  /\ sh' = [i \in Inode |-> sh[i] \ {p}]
  /\ overtaken' = overtaken \ {p}

\* syscall.Flock(LOCK_EX|LOCK_NB) succeeds.
ExclusiveFree(i) == ex[i] = None /\ sh[i] = {}

----------------------------------------------------------------------------
(* AcquireRuntimeLock / acquireRuntimeLockOnce / Release *)

StartAcquire(p) ==
  /\ pc[p] = "idle"
  /\ clock + Cardinality({q \in Proc : pc[q] \in AcquireSteps}) < MaxAcquire
  /\ Goto(p, "open")
  /\ attempt' = [attempt EXCEPT ![p] = 1]
  /\ UNCHANGED <<path, content, ex, sh, fd, inc, mine, seen, purpose, clock, overage, overtaken, cut>>

\* O_RDWR|O_CREATE: the inode at the path, or a fresh empty one.
AcqOpen(p) ==
  /\ pc[p] = "open"
  /\ \/ /\ path # None
        /\ fd' = [fd EXCEPT ![p] = path]
        /\ UNCHANGED <<path, content>>
     \/ /\ path = None
        /\ \E i \in Inode :
             /\ \A q \in Proc : fd[q] # i
             /\ path' = i
             /\ fd' = [fd EXCEPT ![p] = i]
             /\ content' = [content EXCEPT ![i] = NoInfo]
  /\ Goto(p, "flock")
  /\ UNCHANGED <<ex, sh, attempt, inc, mine, seen, purpose, clock, overage, overtaken, cut>>

\* Mutant: the descriptor is closed on return, and the flock goes with it.
AcqFlockDropped(p) ==
  /\ pc[p] = "flock" /\ ExclusiveFree(fd[p])
  /\ Goto(p, "verify")
  /\ UNCHANGED <<path, content, ex, sh, fd, attempt, inc, mine, seen, purpose, clock, overage, overtaken, cut>>

AcqFlockGot(p) ==
  /\ pc[p] = "flock" /\ ExclusiveFree(fd[p])
  /\ ex' = [ex EXCEPT ![fd[p]] = p]
  /\ Goto(p, "verify")
  /\ UNCHANGED <<path, content, sh, fd, attempt, inc, mine, seen, purpose, clock, overage, overtaken, cut>>

\* Contention is terminal: LockHeldError, no retry.
AcqFlockBusy(p) ==
  /\ pc[p] = "flock" /\ ~ExclusiveFree(fd[p])
  /\ CloseFd(p)
  /\ Leave(p, "idle")
  /\ UNCHANGED <<path, content, inc, clock, overage, cut>>

\* Mutant: the locked inode is trusted unchecked.
AnyInodeMatches(p) == TRUE

lockedInodeMatchesPath(p) == fd[p] = path

StartTime(p) == IF Procfs THEN inc[p] ELSE 0

AcqVerifyMatch(p) ==
  /\ pc[p] = "verify" /\ lockedInodeMatchesPath(p)
  /\ mine' = [mine EXCEPT ![p] = [pid |-> p, at |-> clock, st |-> StartTime(p)]]
  /\ clock' = clock + 1
  /\ Goto(p, "truncate")
  /\ UNCHANGED <<path, content, ex, sh, fd, attempt, inc, seen, purpose, overage, overtaken, cut>>

\* Mutants: one retry too many, and a retry loop that does not count.
AcqVerifyMismatchOffByOne(p) ==
  /\ pc[p] = "verify" /\ ~lockedInodeMatchesPath(p)
  /\ CloseFd(p)
  /\ \/ /\ attempt[p] <= maxAttempts
        /\ attempt' = [attempt EXCEPT ![p] = @ + 1]
        /\ Goto(p, "open")
        /\ UNCHANGED <<mine, seen, purpose>>
     \/ /\ attempt[p] > maxAttempts
        /\ Leave(p, "idle")
  /\ UNCHANGED <<path, content, inc, clock, overage, cut>>

AcqVerifyMismatchUncounted(p) ==
  /\ pc[p] = "verify" /\ ~lockedInodeMatchesPath(p)
  /\ CloseFd(p)
  /\ Goto(p, "open")
  /\ UNCHANGED <<path, content, attempt, inc, mine, seen, purpose, clock, overage, cut>>

\* Detached inode: drop it and retry the fresh path, at most maxAttempts times.
AcqVerifyMismatch(p) ==
  /\ pc[p] = "verify" /\ ~lockedInodeMatchesPath(p)
  /\ CloseFd(p)
  /\ \/ /\ attempt[p] < maxAttempts
        /\ attempt' = [attempt EXCEPT ![p] = @ + 1]
        /\ Goto(p, "open")
        /\ UNCHANGED <<mine, seen, purpose>>
     \/ /\ attempt[p] >= maxAttempts
        /\ Leave(p, "idle")
  /\ UNCHANGED <<path, content, inc, clock, overage, cut>>

\* writeRuntimeLock truncates, then writes and fsyncs the JSON.
AcqTruncate(p) ==
  /\ pc[p] = "truncate"
  /\ content' = [content EXCEPT ![fd[p]] = NoInfo]
  /\ Goto(p, "write")
  /\ UNCHANGED <<path, ex, sh, fd, attempt, inc, mine, seen, purpose, clock, overage, overtaken, cut>>

\* Mutant: the handle is returned before the metadata reaches the file.
AcqWriteDeferred(p) ==
  /\ pc[p] = "write"
  /\ Goto(p, "held")
  /\ UNCHANGED <<path, content, ex, sh, fd, attempt, inc, mine, seen, purpose, clock, overage, overtaken, cut>>

AcqWrite(p) ==
  /\ pc[p] = "write"
  /\ content' = [content EXCEPT ![fd[p]] = mine[p]]
  /\ Goto(p, "held")
  /\ UNCHANGED <<path, ex, sh, fd, attempt, inc, mine, seen, purpose, clock, overage, overtaken, cut>>

\* A truncate, write or fsync error closes the fd and fails the acquisition;
\* when it was the fsync, the metadata is in the file all the same.
AcqWriteFails(p) ==
  /\ pc[p] \in {"truncate", "write"}
  /\ \/ UNCHANGED content
     \/ pc[p] = "write" /\ content' = [content EXCEPT ![fd[p]] = mine[p]]
  /\ CloseFd(p)
  /\ Leave(p, "idle")
  /\ UNCHANGED <<path, inc, clock, overage, cut>>

\* Unlock + Close; the file and its metadata stay behind.
Release(p) ==
  /\ pc[p] = "held"
  /\ CloseFd(p)
  /\ Leave(p, "idle")
  /\ UNCHANGED <<path, content, inc, clock, overage, cut>>

----------------------------------------------------------------------------
(* Holder liveness and staleness *)

\* The metadata behind an open descriptor; NoInfo when it does not parse.
readHolderBestEffort(p) == content[fd[p]]

\* kill(pid, 0), with the recorded start time guarding against PID reuse.
holderStillAlive(h) ==
  /\ h # NoInfo
  /\ pc[h.pid] # "dead"
  /\ h.st = 0 \/ h.st = StartTime(h.pid)

\* The engine's policy on a probe that found the flock taken.  Its fallback on
\* the file's ModTime is for a live holder whose record has no StartedAt: no
\* acquisition writes one, so here it agrees with the clear's own policy below.
runtimeLockProbeStale(h) == ~holderStillAlive(h) \/ h \in overage

\* The clear mechanism's own re-classification.
runtimeLockHolderStale(h) == ~holderStillAlive(h) \/ h \in overage

\* PID, StartedAt and StartedTime all equal, and a PID recorded on both sides.
holderFingerprintMatches(h, expected) == h # NoInfo /\ expected # NoInfo /\ h = expected

----------------------------------------------------------------------------
(* ProbeRuntimeLock, on behalf of a status read or of a clear *)

StartProbe(p) ==
  /\ pc[p] = "idle"
  /\ \E why \in (IF p \in Clearers THEN {"status", "clear"} ELSE {"status"}) :
       purpose' = [purpose EXCEPT ![p] = why]
  /\ Goto(p, "popen")
  /\ UNCHANGED <<path, content, ex, sh, fd, attempt, inc, mine, seen, clock, overage, overtaken, cut>>

\* What follows a probe that found the lock free or missing: nothing for a
\* status read, the clear without a prompt for a clear.
AfterFreeProbe(p) ==
  \/ purpose[p] = "status" /\ Leave(p, "idle")
  \/ purpose[p] = "clear" /\ Goto(p, "copen") /\ UNCHANGED <<attempt, mine, seen, purpose>>

ProbeOpen(p) ==
  /\ pc[p] = "popen"
  /\ \/ /\ path = None
        /\ AfterFreeProbe(p)
        /\ UNCHANGED fd
     \/ /\ path # None
        /\ fd' = [fd EXCEPT ![p] = path]
        /\ Goto(p, "pflock")
        /\ UNCHANGED <<attempt, mine, seen, purpose>>
  /\ UNCHANGED <<path, content, ex, sh, inc, clock, overage, overtaken, cut>>

\* LOCK_SH|LOCK_NB: while it is held, an acquirer's LOCK_EX fails.
ProbeFlock(p) ==
  /\ pc[p] = "pflock"
  /\ \/ /\ ex[fd[p]] = None
        /\ sh' = [sh EXCEPT ![fd[p]] = @ \cup {p}]
        /\ Goto(p, "pclose")
     \/ /\ ex[fd[p]] # None
        /\ Goto(p, "pread")
        /\ UNCHANGED sh
  /\ UNCHANGED <<path, content, ex, fd, attempt, inc, mine, seen, purpose, clock, overage, overtaken, cut>>

\* Mutant: the probe returns without closing its descriptor.
ProbeCloseForgotten(p) ==
  /\ pc[p] = "pclose"
  /\ AfterFreeProbe(p)
  /\ UNCHANGED <<path, content, ex, sh, fd, inc, clock, overage, overtaken, cut>>

ProbeClose(p) ==
  /\ pc[p] = "pclose"
  /\ CloseFd(p)
  /\ AfterFreeProbe(p)
  /\ UNCHANGED <<path, content, inc, clock, overage, cut>>

\* Held: read the metadata.  A clear goes on only when the policy calls the
\* holder stale and the confirmer agrees; else it refuses or is declined.
ProbeRead(p) ==
  /\ pc[p] = "pread"
  /\ CloseFd(p)
  /\ \/ Leave(p, "idle")
     \/ /\ purpose[p] = "clear" /\ runtimeLockProbeStale(readHolderBestEffort(p))
        /\ seen' = [seen EXCEPT ![p] = readHolderBestEffort(p)]
        /\ Goto(p, "copen")
        /\ UNCHANGED <<attempt, mine, purpose>>
  /\ UNCHANGED <<path, content, inc, clock, overage, cut>>

----------------------------------------------------------------------------
(* state.ClearStaleRuntimeLock and the engine's re-probe after it *)

\* The engine probes again to report the cleared state.
Reprobe(p) ==
  /\ purpose' = [purpose EXCEPT ![p] = "status"]
  /\ seen' = [seen EXCEPT ![p] = NoInfo]
  /\ Goto(p, "popen")

ClearOpen(p) ==
  /\ pc[p] = "copen"
  /\ \/ path = None /\ Reprobe(p) /\ UNCHANGED fd
     \/ /\ path # None
        /\ fd' = [fd EXCEPT ![p] = path]
        /\ Goto(p, "cflock")
        /\ UNCHANGED <<purpose, seen>>
  /\ UNCHANGED <<path, content, ex, sh, attempt, inc, mine, clock, overage, overtaken, cut>>

\* Mutant: the flock is only tested, and not kept while the path is unlinked.
ClearFlockReleased(p) ==
  /\ pc[p] = "cflock"
  /\ \/ ExclusiveFree(fd[p]) /\ Goto(p, "cfree")
     \/ ~ExclusiveFree(fd[p]) /\ Goto(p, "cread")
  /\ UNCHANGED <<path, content, ex, sh, fd, attempt, inc, mine, seen, purpose, clock, overage, overtaken, cut>>

ClearFlock(p) ==
  /\ pc[p] = "cflock"
  /\ \/ /\ ExclusiveFree(fd[p])
        /\ ex' = [ex EXCEPT ![fd[p]] = p]
        /\ Goto(p, "cfree")
     \/ ~ExclusiveFree(fd[p]) /\ Goto(p, "cread") /\ UNCHANGED ex
  /\ UNCHANGED <<path, content, sh, fd, attempt, inc, mine, seen, purpose, clock, overage, overtaken, cut>>

\* A clear that has the lock file open and has not yet removed the path.
Clearing(p) == pc[p] \in {"cflock", "cread", "cfree", "cremove"}

\* os.Remove(path) by p: unlinks whatever inode the path names now.
Unlink(p, how) ==
  /\ path' = None
  /\ overtaken' = IF path = None THEN overtaken
                  ELSE overtaken \cup {q \in Proc \ {p} : Clearing(q)}
  /\ cut' = IF path # None /\ \E q \in Proc : Owns(q) /\ fd[q] = path
            THEN cut \cup {how} ELSE cut

\* Free arm: unlink while still holding the flock.
clearFreeRuntimeLock(p) ==
  /\ pc[p] = "cfree"
  /\ Unlink(p, IF p \in overtaken THEN "overtaken" ELSE "free")
  /\ Goto(p, "cclose")
  /\ UNCHANGED <<content, ex, sh, fd, attempt, inc, mine, seen, purpose, clock, overage>>

\* Held arm: re-read and re-classify the holder, and compare it with the
\* fingerprint the probe observed, before unlinking.
Reverified(p) ==
  /\ runtimeLockHolderStale(readHolderBestEffort(p))
  /\ holderFingerprintMatches(readHolderBestEffort(p), seen[p])

clearHeldRuntimeLock(p) ==
  /\ pc[p] = "cread"
  /\ \/ /\ Reverified(p)
        /\ Goto(p, "cremove")
        /\ UNCHANGED <<fd, ex, sh, overtaken, attempt, mine, seen, purpose>>
     \/ /\ ~Reverified(p)
        /\ CloseFd(p)
        /\ Leave(p, "idle")
  /\ UNCHANGED <<path, content, inc, clock, overage, cut>>

ClearHeldRemove(p) ==
  /\ pc[p] = "cremove"
  /\ Unlink(p, "held")
  /\ Goto(p, "cclose")
  /\ UNCHANGED <<content, ex, sh, fd, attempt, inc, mine, seen, purpose, clock, overage>>

\* The deferred Close of either arm, and the engine's re-probe.
ClearClose(p) ==
  /\ pc[p] = "cclose"
  /\ CloseFd(p)
  /\ Reprobe(p)
  /\ UNCHANGED <<path, content, attempt, inc, mine, clock, overage, cut>>

\* An open, flock, close or remove that errs (ENOENT and EWOULDBLOCK are not
\* errors here) ends the call; what it had open is closed.
SyscallFails(p) ==
  /\ pc[p] \in {"open", "flock", "popen", "pflock", "pclose", "copen", "cflock", "cfree", "cremove"}
  /\ CloseFd(p)
  /\ Leave(p, "idle")
  /\ UNCHANGED <<path, content, inc, clock, overage, cut>>

----------------------------------------------------------------------------
(* The environment: the kernel frees a dead process's flocks, its PID may be
   reused by another process, and a recorded StartedAt may become over-age. *)

Crash(p) ==
  /\ p \in Mortal /\ pc[p] # "dead" /\ inc[p] < MaxIncarnation
  /\ CloseFd(p)
  /\ Leave(p, "dead")
  /\ UNCHANGED <<path, content, inc, clock, overage, cut>>

ReusePid(p) ==
  /\ pc[p] = "dead"
  /\ inc' = [inc EXCEPT ![p] = @ + 1]
  /\ Goto(p, "idle")
  /\ UNCHANGED <<path, content, ex, sh, fd, attempt, mine, seen, purpose, clock, overage, overtaken, cut>>

Age(i) ==
  /\ content[i] # NoInfo /\ content[i] \notin overage
  /\ content[i].pid \in LongRunners
  /\ overage' = overage \cup {content[i]}
  /\ UNCHANGED <<path, content, ex, sh, pc, fd, attempt, inc, mine, seen, purpose, clock, overtaken, cut>>

\* The steps of a call in progress: straight-line code that never blocks.
Step(p) ==
  \/ AcqOpen(p) \/ AcqFlockGot(p) \/ AcqFlockBusy(p) \/ AcqVerifyMatch(p)
  \/ AcqVerifyMismatch(p) \/ AcqTruncate(p) \/ AcqWrite(p) \/ AcqWriteFails(p)
  \/ ProbeOpen(p) \/ ProbeFlock(p) \/ ProbeClose(p) \/ ProbeRead(p)
  \/ ClearOpen(p) \/ ClearFlock(p) \/ clearFreeRuntimeLock(p) \/ ClearClose(p)
  \/ clearHeldRuntimeLock(p) \/ ClearHeldRemove(p) \/ SyscallFails(p)

Next ==
  \/ \E p \in Proc : Step(p) \/ StartAcquire(p) \/ StartProbe(p) \/ Release(p)
                       \/ Crash(p) \/ ReusePid(p)
  \/ \E i \in Inode : Age(i)

Spec == Init /\ [][Next]_vars
----------------------------------------------------------------------------
(* Properties *)

TypeOK ==
  /\ path \in Inode \cup {None}
  /\ content \in [Inode -> RuntimeLockInfo \cup {NoInfo}]
  /\ ex \in [Inode -> Proc \cup {None}]
  /\ sh \in [Inode -> SUBSET Proc]
  /\ pc \in [Proc -> Steps]
  /\ fd \in [Proc -> Inode \cup {None}]
  /\ attempt \in [Proc -> 0..maxAttempts]
  /\ inc \in [Proc -> Nat]
  /\ mine \in [Proc -> RuntimeLockInfo \cup {NoInfo}]
  /\ seen \in [Proc -> RuntimeLockInfo \cup {NoInfo}]
  /\ purpose \in [Proc -> {"status", "clear"}]
  /\ clock \in Nat
  /\ overage \in SUBSET RuntimeLockInfo
  /\ overtaken \in SUBSET Proc
  /\ cut \in SUBSET {"free", "overtaken", "held"}

\* At most one process owns the runtime lock: no two acquisitions are past the
\* inode check of acquireRuntimeLockOnce at the same time.
MutualExclusion == \A p, q \in Proc : Owns(p) /\ Owns(q) => p = q

\* Whatever crashes, retries, probes and clears interleave, the acquirer-side
\* inode check leaves one way to lose mutual exclusion: a clear that unlinked
\* the path while a process that had passed the check still owned its inode.
ExclusionUnlessCut == cut = {} => MutualExclusion

\* No path through acquire, probe or clear leaks a flock: whoever holds one
\* still has that inode open at a step whose continuation closes it.
NoLeakedFlock ==
  \A p \in Proc : \A i \in Inode :
    /\ ex[i] = p => fd[p] = i /\ (Owns(p) \/ pc[p] \in {"verify", "cfree", "cclose"})
    /\ p \in sh[i] => fd[p] = i /\ pc[p] = "pclose"

\* Once AcquireRuntimeLock has returned, the metadata on the holder's inode
\* names this very acquisition, so neither the probe's policy nor the clear's
\* re-check calls it stale before MaxHeldAge, whatever PIDs were reused.
SettledHolderNotStale ==
  \A p \in Proc : pc[p] = "held" /\ mine[p] \notin overage =>
    /\ ~runtimeLockProbeStale(content[fd[p]])
    /\ ~runtimeLockHolderStale(content[fd[p]])

\* A free arm of the clear that no other clear overtook never unlinks a lock a
\* process owns: an owner of the inode it opened would hold that inode's flock,
\* and only another clear's unlink can put a different inode at the path.
LoneClearSparesOwner == "free" \notin cut

\* The free arm of the clear never unlinks a lock a process owns.
FreeArmSparesOwner == {"free", "overtaken"} \cap cut = {}

\* The held arm of the clear never unlinks a lock a process owns.
HeldArmSparesOwner == "held" \notin cut

\* The most steps an acquisition in progress still has to take.
StepsLeft(p) ==
  IF pc[p] \notin AcquireSteps THEN 0
  ELSE 5 * (maxAttempts - attempt[p])
         + (CASE pc[p] = "open" -> 5 [] pc[p] = "flock" -> 4 [] pc[p] = "verify" -> 3
              [] pc[p] = "truncate" -> 2 [] pc[p] = "write" -> 1)

\* AcquireRuntimeLock returns, a handle or a refusal, even while clears keep
\* replacing the file: it never waits, and each of its steps, the retries
\* included, brings its end nearer, which nothing else moves away.
AcquireReturns ==
  [][\A p \in Proc : pc[p] \in AcquireSteps =>
       StepsLeft(p)' < StepsLeft(p) \/ UNCHANGED <<pc[p], attempt[p]>>]_vars

\* The holder as the engine sees it; nobody once a clear has cut an owner off.
Holders == IF cut = {} THEN {p \in Proc : pc[p] = "held"} ELSE {}
Abstract == INSTANCE GlobalLock WITH holders <- Holders

\* What every mutating operation relies on: until a clear cuts an owner off, the
\* file lock is an abstract lock with at most one holder that only its holder,
\* or its holder's death, gives up.  Without clears that is for ever.
RefinesGlobalLock == Abstract!Spec
=============================================================================
