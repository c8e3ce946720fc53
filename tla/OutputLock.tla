----------------------------- MODULE OutputLock -----------------------------
(***************************************************************************)
(* The output lock of packages/cli/src/services/generatorIO.ts: a          *)
(* directory `.typeweaver-lock' made with an atomic mkdir, whose info.json *)
(* names the pid and the unique token of its owner.  Generation runs of    *)
(* several operating-system processes contend for it; acquisition and      *)
(* release are synchronous JavaScript, so runs of one process interleave   *)
(* only between them, while runs of different processes interleave at      *)
(* every file-system call.  A process may be killed at any point, a pid    *)
(* may be used again, and a call may fail with a system error.             *)
(***************************************************************************)
EXTENDS Naturals, FiniteSets

CONSTANTS
  Procs,         \* operating-system processes over the life of the directory
  Pids,          \* process identifiers; a later process may reuse one
  PidOf,         \* the pid of each process
  Runs,          \* generation runs: one fiber that may generate many times
  NoRun,
  ProcOf,        \* the process that executes each run
  Tokens,        \* randomUUID() values; never drawn twice
  NoToken,
  MaxFaults,     \* bound: system errors thrown by file-system calls
  Absent,        \* no such directory
  Unpublished,   \* a directory without a complete info.json
  NoInfo,        \* readLockInfo returned undefined
  OperatorRemovesPublished
                 \* may the operator, told that the holder crashed, remove a
                 \* lock whose info.json is complete?

ASSUME PidAssumption == PidOf \in [Procs -> Pids]
ASSUME RunAssumption == ProcOf \in [Runs -> Procs] /\ NoRun \notin Runs
ASSUME TokenAssumption == NoToken \notin Tokens
ASSUME FaultAssumption == MaxFaults \in Nat
ASSUME DirAssumption ==
  /\ Absent # Unpublished
  /\ {Absent, Unpublished, NoInfo}
       \cap [pid : Pids, ownerToken : Tokens] = {}
ASSUME OperatorAssumption == OperatorRemovesPublished \in BOOLEAN

VARIABLES
  lockDir,       \* the directory `.typeweaver-lock'
  fences,        \* the directories `.typeweaver-lock.fence-<hash of token>'
  pc,            \* where each run is
  token,         \* the token of the lock a run is acquiring, holding, releasing
  holder,        \* the LockInfo a run read before it tried to reclaim
  failedRelease, \* failedOutputLockReleases of each process, for this path
  procState,     \* "unborn", "alive" or "dead"
  drawnBy,       \* history: the run that drew each token
  faults         \* system errors so far

vars == <<lockDir, fences, pc, token, holder, failedRelease, procState,
          drawnBy, faults>>

-----------------------------------------------------------------------------
(* A directory is absent, present without a complete info.json, or present *)
(* with one.  The startedAt and inputFile of LockInfo add nothing to the   *)
(* unique token and are left out.                                          *)
LockInfo == [pid : Pids, ownerToken : Tokens]
Dir == LockInfo \cup {Absent, Unpublished}

\* readLockInfo: undefined unless the file is there and complete
InfoIn(dir) == IF dir \in LockInfo THEN dir ELSE NoInfo

InfoOf(r, t) == [pid |-> PidOf[ProcOf[r]], ownerToken |-> t]

\* Mutant: the probe takes every error of kill(pid, 0) for ESRCH.
NobodyAlive(pid) == pid \notin Pids

\* isProcessAlive: the pid belongs to a live process, whichever it is
PidAlive(pid) == \E p \in Procs : procState[p] = "alive" /\ PidOf[p] = pid

AcquirePcs == {"readHolder", "probe", "recheck", "move", "verify",
               "restoreCheck", "restore", "lost", "retry"}
RollbackPcs == {"rollback", "rollbackUnlink", "rollbackRmdir"}
DetachPcs == {"relStat", "relRead", "relMove", "relVerify",
              "relRestoreCheck", "relRestore"}
CleanupPcs == {"relUnlink", "relRmdir"}
SyncPcs == AcquirePcs \cup {"publish"} \cup RollbackPcs \cup DetachPcs
             \cup CleanupPcs
Pcs == {"idle", "holding"} \cup SyncPcs

\* Points at which a run relies on the canonical directory being its own
ClaimPcs == {"publish", "holding", "relStat", "relRead", "relMove"}
              \cup RollbackPcs

Init ==
  /\ lockDir = Absent
  /\ fences = [t \in Tokens |-> Absent]
  /\ pc = [r \in Runs |-> "idle"]
  /\ token = [r \in Runs |-> NoToken]
  /\ holder = [r \in Runs |-> NoInfo]
  /\ failedRelease = [p \in Procs |-> NoToken]
  /\ procState = [p \in Procs |-> "unborn"]
  /\ drawnBy = [t \in Tokens |-> NoRun]
  /\ faults = 0

-----------------------------------------------------------------------------
(* Control                                                                 *)

\* Synchronous code of one process is not interleaved with itself.
MayStep(r) ==
  /\ procState[ProcOf[r]] = "alive"
  /\ \A s \in Runs \ {r} : ProcOf[s] = ProcOf[r] => pc[s] \notin SyncPcs

At(r, at) == MayStep(r) /\ pc[r] = at
Goto(r, to) == pc' = [pc EXCEPT ![r] = to]

\* The attempt is over: locals are dead.
Finish(r) ==
  /\ Goto(r, "idle")
  /\ token' = [token EXCEPT ![r] = NoToken]
  /\ holder' = [holder EXCEPT ![r] = NoInfo]

\* Mutant: a failed release is not remembered.
RememberNothing(r) == UNCHANGED failedRelease /\ token[r] \in Tokens

Remember(r) ==
  failedRelease' = [failedRelease EXCEPT ![ProcOf[r]] = token[r]]
ForgetAt(r) ==
  failedRelease' = [failedRelease EXCEPT ![ProcOf[r]] = NoToken]
ForgetOwn(r) ==
  IF failedRelease[ProcOf[r]] = token[r]
    THEN ForgetAt(r) ELSE UNCHANGED failedRelease

\* Mutant: mkdir with `recursive', which does not fail with EEXIST
MkdirRecursive(r) ==
  /\ lockDir' = Unpublished
  /\ \E t \in Tokens :
       /\ drawnBy[t] = NoRun
       /\ drawnBy' = [drawnBy EXCEPT ![t] = r]
       /\ token' = [token EXCEPT ![r] = t]
  /\ Goto(r, "publish")

\* tryCreateLockDir succeeds and a fresh token is drawn
Mkdir(r) ==
  /\ lockDir = Absent
  /\ lockDir' = Unpublished
  /\ \E t \in Tokens :
       /\ drawnBy[t] = NoRun
       /\ drawnBy' = [drawnBy EXCEPT ![t] = r]
       /\ token' = [token EXCEPT ![r] = t]
  /\ Goto(r, "publish")

-----------------------------------------------------------------------------
(* acquireOutputLock                                                       *)

\* The first mkdir; "publish" forgets a remembered release once it succeeds.
CreateFirst(r) ==
  /\ At(r, "idle") /\ Mkdir(r)
  /\ UNCHANGED <<fences, holder, failedRelease, procState, faults>>

\* mkdir failed with EEXIST
FindTaken(r) ==
  /\ At(r, "idle") /\ lockDir # Absent
  /\ Goto(r, "readHolder")
  /\ UNCHANGED <<lockDir, fences, token, holder, failedRelease, procState,
                 drawnBy, faults>>

\* Mutant: the holder is not probed before its lock is reclaimed.
ReadHolderUnprobed(r) ==
  /\ At(r, "readHolder")
  /\ IF InfoIn(lockDir) = NoInfo
       THEN Finish(r)
       ELSE /\ holder' = [holder EXCEPT ![r] = InfoIn(lockDir)]
            /\ Goto(r, "recheck")
            /\ UNCHANGED token
  /\ UNCHANGED <<lockDir, fences, failedRelease, procState, drawnBy, faults>>

\* Missing metadata fails closed: ConcurrentGenerationError, holder Unknown.
ReadHolder(r) ==
  /\ At(r, "readHolder")
  /\ IF InfoIn(lockDir) = NoInfo
       THEN Finish(r)
       ELSE /\ holder' = [holder EXCEPT ![r] = InfoIn(lockDir)]
            /\ Goto(r, "probe")
            /\ UNCHANGED token
  /\ UNCHANGED <<lockDir, fences, failedRelease, procState, drawnBy, faults>>

IsFailedRelease(r) ==
  /\ holder[r].pid = PidOf[ProcOf[r]]
  /\ failedRelease[ProcOf[r]] = holder[r].ownerToken

\* Mutant: every known holder counts as active.
ProbeHolderNeverStale(r) ==
  /\ At(r, "probe") /\ Finish(r)
  /\ UNCHANGED <<lockDir, fences, failedRelease, procState, drawnBy, faults>>

\* isActiveOutputLock
ProbeHolder(r) ==
  /\ At(r, "probe")
  /\ IF ~IsFailedRelease(r) /\ PidAlive(holder[r].pid)
       THEN Finish(r)
       ELSE Goto(r, "recheck") /\ UNCHANGED <<token, holder>>
  /\ UNCHANGED <<lockDir, fences, failedRelease, procState, drawnBy, faults>>

\* moveStaleLockToFence reads the metadata again before it moves anything
Recheck(r) ==
  /\ At(r, "recheck")
  /\ Goto(r, IF InfoIn(lockDir) = holder[r] THEN "move" ELSE "lost")
  /\ UNCHANGED <<lockDir, fences, token, holder, failedRelease, procState,
                 drawnBy, faults>>

\* Mutant: the rename may replace a fence that is already there.
MayRenameOver(from, to) == from # Absent /\ to # from

\* rename(2) of the lock onto the fence of token t replaces an absent or an
\* empty directory and fails with ENOENT or ENOTEMPTY otherwise.
MayRename(from, to) == from # Absent /\ to \notin LockInfo

MoveToFence(r) ==
  LET t == holder[r].ownerToken IN
  /\ At(r, "move")
  /\ IF MayRename(lockDir, fences[t])
       THEN /\ fences' = [fences EXCEPT ![t] = lockDir]
            /\ lockDir' = Absent
            /\ Goto(r, "verify")
       ELSE Goto(r, "lost") /\ UNCHANGED <<lockDir, fences>>
  /\ UNCHANGED <<token, holder, failedRelease, procState, drawnBy, faults>>

VerifyFence(r) ==
  /\ At(r, "verify")
  /\ IF InfoIn(fences[holder[r].ownerToken]) = holder[r]
       THEN Goto(r, "retry") /\ ForgetAt(r)
       ELSE Goto(r, "restoreCheck") /\ UNCHANGED failedRelease
  /\ UNCHANGED <<lockDir, fences, token, holder, procState, drawnBy, faults>>

\* Something else was moved: put it back if the canonical name is free.
RestoreCheck(r) ==
  /\ At(r, "restoreCheck")
  /\ Goto(r, IF lockDir = Absent THEN "restore" ELSE "lost")
  /\ UNCHANGED <<lockDir, fences, token, holder, failedRelease, procState,
                 drawnBy, faults>>

Restore(r) ==
  LET t == holder[r].ownerToken IN
  /\ At(r, "restore")
  /\ IF MayRename(fences[t], lockDir)
       THEN /\ lockDir' = fences[t]
            /\ fences' = [fences EXCEPT ![t] = Absent]
            /\ Goto(r, "lost")
            /\ UNCHANGED <<token, holder>>
       ELSE Finish(r) /\ UNCHANGED <<lockDir, fences>>
  /\ UNCHANGED <<failedRelease, procState, drawnBy, faults>>

\* Not reclaimed: ConcurrentGenerationError, whoever holds it now
GiveUp(r) ==
  LET now == InfoIn(lockDir) IN
  /\ At(r, "lost")
  /\ Finish(r)
  /\ IF now = NoInfo \/ now.ownerToken # holder[r].ownerToken
       THEN ForgetAt(r) ELSE UNCHANGED failedRelease
  /\ UNCHANGED <<lockDir, fences, procState, drawnBy, faults>>

\* mkdir after a reclaim; another run may have been faster
CreateAgain(r) ==
  /\ At(r, "retry")
  /\ \/ Mkdir(r) /\ UNCHANGED holder
     \/ lockDir # Absent /\ Finish(r) /\ UNCHANGED <<lockDir, drawnBy>>
  /\ UNCHANGED <<fences, failedRelease, procState, faults>>

\* writeLockInfo: exclusive create of a private file renamed to info.json.
\* Nobody reads the private file, so both calls are one step.
Publish(r) ==
  /\ At(r, "publish")
  /\ IF lockDir = Absent
       THEN Goto(r, "rollback") /\ UNCHANGED <<lockDir, failedRelease>>
       ELSE /\ lockDir' = InfoOf(r, token[r])
            /\ Goto(r, "holding")
            /\ ForgetAt(r)
  /\ UNCHANGED <<fences, token, holder, procState, drawnBy, faults>>

-----------------------------------------------------------------------------
(* rollbackLockAcquisition: the write failed                               *)

RollbackRead(r) ==
  LET now == InfoIn(lockDir) IN
  /\ At(r, "rollback")
  /\ IF now # NoInfo /\ now.ownerToken # token[r]
       THEN Finish(r)
       ELSE Goto(r, "rollbackUnlink") /\ UNCHANGED <<token, holder>>
  /\ UNCHANGED <<lockDir, fences, failedRelease, procState, drawnBy, faults>>

\* rmSync of a directory: first what is in it, then the directory
RollbackUnlink(r) ==
  /\ At(r, "rollbackUnlink")
  /\ lockDir' = IF lockDir = Absent THEN Absent ELSE Unpublished
  /\ Goto(r, "rollbackRmdir")
  /\ UNCHANGED <<fences, token, holder, failedRelease, procState, drawnBy,
                 faults>>

RollbackRmdir(r) ==
  /\ At(r, "rollbackRmdir")
  /\ lockDir' = IF lockDir = Unpublished THEN Absent ELSE lockDir
  /\ Finish(r)
  /\ UNCHANGED <<fences, failedRelease, procState, drawnBy, faults>>

-----------------------------------------------------------------------------
(* releaseOutputLock                                                       *)

\* Mutant: the release is remembered as failed before it is tried.
EndWorkflowRemembering(r) ==
  /\ At(r, "holding")
  /\ Goto(r, "relStat") /\ Remember(r)
  /\ UNCHANGED <<lockDir, fences, token, holder, procState, drawnBy, faults>>

\* acquireUseRelease: the finalizer runs however the workflow ended
EndWorkflow(r) ==
  /\ At(r, "holding")
  /\ Goto(r, "relStat")
  /\ UNCHANGED <<lockDir, fences, token, holder, failedRelease, procState,
                 drawnBy, faults>>

EndRelease(r) == Finish(r) /\ ForgetOwn(r)

\* AlreadyAbsent is success.
DetachStat(r) ==
  /\ At(r, "relStat")
  /\ IF lockDir = Absent
       THEN EndRelease(r)
       ELSE Goto(r, "relRead") /\ UNCHANGED <<token, holder, failedRelease>>
  /\ UNCHANGED <<lockDir, fences, procState, drawnBy, faults>>

\* OwnershipChanged is success: a finalizer leaves a replacement alone.
DetachRead(r) ==
  LET now == InfoIn(lockDir) IN
  /\ At(r, "relRead")
  /\ IF now = NoInfo \/ now.ownerToken # token[r]
       THEN EndRelease(r)
       ELSE Goto(r, "relMove") /\ UNCHANGED <<token, holder, failedRelease>>
  /\ UNCHANGED <<lockDir, fences, procState, drawnBy, faults>>

\* Here every error of rename is thrown, and releaseOutputLock remembers it.
DetachMove(r) ==
  /\ At(r, "relMove")
  /\ IF MayRename(lockDir, fences[token[r]])
       THEN /\ fences' = [fences EXCEPT ![token[r]] = lockDir]
            /\ lockDir' = Absent
            /\ Goto(r, "relVerify")
            /\ UNCHANGED <<token, holder, failedRelease>>
       ELSE Finish(r) /\ Remember(r) /\ UNCHANGED <<lockDir, fences>>
  /\ UNCHANGED <<procState, drawnBy, faults>>

\* Mutant: what was moved is removed without looking at it.
DetachUnverified(r) ==
  /\ At(r, "relVerify")
  /\ Goto(r, "relUnlink")
  /\ UNCHANGED <<lockDir, fences, token, holder, failedRelease, procState,
                 drawnBy, faults>>

DetachVerify(r) ==
  /\ At(r, "relVerify")
  /\ Goto(r, IF InfoIn(fences[token[r]]) = InfoOf(r, token[r])
               THEN "relUnlink" ELSE "relRestoreCheck")
  /\ UNCHANGED <<lockDir, fences, token, holder, failedRelease, procState,
                 drawnBy, faults>>

DetachRestoreCheck(r) ==
  /\ At(r, "relRestoreCheck")
  /\ IF lockDir = Absent
       THEN Goto(r, "relRestore") /\ UNCHANGED <<token, holder, failedRelease>>
       ELSE EndRelease(r)
  /\ UNCHANGED <<lockDir, fences, procState, drawnBy, faults>>

DetachRestore(r) ==
  /\ At(r, "relRestore")
  /\ IF MayRename(fences[token[r]], lockDir)
       THEN /\ lockDir' = fences[token[r]]
            /\ fences' = [fences EXCEPT ![token[r]] = Absent]
            /\ EndRelease(r)
       ELSE Finish(r) /\ Remember(r) /\ UNCHANGED <<lockDir, fences>>
  /\ UNCHANGED <<procState, drawnBy, faults>>

\* removeDetachedOutputLock
FenceUnlink(r) ==
  /\ At(r, "relUnlink")
  /\ fences' = [fences EXCEPT ![token[r]] =
                  IF @ = Absent THEN Absent ELSE Unpublished]
  /\ Goto(r, "relRmdir")
  /\ UNCHANGED <<lockDir, token, holder, failedRelease, procState, drawnBy,
                 faults>>

FenceRmdir(r) ==
  /\ At(r, "relRmdir")
  /\ fences' = [fences EXCEPT ![token[r]] =
                  IF @ = Unpublished THEN Absent ELSE @]
  /\ EndRelease(r)
  /\ UNCHANGED <<lockDir, procState, drawnBy, faults>>

-----------------------------------------------------------------------------
(* A file-system call throws a system error                                *)

Throw == faults < MaxFaults /\ faults' = faults + 1

\* OutputLockError of acquisition; nothing is undone on this path.
AcquireThrows(r) ==
  /\ MayStep(r) /\ pc[r] \in AcquirePcs \ {"probe"} /\ Throw
  /\ Finish(r)
  /\ UNCHANGED <<lockDir, fences, failedRelease, procState, drawnBy>>

\* writeLockInfo throws before the rename, or in its `finally' after it.
PublishThrows(r) ==
  /\ At(r, "publish") /\ Throw
  /\ \/ UNCHANGED lockDir
     \/ lockDir # Absent /\ lockDir' = InfoOf(r, token[r])
  /\ Goto(r, "rollback")
  /\ UNCHANGED <<fences, token, holder, failedRelease, procState, drawnBy>>

RollbackThrows(r) ==
  /\ MayStep(r) /\ pc[r] \in RollbackPcs /\ Throw
  /\ Finish(r)
  /\ UNCHANGED <<lockDir, fences, failedRelease, procState, drawnBy>>

\* A failed detach is remembered with its exact token.
DetachThrows(r) ==
  /\ MayStep(r) /\ pc[r] \in DetachPcs /\ Throw
  /\ Finish(r) /\ Remember(r)
  /\ UNCHANGED <<lockDir, fences, procState, drawnBy>>

\* FenceCleanupFailed is logged and otherwise a success.
CleanupThrows(r) ==
  /\ MayStep(r) /\ pc[r] \in CleanupPcs /\ Throw
  /\ EndRelease(r)
  /\ UNCHANGED <<lockDir, fences, procState, drawnBy>>

-----------------------------------------------------------------------------
(* The environment                                                         *)

\* The operating system gives no two live processes the same pid.
Boot(p) ==
  /\ procState[p] = "unborn" /\ ~PidAlive(PidOf[p])
  /\ procState' = [procState EXCEPT ![p] = "alive"]
  /\ UNCHANGED <<lockDir, fences, pc, token, holder, failedRelease, drawnBy,
                 faults>>

\* SIGKILL, power loss or a normal exit: the memory of the process is gone.
Die(p) ==
  LET Mine(r) == ProcOf[r] = p IN
  /\ procState[p] = "alive"
  /\ procState' = [procState EXCEPT ![p] = "dead"]
  /\ pc' = [r \in Runs |-> IF Mine(r) THEN "idle" ELSE pc[r]]
  /\ token' = [r \in Runs |-> IF Mine(r) THEN NoToken ELSE token[r]]
  /\ holder' = [r \in Runs |-> IF Mine(r) THEN NoInfo ELSE holder[r]]
  /\ failedRelease' = [failedRelease EXCEPT ![p] = NoToken]
  /\ UNCHANGED <<lockDir, fences, drawnBy, faults>>

\* "remove the stale lock ... if you are sure the prior run crashed"
\* (the message of ConcurrentGenerationError)
CrashedDir(dir) ==
  \/ /\ dir = Unpublished
     /\ \A r \in Runs : pc[r] \notin {"publish"} \cup RollbackPcs
  \/ /\ dir \in LockInfo /\ OperatorRemovesPublished
     /\ drawnBy[dir.ownerToken] \in Runs
     /\ procState[ProcOf[drawnBy[dir.ownerToken]]] = "dead"

OperatorRemoves ==
  /\ CrashedDir(lockDir)
  /\ lockDir' = Absent
  /\ UNCHANGED <<fences, pc, token, holder, failedRelease, procState, drawnBy,
                 faults>>

Acquire(r) ==
  \/ CreateFirst(r) \/ FindTaken(r) \/ ReadHolder(r) \/ ProbeHolder(r)
  \/ Recheck(r) \/ MoveToFence(r) \/ VerifyFence(r) \/ RestoreCheck(r)
  \/ Restore(r) \/ GiveUp(r) \/ CreateAgain(r) \/ Publish(r)
  \/ RollbackRead(r) \/ RollbackUnlink(r) \/ RollbackRmdir(r)

Release(r) ==
  \/ EndWorkflow(r) \/ DetachStat(r) \/ DetachRead(r) \/ DetachMove(r)
  \/ DetachVerify(r) \/ DetachRestoreCheck(r) \/ DetachRestore(r)
  \/ FenceUnlink(r) \/ FenceRmdir(r)

Throws(r) ==
  \/ AcquireThrows(r) \/ PublishThrows(r) \/ RollbackThrows(r)
  \/ DetachThrows(r) \/ CleanupThrows(r)

Environment == OperatorRemoves \/ \E p \in Procs : Boot(p) \/ Die(p)

Next == Environment \/ \E r \in Runs : Acquire(r) \/ Release(r) \/ Throws(r)

Spec == Init /\ [][Next]_vars

\* A run that has started a step completes it unless it is killed.
Fairness == \A r \in Runs : WF_vars(pc[r] # "idle" /\ (Acquire(r) \/ Release(r)))

FairSpec == Spec /\ Fairness

-----------------------------------------------------------------------------
(* Properties                                                              *)

TypeOK ==
  /\ lockDir \in Dir
  /\ fences \in [Tokens -> Dir]
  /\ pc \in [Runs -> Pcs]
  /\ token \in [Runs -> Tokens \cup {NoToken}]
  /\ holder \in [Runs -> LockInfo \cup {NoInfo}]
  /\ failedRelease \in [Procs -> Tokens \cup {NoToken}]
  /\ procState \in [Procs -> {"unborn", "alive", "dead"}]
  /\ drawnBy \in [Tokens -> Runs \cup {NoRun}]
  /\ faults \in 0 .. MaxFaults

\* At most one generation run is inside withGenerationLock, whatever
\* crashes, failed calls and delayed reclaimers came before.
MutualExclusion ==
  \A r, s \in Runs : pc[r] = "holding" /\ pc[s] = "holding" => r = s

\* While a workflow runs, the directory on disk names its run: a second run
\* that reads it learns the truth, and the release finds its own lock.
HolderIsNamed ==
  \A r \in Runs : pc[r] = "holding" => lockDir = InfoOf(r, token[r])

\* A lock is stepped over as a failed release only when no run still works
\* under the remembered token.
RememberedIsAbandoned ==
  \A p \in Procs : failedRelease[p] # NoToken =>
    \A r \in Runs : token[r] # failedRelease[p]

\* A complete lock of a live process is in the care of one of its runs, or
\* remembered as a failed release: a long-lived runtime is never locked out
\* by a lock that nobody will release.
LiveLockIsCaredFor ==
  lockDir \in LockInfo =>
    LET t == lockDir.ownerToken
        p == ProcOf[drawnBy[t]]
    IN  procState[p] = "alive" =>
          failedRelease[p] = t \/ \E r \in Runs : token[r] = t

\* The fence of a token only ever holds the lock of that token, so a fence
\* left behind by a crash cannot shadow another run's lock.
FenceKeepsItsOwner ==
  \A t \in Tokens : fences[t] \in LockInfo => fences[t].ownerToken = t

\* Nobody moves, deletes or overwrites the canonical directory while the run
\* that relies on it stays where it is (comment at cleanOutputDirPreservingLock:
\* fences prevent a delayed reclaimer from touching a replacement's lock).
OthersLeaveClaimAlone ==
  [][\A r \in Runs : pc[r] \in ClaimPcs /\ pc'[r] = pc[r] => lockDir' = lockDir]_vars

\* "a delayed finalizer cannot remove a replacement owner's lock" (comment at
\* acquireOutputLockWith): what a release step takes away is its own lock;
\* another run's metadata is afterwards still in the lock or in a fence.
Published == {d \in {lockDir} \cup {fences[t] : t \in Tokens} : d \in LockInfo}
FinalizerSparesReplacement ==
  [][\A r \in Runs :
       pc[r] \in DetachPcs \cup CleanupPcs /\ pc'[r] # pc[r] =>
         \A d \in Published : d.ownerToken # token[r] => d \in Published']_vars

\* The owner the mutex of OutputMutex sees
Inside == {r \in Runs : pc[r] = "holding"}
HoldingRun == IF Inside = {} THEN NoRun ELSE CHOOSE r \in Runs : r \in Inside
Mutex == INSTANCE OutputMutex WITH owner <- HoldingRun

\* The protocol implements the mutex: no run enters while another is inside.
ImplementsMutex == Mutex!MutexSpec

\* A complete lock of a dead process does not keep the directory shut while
\* generate is run again and again (the runs themselves are the operator's).
Stale == lockDir \in LockInfo /\ ~PidAlive(lockDir.pid)
StaleLockIsReclaimed ==
  ([]<>(\E r \in Runs : pc[r] = "readHolder")) => []<>~Stale
=============================================================================
