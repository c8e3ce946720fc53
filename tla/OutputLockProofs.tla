-------------------------- MODULE OutputLockProofs --------------------------
(***************************************************************************)
(* Proofs about OutputLock, for any number of processes, runs, tokens and  *)
(* system errors.                                                          *)
(***************************************************************************)
EXTENDS OutputLock, TLAPS

-----------------------------------------------------------------------------
(* The inductive invariant                                                 *)

\* A token is drawn once and names the pid of the run that drew it.
Signed(info) ==
  /\ drawnBy[info.ownerToken] \in Runs
  /\ info.pid = PidOf[ProcOf[drawnBy[info.ownerToken]]]

\* No run works under the token any more, and none ever will.
Abandoned(t) == drawnBy[t] \in Runs /\ \A r \in Runs : token[r] # t

OwnPcs == ClaimPcs \cup DetachPcs \cup CleanupPcs
RestorePcs == {"restoreCheck", "restore", "relRestoreCheck", "relRestore"}
NamedPcs == {"holding", "relStat", "relRead", "relMove"}
StalePcs == {"recheck", "move", "verify", "restoreCheck", "restore", "lost"}

\* Locals are set where they are used.
LocalsInv ==
  \A r \in Runs :
    /\ token[r] # NoToken <=> pc[r] \in OwnPcs
    /\ pc[r] \in StalePcs \cup {"probe"} => holder[r] \in LockInfo

TypeInv == TypeOK /\ LocalsInv

\* Only live processes execute, and each at most one synchronous section.
ControlInv ==
  /\ \A r \in Runs : pc[r] # "idle" => procState[ProcOf[r]] = "alive"
  /\ \A r, s \in Runs : r # s /\ ProcOf[r] = ProcOf[s] /\ pc[r] \in SyncPcs
                          => pc[s] \notin SyncPcs

TokenInv ==
  \A r \in Runs : token[r] # NoToken => drawnBy[token[r]] = r

\* What each place of the program knows about the canonical directory
ClaimInv ==
  \A r \in Runs :
    /\ pc[r] \in {"publish", "rollbackRmdir"} => lockDir = Unpublished
    /\ pc[r] \in {"rollback", "rollbackUnlink"} =>
         lockDir \in {Unpublished, InfoOf(r, token[r])}
    /\ pc[r] \in NamedPcs => lockDir = InfoOf(r, token[r])
    /\ pc[r] = "relVerify" => fences[token[r]] = InfoOf(r, token[r])

UniqueClaim ==
  \A r, s \in Runs : pc[r] \in ClaimPcs /\ pc[s] \in ClaimPcs => r = s

\* The metadata found anywhere was written by the run that drew its token.
LockSigned == lockDir \in LockInfo => Signed(lockDir)
FencesSigned ==
  \A t \in Tokens : fences[t] \in LockInfo =>
    Signed(fences[t]) /\ fences[t].ownerToken = t
HoldersSigned == \A r \in Runs : holder[r] # NoInfo => Signed(holder[r])

\* Only an abandoned lock is ever reclaimed.
StaleInv ==
  \A r \in Runs : pc[r] \in StalePcs => Abandoned(holder[r].ownerToken)

\* A reclaimer that waits before its rename is harmless: the stale lock is
\* still in place, or its fence is there already and makes the rename fail.
\* So what was moved is what was expected, and nothing is ever put back.
FenceInv ==
  \A r \in Runs :
    /\ pc[r] = "move" => holder[r] \in {lockDir, fences[holder[r].ownerToken]}
    /\ pc[r] = "verify" => fences[holder[r].ownerToken] = holder[r]
    /\ pc[r] \notin RestorePcs

FailedInv ==
  \A p \in Procs : failedRelease[p] # NoToken => Abandoned(failedRelease[p])

IInv ==
  /\ TypeInv
  /\ ControlInv
  /\ TokenInv
  /\ ClaimInv
  /\ UniqueClaim
  /\ LockSigned
  /\ FencesSigned
  /\ HoldersSigned
  /\ StaleInv
  /\ FenceInv
  /\ FailedInv
-----------------------------------------------------------------------------
(* Type correctness                                                        *)

USE PidAssumption, RunAssumption, TokenAssumption, FaultAssumption,
    DirAssumption, OperatorAssumption

\* What the provers need of lock metadata, with LockInfo kept folded
LEMMA DirFacts ==
  /\ Absent \notin LockInfo /\ Unpublished \notin LockInfo
  /\ NoInfo \notin LockInfo /\ Absent # Unpublished
  BY DEF LockInfo

LEMMA InfoFacts ==
  ASSUME NEW info \in LockInfo
  PROVE  info.pid \in Pids /\ info.ownerToken \in Tokens
  BY DEF LockInfo

LEMMA InfoOfFacts ==
  ASSUME NEW r \in Runs, NEW t \in Tokens
  PROVE  /\ InfoOf(r, t) \in LockInfo
         /\ InfoOf(r, t).ownerToken = t
         /\ InfoOf(r, t).pid = PidOf[ProcOf[r]]
  BY DEF InfoOf, LockInfo

\* The token identifies the lock.
LEMMA SignedUnique ==
  ASSUME NEW i \in LockInfo, NEW j \in LockInfo, Signed(i), Signed(j),
         i.ownerToken = j.ownerToken
  PROVE  i = j
  BY DEF Signed, LockInfo

LEMMA TypeInit == Init => TypeInv
  BY SMTT(40) DEF Init, TypeInv, LocalsInv, OwnPcs, ClaimPcs, RollbackPcs, DetachPcs,
         CleanupPcs, StalePcs, TypeOK, Dir, Pcs

LEMMA TypeStep == TypeInv /\ [Next]_vars => TypeInv'
<1>1. SUFFICES ASSUME TypeInv, [Next]_vars PROVE TypeInv'
  OBVIOUS
<1> USE <1>1 DEF TypeInv, LocalsInv, OwnPcs, ClaimPcs, StalePcs, TypeOK, Dir, Pcs, SyncPcs, AcquirePcs, RollbackPcs, DetachPcs,
                 CleanupPcs, At, MayStep, Goto, Finish, EndRelease, Remember,
                 ForgetAt,
                 ForgetOwn, InfoIn
<1>2. ASSUME NEW r \in Runs, CreateFirst(r) PROVE TypeInv'
  BY <1>2 DEF CreateFirst, Mkdir
<1>3. ASSUME NEW r \in Runs, FindTaken(r) PROVE TypeInv'
  BY <1>3 DEF FindTaken
<1>4. ASSUME NEW r \in Runs, ReadHolder(r) PROVE TypeInv'
  BY <1>4 DEF ReadHolder
<1>5. ASSUME NEW r \in Runs, ProbeHolder(r) PROVE TypeInv'
  BY <1>5 DEF ProbeHolder
<1>6. ASSUME NEW r \in Runs, Recheck(r) PROVE TypeInv'
  BY <1>6 DEF Recheck
<1>7. ASSUME NEW r \in Runs, MoveToFence(r) PROVE TypeInv'
  BY <1>7 DEF MoveToFence
<1>8. ASSUME NEW r \in Runs, VerifyFence(r) PROVE TypeInv'
  BY <1>8 DEF VerifyFence
<1>9. ASSUME NEW r \in Runs, RestoreCheck(r) PROVE TypeInv'
  BY <1>9 DEF RestoreCheck
<1>10. ASSUME NEW r \in Runs, Restore(r) PROVE TypeInv'
  BY <1>10, InfoFacts DEF Restore, MayRename
<1>11. ASSUME NEW r \in Runs, GiveUp(r) PROVE TypeInv'
  BY <1>11 DEF GiveUp
<1>12. ASSUME NEW r \in Runs, CreateAgain(r) PROVE TypeInv'
  BY <1>12 DEF CreateAgain, Mkdir
<1>13. ASSUME NEW r \in Runs, Publish(r) PROVE TypeInv'
  BY <1>13, InfoOfFacts DEF Publish
<1>14. ASSUME NEW r \in Runs, RollbackRead(r) PROVE TypeInv'
  BY <1>14 DEF RollbackRead
<1>15. ASSUME NEW r \in Runs, RollbackUnlink(r) PROVE TypeInv'
  BY <1>15 DEF RollbackUnlink
<1>16. ASSUME NEW r \in Runs, RollbackRmdir(r) PROVE TypeInv'
  BY <1>16 DEF RollbackRmdir
<1>17. ASSUME NEW r \in Runs, EndWorkflow(r) PROVE TypeInv'
  BY <1>17 DEF EndWorkflow
<1>18. ASSUME NEW r \in Runs, DetachStat(r) PROVE TypeInv'
  BY <1>18 DEF DetachStat
<1>19. ASSUME NEW r \in Runs, DetachRead(r) PROVE TypeInv'
  BY <1>19 DEF DetachRead
<1>20. ASSUME NEW r \in Runs, DetachMove(r) PROVE TypeInv'
  BY <1>20 DEF DetachMove
<1>21. ASSUME NEW r \in Runs, DetachVerify(r) PROVE TypeInv'
  BY <1>21 DEF DetachVerify
<1>22. ASSUME NEW r \in Runs, DetachRestoreCheck(r) PROVE TypeInv'
  BY <1>22 DEF DetachRestoreCheck
<1>23. ASSUME NEW r \in Runs, DetachRestore(r) PROVE TypeInv'
  BY <1>23 DEF DetachRestore
<1>24. ASSUME NEW r \in Runs, FenceUnlink(r) PROVE TypeInv'
  BY <1>24 DEF FenceUnlink
<1>25. ASSUME NEW r \in Runs, FenceRmdir(r) PROVE TypeInv'
  BY <1>25 DEF FenceRmdir
<1>26. ASSUME NEW r \in Runs, AcquireThrows(r) PROVE TypeInv'
  BY <1>26 DEF AcquireThrows, Throw
<1>27. ASSUME NEW r \in Runs, PublishThrows(r) PROVE TypeInv'
  BY <1>27, InfoOfFacts DEF PublishThrows, Throw
<1>28. ASSUME NEW r \in Runs, RollbackThrows(r) PROVE TypeInv'
  BY <1>28 DEF RollbackThrows, Throw
<1>29. ASSUME NEW r \in Runs, DetachThrows(r) PROVE TypeInv'
  BY <1>29 DEF DetachThrows, Throw
<1>30. ASSUME NEW r \in Runs, CleanupThrows(r) PROVE TypeInv'
  BY <1>30 DEF CleanupThrows, Throw
<1>31. ASSUME NEW p \in Procs, Boot(p) PROVE TypeInv'
  BY <1>31 DEF Boot
<1>32. ASSUME NEW p \in Procs, Die(p) PROVE TypeInv'
  BY <1>32 DEF Die
<1>33. CASE OperatorRemoves
  BY <1>33 DEF OperatorRemoves
<1>34. CASE UNCHANGED vars
  BY <1>34 DEF vars
<1> QED
  BY <1>2, <1>3, <1>4, <1>5, <1>6, <1>7, <1>8, <1>9, <1>10, <1>11, <1>12,
     <1>13, <1>14, <1>15, <1>16, <1>17, <1>18, <1>19, <1>20, <1>21, <1>22, <1>23, <1>24, <1>25, <1>26, <1>27, <1>28, <1>29, <1>30, <1>31, <1>32, <1>33, <1>34
     DEF Next, Environment, Acquire, Release, Throws

\* Every variable keeps its type, and a run has its token and the metadata
\* it read whenever a file-system call needs them.
THEOREM TypeCorrect == Spec => []TypeOK
<1>1. Spec => []TypeInv
  BY TypeInit, TypeStep, PTL DEF Spec
<1>2. TypeInv => TypeOK
  BY DEF TypeInv
<1> QED
  BY <1>1, <1>2, PTL

-----------------------------------------------------------------------------
(* The inductive invariant is preserved                                    *)

LEMMA InvInit == Init => IInv
  BY TypeInit, DirFacts
  DEF Init, IInv, ControlInv, TokenInv, ClaimInv, UniqueClaim,
      LockSigned, FencesSigned, HoldersSigned, StaleInv, FenceInv, FailedInv,
      ClaimPcs, RollbackPcs, SyncPcs, AcquirePcs, DetachPcs, CleanupPcs,
      StalePcs, RestorePcs, NamedPcs

\* A run ends its attempt without touching a directory: its process forgets,
\* keeps or sets the remembered release.
LEMMA FinishStep ==
  ASSUME IInv, TypeInv', NEW r \in Runs, MayStep(r), pc[r] # "idle", Finish(r),
         UNCHANGED <<lockDir, fences, procState, drawnBy>>,
         UNCHANGED failedRelease \/ ForgetAt(r) \/ Remember(r)
  PROVE  IInv'
<1> USE DEF IInv, TypeInv, TypeOK, Pcs, SyncPcs, AcquirePcs,
        RollbackPcs, DetachPcs, CleanupPcs, ClaimPcs, OwnPcs, StalePcs,
        RestorePcs, NamedPcs, Goto, Finish
<1>1. ControlInv' /\ TokenInv' /\ UniqueClaim'
  BY DEF ControlInv, TokenInv, UniqueClaim, MayStep
<1>2. ClaimInv' /\ FenceInv'
  BY DEF ClaimInv, FenceInv, InfoOf
<1>3. LockSigned' /\ FencesSigned'
  BY DEF LockSigned, FencesSigned, Signed
<1>4. ASSUME NEW s \in Runs
      PROVE  /\ holder'[s] # NoInfo => s # r /\ holder'[s] = holder[s]
             /\ pc'[s] \in StalePcs => s # r /\ pc'[s] = pc[s] /\ holder'[s] = holder[s]
             /\ token'[s] # NoToken => s # r /\ token'[s] = token[s]
  OBVIOUS
<1>5. HoldersSigned'
  <2> SUFFICES ASSUME NEW s \in Runs, holder'[s] # NoInfo PROVE Signed(holder[s])'
    BY DEF HoldersSigned
  <2>1. Signed(holder[s])
    BY <1>4 DEF HoldersSigned
  <2> QED
    BY <1>4, <2>1 DEF Signed
<1>6. \A t \in Tokens : Abandoned(t) => Abandoned(t)'
  BY <1>4 DEF Abandoned
<1>7. StaleInv'
  <2> SUFFICES ASSUME NEW s \in Runs, pc'[s] \in StalePcs
               PROVE  Abandoned(holder[s].ownerToken)'
    BY DEF StaleInv
  <2>1. holder[s] \in LockInfo /\ Abandoned(holder[s].ownerToken)
    BY <1>4 DEF StaleInv, LocalsInv
  <2> QED
    BY <1>4, <1>6, <2>1, InfoFacts
<1>8. FailedInv'
  BY <1>6 DEF FailedInv, Abandoned, TokenInv, ForgetAt, Remember
<1> QED
  BY <1>1, <1>2, <1>3, <1>5, <1>7, <1>8

\* mkdir draws a token nobody has drawn: what was signed stays signed.
LEMMA MkdirStep ==
  ASSUME TypeOK, NEW r \in Runs, Mkdir(r)
  PROVE  /\ \A i \in LockInfo : Signed(i) => Signed(i)'
         /\ \A t \in Tokens : Abandoned(t) => Abandoned(t)'
  BY InfoFacts DEF Mkdir, Signed, Abandoned, TypeOK

LEMMA MkdirKeeps ==
  ASSUME IInv, TypeInv', NEW r \in Runs, MayStep(r), pc[r] \in {"idle", "retry"},
         Mkdir(r), UNCHANGED <<fences, holder, failedRelease, procState>>
  PROVE  IInv'
<1> USE DEF IInv, TypeInv, TypeOK, Pcs, SyncPcs, AcquirePcs,
        RollbackPcs, DetachPcs, CleanupPcs, ClaimPcs, OwnPcs, StalePcs,
        RestorePcs, NamedPcs, Goto, Mkdir
<1>1. ControlInv'
  BY DEF ControlInv, MayStep
<1>2. TokenInv'
  BY DEF TokenInv
<1>3. \A s \in Runs : pc[s] \notin ClaimPcs
  BY InfoOfFacts, DirFacts DEF ClaimInv, LocalsInv
<1>4. ClaimInv' /\ UniqueClaim'
  BY <1>3, InfoOfFacts, DirFacts DEF ClaimInv, UniqueClaim, InfoOf
<1>5. LockSigned' /\ FencesSigned'
  BY MkdirStep, DirFacts DEF LockSigned, FencesSigned
<1>6. HoldersSigned'
  BY MkdirStep DEF HoldersSigned
<1>7. StaleInv'
  BY MkdirStep, InfoFacts DEF StaleInv, LocalsInv
<1>8. FenceInv'
  <2> SUFFICES ASSUME NEW s \in Runs
               PROVE  /\ pc'[s] = "move" => holder[s] = fences[holder[s].ownerToken]
                      /\ pc'[s] = "verify" => fences[holder[s].ownerToken] = holder[s]
                      /\ pc'[s] \notin RestorePcs
    BY DEF FenceInv
  <2>1. pc[s] = "move" => holder[s] \in LockInfo /\ holder[s] # lockDir
    BY DirFacts DEF LocalsInv
  <2> QED
    BY <2>1 DEF FenceInv
<1>9. FailedInv'
  BY MkdirStep, ZenonT(60) DEF FailedInv
<1> QED
  BY <1>1, <1>2, <1>4, <1>5, <1>6, <1>7, <1>8, <1>9

\* Reclaimers and owners never work on the same token ...
LEMMA StaleIsNobodys ==
  ASSUME IInv, NEW s \in Runs, pc[s] \in StalePcs
  PROVE  /\ holder[s] \in LockInfo
         /\ \A r \in Runs : holder[s].ownerToken # token[r]
  BY DEF IInv, TypeInv, LocalsInv, StaleInv, Abandoned

\* ... so while a run relies on the canonical directory, what a delayed
\* reclaimer is about to move is already in its fence.
LEMMA ClaimDefeatsMove ==
  ASSUME IInv, NEW r \in Runs, pc[r] \in ClaimPcs, NEW s \in Runs, pc[s] = "move"
  PROVE  fences[holder[s].ownerToken] = holder[s]
<1>1. holder[s] \in LockInfo /\ holder[s].ownerToken # token[r]
  BY StaleIsNobodys DEF StalePcs
<1>2. token[r] \in Tokens
  BY DEF IInv, TypeInv, TypeOK, LocalsInv, OwnPcs
<1>3. lockDir = Unpublished \/ lockDir = InfoOf(r, token[r])
  BY DEF IInv, ClaimInv, ClaimPcs, RollbackPcs, NamedPcs
<1>4. holder[s] # lockDir
  BY <1>1, <1>2, <1>3, InfoOfFacts, DirFacts
<1> QED
  BY <1>4 DEF IInv, FenceInv

\* The operator is trusted with locks that were never published, not with
\* complete ones: a reclaimer may be about to move those.
LEMMA InvStep ==
  ASSUME ~OperatorRemovesPublished
  PROVE  IInv /\ [Next]_vars => IInv'
<1> SUFFICES ASSUME IInv, [Next]_vars PROVE IInv'
  OBVIOUS
<1>0. TypeInv'
  BY TypeStep DEF IInv
<1> USE DirFacts DEF IInv, TypeInv, TypeOK, LocalsInv, Dir, Pcs, SyncPcs, AcquirePcs,
        RollbackPcs, DetachPcs, CleanupPcs, ClaimPcs, OwnPcs, StalePcs,
        RestorePcs, NamedPcs, At, MayStep, Goto, Finish, InfoIn
<1>1. ASSUME NEW r \in Runs, CreateFirst(r) PROVE IInv'
  <2>1. Mkdir(r) /\ UNCHANGED <<fences, holder, failedRelease, procState>>
    BY <1>1 DEF CreateFirst
  <2> QED
    BY <1>0, <1>1, <2>1, MkdirKeeps DEF CreateFirst
<1>2. ASSUME NEW r \in Runs, FindTaken(r) PROVE IInv'
  <2>1. TokenInv' /\ LockSigned' /\ FencesSigned' /\ HoldersSigned' /\ FailedInv'
    BY <1>2 DEF FindTaken, TokenInv, LockSigned, FencesSigned, HoldersSigned,
       FailedInv, Abandoned, Signed
  <2>2. ControlInv'
    BY <1>0, <1>2 DEF FindTaken, ControlInv
  <2>3. ClaimInv'
    BY <1>0, <1>2, InfoOfFacts DEF FindTaken, TokenInv, ClaimInv, UniqueClaim
  <2>4. UniqueClaim'
    BY <1>0, <1>2, InfoOfFacts DEF FindTaken, UniqueClaim, ClaimInv
  <2>5. StaleInv'
    BY <1>0, <1>2, InfoFacts DEF FindTaken, StaleInv, Abandoned, TokenInv
  <2>6. FenceInv'
    BY <1>0, <1>2, InfoFacts, InfoOfFacts DEF FindTaken, FenceInv, StaleInv,
       Abandoned
  <2> QED
    BY <1>0, <2>1, <2>2, <2>3, <2>4, <2>5, <2>6
<1>3. ASSUME NEW r \in Runs, ReadHolder(r) PROVE IInv'
  <2>1. LockSigned' /\ FencesSigned'
    BY <1>3 DEF ReadHolder, LockSigned, FencesSigned, Signed
  <2>2. ControlInv'
    BY <1>0, <1>3 DEF ReadHolder, ControlInv
  <2>3. TokenInv'
    BY <1>0, <1>3 DEF ReadHolder, TokenInv
  <2>4. ClaimInv'
    BY <1>0, <1>3, InfoOfFacts DEF ReadHolder, TokenInv, ClaimInv, UniqueClaim
  <2>5. UniqueClaim'
    BY <1>0, <1>3, InfoOfFacts DEF ReadHolder, UniqueClaim, ClaimInv
  <2>6. HoldersSigned'
    BY <1>0, <1>3, InfoFacts DEF ReadHolder, HoldersSigned, LockSigned, Signed
  <2>7. StaleInv'
    BY <1>0, <1>3, InfoFacts DEF ReadHolder, StaleInv, Abandoned, TokenInv
  <2>8. FenceInv'
    BY <1>0, <1>3, InfoFacts, InfoOfFacts DEF ReadHolder, FenceInv, StaleInv,
       Abandoned
  <2>9. FailedInv'
    BY <1>0, <1>3, InfoFacts DEF ReadHolder, FailedInv, Abandoned, TokenInv
  <2> QED
    BY <1>0, <2>1, <2>2, <2>3, <2>4, <2>5, <2>6, <2>7, <2>8, <2>9
<1>4. ASSUME NEW r \in Runs, ProbeHolder(r) PROVE IInv'
  <2>1. LockSigned' /\ FencesSigned'
    BY <1>4 DEF ProbeHolder, IsFailedRelease, PidAlive, LockSigned,
       FencesSigned, Signed
  <2>2. ControlInv'
    BY <1>0, <1>4 DEF ProbeHolder, IsFailedRelease, PidAlive, ControlInv
  <2>3. TokenInv'
    BY <1>0, <1>4 DEF ProbeHolder, IsFailedRelease, PidAlive, TokenInv
  <2>4. ClaimInv'
    BY <1>0, <1>4, InfoOfFacts DEF ProbeHolder, IsFailedRelease, PidAlive,
       TokenInv, ClaimInv, UniqueClaim
  <2>5. UniqueClaim'
    BY <1>0, <1>4, InfoOfFacts DEF ProbeHolder, IsFailedRelease, PidAlive,
       UniqueClaim, ClaimInv
  <2>6. HoldersSigned'
    BY <1>0, <1>4, InfoFacts DEF ProbeHolder, IsFailedRelease, PidAlive,
       HoldersSigned, LockSigned, Signed
  <2>7. StaleInv'
    BY <1>0, <1>4, InfoFacts DEF ProbeHolder, IsFailedRelease, PidAlive,
       StaleInv, Abandoned, TokenInv, HoldersSigned, Signed, FailedInv,
       ControlInv
  <2>8. FenceInv'
    BY <1>0, <1>4, InfoFacts, InfoOfFacts DEF ProbeHolder, IsFailedRelease,
       PidAlive, FenceInv, StaleInv, Abandoned
  <2>9. FailedInv'
    BY <1>0, <1>4, InfoFacts DEF ProbeHolder, IsFailedRelease, PidAlive,
       FailedInv, Abandoned, TokenInv
  <2> QED
    BY <1>0, <2>1, <2>2, <2>3, <2>4, <2>5, <2>6, <2>7, <2>8, <2>9
<1>5. ASSUME NEW r \in Runs, Recheck(r) PROVE IInv'
  <2>1. TokenInv' /\ LockSigned' /\ FencesSigned' /\ HoldersSigned' /\ FailedInv'
    BY <1>5 DEF Recheck, TokenInv, LockSigned, FencesSigned, HoldersSigned,
       FailedInv, Abandoned, Signed
  <2>2. ControlInv'
    BY <1>0, <1>5 DEF Recheck, ControlInv
  <2>3. ClaimInv'
    BY <1>0, <1>5, InfoOfFacts DEF Recheck, TokenInv, ClaimInv, UniqueClaim
  <2>4. UniqueClaim'
    BY <1>0, <1>5, InfoOfFacts DEF Recheck, UniqueClaim, ClaimInv
  <2>5. StaleInv'
    BY <1>0, <1>5, InfoFacts DEF Recheck, StaleInv, Abandoned, TokenInv
  <2>6. FenceInv'
    BY <1>0, <1>5, InfoFacts, InfoOfFacts DEF Recheck, FenceInv, StaleInv,
       Abandoned
  <2> QED
    BY <1>0, <2>1, <2>2, <2>3, <2>4, <2>5, <2>6
<1>6. ASSUME NEW r \in Runs, MoveToFence(r) PROVE IInv'
  <2> DEFINE t == holder[r].ownerToken
  <2>1. holder[r] \in LockInfo /\ t \in Tokens /\ \A s \in Runs : t # token[s]
    BY <1>6, StaleIsNobodys, InfoFacts DEF MoveToFence
  <2>2. CASE ~MayRename(lockDir, fences[t])
    <3>1. Goto(r, "lost") /\ UNCHANGED <<lockDir, fences, token, holder,
                                         failedRelease, procState, drawnBy>>
      BY <1>6, <2>2 DEF MoveToFence
    <3> QED
      BY <1>0, <1>6, <3>1 DEF MoveToFence, ControlInv, TokenInv, ClaimInv,
         InfoOf,
         UniqueClaim, LockSigned, FencesSigned, HoldersSigned, Signed,
         StaleInv,
         Abandoned, FenceInv, FailedInv
  <2>3. CASE MayRename(lockDir, fences[t])
    <3>1. /\ fences' = [fences EXCEPT ![t] = lockDir] /\ lockDir' = Absent
          /\ pc' = [pc EXCEPT ![r] = "verify"]
          /\ UNCHANGED <<token, holder, failedRelease, procState, drawnBy>>
      BY <1>6, <2>3 DEF MoveToFence
    <3>2. lockDir = holder[r]
      BY <1>6, <2>1, <2>3 DEF MoveToFence, FenceInv, MayRename
    <3>3. \A s \in Runs : pc[s] \notin ClaimPcs
      BY <1>6, <2>1, <2>3, ClaimDefeatsMove DEF MoveToFence, MayRename
    <3>4. ControlInv' /\ TokenInv' /\ StaleInv' /\ FailedInv'
      BY <1>6, <3>1 DEF MoveToFence, ControlInv, TokenInv, StaleInv, Abandoned,
         FailedInv
    <3>5. ClaimInv' /\ UniqueClaim'
      BY <2>1, <3>1, <3>3 DEF ClaimInv, UniqueClaim, InfoOf
    <3>6. LockSigned' /\ HoldersSigned'
      BY <3>1 DEF LockSigned, HoldersSigned, Signed
    <3>7. Signed(lockDir) /\ lockDir.ownerToken = t
      BY <2>1, <3>2 DEF LockSigned
    <3>8. FencesSigned'
      BY <2>1, <3>1, <3>7, ZenonT(60) DEF FencesSigned, Signed
    <3>9. FenceInv'
      <4> SUFFICES ASSUME NEW s \in Runs
                   PROVE  /\ pc'[s] \in {"move", "verify"} =>
                               fences'[holder[s].ownerToken] = holder[s]
                          /\ pc'[s] \notin RestorePcs
        BY <3>1 DEF FenceInv
      <4>1. CASE s = r
        BY <2>1, <3>1, <3>2, <4>1
      <4>2. CASE s # r /\ pc[s] \in {"move", "verify"}
        <5>1. holder[s] \in LockInfo /\ Signed(holder[s])
          BY <4>2, StaleIsNobodys DEF HoldersSigned
        <5>2. CASE holder[s].ownerToken = t
          <6>1. Signed(holder[r])
            BY <2>1 DEF HoldersSigned
          <6>2. holder[s] = holder[r]
            BY <2>1, <5>1, <5>2, <6>1, SignedUnique
          <6>3. fences'[t] = holder[r] /\ pc'[s] = pc[s]
            BY <2>1, <3>1, <3>2, <4>2
          <6> QED
            BY <4>2, <5>2, <6>2, <6>3
        <5>3. CASE holder[s].ownerToken # t
          <6>1. holder[s] # lockDir
            BY <3>2, <5>3
          <6>2. fences[holder[s].ownerToken] = holder[s]
            BY <4>2, <6>1 DEF FenceInv
          <6>3. fences'[holder[s].ownerToken] = fences[holder[s].ownerToken]
            BY <3>1, <5>1, <5>3, InfoFacts
          <6>4. pc'[s] = pc[s]
            BY <3>1, <4>2
          <6> QED
            BY <4>2, <6>2, <6>3, <6>4
        <5> QED
          BY <5>2, <5>3
      <4>3. CASE s # r /\ pc[s] \notin {"move", "verify"}
        BY <3>1, <4>3 DEF FenceInv
      <4> QED
        BY <4>1, <4>2, <4>3
    <3> QED
      BY <1>0, <3>4, <3>5, <3>6, <3>8, <3>9
  <2> QED
    BY <2>2, <2>3
<1>7. ASSUME NEW r \in Runs, VerifyFence(r) PROVE IInv'
  <2>1. TokenInv' /\ LockSigned' /\ FencesSigned' /\ HoldersSigned'
    BY <1>7 DEF VerifyFence, ForgetAt, TokenInv, LockSigned, FencesSigned,
       HoldersSigned, Signed
  <2>2. ControlInv'
    BY <1>0, <1>7 DEF VerifyFence, ForgetAt, ControlInv
  <2>3. ClaimInv'
    BY <1>0, <1>7, InfoOfFacts DEF VerifyFence, ForgetAt, TokenInv, ClaimInv,
       UniqueClaim
  <2>4. UniqueClaim'
    BY <1>0, <1>7, InfoOfFacts DEF VerifyFence, ForgetAt, UniqueClaim, ClaimInv
  <2>5. StaleInv'
    BY <1>0, <1>7, InfoFacts DEF VerifyFence, ForgetAt, StaleInv, Abandoned,
       TokenInv
  <2>6. FenceInv'
    BY <1>0, <1>7, InfoFacts, InfoOfFacts DEF VerifyFence, ForgetAt, FenceInv,
       StaleInv, Abandoned
  <2>7. FailedInv'
    BY <1>0, <1>7, InfoFacts DEF VerifyFence, ForgetAt, FailedInv, Abandoned,
       TokenInv
  <2> QED
    BY <1>0, <2>1, <2>2, <2>3, <2>4, <2>5, <2>6, <2>7
<1>8. ASSUME NEW r \in Runs, RestoreCheck(r) PROVE IInv'
  BY <1>8 DEF RestoreCheck, FenceInv
<1>9. ASSUME NEW r \in Runs, Restore(r) PROVE IInv'
  BY <1>9 DEF Restore, FenceInv
<1>10. ASSUME NEW r \in Runs, GiveUp(r) PROVE IInv'
  BY <1>0, <1>10, FinishStep DEF GiveUp, At, SyncPcs
<1>11. ASSUME NEW r \in Runs, CreateAgain(r) PROVE IInv'
  <2>1. CASE Mkdir(r) /\ UNCHANGED holder
    BY <1>0, <1>11, <2>1, MkdirKeeps DEF CreateAgain
  <2>2. CASE lockDir # Absent /\ Finish(r) /\ UNCHANGED <<lockDir, drawnBy>>
    BY <1>0, <1>11, <2>2, FinishStep DEF CreateAgain
  <2> QED
    BY <1>11, <2>1, <2>2 DEF CreateAgain
<1>12. ASSUME NEW r \in Runs, Publish(r) PROVE IInv'
  <2>1. pc[r] \in ClaimPcs /\ pc' = [pc EXCEPT ![r] = "holding"]
    BY <1>12 DEF Publish, ClaimInv
  <2>2. TokenInv' /\ FencesSigned' /\ HoldersSigned' /\ FailedInv'
    BY <1>12 DEF Publish, ForgetAt, TokenInv, FencesSigned, HoldersSigned,
       FailedInv, Abandoned, Signed
  <2>3. ControlInv' /\ UniqueClaim'
    BY <1>12, <2>1 DEF Publish, ControlInv, UniqueClaim
  <2>4. ClaimInv'
    BY <1>0, <1>12, <2>1, InfoOfFacts DEF Publish, ForgetAt, ClaimInv,
       UniqueClaim, InfoOf, FenceInv
  <2>5. LockSigned'
    BY <1>0, <1>12, InfoOfFacts DEF Publish, ForgetAt, LockSigned, Signed,
       TokenInv, ClaimInv
  <2>6. StaleInv'
    BY <1>12 DEF Publish, ForgetAt, StaleInv, Abandoned
  <2>7. FenceInv'
    BY <1>12, <2>1, ClaimDefeatsMove DEF Publish, ForgetAt, FenceInv
  <2> QED
    BY <1>0, <2>2, <2>3, <2>4, <2>5, <2>6, <2>7
<1>13. ASSUME NEW r \in Runs, RollbackRead(r) PROVE IInv'
  <2>1. LockSigned' /\ FencesSigned'
    BY <1>13 DEF RollbackRead, LockSigned, FencesSigned, Signed
  <2>2. ControlInv'
    BY <1>0, <1>13 DEF RollbackRead, ControlInv
  <2>3. TokenInv'
    BY <1>0, <1>13 DEF RollbackRead, TokenInv
  <2>4. ClaimInv'
    BY <1>0, <1>13, InfoOfFacts DEF RollbackRead, TokenInv, ClaimInv,
       UniqueClaim
  <2>5. UniqueClaim'
    BY <1>0, <1>13, InfoOfFacts DEF RollbackRead, UniqueClaim, ClaimInv
  <2>6. HoldersSigned'
    BY <1>0, <1>13, InfoFacts DEF RollbackRead, HoldersSigned, LockSigned,
       Signed
  <2>7. StaleInv'
    BY <1>0, <1>13, InfoFacts DEF RollbackRead, StaleInv, Abandoned, TokenInv
  <2>8. FenceInv'
    BY <1>0, <1>13, InfoFacts, InfoOfFacts DEF RollbackRead, FenceInv,
       StaleInv, Abandoned
  <2>9. FailedInv'
    BY <1>0, <1>13, InfoFacts DEF RollbackRead, FailedInv, Abandoned, TokenInv
  <2> QED
    BY <1>0, <2>1, <2>2, <2>3, <2>4, <2>5, <2>6, <2>7, <2>8, <2>9
<1>14. ASSUME NEW r \in Runs, RollbackUnlink(r) PROVE IInv'
  <2>1. pc[r] \in ClaimPcs
    BY <1>14 DEF RollbackUnlink
  <2>2. TokenInv' /\ FencesSigned' /\ HoldersSigned' /\ FailedInv'
    BY <1>14 DEF RollbackUnlink, TokenInv, FencesSigned, HoldersSigned,
       FailedInv, Abandoned, Signed
  <2>3. ControlInv' /\ UniqueClaim'
    BY <1>14, <2>1 DEF RollbackUnlink, ControlInv, UniqueClaim
  <2>4. ClaimInv'
    BY <1>0, <1>14, <2>1, InfoOfFacts DEF RollbackUnlink, ClaimInv,
       UniqueClaim, InfoOf, FenceInv
  <2>5. LockSigned'
    BY <1>0, <1>14, InfoOfFacts DEF RollbackUnlink, LockSigned, Signed,
       TokenInv, ClaimInv
  <2>6. StaleInv'
    BY <1>14 DEF RollbackUnlink, StaleInv, Abandoned
  <2>7. FenceInv'
    BY <1>14, <2>1, ClaimDefeatsMove DEF RollbackUnlink, FenceInv
  <2> QED
    BY <1>0, <2>2, <2>3, <2>4, <2>5, <2>6, <2>7
<1>15. ASSUME NEW r \in Runs, RollbackRmdir(r) PROVE IInv'
  <2> DEFINE own == token[r]
  <2>1. pc[r] = "rollbackRmdir" /\ lockDir' = Absent
    BY <1>15 DEF RollbackRmdir, ClaimInv
  <2>2. \A s \in Runs : pc[s] \in ClaimPcs => s = r
    BY <2>1 DEF UniqueClaim
  <2>3. ControlInv' /\ TokenInv' /\ UniqueClaim'
    BY <1>15, <2>2 DEF RollbackRmdir, ControlInv, TokenInv, UniqueClaim
  <2>4. ClaimInv' /\ LockSigned' /\ FencesSigned'
    BY <1>15, <2>1, <2>2 DEF RollbackRmdir, ClaimInv, LockSigned,
       FencesSigned, Signed, InfoOf
  <2>5. ASSUME NEW s \in Runs, s # r
        PROVE  pc'[s] = pc[s] /\ holder'[s] = holder[s] /\ token'[s] = token[s]
    BY <1>15, <2>5 DEF RollbackRmdir
  <2>6. pc'[r] = "idle" /\ holder'[r] = NoInfo /\ token'[r] = NoToken
    BY <1>15 DEF RollbackRmdir
  <2>7. UNCHANGED <<drawnBy, fences, failedRelease>>
    BY <1>15 DEF RollbackRmdir
  <2>8. HoldersSigned'
    BY <2>5, <2>6, <2>7 DEF HoldersSigned, Signed
  <2>9. StaleInv' /\ FailedInv'
    BY <1>15, <2>5, <2>6, <2>7, InfoFacts DEF StaleInv, FailedInv, Abandoned
  <2>10. FenceInv'
    BY <2>1, <2>5, <2>6, <2>7, ClaimDefeatsMove DEF FenceInv
  <2> QED
    BY <1>0, <2>3, <2>4, <2>8, <2>9, <2>10
<1>16. ASSUME NEW r \in Runs, EndWorkflow(r) PROVE IInv'
  <2>1. TokenInv' /\ LockSigned' /\ FencesSigned' /\ HoldersSigned' /\ FailedInv'
    BY <1>16 DEF EndWorkflow, TokenInv, LockSigned, FencesSigned,
       HoldersSigned, FailedInv, Abandoned, Signed
  <2>2. ControlInv'
    BY <1>0, <1>16 DEF EndWorkflow, ControlInv
  <2>3. ClaimInv'
    BY <1>0, <1>16, InfoOfFacts DEF EndWorkflow, TokenInv, ClaimInv,
       UniqueClaim
  <2>4. UniqueClaim'
    BY <1>0, <1>16, InfoOfFacts DEF EndWorkflow, UniqueClaim, ClaimInv
  <2>5. StaleInv'
    BY <1>0, <1>16, InfoFacts DEF EndWorkflow, StaleInv, Abandoned, TokenInv
  <2>6. FenceInv'
    BY <1>0, <1>16, InfoFacts, InfoOfFacts DEF EndWorkflow, FenceInv,
       StaleInv, Abandoned
  <2> QED
    BY <1>0, <2>1, <2>2, <2>3, <2>4, <2>5, <2>6
<1>17. ASSUME NEW r \in Runs, DetachStat(r) PROVE IInv'
  <2>1. CASE lockDir = Absent
    BY <1>0, <1>17, <2>1, FinishStep DEF DetachStat, EndRelease, ForgetOwn
  <2>2. CASE lockDir # Absent
    BY <1>0, <1>17, <2>2 DEF DetachStat, ControlInv, TokenInv, ClaimInv,
       InfoOf,
       UniqueClaim, LockSigned, FencesSigned, HoldersSigned, Signed, StaleInv,
       Abandoned, FenceInv, FailedInv
  <2> QED
    BY <2>1, <2>2
<1>18. ASSUME NEW r \in Runs, DetachRead(r) PROVE IInv'
  <2> DEFINE gone == InfoIn(lockDir) = NoInfo \/ InfoIn(lockDir).ownerToken # token[r]
  <2>1. CASE gone
    <3>1. EndRelease(r)
      BY <1>18, <2>1 DEF DetachRead
    <3> QED
      BY <1>0, <1>18, <3>1, FinishStep DEF DetachRead, EndRelease, ForgetOwn
  <2>2. CASE ~gone
    <3>1. Goto(r, "relMove") /\ UNCHANGED <<token, holder, failedRelease>>
      BY <1>18, <2>2 DEF DetachRead
    <3> QED
      BY <1>0, <1>18, <3>1 DEF DetachRead, ControlInv, TokenInv, ClaimInv,
         InfoOf,
         UniqueClaim, LockSigned, FencesSigned, HoldersSigned, Signed,
         StaleInv,
         Abandoned, FenceInv, FailedInv
  <2> QED
    BY <2>1, <2>2
<1>19. ASSUME NEW r \in Runs, DetachMove(r) PROVE IInv'
  <2> DEFINE t == token[r]
  <2>1. /\ t \in Tokens /\ lockDir = InfoOf(r, t) /\ drawnBy[t] = r
        /\ pc[r] \in ClaimPcs /\ pc[r] = "relMove"
    BY <1>19 DEF DetachMove, ClaimInv, TokenInv
  <2>2. CASE ~MayRename(lockDir, fences[t])
    BY <1>0, <1>19, <2>2, FinishStep DEF DetachMove
  <2>3. CASE MayRename(lockDir, fences[t])
    <3>1. /\ fences' = [fences EXCEPT ![t] = lockDir] /\ lockDir' = Absent
          /\ pc' = [pc EXCEPT ![r] = "relVerify"]
          /\ UNCHANGED <<token, holder, failedRelease, procState, drawnBy>>
      BY <1>19, <2>3 DEF DetachMove
    <3>2. \A s \in Runs : pc[s] \in ClaimPcs => s = r
      BY <2>1 DEF UniqueClaim
    <3>3. ControlInv' /\ TokenInv' /\ UniqueClaim'
      BY <1>19, <3>1, <3>2 DEF DetachMove, ControlInv, TokenInv, UniqueClaim
    <3>4. \A s \in Runs : s # r /\ token[s] # NoToken => token[s] # t
      BY <2>1 DEF TokenInv
    <3>5. ClaimInv'
      BY <2>1, <3>1, <3>2, <3>4 DEF ClaimInv, InfoOf
    <3>6. LockSigned' /\ HoldersSigned' /\ StaleInv' /\ FailedInv'
      BY <3>1 DEF LockSigned, HoldersSigned, Signed, StaleInv, Abandoned,
         FailedInv
    <3>7. Signed(lockDir) /\ lockDir.ownerToken = t
      BY <2>1, InfoOfFacts DEF LockSigned
    <3>8. FencesSigned'
      BY <2>1, <3>1, <3>7, ZenonT(60) DEF FencesSigned, Signed
    <3>9. FenceInv'
      <4> SUFFICES ASSUME NEW s \in Runs
                   PROVE  /\ pc'[s] \in {"move", "verify"} =>
                               fences'[holder[s].ownerToken] = holder[s]
                          /\ pc'[s] \notin RestorePcs
        BY <3>1 DEF FenceInv
      <4>1. CASE pc'[s] \in {"move", "verify"}
        <5>1. pc[s] = pc'[s] /\ holder[s] \in LockInfo /\ holder[s].ownerToken # t
          BY <3>1, <4>1, StaleIsNobodys
        <5>2. fences[holder[s].ownerToken] = holder[s]
          BY <2>1, <4>1, <5>1, ClaimDefeatsMove DEF FenceInv
        <5> QED
          BY <2>1, <3>1, <4>1, <5>1, <5>2, InfoFacts
      <4>2. CASE pc'[s] \notin {"move", "verify"}
        BY <3>1, <4>2 DEF FenceInv
      <4> QED
        BY <4>1, <4>2
    <3> QED
      BY <1>0, <3>3, <3>5, <3>6, <3>8, <3>9
  <2> QED
    BY <2>2, <2>3
<1>20. ASSUME NEW r \in Runs, DetachVerify(r) PROVE IInv'
  <2>1. token[r] \in Tokens /\ fences[token[r]] = InfoOf(r, token[r])
    BY <1>20 DEF DetachVerify, ClaimInv
  <2>2. InfoIn(fences[token[r]]) = InfoOf(r, token[r])
    BY <2>1, InfoOfFacts
  <2>3. Goto(r, "relUnlink")
    BY <1>20, <2>2 DEF DetachVerify
  <2> QED
    BY <1>0, <1>20, <2>3 DEF DetachVerify, ControlInv, TokenInv, ClaimInv,
       InfoOf,
       UniqueClaim, LockSigned, FencesSigned, HoldersSigned, Signed, StaleInv,
       Abandoned, FenceInv, FailedInv
<1>21. ASSUME NEW r \in Runs, DetachRestoreCheck(r) PROVE IInv'
  BY <1>21 DEF DetachRestoreCheck, FenceInv
<1>22. ASSUME NEW r \in Runs, DetachRestore(r) PROVE IInv'
  BY <1>22 DEF DetachRestore, FenceInv
<1>23. ASSUME NEW r \in Runs, FenceUnlink(r) PROVE IInv'
  <2> DEFINE t == token[r]
  <2>1. /\ t \in Tokens /\ drawnBy[t] = r
        /\ fences' \in [Tokens -> Dir]
        /\ \A u \in Tokens : u # t => fences'[u] = fences[u]
        /\ fences'[t] \in LockInfo => fences'[t] = fences[t]
    BY <1>23 DEF FenceUnlink, TokenInv
  <2>2. UNCHANGED <<lockDir, drawnBy, procState>>
    BY <1>23 DEF FenceUnlink
  <2>3. /\ pc'[r] = "relRmdir" /\ \A s \in Runs : s # r => pc'[s] = pc[s]
        /\ UNCHANGED <<token, holder, failedRelease>>
    BY <1>23 DEF FenceUnlink
  <2>4. ControlInv' /\ TokenInv' /\ UniqueClaim' /\ StaleInv' /\ FailedInv'
    BY <1>23, <2>2, <2>3 DEF FenceUnlink, ControlInv, TokenInv, UniqueClaim,
       StaleInv,
       Abandoned, FailedInv
  <2>5. LockSigned' /\ HoldersSigned'
    BY <2>2, <2>3 DEF LockSigned, HoldersSigned, Signed
  <2>6. FencesSigned'
    BY <2>1, <2>2 DEF FencesSigned, Signed
  <2>7. \A s \in Runs : s # r /\ token[s] # NoToken => token[s] # t
    BY <2>1 DEF TokenInv
  <2>8. ClaimInv'
    BY <2>1, <2>2, <2>3, <2>7 DEF ClaimInv, InfoOf
  <2>9. FenceInv'
    BY <2>1, <2>2, <2>3, StaleIsNobodys, InfoFacts DEF FenceInv
  <2> QED
    BY <1>0, <2>4, <2>5, <2>6, <2>8, <2>9
<1>24. ASSUME NEW r \in Runs, FenceRmdir(r) PROVE IInv'
  <2> DEFINE t == token[r]
  <2>1. /\ t \in Tokens /\ drawnBy[t] = r
        /\ fences' \in [Tokens -> Dir]
        /\ \A u \in Tokens : u # t => fences'[u] = fences[u]
        /\ fences'[t] \in LockInfo => fences'[t] = fences[t]
    BY <1>24 DEF FenceRmdir, TokenInv
  <2>2. UNCHANGED <<lockDir, drawnBy, procState>>
    BY <1>24 DEF FenceRmdir
  <2>3. /\ pc'[r] = "idle" /\ token'[r] = NoToken /\ holder'[r] = NoInfo
        /\ \A s \in Runs : s # r => /\ pc'[s] = pc[s] /\ token'[s] = token[s]
                                    /\ holder'[s] = holder[s]
    BY <1>24 DEF FenceRmdir, EndRelease
  <2>4. ControlInv' /\ TokenInv' /\ UniqueClaim' /\ StaleInv' /\ FailedInv'
    BY <1>24, <2>2, <2>3 DEF FenceRmdir, EndRelease, ForgetOwn, ForgetAt,
       ControlInv, TokenInv, UniqueClaim, StaleInv,
       Abandoned, FailedInv
  <2>5. LockSigned' /\ HoldersSigned'
    BY <2>2, <2>3 DEF LockSigned, HoldersSigned, Signed
  <2>6. FencesSigned'
    BY <2>1, <2>2 DEF FencesSigned, Signed
  <2>7. \A s \in Runs : s # r /\ token[s] # NoToken => token[s] # t
    BY <2>1 DEF TokenInv
  <2>8. ClaimInv'
    BY <2>1, <2>2, <2>3, <2>7 DEF ClaimInv, InfoOf
  <2>9. FenceInv'
    BY <2>1, <2>2, <2>3, StaleIsNobodys, InfoFacts DEF FenceInv
  <2> QED
    BY <1>0, <2>4, <2>5, <2>6, <2>8, <2>9
<1>25. ASSUME NEW r \in Runs, AcquireThrows(r) PROVE IInv'
  BY <1>0, <1>25, FinishStep DEF AcquireThrows, Throw
<1>26. ASSUME NEW r \in Runs, PublishThrows(r) PROVE IInv'
  <2>1. pc[r] \in ClaimPcs
    BY <1>26 DEF PublishThrows, Throw
  <2>2. TokenInv' /\ FencesSigned' /\ HoldersSigned' /\ FailedInv'
    BY <1>26 DEF PublishThrows, Throw, TokenInv, FencesSigned, HoldersSigned,
       FailedInv, Abandoned, Signed
  <2>3. ControlInv' /\ UniqueClaim'
    BY <1>26, <2>1 DEF PublishThrows, Throw, ControlInv, UniqueClaim
  <2>4. ClaimInv'
    BY <1>0, <1>26, <2>1, InfoOfFacts DEF PublishThrows, Throw, ClaimInv,
       UniqueClaim, InfoOf, FenceInv
  <2>5. LockSigned'
    BY <1>0, <1>26, InfoOfFacts DEF PublishThrows, Throw, LockSigned, Signed,
       TokenInv, ClaimInv
  <2>6. StaleInv'
    BY <1>26 DEF PublishThrows, Throw, StaleInv, Abandoned
  <2>7. FenceInv'
    BY <1>26, <2>1, ClaimDefeatsMove DEF PublishThrows, Throw, FenceInv
  <2> QED
    BY <1>0, <2>2, <2>3, <2>4, <2>5, <2>6, <2>7
<1>27. ASSUME NEW r \in Runs, RollbackThrows(r) PROVE IInv'
  BY <1>0, <1>27, FinishStep DEF RollbackThrows, Throw
<1>28. ASSUME NEW r \in Runs, DetachThrows(r) PROVE IInv'
  BY <1>0, <1>28, FinishStep DEF DetachThrows, Throw, Remember
<1>29. ASSUME NEW r \in Runs, CleanupThrows(r) PROVE IInv'
  BY <1>0, <1>29, FinishStep DEF CleanupThrows, Throw, EndRelease, ForgetOwn,
     ForgetAt
<1>30. ASSUME NEW p \in Procs, Boot(p) PROVE IInv'
  <2>1. TokenInv' /\ ClaimInv' /\ UniqueClaim' /\ LockSigned' /\ FencesSigned' /\ HoldersSigned' /\ StaleInv' /\ FenceInv' /\ FailedInv'
    BY <1>30 DEF Boot, PidAlive, TokenInv, ClaimInv, UniqueClaim, LockSigned,
       FencesSigned, HoldersSigned, StaleInv, FenceInv, FailedInv, Abandoned,
       Signed, InfoOf
  <2>2. ControlInv'
    BY <1>0, <1>30 DEF Boot, PidAlive, ControlInv
  <2> QED
    BY <1>0, <2>1, <2>2
<1>31. ASSUME NEW p \in Procs, Die(p) PROVE IInv'
  <2>1. LockSigned' /\ FencesSigned'
    BY <1>31 DEF Die, LockSigned, FencesSigned, Signed
  <2>2. ControlInv'
    BY <1>0, <1>31 DEF Die, ControlInv
  <2>3. TokenInv'
    BY <1>0, <1>31 DEF Die, TokenInv
  <2>4. ClaimInv'
    BY <1>0, <1>31, InfoOfFacts DEF Die, TokenInv, ClaimInv, UniqueClaim
  <2>5. UniqueClaim'
    BY <1>0, <1>31, InfoOfFacts DEF Die, UniqueClaim, ClaimInv
  <2>6. HoldersSigned'
    BY <1>0, <1>31, InfoFacts DEF Die, HoldersSigned, LockSigned, Signed
  <2>7. StaleInv'
    BY <1>0, <1>31, InfoFacts DEF Die, StaleInv, Abandoned, TokenInv
  <2>8. FenceInv'
    BY <1>0, <1>31, InfoFacts, InfoOfFacts DEF Die, FenceInv, StaleInv,
       Abandoned
  <2>9. FailedInv'
    BY <1>0, <1>31, InfoFacts DEF Die, FailedInv, Abandoned, TokenInv
  <2> QED
    BY <1>0, <2>1, <2>2, <2>3, <2>4, <2>5, <2>6, <2>7, <2>8, <2>9
<1>32. CASE OperatorRemoves
  <2>1. ControlInv' /\ TokenInv' /\ UniqueClaim' /\ FencesSigned' /\ HoldersSigned' /\ StaleInv' /\ FailedInv'
    BY <1>32 DEF OperatorRemoves, CrashedDir, ControlInv, TokenInv,
       UniqueClaim, FencesSigned, HoldersSigned, StaleInv, FailedInv,
       Abandoned, Signed
  <2>2. ClaimInv'
    BY <1>0, <1>32, InfoOfFacts DEF OperatorRemoves, CrashedDir, TokenInv,
       ClaimInv, UniqueClaim
  <2>3. LockSigned'
    BY <1>0, <1>32, InfoOfFacts, InfoFacts DEF OperatorRemoves, CrashedDir,
       LockSigned, Signed, TokenInv, ClaimInv
  <2>4. FenceInv'
    BY <1>0, <1>32, InfoFacts, InfoOfFacts DEF OperatorRemoves, CrashedDir,
       FenceInv, StaleInv, Abandoned
  <2> QED
    BY <1>0, <2>1, <2>2, <2>3, <2>4
<1>33. CASE UNCHANGED vars
  BY <1>0, <1>33 DEF vars, ControlInv, TokenInv, ClaimInv, UniqueClaim,
     LockSigned, FencesSigned, HoldersSigned, StaleInv, FenceInv, FailedInv, Signed, Abandoned, InfoOf
<1> QED
  BY <1>1, <1>2, <1>3, <1>4, <1>5, <1>6, <1>7, <1>8, <1>9, <1>10, <1>11,
     <1>12, <1>13, <1>14, <1>15, <1>16, <1>17, <1>18, <1>19, <1>20, <1>21, <1>22, <1>23, <1>24, <1>25, <1>26, <1>27, <1>28, <1>29, <1>30, <1>31, <1>32, <1>33
     DEF Next, Environment, Acquire, Release, Throws

-----------------------------------------------------------------------------
(* Safety                                                                  *)

\* The invariant of every reachable state.
THEOREM Invariance ==
  ASSUME ~OperatorRemovesPublished
  PROVE  Spec => []IInv
<1>1. IInv /\ [Next]_vars => IInv'
  BY InvStep
<1> QED
  BY InvInit, <1>1, PTL DEF Spec

\* However many processes contend, crash and fail, two generation runs never
\* work on the same output directory (withGenerationLock).
THEOREM Exclusion ==
  ASSUME ~OperatorRemovesPublished
  PROVE  Spec => []MutualExclusion
<1>1. IInv => MutualExclusion
  BY DEF IInv, UniqueClaim, MutualExclusion, ClaimPcs
<1> QED
  BY Invariance, <1>1, PTL

\* While a workflow runs, the lock on disk names it.
THEOREM Naming ==
  ASSUME ~OperatorRemovesPublished
  PROVE  Spec => []HolderIsNamed
<1>1. IInv => HolderIsNamed
  BY DEF IInv, ClaimInv, HolderIsNamed, NamedPcs
<1> QED
  BY Invariance, <1>1, PTL

\* Only the run that relies on the canonical directory changes it.
LEMMA ClaimStep ==
  ASSUME ~OperatorRemovesPublished, IInv, [Next]_vars,
         NEW r \in Runs, pc[r] \in ClaimPcs, pc'[r] = pc[r]
  PROVE  lockDir' = lockDir
<1>1. lockDir = Unpublished \/ lockDir = InfoOf(r, token[r])
  BY DEF IInv, ClaimInv, ClaimPcs, RollbackPcs, NamedPcs
<1>2. token[r] \in Tokens
  BY DEF IInv, TypeInv, TypeOK, LocalsInv, OwnPcs
<1>3. lockDir # Absent
  BY <1>1, <1>2, InfoOfFacts, DirFacts
<1>4. \A s \in Runs : pc[s] \in ClaimPcs => s = r
  BY DEF IInv, UniqueClaim
<1>5. pc \in [Runs -> Pcs]
  BY DEF IInv, TypeInv, TypeOK
<1> USE DEF At, Goto, Finish, ClaimPcs, RollbackPcs
<1>6. ASSUME NEW s \in Runs, CreateFirst(s) \/ CreateAgain(s) PROVE lockDir' = lockDir
  BY <1>3, <1>6 DEF CreateFirst, CreateAgain, Mkdir
<1>7. ASSUME NEW s \in Runs, MoveToFence(s) PROVE lockDir' = lockDir
  <2>1. pc[s] = "move"
    BY <1>7 DEF MoveToFence
  <2>2. fences[holder[s].ownerToken] = holder[s] /\ holder[s] \in LockInfo
    BY <2>1, ClaimDefeatsMove, StaleIsNobodys DEF StalePcs
  <2> QED
    BY <1>7, <2>2 DEF MoveToFence, MayRename
<1>8. ASSUME NEW s \in Runs, Restore(s) \/ DetachRestore(s) PROVE FALSE
  BY <1>8 DEF Restore, DetachRestore, IInv, FenceInv, RestorePcs
<1>9. ASSUME NEW s \in Runs, Publish(s) \/ RollbackUnlink(s) \/ RollbackRmdir(s)
                               \/ DetachMove(s) \/ PublishThrows(s)
      PROVE  lockDir' = lockDir
  <2>1. pc[s] \in ClaimPcs
    BY <1>9 DEF Publish, RollbackUnlink, RollbackRmdir, DetachMove,
       PublishThrows
  <2>2. s = r
    BY <1>4, <2>1
  <2>3. pc'[s] # pc[s] \/ lockDir' = lockDir
    BY <1>5, <1>9 DEF Publish, RollbackUnlink, RollbackRmdir, DetachMove,
       PublishThrows
  <2> QED
    BY <2>2, <2>3
<1>10. CASE OperatorRemoves
  <2>1. pc[r] \in NamedPcs
    BY <1>1, <1>2, <1>10, InfoOfFacts, DirFacts
    DEF OperatorRemoves, CrashedDir, NamedPcs
  <2> QED
    BY <1>2, <1>10, <2>1, InfoOfFacts, DirFacts
    DEF OperatorRemoves, CrashedDir, IInv, ClaimInv
<1>11. CASE UNCHANGED vars
  BY <1>11 DEF vars
<1>12. ASSUME NEW p \in Procs, Boot(p) \/ Die(p) PROVE lockDir' = lockDir
  BY <1>12 DEF Boot, Die
<1>13. ASSUME NEW s \in Runs,
              \/ FindTaken(s) \/ ReadHolder(s) \/ ProbeHolder(s) \/ Recheck(s)
              \/ VerifyFence(s) \/ RestoreCheck(s) \/ GiveUp(s) \/ RollbackRead(s)
              \/ EndWorkflow(s) \/ DetachStat(s) \/ DetachRead(s) \/ DetachVerify(s)
              \/ DetachRestoreCheck(s) \/ FenceUnlink(s) \/ FenceRmdir(s)
              \/ AcquireThrows(s) \/ RollbackThrows(s) \/ DetachThrows(s)
              \/ CleanupThrows(s)
       PROVE  lockDir' = lockDir
  BY <1>13 DEF FindTaken, ReadHolder, ProbeHolder, Recheck, VerifyFence,
     RestoreCheck, GiveUp, RollbackRead, EndWorkflow, DetachStat, DetachRead,
     DetachVerify, DetachRestoreCheck, FenceUnlink, FenceRmdir, AcquireThrows,
     RollbackThrows, DetachThrows, CleanupThrows
<1> QED
  BY <1>6, <1>7, <1>8, <1>9, <1>10, <1>11, <1>12, <1>13
  DEF Next, Environment, Acquire, Release, Throws

\* Nobody else moves, deletes or overwrites the lock of a run that acquires,
\* holds or releases it: the fences do what the comment says they do.
THEOREM FencesProtect ==
  ASSUME ~OperatorRemovesPublished
  PROVE  Spec => OthersLeaveClaimAlone
<1> DEFINE Kept == \A r \in Runs :
                     pc[r] \in ClaimPcs /\ pc'[r] = pc[r] => lockDir' = lockDir
<1>1. IInv /\ [Next]_vars => [Kept]_vars
  BY ClaimStep
<1>2. Spec => [][Kept]_vars
  BY Invariance, <1>1, PTL DEF Spec
<1> QED
  BY <1>2 DEF OthersLeaveClaimAlone

-----------------------------------------------------------------------------
(* Refinement                                                              *)

LEMMA HoldingRunIs ==
  ASSUME IInv
  PROVE  /\ \A r \in Runs : pc[r] = "holding" => HoldingRun = r
         /\ (\A r \in Runs : pc[r] # "holding") => HoldingRun = NoRun
  BY DEF IInv, UniqueClaim, ClaimPcs, HoldingRun, Inside

\* The workflow is entered from the publication of the lock only.
LEMMA EntryStep ==
  ASSUME TypeOK, [Next]_vars, NEW r \in Runs, pc'[r] = "holding"
  PROVE  pc[r] \in {"holding", "publish"}
<1> USE DEF TypeOK, At, Goto, Finish, Mkdir, EndRelease
<1>1. ASSUME NEW s \in Runs, Acquire(s) PROVE pc[r] \in {"holding", "publish"}
  BY <1>1 DEF Acquire, CreateFirst, FindTaken, ReadHolder, ProbeHolder,
     Recheck,
     MoveToFence, VerifyFence, RestoreCheck, Restore, GiveUp, CreateAgain, Publish,
     RollbackRead, RollbackUnlink, RollbackRmdir
<1>2. ASSUME NEW s \in Runs, Release(s) PROVE pc[r] \in {"holding", "publish"}
  BY <1>2 DEF Release, EndWorkflow, DetachStat, DetachRead, DetachMove,
     DetachVerify, DetachRestoreCheck, DetachRestore, FenceUnlink, FenceRmdir
<1>3. ASSUME NEW s \in Runs, Throws(s) PROVE pc[r] \in {"holding", "publish"}
  BY <1>3 DEF Throws, AcquireThrows, PublishThrows, RollbackThrows,
     DetachThrows,
     CleanupThrows
<1>4. CASE Environment
  BY <1>4 DEF Environment, OperatorRemoves, Boot, Die
<1>5. CASE UNCHANGED vars
  BY <1>5 DEF vars
<1> QED
  BY <1>1, <1>2, <1>3, <1>4, <1>5 DEF Next

\* The protocol implements the mutex of OutputMutex: entering and leaving the
\* workflow are Enter and Leave, and everything else is a stutter.
THEOREM Refinement ==
  ASSUME ~OperatorRemovesPublished
  PROVE  Spec => ImplementsMutex
<1>1. Init => Mutex!MutexInit
  BY InvInit, HoldingRunIs DEF Init, Mutex!MutexInit
<1>2. IInv /\ IInv' /\ [Next]_vars => [Mutex!MutexNext]_HoldingRun
  <2> SUFFICES ASSUME IInv, IInv', [Next]_vars, HoldingRun' # HoldingRun
               PROVE  Mutex!MutexNext
    OBVIOUS
  <2>1. \A r \in Runs : pc[r] = "holding" => HoldingRun = r
    BY HoldingRunIs
  <2>2. \A r \in Runs : pc'[r] = "holding" => HoldingRun' = r
    BY DEF IInv, UniqueClaim, ClaimPcs, HoldingRun, Inside
  <2>3. (\A r \in Runs : pc[r] # "holding") => HoldingRun = NoRun
    BY HoldingRunIs
  <2>4. (\A r \in Runs : pc'[r] # "holding") => HoldingRun' = NoRun
    BY DEF IInv, UniqueClaim, ClaimPcs, HoldingRun, Inside
  <2>5. CASE \E r \in Runs : pc'[r] = "holding"
    <3>1. PICK r \in Runs : pc'[r] = "holding"
      BY <2>5
    <3>2. pc[r] = "publish"
      BY <2>1, <2>2, <3>1, EntryStep DEF IInv, TypeInv
    <3>3. \A s \in Runs : pc[s] # "holding"
      BY <3>2 DEF IInv, UniqueClaim, ClaimPcs
    <3>4. Mutex!Enter(r)
      BY <2>2, <2>3, <3>1, <3>3 DEF Mutex!Enter
    <3> QED
      BY <3>4 DEF Mutex!MutexNext
  <2>6. CASE \A r \in Runs : pc'[r] # "holding"
    <3>1. PICK r \in Runs : pc[r] = "holding"
      BY <2>3, <2>4, <2>6
    <3>2. Mutex!Leave(r)
      BY <2>1, <2>4, <2>6, <3>1 DEF Mutex!Leave
    <3> QED
      BY <3>2 DEF Mutex!MutexNext
  <2> QED
    BY <2>5, <2>6
<1>3. Spec => Mutex!MutexSpec
  BY <1>1, <1>2, Invariance, PTL DEF Spec, Mutex!MutexSpec
<1> QED
  BY <1>3 DEF ImplementsMutex

-----------------------------------------------------------------------------
(* Live locks                                                              *)

Signer(info) == drawnBy[info.ownerToken]
LostPcs == {"verify", "relVerify"} \cup CleanupPcs

\* Only runs of processes that have been started draw tokens.
DrawnInv ==
  \A t \in Tokens : drawnBy[t] \in Runs => procState[ProcOf[drawnBy[t]]] # "unborn"

\* An acquisition is rolled back after a failed call.
RollbackInv == \A r \in Runs : pc[r] \in RollbackPcs => faults > 0

\* While a process reclaims or releases a lock, no other run of it publishes one:
\* the only lock of its own that it can meet is the one it has read.
OwnLockInv ==
  lockDir \in LockInfo =>
    \A r \in Runs : ProcOf[r] = ProcOf[Signer(lockDir)] =>
      /\ pc[r] \in StalePcs \cup {"probe"} => lockDir = holder[r]
      /\ pc[r] \notin LostPcs

CareIInv == DrawnInv /\ RollbackInv /\ OwnLockInv /\ LiveLockIsCaredFor

\* A run changes nothing of the others, and only in the memory of its own process.
Local(r) ==
  /\ procState' = procState
  /\ \A s \in Runs \ {r} : pc'[s] = pc[s] /\ token'[s] = token[s] /\ holder'[s] = holder[s]
  /\ \A p \in Procs \ {ProcOf[r]} : failedRelease'[p] = failedRelease[p]
  /\ \A t \in Tokens : drawnBy'[t] = drawnBy[t] \/ (drawnBy[t] = NoRun /\ drawnBy'[t] = r)
  /\ faults' \in {faults, faults + 1}
  /\ MayStep(r)

LEMMA LocalStep ==
  ASSUME TypeOK, NEW r \in Runs, Acquire(r) \/ Release(r) \/ Throws(r)
  PROVE  Local(r)
<1> USE DEF TypeOK, Local, At, Goto, Finish, EndRelease, Remember, ForgetAt, ForgetOwn
<1>1. CASE CreateFirst(r) \/ CreateAgain(r)
  BY <1>1 DEF CreateFirst, CreateAgain, Mkdir
<1>2. CASE FindTaken(r) \/ ReadHolder(r) \/ ProbeHolder(r) \/ Recheck(r) \/ MoveToFence(r)
  BY <1>2 DEF FindTaken, ReadHolder, ProbeHolder, Recheck, MoveToFence
<1>3. CASE VerifyFence(r) \/ RestoreCheck(r) \/ Restore(r) \/ GiveUp(r) \/ Publish(r)
  BY <1>3 DEF VerifyFence, RestoreCheck, Restore, GiveUp, Publish
<1>4. CASE RollbackRead(r) \/ RollbackUnlink(r) \/ RollbackRmdir(r)
  BY <1>4 DEF RollbackRead, RollbackUnlink, RollbackRmdir
<1>5. CASE EndWorkflow(r) \/ DetachStat(r) \/ DetachRead(r) \/ DetachMove(r) \/ DetachVerify(r)
  BY <1>5 DEF EndWorkflow, DetachStat, DetachRead, DetachMove, DetachVerify
<1>6. CASE DetachRestoreCheck(r) \/ DetachRestore(r) \/ FenceUnlink(r) \/ FenceRmdir(r)
  BY <1>6 DEF DetachRestoreCheck, DetachRestore, FenceUnlink, FenceRmdir
<1>7. CASE Throws(r)
  BY <1>7 DEF Throws, AcquireThrows, PublishThrows, RollbackThrows, DetachThrows, CleanupThrows,
     Throw
<1> QED
  BY <1>1, <1>2, <1>3, <1>4, <1>5, <1>6, <1>7 DEF Acquire, Release

\* A run of the lock's own process, when the lock stays
OwnLock(r) == lockDir \in LockInfo /\ ProcOf[r] = ProcOf[Signer(lockDir)]

LEMMA LockStays ==
  ASSUME IInv, NEW r \in Runs, Local(r), OwnLockInv, LiveLockIsCaredFor, lockDir' = lockDir,
         OwnLock(r) =>
           /\ pc'[r] \in StalePcs \cup {"probe"} => lockDir = holder'[r]
           /\ pc'[r] \notin LostPcs
           /\ LET t == lockDir.ownerToken IN
              failedRelease[ProcOf[r]] = t \/ token[r] = t =>
                failedRelease'[ProcOf[r]] = t \/ token'[r] = t
  PROVE  OwnLockInv' /\ LiveLockIsCaredFor'
<1>1. lockDir \in LockInfo =>
        /\ lockDir.ownerToken \in Tokens /\ Signer(lockDir) \in Runs
        /\ Signer(lockDir)' = Signer(lockDir)
  BY InfoFacts DEF IInv, LockSigned, Signed, Signer, Local
<1>2. OwnLockInv'
  <2> SUFFICES ASSUME lockDir \in LockInfo, NEW s \in Runs, ProcOf[s] = ProcOf[Signer(lockDir)]
               PROVE  /\ pc'[s] \in StalePcs \cup {"probe"} => lockDir = holder'[s]
                      /\ pc'[s] \notin LostPcs
    BY <1>1 DEF OwnLockInv
  <2>1. CASE s = r
    BY <2>1 DEF OwnLock
  <2>2. CASE s # r
    BY <2>2 DEF Local, OwnLockInv
  <2> QED
    BY <2>1, <2>2
<1>3. LiveLockIsCaredFor'
  <2> DEFINE t == lockDir.ownerToken
             p == ProcOf[Signer(lockDir)]
  <2> SUFFICES ASSUME lockDir \in LockInfo, procState[p] = "alive"
               PROVE  failedRelease'[p] = t \/ \E s \in Runs : token'[s] = t
    BY <1>1 DEF LiveLockIsCaredFor, Local, Signer
  <2>1. failedRelease[p] = t \/ \E s \in Runs : token[s] = t
    BY DEF LiveLockIsCaredFor, Signer
  <2>2. p \in Procs /\ t \in Tokens /\ TokenInv
    BY <1>1 DEF IInv
  <2>3. CASE ProcOf[r] = p
    <3>1. failedRelease[p] = t \/ token[r] = t => failedRelease'[p] = t \/ token'[r] = t
      BY <2>3 DEF OwnLock
    <3> QED
      BY <2>1, <3>1 DEF Local
  <2>4. CASE ProcOf[r] # p
    <3>1. token[r] # t
      BY <2>2, <2>4 DEF TokenInv, Signer
    <3> QED
      BY <2>1, <2>2, <2>4, <3>1 DEF Local
  <2> QED
    BY <2>3, <2>4
<1> QED
  BY <1>2, <1>3

LEMMA LockStaysWhileAcquiring ==
  ASSUME IInv, NEW r \in Runs, Local(r), OwnLockInv, LiveLockIsCaredFor, lockDir' = lockDir,
         token[r] = NoToken, OwnLock(r) => failedRelease' = failedRelease,
         OwnLock(r) => /\ pc'[r] \in StalePcs \cup {"probe"} => lockDir = holder'[r]
                       /\ pc'[r] \notin LostPcs
  PROVE  OwnLockInv' /\ LiveLockIsCaredFor'
<1>1. ASSUME OwnLock(r), failedRelease[ProcOf[r]] = lockDir.ownerToken \/ token[r] = lockDir.ownerToken
      PROVE  failedRelease'[ProcOf[r]] = lockDir.ownerToken \/ token'[r] = lockDir.ownerToken
  <2>1. lockDir.ownerToken \in Tokens
    BY <1>1, InfoFacts DEF OwnLock
  <2> QED
    BY <1>1, <2>1
<1> QED
  BY <1>1, LockStays

\* Nothing is asked about a lock that is gone or not complete.
LEMMA LockGone ==
  ASSUME lockDir' \notin LockInfo
  PROVE  OwnLockInv' /\ LiveLockIsCaredFor'
  BY DEF OwnLockInv, LiveLockIsCaredFor

\* A lock just published is its run's, and the rest of its process is not amid a step.
LEMMA NewLock ==
  ASSUME NEW r \in Runs, Local(r), token[r] \in Tokens, lockDir' = InfoOf(r, token[r]),
         token'[r] = token[r], drawnBy' = drawnBy, drawnBy[token[r]] = r,
         pc'[r] \in {"holding", "rollback"}
  PROVE  OwnLockInv' /\ LiveLockIsCaredFor'
<1>1. lockDir'.ownerToken = token[r] /\ Signer(lockDir)' = r
  BY InfoOfFacts DEF Signer
<1>2. LiveLockIsCaredFor'
  BY <1>1 DEF LiveLockIsCaredFor
<1>3. OwnLockInv'
  <2> SUFFICES ASSUME NEW s \in Runs, ProcOf[s] = ProcOf[r]
               PROVE  pc'[s] \notin StalePcs \cup {"probe"} \cup LostPcs
    BY <1>1 DEF OwnLockInv
  <2>1. CASE s = r
    BY <2>1 DEF StalePcs, LostPcs, CleanupPcs
  <2>2. CASE s # r
    <3>1. pc'[s] \notin SyncPcs
      BY <2>2 DEF Local, MayStep
    <3> QED
      BY <3>1 DEF SyncPcs, AcquirePcs, DetachPcs, StalePcs, LostPcs, CleanupPcs
  <2> QED
    BY <2>1, <2>2
<1> QED
  BY <1>2, <1>3

LEMMA AcquireCare ==
  ASSUME IInv, OwnLockInv, LiveLockIsCaredFor, NEW r \in Runs, Acquire(r)
  PROVE  OwnLockInv' /\ LiveLockIsCaredFor'
<1> USE DirFacts DEF At, Goto, Finish
<1>0. /\ Local(r) /\ TypeOK /\ LocalsInv
      /\ \A s \in Runs : pc[s] \notin RestorePcs
  BY LocalStep DEF IInv, TypeInv, FenceInv
<1>00. token[r] = NoToken => \A t \in Tokens : token[r] # t
  OBVIOUS
<1>1. CASE CreateFirst(r) \/ (CreateAgain(r) /\ lockDir = Absent)
  <2>1. lockDir' = Unpublished
    BY <1>1 DEF CreateFirst, CreateAgain, Mkdir
  <2> QED
    BY <2>1, LockGone
<1>2. CASE FindTaken(r) \/ ReadHolder(r)
  <2>1. /\ lockDir' = lockDir /\ failedRelease' = failedRelease /\ token[r] = NoToken
        /\ pc'[r] = "readHolder" \/ pc'[r] = "idle"
             \/ (pc'[r] = "probe" /\ holder'[r] = InfoIn(lockDir))
    BY <1>0, <1>2 DEF FindTaken, ReadHolder, TypeOK, LocalsInv, OwnPcs, ClaimPcs, RollbackPcs,
       DetachPcs, CleanupPcs
  <2>2. lockDir \in LockInfo => lockDir.ownerToken \in Tokens /\ InfoIn(lockDir) = lockDir
    BY InfoFacts DEF InfoIn
  <2> QED
    BY <1>0, <2>1, <2>2, LockStaysWhileAcquiring DEF OwnLock, StalePcs, LostPcs, CleanupPcs
<1>3. CASE ProbeHolder(r) \/ Recheck(r)
  <2>1. /\ lockDir' = lockDir /\ failedRelease' = failedRelease /\ token[r] = NoToken
        /\ pc[r] \in {"probe", "recheck"}
        /\ pc'[r] = "idle"
             \/ (pc'[r] \in {"recheck", "move", "lost"} /\ holder'[r] = holder[r])
    BY <1>0, <1>3 DEF ProbeHolder, Recheck, TypeOK, LocalsInv, OwnPcs, ClaimPcs, RollbackPcs,
       DetachPcs, CleanupPcs
  <2>2. lockDir \in LockInfo => lockDir.ownerToken \in Tokens
    BY InfoFacts
  <2>3. OwnLock(r) => lockDir = holder[r]
    BY <2>1 DEF OwnLock, OwnLockInv, StalePcs
  <2> QED
    BY <1>0, <2>1, <2>2, <2>3, LockStaysWhileAcquiring DEF StalePcs, LostPcs, CleanupPcs
<1>4. CASE MoveToFence(r)
  <2>1. CASE lockDir' = Absent
    BY <2>1, LockGone
  <2>2. CASE lockDir' # Absent
    <3>1. /\ lockDir' = lockDir /\ failedRelease' = failedRelease /\ token[r] = NoToken
          /\ pc[r] = "move" /\ pc'[r] = "lost" /\ holder'[r] = holder[r]
      BY <1>0, <1>4, <2>2 DEF MoveToFence, TypeOK, LocalsInv, OwnPcs, ClaimPcs, RollbackPcs,
         DetachPcs, CleanupPcs
    <3>2. lockDir \in LockInfo => lockDir.ownerToken \in Tokens
      BY InfoFacts
    <3>3. OwnLock(r) => lockDir = holder[r]
      BY <3>1 DEF OwnLock, OwnLockInv, StalePcs
    <3> QED
      BY <1>0, <3>1, <3>2, <3>3, LockStaysWhileAcquiring DEF StalePcs, LostPcs, CleanupPcs
  <2> QED
    BY <2>1, <2>2
<1>5. CASE VerifyFence(r)
  <2>1. lockDir' = lockDir /\ pc[r] = "verify"
    BY <1>5 DEF VerifyFence
  <2>2. ~OwnLock(r)
    BY <2>1 DEF OwnLock, OwnLockInv, LostPcs
  <2> QED
    BY <1>0, <2>1, <2>2, LockStays
<1>6. CASE RestoreCheck(r) \/ Restore(r)
  BY <1>0, <1>6 DEF RestoreCheck, Restore, RestorePcs
<1>7. CASE GiveUp(r)
  <2>1. /\ lockDir' = lockDir /\ token[r] = NoToken /\ pc[r] = "lost" /\ pc'[r] = "idle"
    BY <1>0, <1>7 DEF GiveUp, TypeOK, LocalsInv, OwnPcs, ClaimPcs, RollbackPcs, DetachPcs,
       CleanupPcs
  <2>2. lockDir \in LockInfo => lockDir.ownerToken \in Tokens /\ InfoIn(lockDir) = lockDir
    BY InfoFacts DEF InfoIn
  <2>3. OwnLock(r) => lockDir = holder[r]
    BY <2>1 DEF OwnLock, OwnLockInv, StalePcs
  <2>4. OwnLock(r) => failedRelease' = failedRelease
    BY <1>7, <2>2, <2>3 DEF GiveUp, OwnLock
  <2> QED
    BY <1>0, <2>1, <2>2, <2>4, LockStaysWhileAcquiring DEF StalePcs, LostPcs, CleanupPcs
<1>8. CASE CreateAgain(r) /\ lockDir # Absent
  <2>1. /\ lockDir' = lockDir /\ failedRelease' = failedRelease /\ token[r] = NoToken
        /\ pc'[r] = "idle"
    BY <1>0, <1>8 DEF CreateAgain, Mkdir, TypeOK, LocalsInv, OwnPcs, ClaimPcs, RollbackPcs,
       DetachPcs, CleanupPcs
  <2>2. lockDir \in LockInfo => lockDir.ownerToken \in Tokens
    BY InfoFacts
  <2> QED
    BY <1>0, <2>1, <2>2, LockStaysWhileAcquiring DEF StalePcs, LostPcs, CleanupPcs
<1>9. CASE RollbackRead(r)
  <2>1. /\ lockDir' = lockDir /\ failedRelease' = failedRelease /\ pc[r] = "rollback"
        /\ token[r] \in Tokens /\ lockDir \in {Unpublished, InfoOf(r, token[r])}
    BY <1>0, <1>9 DEF RollbackRead, TypeOK, LocalsInv, OwnPcs, ClaimPcs, RollbackPcs, IInv,
       ClaimInv
  <2>2. InfoOf(r, token[r]) \in LockInfo /\ InfoOf(r, token[r]).ownerToken = token[r]
    BY <2>1, InfoOfFacts
  <2>3. pc'[r] = "rollbackUnlink" /\ token'[r] = token[r]
    BY <1>0, <1>9, <2>1, <2>2 DEF RollbackRead, InfoIn, TypeOK
  <2> QED
    BY <1>0, <2>1, <2>2, <2>3, LockStays DEF StalePcs, LostPcs, CleanupPcs
<1>10. CASE RollbackUnlink(r)
  <2>1. lockDir' \notin LockInfo
    BY <1>10 DEF RollbackUnlink
  <2> QED
    BY <2>1, LockGone
<1>11. CASE RollbackRmdir(r)
  <2>1. lockDir' \notin LockInfo
    BY <1>11 DEF RollbackRmdir, IInv, ClaimInv
  <2> QED
    BY <2>1, LockGone
<1>12. CASE Publish(r)
  <2>1. /\ lockDir' = InfoOf(r, token[r]) /\ pc'[r] = "holding" /\ token'[r] = token[r]
        /\ token[r] \in Tokens /\ drawnBy' = drawnBy /\ drawnBy[token[r]] = r
    BY <1>0, <1>12 DEF Publish, IInv, ClaimInv, TypeOK, LocalsInv, OwnPcs, ClaimPcs, TokenInv
  <2> QED
    BY <1>0, <1>12, <2>1, NewLock DEF Publish
<1> QED
  BY <1>1, <1>2, <1>3, <1>4, <1>5, <1>6, <1>7, <1>8, <1>9, <1>10, <1>11, <1>12 DEF Acquire

LEMMA ReleaseCare ==
  ASSUME IInv, OwnLockInv, LiveLockIsCaredFor, NEW r \in Runs, Release(r)
  PROVE  OwnLockInv' /\ LiveLockIsCaredFor'
<1> USE DirFacts DEF At, Goto, Finish, EndRelease, Remember
<1>0. /\ Local(r) /\ TypeOK /\ LocalsInv
      /\ \A s \in Runs : pc[s] \notin RestorePcs
  BY LocalStep DEF IInv, TypeInv, FenceInv
<1>1. CASE EndWorkflow(r) \/ DetachStat(r) \/ DetachRead(r)
  <2>1. pc[r] \in {"holding", "relStat", "relRead"} /\ lockDir' = lockDir
        /\ token[r] \in Tokens /\ lockDir = InfoOf(r, token[r])
    BY <1>0, <1>1 DEF EndWorkflow, DetachStat, DetachRead, TypeOK, LocalsInv, OwnPcs, ClaimPcs,
       IInv, ClaimInv, NamedPcs
  <2>2. lockDir \in LockInfo /\ lockDir.ownerToken = token[r] /\ InfoIn(lockDir) = lockDir
    BY <2>1, InfoOfFacts DEF InfoIn
  <2>3. pc'[r] \in {"relStat", "relRead", "relMove"} /\ token' = token
    BY <1>0, <1>1, <2>2 DEF EndWorkflow, DetachStat, DetachRead, TypeOK
  <2> QED
    BY <1>0, <2>1, <2>2, <2>3, LockStays DEF StalePcs, LostPcs, CleanupPcs
<1>2. CASE DetachMove(r)
  <2>1. pc[r] = "relMove" /\ token[r] \in Tokens /\ lockDir = InfoOf(r, token[r])
    BY <1>0, <1>2 DEF DetachMove, TypeOK, LocalsInv, OwnPcs, ClaimPcs, IInv, ClaimInv, NamedPcs
  <2>2. lockDir \in LockInfo /\ lockDir.ownerToken = token[r]
    BY <2>1, InfoOfFacts
  <2>3. CASE MayRename(lockDir, fences[token[r]])
    <3>1. lockDir' = Absent
      BY <1>2, <2>3 DEF DetachMove
    <3> QED
      BY <3>1, LockGone
  <2>4. CASE ~MayRename(lockDir, fences[token[r]])
    <3>1. lockDir' = lockDir /\ pc'[r] = "idle" /\ failedRelease'[ProcOf[r]] = token[r]
      BY <1>0, <1>2, <2>4 DEF DetachMove, TypeOK
    <3> QED
      BY <1>0, <2>2, <3>1, LockStays DEF StalePcs, LostPcs, CleanupPcs
  <2> QED
    BY <2>3, <2>4
<1>3. CASE DetachVerify(r) \/ FenceUnlink(r) \/ FenceRmdir(r)
  <2>1. lockDir' = lockDir /\ pc[r] \in LostPcs
    BY <1>3 DEF DetachVerify, FenceUnlink, FenceRmdir, LostPcs, CleanupPcs
  <2>2. ~OwnLock(r)
    BY <2>1 DEF OwnLock, OwnLockInv
  <2> QED
    BY <1>0, <2>1, <2>2, LockStays
<1>4. CASE DetachRestoreCheck(r) \/ DetachRestore(r)
  BY <1>0, <1>4 DEF DetachRestoreCheck, DetachRestore, RestorePcs
<1> QED
  BY <1>1, <1>2, <1>3, <1>4 DEF Release

LEMMA ThrowsCare ==
  ASSUME IInv, OwnLockInv, LiveLockIsCaredFor, RollbackInv, MaxFaults <= 1,
         NEW r \in Runs, Throws(r)
  PROVE  OwnLockInv' /\ LiveLockIsCaredFor'
<1> USE DirFacts DEF At, Goto, Finish, EndRelease, Remember
<1>0. /\ Local(r) /\ TypeOK /\ LocalsInv
      /\ \A s \in Runs : pc[s] \notin RestorePcs
  BY LocalStep DEF IInv, TypeInv, FenceInv
<1>1. CASE AcquireThrows(r)
  <2>1. /\ lockDir' = lockDir /\ failedRelease' = failedRelease /\ pc'[r] = "idle"
        /\ token[r] = NoToken
    BY <1>0, <1>1 DEF AcquireThrows, AcquirePcs, TypeOK, LocalsInv, OwnPcs, ClaimPcs, RollbackPcs,
       DetachPcs, CleanupPcs
  <2> QED
    BY <1>0, <2>1, LockStaysWhileAcquiring DEF StalePcs, LostPcs, CleanupPcs
<1>2. CASE PublishThrows(r)
  <2>1. /\ lockDir = Unpublished /\ token[r] \in Tokens /\ pc'[r] = "rollback"
        /\ token' = token /\ drawnBy' = drawnBy /\ drawnBy[token[r]] = r
        /\ lockDir' = lockDir \/ lockDir' = InfoOf(r, token[r])
    BY <1>0, <1>2 DEF PublishThrows, TypeOK, LocalsInv, OwnPcs, ClaimPcs, IInv, ClaimInv, TokenInv
  <2>2. CASE lockDir' = lockDir
    BY <2>1, <2>2, LockGone
  <2>3. CASE lockDir' = InfoOf(r, token[r])
    BY <1>0, <2>1, <2>3, NewLock
  <2> QED
    BY <2>1, <2>2, <2>3
<1>3. CASE RollbackThrows(r)
  <2>1. faults > 0 /\ faults < MaxFaults /\ faults \in Nat
    BY <1>0, <1>3 DEF RollbackThrows, RollbackInv, Throw, TypeOK
  <2> QED
    BY <2>1
<1>4. CASE DetachThrows(r)
  <2>1. /\ lockDir' = lockDir /\ pc'[r] = "idle" /\ failedRelease'[ProcOf[r]] = token[r]
        /\ pc[r] \in {"relStat", "relRead", "relMove", "relVerify"}
    BY <1>0, <1>4 DEF DetachThrows, DetachPcs, RestorePcs, TypeOK
  <2>2. CASE pc[r] = "relVerify"
    <3>1. ~OwnLock(r)
      BY <2>2 DEF OwnLock, OwnLockInv, LostPcs
    <3> QED
      BY <1>0, <2>1, <3>1, LockStays
  <2>3. CASE pc[r] # "relVerify"
    <3>1. token[r] \in Tokens /\ lockDir = InfoOf(r, token[r])
      BY <1>0, <2>1, <2>3 DEF TypeOK, LocalsInv, OwnPcs, ClaimPcs, IInv, ClaimInv, NamedPcs
    <3>2. lockDir.ownerToken = token[r]
      BY <3>1, InfoOfFacts
    <3> QED
      BY <1>0, <2>1, <3>2, LockStays DEF StalePcs, LostPcs, CleanupPcs
  <2> QED
    BY <2>2, <2>3
<1>5. CASE CleanupThrows(r)
  <2>1. lockDir' = lockDir /\ pc[r] \in LostPcs
    BY <1>5 DEF CleanupThrows, LostPcs
  <2>2. ~OwnLock(r)
    BY <2>1 DEF OwnLock, OwnLockInv
  <2> QED
    BY <1>0, <2>1, <2>2, LockStays
<1> QED
  BY <1>1, <1>2, <1>3, <1>4, <1>5 DEF Throws

\* A death leaves the lock, and what cares for it is the run that drew its token.
LEMMA EnvironmentCare ==
  ASSUME IInv, OwnLockInv, LiveLockIsCaredFor, DrawnInv, Environment
  PROVE  OwnLockInv' /\ LiveLockIsCaredFor'
<1>1. CASE OperatorRemoves
  BY <1>1, LockGone, DirFacts DEF OperatorRemoves
<1>2. CASE lockDir \notin LockInfo /\ ~OperatorRemoves
  BY <1>2, LockGone DEF Environment, Boot, Die
<1> DEFINE t == lockDir.ownerToken
           q == ProcOf[Signer(lockDir)]
<1>3. CASE lockDir \in LockInfo /\ \E p \in Procs : Boot(p)
  <2>1. PICK p \in Procs : Boot(p)
    BY <1>3
  <2>2. /\ t \in Tokens /\ Signer(lockDir) \in Runs /\ Signer(lockDir)' = Signer(lockDir)
        /\ q \in Procs
    BY <1>3, <2>1, InfoFacts DEF IInv, LockSigned, Signed, Signer, Boot
  <2>3. procState'[q] = "alive" => procState[q] = "alive"
    BY <2>1, <2>2 DEF Boot, DrawnInv, Signer, IInv, TypeInv, TypeOK
  <2>4. UNCHANGED <<lockDir, pc, token, holder, failedRelease, drawnBy>>
    BY <2>1 DEF Boot
  <2>5. OwnLockInv'
    BY <2>4 DEF OwnLockInv, Signer
  <2>6. LiveLockIsCaredFor'
    BY <2>3, <2>4 DEF LiveLockIsCaredFor, Signer
  <2> QED
    BY <2>5, <2>6
<1>4. CASE lockDir \in LockInfo /\ \E p \in Procs : Die(p)
  <2>1. PICK p \in Procs : Die(p)
    BY <1>4
  <2>2. /\ t \in Tokens /\ Signer(lockDir) \in Runs /\ Signer(lockDir)' = Signer(lockDir)
        /\ q \in Procs
    BY <1>4, <2>1, InfoFacts DEF IInv, LockSigned, Signed, Signer, Die
  <2>3. UNCHANGED <<lockDir, drawnBy>>
    BY <2>1 DEF Die
  <2>4. \A s \in Runs :
          /\ ProcOf[s] = p => pc'[s] = "idle"
          /\ ProcOf[s] # p => pc'[s] = pc[s] /\ token'[s] = token[s] /\ holder'[s] = holder[s]
    BY <2>1 DEF Die
  <2>5. OwnLockInv'
    <3> SUFFICES ASSUME NEW s \in Runs, ProcOf[s] = q
                 PROVE  /\ pc'[s] \in StalePcs \cup {"probe"} => lockDir = holder'[s]
                        /\ pc'[s] \notin LostPcs
      BY <2>2, <2>3 DEF OwnLockInv
    <3>1. CASE ProcOf[s] = p
      BY <2>4, <3>1 DEF StalePcs, LostPcs, CleanupPcs
    <3>2. CASE ProcOf[s] # p
      BY <1>4, <2>4, <3>2 DEF OwnLockInv
    <3> QED
      BY <3>1, <3>2
  <2>6. LiveLockIsCaredFor'
    <3> SUFFICES ASSUME procState'[q] = "alive"
                 PROVE  failedRelease'[q] = t \/ \E s \in Runs : token'[s] = t
      BY <2>2, <2>3 DEF LiveLockIsCaredFor, Signer
    <3>1. q # p /\ procState[q] = "alive" /\ failedRelease'[q] = failedRelease[q]
      BY <2>1, <2>2 DEF Die, IInv, TypeInv, TypeOK
    <3>2. failedRelease[q] = t \/ \E s \in Runs : token[s] = t
      BY <1>4, <3>1 DEF LiveLockIsCaredFor, Signer
    <3>3. \A s \in Runs : token[s] = t => ProcOf[s] = q
      BY <2>2 DEF IInv, TokenInv, Signer
    <3> QED
      BY <2>4, <3>1, <3>2, <3>3
  <2> QED
    BY <2>5, <2>6
<1> QED
  BY <1>1, <1>2, <1>3, <1>4 DEF Environment

\* Tokens are drawn by live processes, and no process is ever unborn again.
LEMMA DrawnStep ==
  ASSUME IInv, DrawnInv, Next
  PROVE  DrawnInv'
<1>0. TypeOK
  BY DEF IInv, TypeInv
<1>1. ASSUME NEW r \in Runs, Acquire(r) \/ Release(r) \/ Throws(r)
      PROVE  DrawnInv'
  <2>1. Local(r)
    BY <1>0, <1>1, LocalStep
  <2> QED
    BY <2>1 DEF Local, MayStep, DrawnInv
<1>2. CASE OperatorRemoves
  BY <1>2 DEF OperatorRemoves, DrawnInv
<1>3. ASSUME NEW p \in Procs, Boot(p) \/ Die(p)
      PROVE  DrawnInv'
  <2>1. /\ drawnBy' = drawnBy
        /\ \A q \in Procs : procState'[q] = procState[q] \/ procState'[q] # "unborn"
    BY <1>0, <1>3 DEF Boot, Die, TypeOK
  <2>2. \A r \in Runs : ProcOf[r] \in Procs
    OBVIOUS
  <2> QED
    BY <2>1, <2>2 DEF DrawnInv
<1> QED
  BY <1>1, <1>2, <1>3 DEF Next, Environment

\* A lock directory that is not published yet does not vanish under its run, so
\* the only way into a rollback is a call that failed.
LEMMA RollbackStep ==
  ASSUME IInv, RollbackInv, Next
  PROVE  RollbackInv'
<1>0. TypeOK /\ faults \in Nat
  BY DEF IInv, TypeInv, TypeOK
<1>1. ASSUME NEW r \in Runs, Acquire(r) \/ Release(r) \/ Throws(r)
      PROVE  RollbackInv'
  <2>1. Local(r)
    BY <1>0, <1>1, LocalStep
  <2>2. faults' \in Nat /\ faults' >= faults
    BY <1>0, <2>1 DEF Local
  <2>3. pc'[r] \in RollbackPcs => pc[r] \in RollbackPcs \/ faults' = faults + 1
    <3> USE <1>0 DEF TypeOK, At, Goto, Finish, EndRelease, Mkdir, RollbackPcs
    <3>1. CASE CreateFirst(r) \/ FindTaken(r) \/ ReadHolder(r) \/ ProbeHolder(r) \/ Recheck(r)
      BY <3>1 DEF CreateFirst, FindTaken, ReadHolder, ProbeHolder, Recheck
    <3>2. CASE MoveToFence(r) \/ VerifyFence(r) \/ RestoreCheck(r) \/ Restore(r) \/ GiveUp(r)
                 \/ CreateAgain(r)
      BY <3>2 DEF MoveToFence, VerifyFence, RestoreCheck, Restore, GiveUp, CreateAgain
    <3>3. CASE Publish(r)
      <4>1. lockDir = Unpublished
        BY <3>3 DEF Publish, IInv, ClaimInv
      <4> QED
        BY <3>3, <4>1, DirFacts DEF Publish
    <3>4. CASE RollbackRead(r) \/ RollbackUnlink(r) \/ RollbackRmdir(r)
      BY <3>4 DEF RollbackRead, RollbackUnlink, RollbackRmdir
    <3>5. CASE Release(r)
      BY <3>5 DEF Release, EndWorkflow, DetachStat, DetachRead, DetachMove, DetachVerify,
         DetachRestoreCheck, DetachRestore, FenceUnlink, FenceRmdir
    <3>6. CASE Throws(r)
      BY <3>6 DEF Throws, AcquireThrows, PublishThrows, RollbackThrows, DetachThrows,
         CleanupThrows, Throw
    <3> QED
      BY <1>1, <3>1, <3>2, <3>3, <3>4, <3>5, <3>6 DEF Acquire
  <2>4. \A s \in Runs \ {r} : pc'[s] = pc[s]
    BY <2>1 DEF Local
  <2> QED
    BY <1>0, <2>2, <2>3, <2>4 DEF RollbackInv
<1>2. CASE OperatorRemoves
  BY <1>2 DEF OperatorRemoves, RollbackInv
<1>3. ASSUME NEW p \in Procs, Boot(p) \/ Die(p)
      PROVE  RollbackInv'
  <2>1. faults' = faults /\ \A r \in Runs : pc'[r] = pc[r] \/ pc'[r] = "idle"
    BY <1>3 DEF Boot, Die
  <2> QED
    BY <2>1 DEF RollbackInv, RollbackPcs
<1> QED
  BY <1>1, <1>2, <1>3 DEF Next, Environment

LEMMA CareInit == Init => CareIInv
<1> SUFFICES ASSUME Init PROVE CareIInv
  OBVIOUS
<1>1. DrawnInv /\ RollbackInv
  BY DEF Init, DrawnInv, RollbackInv, RollbackPcs
<1>2. OwnLockInv /\ LiveLockIsCaredFor
  BY DirFacts DEF Init, OwnLockInv, LiveLockIsCaredFor
<1> QED
  BY <1>1, <1>2 DEF CareIInv

LEMMA CareStep ==
  ASSUME IInv, CareIInv, [Next]_vars, MaxFaults <= 1
  PROVE  CareIInv'
<1> USE DEF CareIInv
<1>1. CASE Next
  <2>1. DrawnInv' /\ RollbackInv'
    BY <1>1, DrawnStep, RollbackStep
  <2>2. OwnLockInv' /\ LiveLockIsCaredFor'
    BY <1>1, AcquireCare, ReleaseCare, ThrowsCare, EnvironmentCare DEF Next
  <2> QED
    BY <2>1, <2>2
<1>2. CASE UNCHANGED vars
  <2>1. DrawnInv' /\ RollbackInv'
    BY <1>2 DEF vars, DrawnInv, RollbackInv
  <2>2. OwnLockInv' /\ LiveLockIsCaredFor'
    BY <1>2 DEF vars, OwnLockInv, LiveLockIsCaredFor, Signer
  <2> QED
    BY <2>1, <2>2
<1> QED
  BY <1>1, <1>2

\* Where no system call fails twice and the operator removes only locks that are
\* not complete, a complete lock of a live process is never nobody's: a run of the
\* process still holds its token, or the process remembers that releasing it failed
\* and reclaims it the next time it generates (withGenerationLock). A second failure
\* may hit the roll-back of the first, which is best effort and leaves such a lock.
THEOREM LiveLockIsCaredForAlways ==
  ASSUME ~OperatorRemovesPublished, MaxFaults <= 1
  PROVE  Spec => []LiveLockIsCaredFor
<1>1. Init => CareIInv
  BY CareInit
<1>2. IInv /\ CareIInv /\ [Next]_vars => CareIInv'
  BY CareStep
<1>3. CareIInv => LiveLockIsCaredFor
  BY DEF CareIInv
<1> QED
  BY <1>1, <1>2, <1>3, Invariance, PTL DEF Spec

-----------------------------------------------------------------------------
(* Whatever the operator removes                                           *)

\* A fence that is about to be emptied holds the run's own lock.
UnlinkInv ==
  \A r \in Runs : pc[r] = "relUnlink" /\ fences[token[r]] \in LockInfo =>
    fences[token[r]].ownerToken = token[r]

FencesAuthored == \A t \in Tokens : fences[t] \in LockInfo => Signed(fences[t])

\* What is left of the invariant when the operator may remove a complete lock:
\* reclaimers may then move a lock that is not the one they have read, but each
\* still moves it onto the fence of a token that no run works under.
SparingInv ==
  /\ TypeInv
  /\ ControlInv
  /\ TokenInv
  /\ LockSigned
  /\ FencesAuthored
  /\ HoldersSigned
  /\ StaleInv
  /\ FailedInv
  /\ UnlinkInv

\* Why a reclaimer believes that the lock it has read is stale
Believed(r) ==
  \/ pc[r] \in StalePcs
  \/ pc[r] = "probe" /\ (IsFailedRelease(r) \/ ~PidAlive(holder[r].pid))

\* What one step of a run does to its memory
MemoryEffect(r) ==
  /\ \/ token'[r] \in {token[r], NoToken}
     \/ token'[r] \in Tokens /\ drawnBy[token'[r]] = NoRun /\ drawnBy'[token'[r]] = r
  /\ holder'[r] \in {holder[r], NoInfo} \/ (lockDir \in LockInfo /\ holder'[r] = lockDir)
  /\ pc'[r] \in StalePcs => holder'[r] = holder[r] /\ Believed(r)
  /\ \/ failedRelease'[ProcOf[r]] \in {failedRelease[ProcOf[r]], NoToken}
     \/ failedRelease'[ProcOf[r]] = token[r] /\ token'[r] = NoToken

\* ... and to the directories
DiskEffect(r) ==
  /\ \/ lockDir' \in {lockDir, Absent, Unpublished}
     \/ \E t \in Tokens : lockDir' = fences[t]
     \/ token[r] \in Tokens /\ lockDir' = InfoOf(r, token[r]) /\ drawnBy' = drawnBy
  /\ \A t \in Tokens :
       /\ fences'[t] \in {fences[t], lockDir, Absent, Unpublished}
       /\ fences'[t] # fences[t] =>
            t = token[r] \/ (pc[r] \in StalePcs /\ t = holder[r].ownerToken)
  /\ pc'[r] = "relUnlink" =>
       (fences'[token'[r]] \in LockInfo => fences'[token'[r]].ownerToken = token'[r])

LEMMA MemoryStep ==
  ASSUME TypeInv, NEW r \in Runs, Acquire(r) \/ Release(r) \/ Throws(r)
  PROVE  MemoryEffect(r)
<1> USE DEF TypeInv, TypeOK, MemoryEffect, Believed, StalePcs, At, Goto, Finish, EndRelease,
        Remember, ForgetAt, ForgetOwn, InfoIn
<1>1. CASE CreateFirst(r) \/ CreateAgain(r)
  BY <1>1 DEF CreateFirst, CreateAgain, Mkdir
<1>2. CASE FindTaken(r) \/ Recheck(r) \/ MoveToFence(r) \/ VerifyFence(r) \/ RestoreCheck(r)
  BY <1>2 DEF FindTaken, Recheck, MoveToFence, VerifyFence, RestoreCheck
<1>3. CASE ReadHolder(r)
  BY <1>3, DirFacts DEF ReadHolder
<1>4. CASE ProbeHolder(r)
  BY <1>4 DEF ProbeHolder
<1>5. CASE Restore(r) \/ GiveUp(r) \/ Publish(r)
  BY <1>5 DEF Restore, GiveUp, Publish
<1>6. CASE RollbackRead(r) \/ RollbackUnlink(r) \/ RollbackRmdir(r)
  BY <1>6 DEF RollbackRead, RollbackUnlink, RollbackRmdir
<1>7. CASE EndWorkflow(r) \/ DetachStat(r) \/ DetachRead(r) \/ DetachMove(r) \/ DetachVerify(r)
  BY <1>7 DEF EndWorkflow, DetachStat, DetachRead, DetachMove, DetachVerify
<1>8. CASE DetachRestoreCheck(r) \/ DetachRestore(r) \/ FenceUnlink(r) \/ FenceRmdir(r)
  BY <1>8 DEF DetachRestoreCheck, DetachRestore, FenceUnlink, FenceRmdir
<1>9. CASE Throws(r)
  BY <1>9 DEF Throws, AcquireThrows, PublishThrows, RollbackThrows, DetachThrows, CleanupThrows
<1> QED
  BY <1>1, <1>2, <1>3, <1>4, <1>5, <1>6, <1>7, <1>8, <1>9 DEF Acquire, Release

LEMMA DiskStep ==
  ASSUME TypeInv, NEW r \in Runs, Acquire(r) \/ Release(r) \/ Throws(r)
  PROVE  DiskEffect(r)
<1> USE DEF TypeInv, TypeOK, LocalsInv, DiskEffect, StalePcs, OwnPcs, ClaimPcs, DetachPcs,
        CleanupPcs, RollbackPcs, At, Goto, Finish, EndRelease
<1>1. CASE CreateFirst(r) \/ CreateAgain(r)
  BY <1>1 DEF CreateFirst, CreateAgain, Mkdir
<1>2. CASE FindTaken(r) \/ ReadHolder(r) \/ ProbeHolder(r) \/ Recheck(r) \/ VerifyFence(r)
             \/ RestoreCheck(r) \/ GiveUp(r)
  BY <1>2 DEF FindTaken, ReadHolder, ProbeHolder, Recheck, VerifyFence, RestoreCheck, GiveUp
<1>3. CASE MoveToFence(r)
  <2>1. holder[r].ownerToken \in Tokens
    BY <1>3, InfoFacts DEF MoveToFence
  <2> QED
    BY <1>3, <2>1 DEF MoveToFence
<1>4. CASE Restore(r)
  <2>1. holder[r].ownerToken \in Tokens
    BY <1>4, InfoFacts DEF Restore
  <2> QED
    BY <1>4, <2>1 DEF Restore
<1>5. CASE Publish(r)
  BY <1>5 DEF Publish
<1>6. CASE RollbackRead(r) \/ RollbackUnlink(r) \/ RollbackRmdir(r) \/ EndWorkflow(r)
  BY <1>6 DEF RollbackRead, RollbackUnlink, RollbackRmdir, EndWorkflow
<1>7. CASE DetachStat(r) \/ DetachRead(r) \/ DetachMove(r) \/ DetachRestoreCheck(r)
  BY <1>7 DEF DetachStat, DetachRead, DetachMove, DetachRestoreCheck
<1>8. CASE DetachVerify(r)
  <2>1. token[r] \in Tokens
    BY <1>8 DEF DetachVerify
  <2>2. pc'[r] = "relUnlink" => InfoIn(fences[token[r]]) = InfoOf(r, token[r])
    BY <1>8 DEF DetachVerify
  <2> QED
    BY <1>8, <2>1, <2>2, InfoOfFacts, DirFacts DEF DetachVerify, InfoIn
<1>9. CASE DetachRestore(r) \/ FenceUnlink(r) \/ FenceRmdir(r)
  BY <1>9 DEF DetachRestore, FenceUnlink, FenceRmdir
<1>10. CASE Throws(r)
  BY <1>10 DEF Throws, AcquireThrows, PublishThrows, RollbackThrows, DetachThrows, CleanupThrows,
     AcquirePcs
<1> QED
  BY <1>1, <1>2, <1>3, <1>4, <1>5, <1>6, <1>7, <1>8, <1>9, <1>10 DEF Acquire, Release

\* A run of a live process works under the token it drew.
LEMMA WorkerAlive ==
  ASSUME TypeInv, ControlInv, TokenInv, NEW s \in Runs, token[s] # NoToken
  PROVE  procState[ProcOf[s]] = "alive" /\ drawnBy[token[s]] = s
<1>1. pc[s] # "idle"
  BY DEF TypeInv, LocalsInv, OwnPcs, ClaimPcs, RollbackPcs, DetachPcs, CleanupPcs
<1> QED
  BY <1>1 DEF ControlInv, TokenInv

\* What a reclaimer takes for stale is abandoned: its process is dead or has
\* remembered that the release failed.
LEMMA BelievedIsAbandoned ==
  ASSUME SparingInv, NEW r \in Runs, Believed(r)
  PROVE  Abandoned(holder[r].ownerToken)
<1> DEFINE t == holder[r].ownerToken
<1>1. holder[r] \in LockInfo /\ t \in Tokens /\ Signed(holder[r])
  BY InfoFacts, DirFacts DEF SparingInv, TypeInv, LocalsInv, Believed, HoldersSigned
<1>2. CASE pc[r] \in StalePcs
  BY <1>2 DEF SparingInv, StaleInv
<1>3. CASE IsFailedRelease(r)
  <2>1. failedRelease[ProcOf[r]] = t /\ t # NoToken
    BY <1>1, <1>3 DEF IsFailedRelease
  <2> QED
    BY <2>1 DEF SparingInv, FailedInv
<1>4. CASE ~PidAlive(holder[r].pid)
  <2>1. ASSUME NEW s \in Runs, token[s] = t PROVE FALSE
    <3>1. procState[ProcOf[s]] = "alive" /\ drawnBy[t] = s
      BY <1>1, <2>1, WorkerAlive DEF SparingInv
    <3> QED
      BY <1>1, <1>4, <3>1 DEF Signed, PidAlive
  <2> QED
    BY <1>1, <2>1 DEF Abandoned, Signed
<1> QED
  BY <1>2, <1>3, <1>4 DEF Believed

LEMMA RunSpares ==
  ASSUME SparingInv, TypeInv', NEW r \in Runs, Acquire(r) \/ Release(r) \/ Throws(r)
  PROVE  SparingInv'
<1>0. TypeInv /\ TypeOK /\ TypeOK' /\ Local(r) /\ MemoryEffect(r) /\ DiskEffect(r)
  BY LocalStep, MemoryStep, DiskStep DEF SparingInv, TypeInv
<1>1. ControlInv'
  BY <1>0 DEF Local, MayStep, SparingInv, ControlInv
<1>2. TokenInv'
  <2> SUFFICES ASSUME NEW s \in Runs, token'[s] # NoToken PROVE drawnBy'[token'[s]] = s
    BY DEF TokenInv
  <2>1. CASE s = r
    BY <1>0, <2>1 DEF MemoryEffect, Local, SparingInv, TokenInv, TypeOK
  <2>2. CASE s # r
    BY <1>0, <2>2 DEF Local, SparingInv, TokenInv, TypeOK
  <2> QED
    BY <2>1, <2>2
<1>3. ASSUME NEW i \in LockInfo, Signed(i) PROVE Signed(i)'
  BY <1>0, <1>3, InfoFacts DEF Local, Signed
<1>4. ASSUME NEW t \in Tokens, Abandoned(t) PROVE Abandoned(t)'
  <2>1. drawnBy'[t] \in Runs
    BY <1>0, <1>4 DEF Local, Abandoned
  <2>2. ASSUME NEW s \in Runs PROVE token'[s] # t
    <3>1. CASE s = r
      BY <1>0, <1>4, <3>1 DEF MemoryEffect, Abandoned
    <3>2. CASE s # r
      BY <1>0, <1>4, <3>2 DEF Local, Abandoned
    <3> QED
      BY <3>1, <3>2
  <2> QED
    BY <2>1, <2>2 DEF Abandoned
<1>5. LockSigned'
  <2> SUFFICES ASSUME lockDir' \in LockInfo PROVE Signed(lockDir)'
    BY DEF LockSigned
  <2>1. CASE lockDir' = lockDir
    BY <1>3, <2>1 DEF SparingInv, LockSigned
  <2>2. CASE \E t \in Tokens : lockDir' = fences[t]
    BY <1>3, <2>2 DEF SparingInv, FencesAuthored
  <2>3. CASE token[r] \in Tokens /\ lockDir' = InfoOf(r, token[r]) /\ drawnBy' = drawnBy
    <3>1. drawnBy'[token[r]] = r
      BY <2>3 DEF SparingInv, TokenInv
    <3> QED
      BY <2>3, <3>1, InfoOfFacts DEF Signed
  <2> QED
    BY <1>0, <2>1, <2>2, <2>3, DirFacts DEF DiskEffect
<1>6. FencesAuthored'
  <2> SUFFICES ASSUME NEW t \in Tokens, fences'[t] \in LockInfo PROVE Signed(fences[t])'
    BY DEF FencesAuthored
  <2>1. fences'[t] \in {fences[t], lockDir}
    BY <1>0, DirFacts DEF DiskEffect
  <2>2. Signed(fences'[t])
    BY <2>1 DEF SparingInv, FencesAuthored, LockSigned
  <2> QED
    BY <1>3, <2>2
<1>7. HoldersSigned'
  <2> SUFFICES ASSUME NEW s \in Runs, holder'[s] # NoInfo PROVE Signed(holder[s])'
    BY DEF HoldersSigned
  <2>1. holder'[s] = holder[s] \/ (lockDir \in LockInfo /\ holder'[s] = lockDir)
    BY <1>0 DEF Local, MemoryEffect
  <2>2. holder'[s] \in LockInfo /\ Signed(holder'[s])
    BY <1>0, <2>1 DEF SparingInv, HoldersSigned, LockSigned, TypeOK
  <2> QED
    BY <1>3, <2>2
<1>8. StaleInv'
  <2> SUFFICES ASSUME NEW s \in Runs, pc'[s] \in StalePcs
               PROVE  Abandoned(holder[s].ownerToken)'
    BY DEF StaleInv
  <2>1. holder'[s] = holder[s] /\ Believed(s)
    BY <1>0 DEF Local, MemoryEffect, Believed
  <2>2. holder[s] \in LockInfo
    BY <1>0, <2>1 DEF TypeInv, LocalsInv, Believed
  <2> QED
    BY <1>4, <2>1, <2>2, BelievedIsAbandoned, InfoFacts
<1>9. FailedInv'
  <2> SUFFICES ASSUME NEW p \in Procs, failedRelease'[p] # NoToken
               PROVE  Abandoned(failedRelease[p])'
    BY DEF FailedInv
  <2>1. CASE failedRelease'[p] = failedRelease[p]
    BY <1>0, <1>4, <2>1 DEF SparingInv, FailedInv, TypeOK
  <2>2. CASE failedRelease'[p] = token[r] /\ token'[r] = NoToken
    <3>1. token[r] \in Tokens /\ drawnBy[token[r]] = r
      BY <1>0, <2>2 DEF TypeOK, SparingInv, TokenInv
    <3>2. drawnBy'[token[r]] = r
      BY <1>0, <3>1 DEF Local
    <3>3. ASSUME NEW s \in Runs PROVE token'[s] # token[r]
      BY <1>0, <2>2, <3>1 DEF Local, SparingInv, TokenInv
    <3> QED
      BY <2>2, <3>2, <3>3 DEF Abandoned
  <2> QED
    BY <1>0, <2>1, <2>2 DEF Local, MemoryEffect
<1>10. UnlinkInv'
  <2> SUFFICES ASSUME NEW s \in Runs, pc'[s] = "relUnlink", fences'[token'[s]] \in LockInfo
               PROVE  fences'[token'[s]].ownerToken = token'[s]
    BY DEF UnlinkInv
  <2>1. CASE s = r
    BY <1>0, <2>1 DEF DiskEffect
  <2>2. CASE s # r
    <3>1. pc[s] = "relUnlink" /\ token'[s] = token[s] /\ token[s] \in Tokens
      BY <1>0, <2>2 DEF Local, TypeInv, TypeOK, LocalsInv, OwnPcs, CleanupPcs
    <3>2. token[s] # token[r]
      BY <2>2, <3>1 DEF SparingInv, TokenInv
    <3>3. pc[r] \in StalePcs => holder[r].ownerToken # token[s]
      BY <3>1 DEF SparingInv, StaleInv, Abandoned
    <3>4. fences'[token[s]] = fences[token[s]]
      BY <1>0, <3>1, <3>2, <3>3 DEF DiskEffect
    <3> QED
      BY <3>1, <3>4 DEF SparingInv, UnlinkInv
  <2> QED
    BY <2>1, <2>2
<1> QED
  BY <1>0, <1>1, <1>2, <1>5, <1>6, <1>7, <1>8, <1>9, <1>10 DEF SparingInv

LEMMA EnvironmentSpares ==
  ASSUME SparingInv, TypeInv', Environment
  PROVE  SparingInv'
<1>1. CASE OperatorRemoves
  BY <1>1, DirFacts DEF OperatorRemoves, SparingInv, ControlInv, TokenInv, LockSigned,
     FencesAuthored, HoldersSigned, StaleInv, FailedInv, UnlinkInv, Signed, Abandoned
<1>2. ASSUME NEW p \in Procs, Boot(p) PROVE SparingInv'
  <2>1. UNCHANGED <<lockDir, fences, pc, token, holder, failedRelease, drawnBy, faults>>
    BY <1>2 DEF Boot
  <2>2. \A q \in Procs : procState[q] = "alive" => procState'[q] = "alive"
    BY <1>2 DEF Boot, SparingInv, TypeInv, TypeOK
  <2>3. ControlInv'
    BY <2>1, <2>2 DEF SparingInv, ControlInv
  <2> QED
    BY <2>1, <2>3 DEF SparingInv, TokenInv, LockSigned,
     FencesAuthored, HoldersSigned, StaleInv, FailedInv, UnlinkInv, Signed, Abandoned
<1>3. ASSUME NEW p \in Procs, Die(p) PROVE SparingInv'
  <2>1. /\ UNCHANGED <<lockDir, fences, drawnBy>>
        /\ \A s \in Runs :
             \/ /\ ProcOf[s] = p
                /\ pc'[s] = "idle" /\ token'[s] = NoToken /\ holder'[s] = NoInfo
             \/ /\ ProcOf[s] # p
                /\ pc'[s] = pc[s] /\ token'[s] = token[s] /\ holder'[s] = holder[s]
        /\ \A q \in Procs : q # p => procState'[q] = procState[q]
        /\ \A q \in Procs : failedRelease'[q] \in {failedRelease[q], NoToken}
    BY <1>3 DEF Die, SparingInv, TypeInv, TypeOK
  <2>2. ControlInv'
    BY <2>1 DEF SparingInv, ControlInv, SyncPcs, AcquirePcs, RollbackPcs, DetachPcs, CleanupPcs
  <2>3. TokenInv' /\ LockSigned' /\ FencesAuthored' /\ UnlinkInv'
    BY <2>1 DEF SparingInv, TokenInv, LockSigned, FencesAuthored, UnlinkInv, Signed
  <2>4. HoldersSigned'
    BY <2>1 DEF SparingInv, HoldersSigned, Signed
  <2>5. ASSUME NEW t \in Tokens, Abandoned(t) PROVE Abandoned(t)'
    BY <2>1, <2>5 DEF Abandoned
  <2>6. StaleInv'
    <3> SUFFICES ASSUME NEW s \in Runs, pc'[s] \in StalePcs
                 PROVE  Abandoned(holder[s].ownerToken)'
      BY DEF StaleInv
    <3>1. pc[s] \in StalePcs /\ holder'[s] = holder[s]
      BY <2>1 DEF StalePcs
    <3>2. holder[s] \in LockInfo
      BY <3>1 DEF SparingInv, TypeInv, LocalsInv
    <3> QED
      BY <2>5, <3>1, <3>2, InfoFacts DEF SparingInv, StaleInv
  <2>7. FailedInv'
    BY <2>1, <2>5 DEF SparingInv, FailedInv, TypeInv, TypeOK
  <2> QED
    BY <2>2, <2>3, <2>4, <2>6, <2>7 DEF SparingInv
<1> QED
  BY <1>1, <1>2, <1>3 DEF Environment

LEMMA SparingInit == Init => SparingInv
  BY InvInit, DirFacts
  DEF IInv, SparingInv, Init, FencesAuthored, UnlinkInv

LEMMA SparingStep == SparingInv /\ [Next]_vars => SparingInv'
<1> SUFFICES ASSUME SparingInv, [Next]_vars PROVE SparingInv'
  OBVIOUS
<1>1. TypeInv'
  BY TypeStep DEF SparingInv
<1>2. CASE Next
  BY <1>1, <1>2, RunSpares, EnvironmentSpares DEF Next
<1>3. CASE UNCHANGED vars
  BY <1>1, <1>3 DEF vars, SparingInv, ControlInv, TokenInv, LockSigned,
     FencesAuthored, HoldersSigned, StaleInv, FailedInv, UnlinkInv, Signed, Abandoned
<1> QED
  BY <1>2, <1>3

LEMMA Sparing == Spec => []SparingInv
  BY SparingInit, SparingStep, PTL DEF Spec

\* failedOutputLockReleases never names the lock of a run that still works,
\* whichever locks the operator removes.
THEOREM Remembering == Spec => []RememberedIsAbandoned
<1>1. SparingInv => RememberedIsAbandoned
  BY DEF SparingInv, FailedInv, RememberedIsAbandoned, Abandoned
<1> QED
  BY Sparing, <1>1, PTL

\* What a step of a finalizer does to locks that are not its own
LEMMA ReleaseKeeps ==
  ASSUME TypeInv, UnlinkInv, NEW r \in Runs, Release(r), pc[r] # "holding",
         NEW d \in Published, d.ownerToken # token[r]
  PROVE  d \in Published'
<1>0. token[r] \in Tokens /\ d \in LockInfo
  BY DEF TypeInv, TypeOK, LocalsInv, OwnPcs, ClaimPcs, DetachPcs, CleanupPcs, Published, Release,
     DetachStat, DetachRead, DetachMove, DetachVerify, DetachRestoreCheck, DetachRestore,
     FenceUnlink, FenceRmdir, EndWorkflow, At
<1>1. ASSUME lockDir' = lockDir, fences' = fences PROVE d \in Published'
  BY <1>1 DEF Published
<1>2. CASE DetachStat(r) \/ DetachRead(r) \/ DetachVerify(r) \/ DetachRestoreCheck(r)
  BY <1>1, <1>2 DEF DetachStat, DetachRead, DetachVerify, DetachRestoreCheck
<1>3. CASE DetachMove(r)
  BY <1>0, <1>1, <1>3 DEF DetachMove, MayRename, Published, TypeInv, TypeOK
<1>4. CASE DetachRestore(r)
  BY <1>0, <1>1, <1>4 DEF DetachRestore, MayRename, Published, TypeInv, TypeOK
<1>5. CASE FenceUnlink(r)
  <2>1. d # fences[token[r]]
    BY <1>0, <1>5 DEF FenceUnlink, UnlinkInv, At
  <2>2. /\ lockDir' = lockDir
        /\ \A t \in Tokens \ {token[r]} : fences'[t] = fences[t]
    BY <1>5 DEF FenceUnlink, TypeInv, TypeOK
  <2> QED
    BY <1>0, <2>1, <2>2 DEF Published
<1>6. CASE FenceRmdir(r)
  <2>1. /\ lockDir' = lockDir
        /\ \A t \in Tokens : fences[t] \in LockInfo => fences'[t] = fences[t]
    BY <1>6, DirFacts DEF FenceRmdir, TypeInv, TypeOK
  <2> QED
    BY <1>0, <2>1 DEF Published
<1> QED
  BY <1>2, <1>3, <1>4, <1>5, <1>6 DEF Release, EndWorkflow, At

\* "a delayed finalizer cannot remove a replacement owner's lock": every complete
\* lock but its own is still on disk after each step of a release, wherever
\* crashes, reclaimers and the operator have put it meanwhile.
THEOREM FinalizerSpares == Spec => FinalizerSparesReplacement
<1>1. ASSUME SparingInv, [Next]_vars, NEW r \in Runs, pc[r] \in DetachPcs \cup CleanupPcs,
             pc'[r] # pc[r], NEW d \in Published, d.ownerToken # token[r]
      PROVE  d \in Published'
  <2>1. ASSUME UNCHANGED <<lockDir, fences>> PROVE d \in Published'
    BY <2>1 DEF Published
  <2>2. CASE \E s \in Runs \ {r} : Acquire(s) \/ Release(s) \/ Throws(s)
    BY <1>1, <2>2, LocalStep DEF Local, SparingInv, TypeInv
  <2>3. CASE Acquire(r)
    BY <1>1, <2>3 DEF Acquire, At, DetachPcs, CleanupPcs, CreateFirst, FindTaken, ReadHolder,
       ProbeHolder, Recheck, MoveToFence, VerifyFence, RestoreCheck, Restore, GiveUp,
       CreateAgain, Publish, RollbackRead, RollbackUnlink, RollbackRmdir
  <2>4. CASE Release(r)
    BY <1>1, <2>4, ReleaseKeeps DEF SparingInv, DetachPcs, CleanupPcs
  <2>5. CASE Throws(r)
    BY <1>1, <2>1, <2>5 DEF Throws, AcquireThrows, PublishThrows, RollbackThrows, DetachThrows,
       CleanupThrows, At, DetachPcs, CleanupPcs
  <2>6. CASE Environment
    BY <1>1, <2>1, <2>6 DEF Environment, OperatorRemoves, Boot, Die
  <2>7. CASE UNCHANGED vars
    BY <1>1, <2>7 DEF vars
  <2> QED
    BY <1>1, <2>2, <2>3, <2>4, <2>5, <2>6, <2>7 DEF Next
<1>2. SparingInv /\ [Next]_vars =>
        [\A r \in Runs :
           pc[r] \in DetachPcs \cup CleanupPcs /\ pc'[r] # pc[r] =>
             \A d \in Published : d.ownerToken # token[r] => d \in Published']_vars
  BY <1>1
<1> QED
  BY <1>2, Sparing, PTL DEF Spec, FinalizerSparesReplacement
=============================================================================
