---------------------------- MODULE ProjectInit ----------------------------
(***************************************************************************)
(* `typeweaver init' of packages/cli/src/services/ProjectInitializer.ts:   *)
(* the planned files are staged in a temporary directory, then renamed one *)
(* by one into the target.  A file that is in the way is first renamed     *)
(* into the staging directory's backup, and a failure undoes every commit. *)
(* Each call to the file system may fail, the process may be killed        *)
(* between any two of them, its fiber may be interrupted (a SIGINT), and   *)
(* nothing keeps two inits off one target.                                 *)
(***************************************************************************)
EXTENDS Naturals, FiniteSets, Sequences, SequencesExt

CONSTANTS
  Inits,        \* executions of the command on one target directory
  Templates,    \* the planned files, a sequence in the order of the plan
  Package,      \* package.json, planned only where there is none, and last
  Dirs,         \* the target directory, those in it and those above it
  Root,         \* the target directory
  Within,       \* for each file, the directories of Dirs it lies in
  Depth,        \* of each directory
  User,         \* content that was there before
  Absent,       \* no such file
  NoFile,
  MaxFaults     \* bound: file-system calls that fail

Files == ToSet(Templates)

ASSUME PlanAssumption ==
  /\ Templates \in Seq(Files) /\ Templates # << >>
  /\ IsInjective(Templates) /\ Last(Templates) = Package
ASSUME DirAssumption ==
  /\ Root \in Dirs /\ Depth \in [Dirs -> Nat]
  /\ Within \in [Files -> SUBSET Dirs]
  /\ \A f \in Files : Root \in Within[f]
ASSUME ContentAssumption ==
  User \notin Inits /\ Absent \notin Inits \cup {User} /\ NoFile \notin Files
ASSUME FaultAssumption == MaxFaults \in Nat

VARIABLES
  target,       \* content of each file of the target
  dirs,         \* the directories that exist
  backup,       \* what each init has moved into its backup directory
  force,        \* the flag each init was given
  pc,           \* where each init is
  plan,         \* the files an init still has to commit
  occupied,     \* commitFile's targetExists
  committed,    \* committedFiles, each with whether it has a backup
  missing,      \* missingDirectories still to be removed by a rollback
  unrestored,   \* file whose restore failed inside commitFile
  outcome,      \* how the work ended
  recovery,     \* the files below the recoveryPath of a ProjectInitRollbackError
  preserve,     \* preserveStaging
  signal,       \* whether the fiber has been told to stop
  faults,       \* calls that failed so far
  before        \* history: the files and directories at the start

initVars == <<target, dirs, backup, force, pc, plan, occupied, committed, missing,
          unrestored, outcome, recovery, preserve, signal, faults, before>>
disk == <<target, dirs, backup>>
given == <<force, signal, before>>
ended == <<outcome, recovery, preserve>>

-----------------------------------------------------------------------------
CommitPcs == {"check", "mkdir", "publish", "backUp", "replace", "restore"}
Below(d) == {e \in Dirs : Depth[e] > Depth[d]
                            /\ \E f \in Files : {d, e} \subseteq Within[f]}

HasEntries(d) ==
  \/ \E f \in Files : d \in Within[f] /\ target[f] # Absent
  \/ Below(d) \cap dirs # {}

InitStart ==
  /\ target \in [Files -> {User, Absent}]
  /\ dirs \in SUBSET Dirs
  /\ \A f \in Files : target[f] # Absent => Within[f] \subseteq dirs
  /\ \A d \in Dirs, e \in dirs : e \in Below(d) => d \in dirs
  /\ backup = [i \in Inits |-> [f \in Files |-> Absent]]
  /\ force \in [Inits -> BOOLEAN]
  /\ pc = [i \in Inits |-> "inspect"]
  /\ plan = [i \in Inits |-> << >>]
  /\ occupied = [i \in Inits |-> FALSE]
  /\ committed = [i \in Inits |-> << >>]
  /\ missing = [i \in Inits |-> {}]
  /\ unrestored = [i \in Inits |-> NoFile]
  /\ outcome = [i \in Inits |-> "none"]
  /\ recovery = [i \in Inits |-> {}]
  /\ preserve = [i \in Inits |-> FALSE]
  /\ signal = [i \in Inits |-> FALSE]
  /\ faults = 0
  /\ before = [files |-> target, dirs |-> dirs]

At(i, at) == pc[i] = at
Goto(i, to) == pc' = [pc EXCEPT ![i] = to]
Ends(i, how) ==
  outcome' = [outcome EXCEPT ![i] = how] /\ UNCHANGED <<recovery, preserve>>

-----------------------------------------------------------------------------
(* inspectTarget and planProject read; executePlan stages.                 *)

\* Mutant: an existing package.json is planned like any other file.
PlanEverything(i) == Templates

\* package.json comes last, and one that exists is left out of the plan.
PlanFor(i) ==
  IF target[Package] = Absent THEN Templates ELSE Front(Templates)

\* Without --force only an absent or an empty target is accepted.
Inspect(i) ==
  /\ At(i, "inspect")
  /\ IF ~force[i] /\ HasEntries(Root)
       THEN Goto(i, "done") /\ Ends(i, "failed") /\ UNCHANGED plan
       ELSE /\ plan' = [plan EXCEPT ![i] = PlanFor(i)]
            /\ Goto(i, "stage")
            /\ UNCHANGED ended
  /\ UNCHANGED <<disk, given, occupied, committed, missing, unrestored, faults>>

\* makeTempDirectory and writeStagingTree: nobody else looks in there.
Stage(i) ==
  /\ At(i, "stage")
  /\ Goto(i, "missing")
  /\ UNCHANGED <<disk, given, plan, occupied, committed, missing, unrestored,
                 ended, faults>>

\* Until publishProject starts, an interruption ends the work at once.
Interrupt(i) ==
  /\ pc[i] \in {"inspect", "stage"}
  /\ signal' = [signal EXCEPT ![i] = TRUE]
  /\ Goto(i, IF At(i, "inspect") THEN "done" ELSE "cleanUp")
  /\ Ends(i, "interrupted")
  /\ UNCHANGED <<disk, force, before, plan, occupied, committed, missing,
                 unrestored, faults>>

\* publishProject and the release are uninterruptible: it waits for their end.
InterruptLater(i) ==
  /\ pc[i] \notin {"inspect", "stage", "done", "dead"} /\ ~signal[i]
  /\ signal' = [signal EXCEPT ![i] = TRUE]
  /\ UNCHANGED <<disk, force, before, pc, plan, occupied, committed, missing,
                 unrestored, ended, faults>>

PlannedDirs(i) == UNION {Within[f] : f \in ToSet(plan[i])}

\* The directories the plan needs and that are not there
MissingFor(i) == PlannedDirs(i) \ dirs

CollectMissing(i) ==
  /\ At(i, "missing")
  /\ missing' = [missing EXCEPT ![i] = MissingFor(i)]
  /\ Goto(i, "check")
  /\ UNCHANGED <<disk, given, plan, occupied, committed, unrestored, ended,
                 faults>>

-----------------------------------------------------------------------------
(* commitFile                                                              *)

File(i) == Head(plan[i])
Reachable(f) == Within[f] \subseteq dirs

Committed(i, backed) ==
  /\ committed' = [committed EXCEPT ![i] =
                     Append(@, [file |-> File(i), backed |-> backed])]
  /\ plan' = [plan EXCEPT ![i] = Tail(@)]
  /\ Goto(i, "check")

CheckTarget(i) ==
  /\ At(i, "check") /\ plan[i] # << >>
  /\ LET there == target[File(i)] # Absent IN
       /\ occupied' = [occupied EXCEPT ![i] = there]
       /\ Goto(i, IF there /\ ~force[i] THEN "undo" ELSE "mkdir")
  /\ UNCHANGED <<disk, given, plan, committed, missing, unrestored, ended,
                 faults>>

MakeDirectory(i) ==
  /\ At(i, "mkdir")
  /\ dirs' = dirs \cup Within[File(i)]
  /\ Goto(i, IF occupied[i] THEN "backUp" ELSE "publish")
  /\ UNCHANGED <<target, backup, given, plan, occupied, committed, missing,
                 unrestored, ended, faults>>

\* rename(2) replaces whatever file is there by now.
PublishNew(i) ==
  /\ At(i, "publish")
  /\ IF Reachable(File(i))
       THEN target' = [target EXCEPT ![File(i)] = i] /\ Committed(i, FALSE)
       ELSE Goto(i, "undo") /\ UNCHANGED <<target, plan, committed>>
  /\ UNCHANGED <<dirs, backup, given, occupied, missing, unrestored, ended,
                 faults>>

BackUp(i) ==
  LET f == File(i) IN
  /\ At(i, "backUp")
  /\ IF target[f] # Absent
       THEN /\ backup' = [backup EXCEPT ![i][f] = target[f]]
            /\ target' = [target EXCEPT ![f] = Absent]
            /\ Goto(i, "replace")
       ELSE Goto(i, "undo") /\ UNCHANGED <<target, backup>>
  /\ UNCHANGED <<dirs, given, plan, occupied, committed, missing, unrestored,
                 ended, faults>>

Replace(i) ==
  /\ At(i, "replace")
  /\ IF Reachable(File(i))
       THEN target' = [target EXCEPT ![File(i)] = i] /\ Committed(i, TRUE)
       ELSE Goto(i, "restore") /\ UNCHANGED <<target, plan, committed>>
  /\ UNCHANGED <<dirs, backup, given, occupied, missing, unrestored, ended,
                 faults>>

\* What a rename of the backup onto its file does
PutBack(i, f) ==
  /\ target' = [target EXCEPT ![f] = backup[i][f]]
  /\ backup' = [backup EXCEPT ![i][f] = Absent]

RestoreCurrent(i) ==
  LET f == File(i) IN
  /\ At(i, "restore")
  /\ IF Reachable(f)
       THEN PutBack(i, f) /\ UNCHANGED unrestored
       ELSE /\ unrestored' = [unrestored EXCEPT ![i] = f]
            /\ UNCHANGED <<target, backup>>
  /\ Goto(i, "undo")
  /\ UNCHANGED <<dirs, given, plan, occupied, committed, missing, ended, faults>>

AllCommitted(i) ==
  /\ At(i, "check") /\ plan[i] = << >>
  /\ Goto(i, "cleanUp") /\ Ends(i, "ok")
  /\ UNCHANGED <<disk, given, plan, occupied, committed, missing, unrestored,
                 faults>>

-----------------------------------------------------------------------------
(* rollbackFiles                                                           *)

Popped(i) == committed' = [committed EXCEPT ![i] = Front(@)]

UndoRemove(i) ==
  /\ At(i, "undo") /\ committed[i] # << >>
  /\ LET last == Last(committed[i]) IN
       /\ target' = [target EXCEPT ![last.file] = Absent]
       /\ IF last.backed
            THEN Goto(i, "undoRename") /\ UNCHANGED committed
            ELSE Popped(i) /\ UNCHANGED pc
  /\ UNCHANGED <<dirs, backup, given, plan, occupied, missing, unrestored,
                 ended, faults>>

\* publishProject fails with a ProjectInitRollbackError: tapError asks for the
\* staging directory to stay, but an interruption that waited for the end of
\* the region takes the place of the failure before tapError sees it.
CannotRestore(i, files) ==
  /\ outcome' = [outcome EXCEPT ![i] = "rollbackFailed"]
  /\ recovery' = [recovery EXCEPT ![i] = files]
  /\ preserve' = [preserve EXCEPT ![i] = ~signal[i]]

\* The two ways in which a rollback fails name the whole backup directory.
RollbackFails(i) == CannotRestore(i, Files) /\ Goto(i, "cleanUp")

UndoRename(i) ==
  LET f == Last(committed[i]).file IN
  /\ At(i, "undoRename")
  /\ IF Reachable(f)
       THEN /\ PutBack(i, f) /\ Popped(i) /\ Goto(i, "undo")
            /\ UNCHANGED ended
       ELSE RollbackFails(i) /\ UNCHANGED <<target, backup, committed>>
  /\ UNCHANGED <<dirs, given, plan, occupied, missing, unrestored, faults>>

\* The longest path first; a directory that is not empty stays.
UndoDirectory(i) ==
  /\ At(i, "undo") /\ committed[i] = << >>
  /\ \E d \in missing[i] :
       /\ \A e \in missing[i] : Depth[e] <= Depth[d]
       /\ dirs' = IF HasEntries(d) THEN dirs ELSE dirs \ {d}
       /\ missing' = [missing EXCEPT ![i] = @ \ {d}]
  /\ UNCHANGED <<target, backup, given, pc, plan, occupied, committed,
                 unrestored, ended, faults>>

\* The failure that started the rollback is the one reported: a failed
\* restore names the backup of its own file.
RolledBack(i) ==
  /\ At(i, "undo") /\ committed[i] = << >> /\ missing[i] = {}
  /\ Goto(i, "cleanUp")
  /\ IF unrestored[i] = NoFile
       THEN Ends(i, "failed")
       ELSE CannotRestore(i, {unrestored[i]})
  /\ UNCHANGED <<disk, given, plan, occupied, committed, missing, unrestored,
                 faults>>

-----------------------------------------------------------------------------
(* The release of the staging directory, and failing calls                 *)

\* Mutant: a scoped staging directory, removed whatever happened
UnlinkAlways(i) ==
  /\ At(i, "cleanUp")
  /\ \E f \in Files :
       backup[i][f] # Absent /\ backup' = [backup EXCEPT ![i][f] = Absent]
  /\ UNCHANGED <<target, dirs, given, pc, plan, occupied, committed, missing,
                 unrestored, ended, faults>>

\* rm -r takes one file after the other.
Unlink(i) ==
  /\ At(i, "cleanUp") /\ ~preserve[i]
  /\ \E f \in Files :
       backup[i][f] # Absent /\ backup' = [backup EXCEPT ![i][f] = Absent]
  /\ UNCHANGED <<target, dirs, given, pc, plan, occupied, committed, missing,
                 unrestored, ended, faults>>

\* preserveStaging keeps what a failed rollback could not put back.
CleanUp(i) ==
  /\ At(i, "cleanUp")
  /\ preserve[i] \/ \A f \in Files : backup[i][f] = Absent
  /\ Goto(i, "done")
  /\ UNCHANGED <<disk, given, plan, occupied, committed, missing, unrestored,
                 ended, faults>>

Fault == faults < MaxFaults /\ faults' = faults + 1

\* A failure before the first commit has nothing to undo.
FailsEarly(i) ==
  /\ pc[i] \in {"inspect", "stage", "missing"} /\ Fault
  /\ Goto(i, IF At(i, "inspect") THEN "done" ELSE "cleanUp")
  /\ Ends(i, "failed")
  /\ UNCHANGED <<disk, given, plan, occupied, committed, missing, unrestored>>

CommitFails(i) ==
  /\ pc[i] \in CommitPcs /\ plan[i] # << >> /\ Fault
  /\ Goto(i, IF At(i, "replace") THEN "restore" ELSE "undo")
  /\ unrestored' = IF At(i, "restore")
                     THEN [unrestored EXCEPT ![i] = File(i)] ELSE unrestored
  /\ UNCHANGED <<disk, given, plan, occupied, committed, missing, ended>>

UndoFails(i) ==
  /\ \/ At(i, "undoRename")
     \/ At(i, "undo") /\ (committed[i] # << >> \/ missing[i] # {})
  /\ Fault /\ RollbackFails(i)
  /\ UNCHANGED <<disk, given, plan, occupied, committed, missing, unrestored>>

\* orDie: some of the staging directory may be gone already.
CleanUpDies(i) ==
  /\ At(i, "cleanUp") /\ ~preserve[i] /\ Fault
  /\ Goto(i, "done") /\ Ends(i, "defect")
  /\ UNCHANGED <<disk, given, plan, occupied, committed, missing, unrestored>>

Die(i) ==
  /\ pc[i] \notin {"done", "dead"}
  /\ Goto(i, "dead")
  /\ UNCHANGED <<disk, given, plan, occupied, committed, missing, unrestored,
                 ended, faults>>

Commit(i) ==
  \/ CheckTarget(i) \/ MakeDirectory(i) \/ PublishNew(i) \/ BackUp(i)
  \/ Replace(i) \/ RestoreCurrent(i) \/ AllCommitted(i)

Rollback(i) ==
  \/ UndoRemove(i) \/ UndoRename(i) \/ UndoDirectory(i) \/ RolledBack(i)

InitNext ==
  \E i \in Inits :
    \/ Inspect(i) \/ Stage(i) \/ Interrupt(i) \/ InterruptLater(i)
    \/ CollectMissing(i) \/ Commit(i) \/ Rollback(i) \/ Unlink(i) \/ CleanUp(i)
    \/ FailsEarly(i) \/ CommitFails(i) \/ UndoFails(i) \/ CleanUpDies(i)
    \/ Die(i)

InitSpec == InitStart /\ [][InitNext]_initVars

-----------------------------------------------------------------------------
(* Properties                                                              *)

Complete(i) == plan[i] = << >> /\ committed[i] # << >>

\* What the command reports: an interruption outlasts any result but a defect.
Reported(i) ==
  IF signal[i] /\ outcome[i] # "defect" THEN "interrupted" ELSE outcome[i]

\* The rollback failed, and tapError did not hear of it.
Abandoned(i) == recovery[i] # {} /\ ~preserve[i]

\* A file that was there before is never lost: until --force has replaced it
\* for good it is in place or in a backup, also if the process dies at any
\* point, and package.json never moves (executePlan, commitFile).  The one way
\* out is a failed rollback under an interruption: see UnrestoredAreKept.
OriginalsSurvive ==
  \A f \in Files : before.files[f] = User =>
    \/ target[f] = User
    \/ \E i \in Inits :
         /\ force[i] /\ f # Package
         /\ backup[i][f] = User \/ Complete(i) \/ Abandoned(i)

\* An init that reports an ordinary failure has left the target as it was
\* (publishProject: "rolls every published file back"); when it reports a failed
\* rollback, "the failure names a retained recovery path containing the
\* unrestored original" (packages/cli/README.md); and one that was interrupted
\* has published everything or nothing, unless its rollback failed.
FailureRestores ==
  \A i \in Inits :
    LET restored == target = before.files /\ dirs = before.dirs IN
    /\ Reported(i) = "failed" /\ At(i, "done") => restored
    /\ Reported(i) = "interrupted" /\ At(i, "done") =>
         restored \/ Complete(i) \/ recovery[i] # {}
    /\ Reported(i) = "rollbackFailed" =>
         \A f \in Files : before.files[f] = User /\ target[f] # User =>
           f \in recovery[i] /\ backup[i][f] = User

\* What a rollback could not put back stays in the recovery path ("If the
\* filesystem also prevents rollback, the failure names a retained recovery path
\* containing the unrestored original", packages/cli/README.md).
UnrestoredAreKept ==
  \A i \in Inits : recovery[i] # {} =>
    \A f \in Files : before.files[f] = User /\ target[f] # User =>
      backup[i][f] = User

\* When every init has ended, one that reported success has left the whole
\* starter behind ("publishes a complete Todo starter transactionally",
\* MIGRATION.md).
SuccessIsComplete ==
  (\A i \in Inits : At(i, "done")) =>
    \A i \in Inits : outcome[i] = "ok" => \A f \in Files : target[f] # Absent
=============================================================================
