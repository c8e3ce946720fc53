-------------------------- MODULE OutputDirectory --------------------------
(***************************************************************************)
(* What generation runs do to an output directory: prepareLockedOutput of  *)
(* generatorPreflight.ts sweeps and cleans it, SpecBundler and SpecLoader  *)
(* put the specification there, plugins write and copy files, the index    *)
(* generator lists them, the formatter rewrites everything.  A run is a    *)
(* process that may fail, be interrupted, or be killed at any step.  The   *)
(* lock is the mutex that OutputLock is shown to implement, with a dead    *)
(* holder's lock free to be taken.                                         *)
(*                                                                         *)
(* A file is replaced by way of a staging directory next to it: mkdtemp,   *)
(* an ownership marker, the content, a rename, and the removal of the      *)
(* directory, which unlinks what is in it one by one and in any order.     *)
(* The formatter, the copying of library files and spec.d.ts write in      *)
(* place, so they can leave a torn file behind.                            *)
(***************************************************************************)
EXTENDS Naturals, FiniteSets

CONSTANTS
  Runs,            \* generation runs, each a process of its own
  Writers,         \* fibers in which a plugin may write at the same time
  Files,           \* what plugins write: relative paths
  Bundle, Declaration, Lib, Index,   \* spec.js, spec.d.ts, lib/*, index.ts
  Own,             \* a file of the user in the output directory
  Temps,           \* names mkdtemp can return
  Lookalike,       \* such a name, of a directory made by the user
  User, Earlier,   \* authors: the user, an earlier generation
  Nobody, Free, NoTemp, NoPath,
  Position,        \* the order in which a directory lists its files
  Choices,         \* settings of a run: a set of [clean, format] records
  Scenarios,       \* which runs take place and, a bound, how many files their
                   \* plugins write in all: a set of [runs, writes] records
  MaxFaults        \* bound: file-system calls that fail

Staged == Files \cup {Bundle, Index}
Tracked == Files \cup {Lib, Index}
Paths == Staged \cup {Declaration, Lib, Own}

ASSUME NamesAssumption ==
  /\ Lookalike \in Temps /\ NoTemp \notin Temps /\ NoPath \notin Paths
  /\ User \notin Runs /\ Earlier \notin Runs /\ Nobody \notin Runs \cup {User, Earlier}
  /\ Free \notin Runs
  /\ {Bundle, Declaration, Lib, Index, Own} \cap Files = {}
  /\ Bundle \notin {Declaration, Lib, Index, Own} /\ Declaration \notin {Lib, Index, Own}
  /\ Lib \notin {Index, Own} /\ Index # Own
ASSUME PositionAssumption == Position \in [Paths -> Nat]
ASSUME BoundsAssumption ==
  MaxFaults \in Nat /\ \A s \in Scenarios : s.runs \subseteq Runs /\ s.writes \in Nat
ASSUME ChoicesAssumption == Choices \subseteq [clean : BOOLEAN, format : BOOLEAN]

VARIABLES
  lock,      \* the run that holds the output lock, or Free
  phase,     \* what each run is doing
  outcome,   \* how it ends
  options,   \* its --clean and --format settings
  target,    \* the files: who wrote each, and whether it is torn
  listed,    \* the files the index on disk names
  staging,   \* the staging directories, and, a history, whether the removal
             \* of what is in each has begun
  job,       \* per run and writer: a replacement under way
  editing,   \* per run: the file it is writing in place
  toFormat,  \* per run: the files the formatter has still to visit
  removing,  \* per run: the directory its sweep or clean is removing
  tracked,   \* per run: generatedFiles of its tracker
  writes,    \* replacements that plugins may still begin
  swept,     \* history: its sweep removed all it wanted to
  stuck,     \* history: staging directories it could not remove
  faults     \* calls that failed so far

run == <<lock, phase, outcome, options>>
disk == <<target, listed, staging>>
work == <<job, editing, toFormat, removing>>
books == <<tracked, writes, swept, stuck, faults>>
vars == <<run, disk, work, books>>

Gone == [by |-> Nobody, torn |-> FALSE]
NoStaging == [owner |-> Nobody, marked |-> FALSE, content |-> "none", removal |-> FALSE]
Idle == [step |-> "idle", temp |-> NoTemp, path |-> NoPath, sync |-> FALSE, ok |-> TRUE]
NoEdit == [path |-> NoPath, was |-> FALSE]

First(S) == CHOOSE p \in S : \A q \in S : Position[p] <= Position[q]

\* Mutant: the rename and its registration are two interruptible steps.
InterruptibleThroughout == {"marking", "writing", "written", "renamed"}

Interruptible == {"marking", "writing", "written"}

Init ==
  /\ lock = Free
  /\ \E s \in Scenarios :
       /\ phase = [r \in Runs |-> IF r \in s.runs THEN "ready" ELSE "ended"]
       /\ writes = s.writes
  /\ outcome = [r \in Runs |-> "none"]
  /\ options \in [Runs -> Choices]
  /\ target = [p \in Paths |-> [by |-> IF p = Own THEN User ELSE Earlier, torn |-> FALSE]]
  /\ listed = Files \cup {Lib}
  /\ staging = [t \in Temps |->
       IF t = Lookalike
       THEN [owner |-> User, marked |-> FALSE, content |-> "whole", removal |-> FALSE]
       ELSE NoStaging]
  /\ job = [r \in Runs |-> [w \in Writers |-> Idle]]
  /\ editing = [r \in Runs |-> NoEdit]
  /\ toFormat = [r \in Runs |-> {}]
  /\ removing = [r \in Runs |-> NoTemp]
  /\ tracked = [r \in Runs |-> {}]
  /\ swept = [r \in Runs |-> FALSE]
  /\ stuck = [r \in Runs |-> {}]
  /\ faults = 0

----------------------------------------------------------------------------
(***************************************************************************)
(* Acquisition, release, and how a run comes to its end.                   *)
(***************************************************************************)
Goto(r, p) == phase' = [phase EXCEPT ![r] = p]
Fault == faults < MaxFaults /\ faults' = faults + 1

Working(r, w) == job[r][w].step # "idle"
Quiet(r) == editing[r] = NoEdit /\ \A w \in Writers : ~Working(r, w)

\* rm -r unlinks what it finds in a directory, then removes the directory.  It
\* may be killed, or fail, in between.
Bare(t) == ~staging[t].marked /\ staging[t].content = "none"
EmptyOne(t) ==
  \/ /\ staging[t].marked
     /\ staging' = [staging EXCEPT ![t].marked = FALSE, ![t].removal = TRUE]
  \/ /\ staging[t].content # "none"
     /\ staging' = [staging EXCEPT ![t].content = "none", ![t].removal = TRUE]
RemoveDirectory(t) == Bare(t) /\ staging' = [staging EXCEPT ![t] = NoStaging]

\* A synchronous write or copy keeps the only thread of the process.
ThreadFree(r) == editing[r].path # Lib /\ \A w \in Writers : ~job[r][w].sync

\* A stale lock, of a dead run, is as good as none.
Unlocked == lock \in {Free} \cup {q \in Runs : phase[q] = "dead"}

Acquire(r) ==
  /\ phase[r] = "ready"
  /\ Unlocked
  /\ lock' = r
  /\ Goto(r, "sweep")
  /\ UNCHANGED <<outcome, options, disk, work, books>>

Refused(r) ==
  /\ phase[r] = "ready"
  /\ ~Unlocked
  /\ Goto(r, "ended")
  /\ outcome' = [outcome EXCEPT ![r] = "failed"]
  /\ UNCHANGED <<lock, options, disk, work, books>>

\* The scopes of the replacements that can be interrupted are closed: their
\* staging directories are removed before the run goes on.
CutShort(jobs) ==
  [w \in Writers |-> IF jobs[w].step \in Interruptible
                     THEN [jobs[w] EXCEPT !.step = "cleaning", !.ok = FALSE] ELSE jobs[w]]
Abandon(r) ==
  /\ Goto(r, "leave")
  /\ outcome' = [outcome EXCEPT ![r] = "failed"]
  /\ job' = [job EXCEPT ![r] = CutShort(@)]
  /\ editing' = [editing EXCEPT ![r] = NoEdit]
  /\ toFormat' = [toFormat EXCEPT ![r] = {}]
  /\ removing' = [removing EXCEPT ![r] = NoTemp]

\* Rolldown has no cancellation signal, so its build is awaited.
Building(r) == \E w \in Writers : job[r][w].path = Bundle /\ job[r][w].step = "writing"

\* The workflow fails between two replacements, or is interrupted.  The clean
\* may fail in the middle of a directory; the sweep is never stopped there.
Stop(r) ==
  /\ phase[r] \in {"sweep", "clean", "bundle", "declare", "generate", "index", "format"}
  /\ phase[r] = "sweep" => removing[r] = NoTemp
  /\ ThreadFree(r) /\ ~Building(r)
  /\ Abandon(r)
  /\ UNCHANGED <<lock, options, disk, books>>

\* The tracker lives and dies with its run.
Forget(r) ==
  /\ tracked' = [tracked EXCEPT ![r] = {}]
  /\ swept' = [swept EXCEPT ![r] = FALSE]

\* Mutant: the lock is released while writes that were interrupted still wind up.
ReleaseAtOnce(r) ==
  /\ phase[r] = "leave"
  /\ lock' = IF lock = r THEN Free ELSE lock
  /\ Goto(r, "ended")
  /\ Forget(r)
  /\ UNCHANGED <<outcome, options, disk, work, writes, stuck, faults>>

Release(r) ==
  /\ phase[r] = "leave"
  /\ Quiet(r)
  /\ lock' = IF lock = r THEN Free ELSE lock
  /\ Goto(r, "ended")
  /\ Forget(r)
  /\ UNCHANGED <<outcome, options, disk, work, writes, stuck, faults>>

Crash(r) ==
  /\ phase[r] \notin {"ready", "ended", "dead"}
  /\ Goto(r, "dead")
  /\ job' = [job EXCEPT ![r] = [w \in Writers |-> Idle]]
  /\ editing' = [editing EXCEPT ![r] = NoEdit]
  /\ toFormat' = [toFormat EXCEPT ![r] = {}]
  /\ removing' = [removing EXCEPT ![r] = NoTemp]
  /\ Forget(r)
  /\ UNCHANGED <<lock, outcome, options, disk, writes, stuck, faults>>

----------------------------------------------------------------------------
(***************************************************************************)
(* prepareLockedOutput: the sweep of orphans, then the clean.              *)
(***************************************************************************)

\* Mutant: the sweep goes by the name alone.
SweepableByName(t) == staging[t] # NoStaging

Sweepable(t) == staging[t].marked
AfterSweep(r) == Goto(r, IF options[r].clean THEN "clean" ELSE "bundle")

Begin(r, t) ==
  /\ removing[r] = NoTemp
  /\ removing' = [removing EXCEPT ![r] = t]
  /\ UNCHANGED <<run, disk, job, editing, toFormat, books>>

SweepBegins(r) ==
  /\ phase[r] = "sweep"
  /\ \E t \in Temps : Sweepable(t) /\ Begin(r, t)

\* Both the sweep and the clean remove a directory with everything in it.
UnlinkEntry(r) ==
  /\ phase[r] \in {"sweep", "clean"} /\ removing[r] # NoTemp
  /\ EmptyOne(removing[r])
  /\ UNCHANGED <<run, target, listed, work, books>>

UnlinkDirectory(r) ==
  /\ phase[r] \in {"sweep", "clean"} /\ removing[r] # NoTemp
  /\ RemoveDirectory(removing[r])
  /\ removing' = [removing EXCEPT ![r] = NoTemp]
  /\ UNCHANGED <<run, target, listed, job, editing, toFormat, books>>

SweepEnds(r) ==
  /\ phase[r] = "sweep" /\ removing[r] = NoTemp
  /\ \A t \in Temps : ~Sweepable(t)
  /\ AfterSweep(r)
  /\ swept' = [swept EXCEPT ![r] = TRUE]
  /\ UNCHANGED <<lock, outcome, options, disk, work, tracked, writes, stuck, faults>>

\* Best effort: a failure, also in the middle of a directory, ends the sweep with
\* a warning.
SweepFails(r) ==
  /\ phase[r] = "sweep"
  /\ Fault
  /\ AfterSweep(r)
  /\ removing' = [removing EXCEPT ![r] = NoTemp]
  /\ UNCHANGED <<lock, outcome, options, disk, job, editing, toFormat,
                 tracked, writes, swept, stuck>>

Present == {p \in Paths : target[p] # Gone}

CleanFile(r) ==
  /\ phase[r] = "clean" /\ removing[r] = NoTemp
  /\ Present # {}
  /\ target' = [target EXCEPT ![First(Present)] = Gone]
  /\ listed' = IF First(Present) = Index THEN {} ELSE listed
  /\ UNCHANGED <<run, staging, work, books>>

CleanDirectory(r) ==
  /\ phase[r] = "clean"
  /\ \E t \in Temps : staging[t] # NoStaging /\ Begin(r, t)

CleanEnds(r) ==
  /\ phase[r] = "clean" /\ removing[r] = NoTemp
  /\ Present = {}
  /\ \A t \in Temps : staging[t] = NoStaging
  /\ Goto(r, "bundle")
  /\ UNCHANGED <<lock, outcome, options, disk, work, books>>

----------------------------------------------------------------------------
(***************************************************************************)
(* Replacement of a file: writeFileViaTempReplaceWith (synchronous),       *)
(* writeFileViaTempReplaceEffect, and the same steps in SpecBundler.       *)
(***************************************************************************)
At(r, w, s) == job[r][w].step = s /\ (job[r][w].sync \/ ThreadFree(r))
Step(r, w, s) == job' = [job EXCEPT ![r][w].step = s]

MakeTemp(r, w, p, sync) ==
  /\ ~Working(r, w) /\ ThreadFree(r)
  /\ \E t \in Temps \ {Lookalike} :
       /\ staging[t] = NoStaging
       /\ staging' = [staging EXCEPT ![t].owner = r]
       /\ job' = [job EXCEPT ![r][w] =
            [step |-> "marking", temp |-> t, path |-> p, sync |-> sync, ok |-> TRUE]]

\* Mutant: the content is begun before the marker.
MarkLate(r, w) ==
  /\ At(r, w, "marking")
  /\ staging' = [staging EXCEPT ![job[r][w].temp].content = "part"]
  /\ Step(r, w, "writing")
  /\ UNCHANGED <<run, target, listed, editing, toFormat, removing, books>>

\* From here on there may be content in the directory.
Mark(r, w) ==
  /\ At(r, w, "marking")
  /\ staging' = [staging EXCEPT ![job[r][w].temp].marked = TRUE,
                                ![job[r][w].temp].content = "part"]
  /\ Step(r, w, "writing")
  /\ UNCHANGED <<run, target, listed, editing, toFormat, removing, books>>

\* Mutant: the rename does not wait for the end of the write.
WriteUnawaited(r, w) ==
  /\ At(r, w, "writing")
  /\ Step(r, w, "written")
  /\ UNCHANGED <<run, disk, editing, toFormat, removing, books>>

WriteContent(r, w) ==
  /\ At(r, w, "writing")
  /\ staging' = [staging EXCEPT ![job[r][w].temp].content = "whole"]
  /\ Step(r, w, "written")
  /\ UNCHANGED <<run, target, listed, editing, toFormat, removing, books>>

Rename(r, w) ==
  LET j == job[r][w] IN
  /\ At(r, w, "written")
  /\ target' = [target EXCEPT ![j.path] =
       [by |-> r, torn |-> staging[j.temp].content # "whole"]]
  /\ listed' = IF j.path = Index THEN tracked[r] \cap (Files \cup {Lib}) ELSE listed
  /\ staging' = [staging EXCEPT ![j.temp].content = "none"]
  /\ Step(r, w, IF j.path = Bundle THEN "cleaning" ELSE "renamed")
  /\ UNCHANGED <<run, editing, toFormat, removing, books>>

\* The rename and this step are one uninterruptible section.
TrackWrite(r, w) ==
  /\ At(r, w, "renamed")
  /\ tracked' = [tracked EXCEPT ![r] = @ \cup {job[r][w].path}]
  /\ Step(r, w, "cleaning")
  /\ UNCHANGED <<run, disk, editing, toFormat, removing, writes, swept, stuck, faults>>

\* A check of the path, a write, the build or the rename fails.
WriteFails(r, w) ==
  /\ \E s \in Interruptible : At(r, w, s)
  /\ Fault
  /\ job' = [job EXCEPT ![r][w].step = "cleaning", ![r][w].ok = FALSE]
  /\ UNCHANGED <<run, disk, editing, toFormat, removing, tracked, writes, swept, stuck>>

\* A plugin interrupts a write of its own, by a timeout or a race, and goes on.
GiveUp(r, w) ==
  /\ phase[r] = "generate"
  /\ \E s \in Interruptible : At(r, w, s)
  /\ ~job[r][w].sync
  /\ job' = [job EXCEPT ![r][w].step = "cleaning", ![r][w].ok = FALSE]
  /\ UNCHANGED <<run, disk, editing, toFormat, removing, books>>

\* The caller of a plugin's write sees its failure and may go on.  A failed
\* bundle or index ends the workflow.  A run that was stopped goes nowhere.
Succeeded(r, p) ==
  CASE p = Bundle /\ phase[r] = "bundle" -> Goto(r, "declare") /\ UNCHANGED <<outcome, toFormat>>
    [] p = Index -> /\ Goto(r, "format")
                    /\ toFormat' = [toFormat EXCEPT ![r] =
                         IF options[r].format THEN Present ELSE {}]
                    /\ UNCHANGED outcome
    [] OTHER -> UNCHANGED <<phase, outcome, toFormat>>

Failed(r, p) ==
  IF p \in Files THEN UNCHANGED <<phase, outcome>>
  ELSE Goto(r, "leave") /\ outcome' = [outcome EXCEPT ![r] = "failed"]

Unlink(r, w) ==
  /\ At(r, w, "cleaning")
  /\ EmptyOne(job[r][w].temp)
  /\ UNCHANGED <<run, target, listed, work, books>>

Remove(r, w) ==
  LET j == job[r][w] IN
  /\ At(r, w, "cleaning")
  /\ RemoveDirectory(j.temp)
  /\ job' = [job EXCEPT ![r][w] = Idle]
  /\ IF j.ok THEN Succeeded(r, j.path) ELSE Failed(r, j.path) /\ UNCHANGED toFormat
  /\ UNCHANGED <<lock, options, target, listed, editing, removing, books>>

\* The removal fails, perhaps when part of it is done.
RemoveFails(r, w) ==
  LET j == job[r][w] IN
  /\ At(r, w, "cleaning")
  /\ Fault
  /\ stuck' = [stuck EXCEPT ![r] = @ \cup {j.temp}]
  /\ job' = [job EXCEPT ![r][w] = Idle]
  /\ Failed(r, j.path)
  /\ UNCHANGED <<lock, options, disk, editing, toFormat, removing, tracked, writes, swept>>

----------------------------------------------------------------------------
(***************************************************************************)
(* Files written in place.                                                 *)
(***************************************************************************)
Open(r, p, author) ==
  /\ editing' = [editing EXCEPT ![r] = [path |-> p, was |-> target[p].torn]]
  /\ target' = [target EXCEPT ![p] = [by |-> author, torn |-> TRUE]]
Close(r, torn) ==
  /\ editing' = [editing EXCEPT ![r] = NoEdit]
  /\ target' = [target EXCEPT ![editing[r].path].torn = torn]

DeclareBegins(r) ==
  /\ phase[r] = "declare" /\ Quiet(r)
  /\ Open(r, Declaration, r)
  /\ UNCHANGED <<run, listed, staging, job, toFormat, removing, books>>

DeclareEnds(r) ==
  /\ phase[r] = "declare" /\ editing[r].path = Declaration
  /\ Close(r, FALSE)
  /\ Goto(r, "generate")
  /\ UNCHANGED <<lock, outcome, options, listed, staging, job, toFormat, removing, books>>

CopyBegins(r) ==
  /\ phase[r] = "generate" /\ ThreadFree(r) /\ Lib \notin tracked[r]
  /\ Open(r, Lib, r)
  /\ UNCHANGED <<run, listed, staging, job, toFormat, removing, books>>

CopyEnds(r) ==
  /\ editing[r].path = Lib /\ phase[r] = "generate"
  /\ Close(r, FALSE)
  /\ tracked' = [tracked EXCEPT ![r] = @ \cup {Lib}]
  /\ UNCHANGED <<run, listed, staging, job, toFormat, removing, writes, swept, stuck, faults>>

CopyFails(r) ==
  /\ editing[r].path = Lib /\ phase[r] = "generate"
  /\ Fault
  /\ Abandon(r)
  /\ UNCHANGED <<lock, options, disk, tracked, writes, swept, stuck>>

\* The formatter reads a file, formats it, and writes it back; what was torn
\* stays so.
FormatBegins(r) ==
  /\ phase[r] = "format" /\ Quiet(r) /\ toFormat[r] # {}
  /\ LET p == First(toFormat[r]) IN
       /\ Open(r, p, target[p].by)
       /\ toFormat' = [toFormat EXCEPT ![r] = @ \ {p}]
  /\ UNCHANGED <<run, listed, staging, job, removing, books>>

FormatEnds(r) ==
  /\ phase[r] = "format" /\ editing[r] # NoEdit
  /\ Close(r, editing[r].was)
  /\ UNCHANGED <<run, listed, staging, job, toFormat, removing, books>>

----------------------------------------------------------------------------
(***************************************************************************)
(* The workflow under the lock (Generator.generate).                       *)
(***************************************************************************)
BundleBegins(r, w) ==
  /\ phase[r] = "bundle" /\ Quiet(r)
  /\ MakeTemp(r, w, Bundle, FALSE)
  /\ UNCHANGED <<run, target, listed, editing, toFormat, removing, books>>

WriteFile(r, w) ==
  /\ phase[r] = "generate" /\ writes > 0
  /\ \E p \in Files, sync \in BOOLEAN : MakeTemp(r, w, p, sync)
  /\ writes' = writes - 1
  /\ UNCHANGED <<run, target, listed, editing, toFormat, removing, tracked, swept, stuck, faults>>

GenerateEnds(r) ==
  /\ phase[r] = "generate" /\ Quiet(r)
  /\ Goto(r, "index")
  /\ UNCHANGED <<lock, outcome, options, disk, work, books>>

IndexBegins(r, w) ==
  /\ phase[r] = "index" /\ Quiet(r)
  /\ MakeTemp(r, w, Index, TRUE)
  /\ UNCHANGED <<run, target, listed, editing, toFormat, removing, books>>

Finish(r) ==
  /\ phase[r] = "format" /\ Quiet(r) /\ toFormat[r] = {}
  /\ Goto(r, "leave")
  /\ outcome' = [outcome EXCEPT ![r] = "ok"]
  /\ UNCHANGED <<lock, options, disk, work, books>>

Replacement(r, w) ==
  \/ Mark(r, w) \/ WriteContent(r, w) \/ Rename(r, w) \/ TrackWrite(r, w)
  \/ WriteFails(r, w) \/ GiveUp(r, w) \/ Unlink(r, w) \/ Remove(r, w) \/ RemoveFails(r, w)
Preparation(r) ==
  \/ SweepBegins(r) \/ SweepEnds(r) \/ SweepFails(r)
  \/ CleanFile(r) \/ CleanDirectory(r) \/ CleanEnds(r)
  \/ UnlinkEntry(r) \/ UnlinkDirectory(r)
InPlace(r) ==
  \/ DeclareBegins(r) \/ DeclareEnds(r) \/ CopyBegins(r) \/ CopyEnds(r) \/ CopyFails(r)
  \/ FormatBegins(r) \/ FormatEnds(r)
Workflow(r) ==
  \/ Acquire(r) \/ Refused(r) \/ GenerateEnds(r) \/ Finish(r) \/ Release(r)
  \/ Stop(r) \/ Crash(r)
  \/ \E w \in Writers : BundleBegins(r, w) \/ WriteFile(r, w) \/ IndexBegins(r, w)
                          \/ Replacement(r, w)

Next == \E r \in Runs : Workflow(r) \/ Preparation(r) \/ InPlace(r)

Spec == Init /\ [][Next]_vars

----------------------------------------------------------------------------
\* Whoever is at work in the directory holds its lock, also while it winds up
\* after an interruption, and nobody takes a staging directory away from
\* under a replacement (the build is uninterruptible, scopes are closed
\* before the release, the sweep runs under the lock).
WorkIsProtected ==
  \A r \in Runs :
    /\ ~Quiet(r) => lock = r
    /\ \A w \in Writers : job[r][w].step \in Interruptible =>
         staging[job[r][w].temp].owner = r

\* A staging directory outlives its replacement only if its run was killed or
\* could not remove it; its name proves nothing, so it is marked before it has any
\* content, and only a removal that was cut short takes the marker away before
\* the content; and once a run has swept, no marked one is left but its own.
DebrisIsExplained ==
  /\ \A t \in Temps : staging[t].owner \in Runs /\ staging[t].content # "none" =>
       staging[t].marked \/ staging[t].removal
  /\ \A t \in Temps : staging[t].owner \in Runs =>
       LET r == staging[t].owner IN
         \/ phase[r] = "dead"
         \/ t \in stuck[r]
         \/ \E w \in Writers : job[r][w].temp = t
  /\ \A r \in Runs, t \in Temps :
       lock = r /\ swept[r] /\ staging[t].marked => staging[t].owner = r

\* A published file is known to the tracker, also when the write that published it
\* was interrupted or failed to clean up and the plugin went on; so that when a
\* run reports success, the index on disk lists exactly the files it produced,
\* and they, the specification and the index are there and whole.
IndexIsExact ==
  /\ \A r \in Runs, p \in Tracked :
       target[p].by = r /\ phase[r] \in {"generate", "index", "format"} =>
         \/ p \in tracked[r]
         \/ editing[r].path = p
         \/ \E w \in Writers : job[r][w].path = p /\ job[r][w].step = "renamed"
  /\ \A r \in Runs : outcome[r] = "ok" /\ phase[r] = "leave" =>
       /\ listed = {p \in Files \cup {Lib} : target[p].by = r}
       /\ \A p \in listed \cup {Index, Bundle, Declaration} :
            target[p] = [by |-> r, torn |-> FALSE]

\* Specification, plugin files and index are published atomically (ADR 0007):
\* without the formatter no failure, interruption or crash leaves one torn.
AtomicUnlessFormatted ==
  \A p \in Staged : target[p].torn => \E r \in Runs : options[r].format

\* What the user put into the directory disappears only in the clean step of
\* a run that was told to clean, even if it looks like debris.
UsersFilesAreSpared ==
  [][ \/ target[Own].by = User /\ target'[Own].by # User
      \/ staging[Lookalike].owner = User /\ staging'[Lookalike] # staging[Lookalike]
      => \E r \in Runs : lock = r /\ phase[r] = "clean" /\ options[r].clean ]_vars
=============================================================================
