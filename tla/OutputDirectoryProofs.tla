----------------------- MODULE OutputDirectoryProofs -----------------------
(***************************************************************************)
(* Proofs about OutputDirectory, for any number of runs, writers, files    *)
(* and staging directories, and any number of file-system faults.          *)
(***************************************************************************)
EXTENDS OutputDirectory, WellFoundedInduction, TLAPS

-----------------------------------------------------------------------------
(* Types                                                                   *)

Early == {"sweep", "clean", "bundle", "declare"}
Active == Early \cup {"generate", "index", "format", "leave"}
Authors == Runs \cup {User, Earlier, Nobody}
FileState == [by : Authors, torn : BOOLEAN]
StagingState == [owner : Runs \cup {User, Nobody}, marked : BOOLEAN,
                 content : {"none", "part", "whole"}, removal : BOOLEAN]
Steps == {"idle", "marking", "writing", "written", "renamed", "cleaning"}
JobState == [step : Steps, temp : Temps \cup {NoTemp}, path : Staged \cup {NoPath},
             sync : BOOLEAN, ok : BOOLEAN]
EditState == [path : Paths \cup {NoPath}, was : BOOLEAN]

RunType ==
  /\ lock \in Runs \cup {Free}
  /\ phase \in [Runs -> Active \cup {"ready", "ended", "dead"}]
  /\ outcome \in [Runs -> {"none", "ok", "failed"}]
  /\ options \in [Runs -> [clean : BOOLEAN, format : BOOLEAN]]
DiskType ==
  /\ target \in [Paths -> FileState]
  /\ listed \in SUBSET (Files \cup {Lib})
  /\ staging \in [Temps -> StagingState]
WorkType ==
  /\ job \in [Runs -> [Writers -> JobState]]
  /\ editing \in [Runs -> EditState]
  /\ toFormat \in [Runs -> SUBSET Paths]
  /\ removing \in [Runs -> Temps \cup {NoTemp}]
BookType ==
  /\ tracked \in [Runs -> SUBSET Tracked]
  /\ swept \in [Runs -> BOOLEAN]
  /\ stuck \in [Runs -> SUBSET Temps]
  /\ writes \in Nat
  /\ faults \in Nat
TypeInv == RunType /\ DiskType /\ WorkType /\ BookType

-----------------------------------------------------------------------------
(* The inductive invariant: what holds of a run that holds the lock, of    *)
(* one that does not, and of the staging directories                       *)

NoWriter(r) == \A w \in Writers : ~Working(r, w)

\* What may be under way in each phase
PhaseInv(r) ==
  /\ lock = r
  /\ outcome[r] = "none" <=> phase[r] # "leave"
  /\ phase[r] = "clean" => options[r].clean
  /\ \A w \in Writers : Working(r, w) =>
       \/ job[r][w].path = Bundle /\ phase[r] \in {"bundle", "leave"} /\ ~job[r][w].sync
       \/ job[r][w].path = Index /\ phase[r] = "index" /\ job[r][w].sync
       \/ job[r][w].path \in Files /\ phase[r] \in {"generate", "leave"}
  /\ phase[r] \in {"bundle", "index"} =>
       \A v, w \in Writers : Working(r, v) /\ Working(r, w) => v = w
  /\ editing[r] # NoEdit =>
       \/ phase[r] = "declare" /\ editing[r].path = Declaration
       \/ phase[r] = "generate" /\ editing[r].path = Lib
       \/ phase[r] = "format" /\ editing[r].path \in Paths /\ options[r].format
  /\ toFormat[r] # {} => phase[r] = "format" /\ options[r].format

\* A replacement and its staging directory
JobInv(r) ==
  /\ \A w \in Writers :
       IF Working(r, w)
         THEN /\ job[r][w].temp \in Temps \ {Lookalike}
              /\ staging[job[r][w].temp].owner = r
              /\ job[r][w].step \in {"writing", "written"} => staging[job[r][w].temp].marked
              /\ job[r][w].step = "written" => staging[job[r][w].temp].content = "whole"
              /\ job[r][w].step = "renamed" => job[r][w].path # Bundle
         ELSE job[r][w].temp = NoTemp
  /\ \A v, w \in Writers :
       Working(r, v) /\ Working(r, w) /\ job[r][v].temp = job[r][w].temp => v = w

\* A file of this run, whole unless the formatter has it open
Published(r, p) ==
  /\ target[p].by = r
  /\ IF editing[r].path = p THEN ~editing[r].was ELSE ~target[p].torn

\* What the tracker, the index and the disk know of each other
IndexInv(r) ==
  /\ phase[r] \in Early => tracked[r] = {} /\ \A p \in Tracked : target[p].by # r
  /\ phase[r] \in {"generate", "index", "format"} =>
       /\ \A p \in Tracked : target[p].by = r =>
            \/ p \in tracked[r]
            \/ phase[r] = "generate" /\ editing[r].path = p
            \/ \E w \in Writers : job[r][w].path = p /\ job[r][w].step = "renamed"
       /\ \A p \in tracked[r] \cup {Bundle, Declaration} : Published(r, p)
       /\ \A w \in Writers :
            /\ job[r][w].step = "renamed" => Published(r, job[r][w].path)
            /\ job[r][w].step = "cleaning" /\ job[r][w].ok => job[r][w].path \in tracked[r]
       /\ editing[r].path = Lib => Lib \notin tracked[r] \/ phase[r] = "format"
  /\ phase[r] \in {"declare", "generate"} /\ editing[r] # NoEdit =>
       target[editing[r].path].by = r
  /\ phase[r] = "declare" => Published(r, Bundle)
  /\ phase[r] = "bundle" => \A w \in Writers :
       job[r][w].step = "cleaning" /\ job[r][w].ok => Published(r, Bundle)
  /\ phase[r] = "index" => \A w \in Writers :
       job[r][w].step = "renamed" \/ (job[r][w].step = "cleaning" /\ job[r][w].ok) =>
         listed = tracked[r] \cap (Files \cup {Lib})
  /\ phase[r] = "format" => listed = tracked[r] \cap (Files \cup {Lib}) /\ Index \in tracked[r]
  /\ phase[r] = "leave" /\ outcome[r] = "ok" =>
       /\ Quiet(r)
       /\ listed = {p \in Files \cup {Lib} : target[p].by = r}
       /\ \A p \in listed \cup {Index, Bundle, Declaration} :
            target[p] = [by |-> r, torn |-> FALSE]

Holding(r) == PhaseInv(r) /\ JobInv(r) /\ IndexInv(r)

\* A run that has not begun or has come to its end, or was killed
Resting(r) ==
  /\ Quiet(r) /\ NoWriter(r)
  /\ \A w \in Writers : job[r][w].temp = NoTemp
  /\ toFormat[r] = {} /\ tracked[r] = {} /\ swept[r] = FALSE
  /\ phase[r] = "ready" => outcome[r] = "none" /\ \A p \in Tracked : target[p].by # r

RunInv(r) == IF phase[r] \in Active THEN Holding(r) ELSE Resting(r)

StagingInv ==
  /\ DebrisIsExplained
  /\ staging[Lookalike].owner \notin Runs /\ ~staging[Lookalike].marked

\* What a sweep or a clean is removing is not the user's, unless it cleans.
Allowed(r) ==
  removing[r] # NoTemp =>
    phase[r] = "clean" \/ (phase[r] = "sweep" /\ removing[r] # Lookalike)
RemovingInv == \A r \in Runs : Allowed(r)

IInv ==
  /\ TypeInv /\ (\A r \in Runs : RunInv(r)) /\ StagingInv /\ RemovingInv
  /\ AtomicUnlessFormatted

-----------------------------------------------------------------------------
(* Every step keeps the types.                                             *)

StepOf(r) == Workflow(r) \/ Preparation(r) \/ InPlace(r)

\* The least of some numbers: the order of Nat is well-founded.
Less == {pair \in Nat \X Nat : pair[1] < pair[2]}

LEMMA LeastNatural ==
  ASSUME NEW T \in SUBSET Nat, T # {}
  PROVE  \E least \in T : \A k \in T : least <= k
<1>1. IsWellFoundedOn(Less, Nat)
  BY NatLessThanWellFounded DEF OpToRel, Less
<1>2. PICK least \in T : \A k \in T : <<k, least>> \notin Less
  BY <1>1, WFMin
<1>3. \A k \in T : ~(k < least)
  BY <1>2 DEF Less
<1> QED
  BY <1>3

LEMMA FirstIsOne ==
  ASSUME NEW S \in SUBSET Paths, S # {}
  PROVE  First(S) \in S
<1> DEFINE Places == {Position[p] : p \in S}
<1>1. Places \in SUBSET Nat /\ Places # {}
  BY PositionAssumption
<1> HIDE DEF Places
<1>2. PICK least \in Places : \A k \in Places : least <= k
  BY <1>1, LeastNatural
<1>3. PICK p \in S : Position[p] = least
  BY <1>2 DEF Places
<1>4. \A q \in S : Position[p] <= Position[q]
  BY <1>2, <1>3 DEF Places
<1> QED
  BY <1>4 DEF First

LEMMA CutShortType ==
  ASSUME NEW jobs \in [Writers -> JobState]
  PROVE  CutShort(jobs) \in [Writers -> JobState]
<1>1. ASSUME NEW w \in Writers
      PROVE  [jobs[w] EXCEPT !.step = "cleaning", !.ok = FALSE] \in JobState
  BY DEF JobState, Steps
<1> QED
  BY <1>1 DEF CutShort

LEMMA AbandonType ==
  ASSUME TypeInv, NEW r \in Runs, Abandon(r)
  PROVE  /\ WorkType'
         /\ phase' \in [Runs -> Active \cup {"ready", "ended", "dead"}]
         /\ outcome' \in [Runs -> {"none", "ok", "failed"}]
<1>1. job' \in [Runs -> [Writers -> JobState]]
  BY CutShortType DEF TypeInv, WorkType, Abandon
<1>2. /\ editing' \in [Runs -> EditState] /\ toFormat' \in [Runs -> SUBSET Paths]
      /\ removing' \in [Runs -> Temps \cup {NoTemp}]
  BY DEF TypeInv, WorkType, Abandon, EditState, NoEdit
<1> QED
  BY <1>1, <1>2 DEF TypeInv, RunType, WorkType, Abandon, Goto, Active

LEMMA MakeTempType ==
  ASSUME TypeInv, NEW r \in Runs, NEW w \in Writers, NEW p \in Staged, NEW sync \in BOOLEAN,
         MakeTemp(r, w, p, sync)
  PROVE  /\ job' \in [Runs -> [Writers -> JobState]]
         /\ staging' \in [Temps -> StagingState]
<1>1. PICK t \in Temps :
        /\ staging' = [staging EXCEPT ![t].owner = r]
        /\ job' = [job EXCEPT ![r][w] =
             [step |-> "marking", temp |-> t, path |-> p, sync |-> sync, ok |-> TRUE]]
  BY DEF MakeTemp
<1>2. [step |-> "marking", temp |-> t, path |-> p, sync |-> sync, ok |-> TRUE] \in JobState
  BY DEF JobState, Steps
<1>3. job' \in [Runs -> [Writers -> JobState]]
  BY <1>1, <1>2 DEF TypeInv, WorkType
<1>4. staging' \in [Temps -> StagingState]
  BY <1>1 DEF TypeInv, DiskType, StagingState
<1> QED
  BY <1>3, <1>4

\* A step of one replacement leaves the others alone.
OthersSame(r, w) ==
  \A q \in Runs, v \in Writers : q # r \/ v # w => job'[q][v] = job[q][v]

LEMMA JobSet ==
  ASSUME WorkType, NEW r \in Runs, NEW w \in Writers, NEW j \in JobState,
         job' = [job EXCEPT ![r][w] = j]
  PROVE  /\ job' \in [Runs -> [Writers -> JobState]]
         /\ OthersSame(r, w) /\ job'[r][w] = j
<1>1. job'[r] = [job[r] EXCEPT ![w] = j] /\ \A q \in Runs \ {r} : job'[q] = job[q]
  BY DEF WorkType
<1>2. job'[r] \in [Writers -> JobState] /\ job'[r][w] = j
  BY <1>1 DEF WorkType
<1>3. \A v \in Writers \ {w} : job'[r][v] = job[r][v]
  BY <1>1 DEF WorkType
<1>4. job' \in [Runs -> [Writers -> JobState]]
  BY <1>2 DEF WorkType
<1> QED
  BY <1>1, <1>2, <1>3, <1>4 DEF OthersSame

LEMMA JobStep ==
  ASSUME WorkType, NEW r \in Runs, NEW w \in Writers, NEW s \in Steps, Step(r, w, s)
  PROVE  /\ job' \in [Runs -> [Writers -> JobState]]
         /\ OthersSame(r, w) /\ job'[r][w] = [job[r][w] EXCEPT !.step = s]
<1>1. job[r][w] \in JobState
  BY DEF WorkType
<1>2. [job[r][w] EXCEPT !.step = s] \in JobState
  BY <1>1 DEF JobState
<1>3. job' = [job EXCEPT ![r][w] = [job[r][w] EXCEPT !.step = s]]
  BY DEF Step
<1> QED
  BY <1>2, <1>3, JobSet

LEMMA CutOne ==
  ASSUME WorkType, NEW r \in Runs, NEW w \in Writers,
         job' = [job EXCEPT ![r][w].step = "cleaning", ![r][w].ok = FALSE]
  PROVE  job' = [job EXCEPT ![r][w] = [job[r][w] EXCEPT !.step = "cleaning", !.ok = FALSE]]
  BY DEF WorkType

LEMMA JobFails ==
  ASSUME WorkType, NEW r \in Runs, NEW w \in Writers,
         job' = [job EXCEPT ![r][w] = [job[r][w] EXCEPT !.step = "cleaning", !.ok = FALSE]]
  PROVE  /\ job' \in [Runs -> [Writers -> JobState]]
         /\ OthersSame(r, w)
         /\ job'[r][w] = [job[r][w] EXCEPT !.step = "cleaning", !.ok = FALSE]
<1>1. job[r][w] \in JobState /\ "cleaning" \in Steps
  BY DEF WorkType, Steps
<1>2. [job[r][w] EXCEPT !.step = "cleaning", !.ok = FALSE] \in JobState
  BY <1>1 DEF JobState
<1> QED
  BY <1>2, JobSet

LEMMA JobIdle ==
  ASSUME WorkType, NEW r \in Runs, NEW w \in Writers, job' = [job EXCEPT ![r][w] = Idle]
  PROVE  /\ job' \in [Runs -> [Writers -> JobState]]
         /\ OthersSame(r, w) /\ job'[r][w] = Idle
<1>1. Idle \in JobState
  BY DEF Idle, JobState, Steps
<1> QED
  BY <1>1, JobSet

\* A step on one staging directory
LEMMA StagingSet ==
  ASSUME DiskType, NEW t, NEW d, staging' = [staging EXCEPT ![t] = d],
         t \in Temps => d \in StagingState
  PROVE  /\ staging' \in [Temps -> StagingState]
         /\ t \in Temps => staging'[t] = d
         /\ \A u \in Temps : u # t => staging'[u] = staging[u]
  BY DEF DiskType

LEMMA TempType ==
  ASSUME DiskType, NEW t \in Temps
  PROVE  /\ staging[t] \in StagingState
         /\ NoStaging \in StagingState
         /\ \A r \in Runs : [staging[t] EXCEPT !.owner = r] \in StagingState
         /\ \A c \in {"none", "part", "whole"} :
              /\ [staging[t] EXCEPT !.content = c] \in StagingState
              /\ [staging[t] EXCEPT !.marked = TRUE, !.content = c] \in StagingState
<1>1. staging[t] \in StagingState
  BY DEF DiskType
<1> QED
  BY <1>1 DEF StagingState, NoStaging

\* What rm -r does to a staging directory, an entry at a time and at last
LEMMA Emptying ==
  ASSUME DiskType, NEW t \in Temps, EmptyOne(t)
  PROVE  /\ staging' \in [Temps -> StagingState]
         /\ staging'[t].owner = staging[t].owner
         /\ staging'[t].marked => staging[t].marked
         /\ staging'[t].removal
         /\ \A u \in Temps : u # t => staging'[u] = staging[u]
<1> DEFINE d == IF staging[t].marked /\ staging' = [staging EXCEPT ![t].marked = FALSE,
                                                                 ![t].removal = TRUE]
                  THEN [staging[t] EXCEPT !.marked = FALSE, !.removal = TRUE]
                  ELSE [staging[t] EXCEPT !.content = "none", !.removal = TRUE]
<1>1. staging[t] \in StagingState
  BY DEF DiskType
<1>2. staging' = [staging EXCEPT ![t] = d]
  BY DEF EmptyOne, DiskType
<1>3. d \in StagingState /\ d.owner = staging[t].owner /\ (d.marked => staging[t].marked) /\ d.removal
  BY <1>1 DEF StagingState
<1> HIDE DEF d
<1>4. /\ staging' \in [Temps -> StagingState] /\ staging'[t] = d
      /\ \A u \in Temps : u # t => staging'[u] = staging[u]
  BY <1>2, <1>3, StagingSet
<1> QED
  BY <1>3, <1>4

LEMMA Removing ==
  ASSUME DiskType, NEW t \in Temps, RemoveDirectory(t)
  PROVE  /\ staging' \in [Temps -> StagingState] /\ staging'[t] = NoStaging
         /\ \A u \in Temps : u # t => staging'[u] = staging[u]
<1>1. NoStaging \in StagingState /\ staging' = [staging EXCEPT ![t] = NoStaging]
  BY TempType DEF RemoveDirectory
<1> QED
  BY <1>1, StagingSet

\* Only a run that holds the lock has a replacement under way.
LEMMA WorkerHolds ==
  ASSUME IInv, NEW r \in Runs, NEW w \in Writers, Working(r, w)
  PROVE  /\ phase[r] \in Active /\ Holding(r)
         /\ job[r][w].temp \in Temps \ {Lookalike} /\ job[r][w].path \in Staged
         /\ job[r][w].step = "renamed" => job[r][w].path \in Files \cup {Index}
<1>1. phase[r] \in Active /\ Holding(r)
  BY DEF IInv, RunInv, Resting, NoWriter
<1> QED
  BY <1>1 DEF Holding, PhaseInv, JobInv, Staged

LEMMA ReplacementType ==
  ASSUME IInv, NEW r \in Runs, NEW w \in Writers, Replacement(r, w)
  PROVE  TypeInv'
<1> USE DEF TypeInv
<1> TypeInv
  BY DEF IInv
<1> DEFINE t == job[r][w].temp
<1>1. CASE Mark(r, w)
  <2>1. job' \in [Runs -> [Writers -> JobState]]
    BY <1>1, JobStep DEF Mark, Steps
  <2>2. staging' = [staging EXCEPT ![t] = [staging[t] EXCEPT !.marked = TRUE, !.content = "part"]]
    BY <1>1 DEF Mark, DiskType
  <2>3. staging' \in [Temps -> StagingState]
    BY <2>2, StagingSet, TempType
  <2> QED
    BY <1>1, <2>1, <2>3 DEF Mark, RunType, DiskType, WorkType, BookType, run, books
<1>2. CASE WriteContent(r, w)
  <2>1. job' \in [Runs -> [Writers -> JobState]]
    BY <1>2, JobStep DEF WriteContent, Steps
  <2>2. staging' = [staging EXCEPT ![t] = [staging[t] EXCEPT !.content = "whole"]]
    BY <1>2 DEF WriteContent, DiskType
  <2>3. staging' \in [Temps -> StagingState]
    BY <2>2, StagingSet, TempType
  <2> QED
    BY <1>2, <2>1, <2>3 DEF WriteContent, RunType, DiskType, WorkType, BookType, run, books
<1>3. CASE Rename(r, w)
  <2>1. job' \in [Runs -> [Writers -> JobState]]
    BY <1>3, JobStep DEF Rename, Steps
  <2>2. staging' = [staging EXCEPT ![t] = [staging[t] EXCEPT !.content = "none"]]
    BY <1>3 DEF Rename, DiskType
  <2>3. staging' \in [Temps -> StagingState]
    BY <2>2, StagingSet, TempType
  <2>4. target' \in [Paths -> FileState] /\ listed' \in SUBSET (Files \cup {Lib})
    BY <1>3 DEF Rename, DiskType, FileState, Authors
  <2> QED
    BY <1>3, <2>1, <2>3, <2>4 DEF Rename, RunType, DiskType, WorkType, BookType, run, books
<1>4. CASE TrackWrite(r, w)
  <2>1. job' \in [Runs -> [Writers -> JobState]]
    BY <1>4, JobStep DEF TrackWrite, Steps
  <2>2. job[r][w].path \in Tracked
    BY <1>4, WorkerHolds DEF TrackWrite, At, Working, Tracked
  <2> QED
    BY <1>4, <2>1, <2>2 DEF TrackWrite, RunType, DiskType, WorkType, BookType, run, disk
<1>5. CASE WriteFails(r, w)
  <2>1. job' \in [Runs -> [Writers -> JobState]]
    BY <1>5, CutOne, JobFails DEF WriteFails
  <2> QED
    BY <1>5, <2>1 DEF WriteFails, Fault, RunType, DiskType, WorkType, BookType, run, disk
<1>6. CASE GiveUp(r, w)
  <2>1. job' \in [Runs -> [Writers -> JobState]]
    BY <1>6, CutOne, JobFails DEF GiveUp
  <2> QED
    BY <1>6, <2>1 DEF GiveUp, RunType, DiskType, WorkType, BookType, run, disk, books
<1>7. CASE Remove(r, w)
  <2>1. job' \in [Runs -> [Writers -> JobState]]
    BY <1>7, JobIdle DEF Remove
  <2>2. staging' \in [Temps -> StagingState]
    <3>1. t \in Temps /\ RemoveDirectory(t)
      BY <1>7, WorkerHolds DEF Remove, At, Working
    <3> QED
      BY <3>1, Removing
  <2>3. /\ phase' = phase \/ (\E p \in Active : Goto(r, p))
        /\ outcome' = outcome \/ outcome' = [outcome EXCEPT ![r] = "failed"]
        /\ toFormat' = toFormat \/ (\E S \in SUBSET Paths : toFormat' = [toFormat EXCEPT ![r] = S])
    BY <1>7 DEF Remove, Succeeded, Failed, Active, Early, Present
  <2>4. RunType'
    BY <1>7, <2>3 DEF Remove, Goto, RunType
  <2>5. toFormat' \in [Runs -> SUBSET Paths]
    BY <2>3 DEF WorkType
  <2> QED
    BY <1>7, <2>1, <2>2, <2>4, <2>5 DEF Remove, DiskType, WorkType, BookType, books
<1>8. CASE RemoveFails(r, w)
  <2>1. job' \in [Runs -> [Writers -> JobState]]
    BY <1>8, JobIdle DEF RemoveFails
  <2>2. RunType'
    BY <1>8 DEF RemoveFails, Failed, Goto, RunType, Active
  <2>3. job[r][w].temp \in Temps
    BY <1>8, WorkerHolds DEF RemoveFails, At, Working
  <2>4. BookType'
    BY <1>8, <2>3 DEF RemoveFails, Fault, BookType
  <2> QED
    BY <1>8, <2>1, <2>2, <2>4 DEF RemoveFails, DiskType, WorkType, disk
<1>9. CASE Unlink(r, w)
  <2>1. t \in Temps /\ EmptyOne(t)
    BY <1>9, WorkerHolds DEF Unlink, At, Working
  <2>2. staging' \in [Temps -> StagingState]
    BY <2>1, Emptying
  <2> QED
    BY <1>9, <2>2 DEF Unlink, RunType, DiskType, WorkType, BookType, run, work, books
<1> QED
  BY <1>1, <1>2, <1>3, <1>4, <1>5, <1>6, <1>7, <1>8, <1>9 DEF Replacement

LEMMA TypeStep ==
  ASSUME IInv, NEW r \in Runs, StepOf(r)
  PROVE  TypeInv'
<1> USE DEF TypeInv
<1> TypeInv
  BY DEF IInv
<1>1. CASE Acquire(r)
  BY <1>1 DEF Acquire, Goto, RunType, DiskType, WorkType, BookType, disk, work, books, Active, Early
<1>2. CASE Refused(r)
  BY <1>2 DEF Refused, Goto, RunType, DiskType, WorkType, BookType, disk, work, books
<1>3. CASE GenerateEnds(r)
  BY <1>3 DEF GenerateEnds, Goto, RunType, DiskType, WorkType, BookType, disk, work, books, Active
<1>4. CASE Finish(r)
  BY <1>4 DEF Finish, Goto, RunType, DiskType, WorkType, BookType, disk, work, books, Active
<1>5. CASE Release(r)
  BY <1>5 DEF Release, Goto, Forget, RunType, DiskType, WorkType, BookType, disk, work
<1>6. CASE Stop(r)
  BY <1>6, AbandonType DEF Stop, RunType, DiskType, BookType, disk, books
<1>7. CASE Crash(r)
  <2>1. [w \in Writers |-> Idle] \in [Writers -> JobState]
    BY DEF JobState, Steps, Idle
  <2>2. WorkType'
    BY <1>7, <2>1 DEF Crash, WorkType, EditState, NoEdit
  <2> QED
    BY <1>7, <2>2 DEF Crash, Goto, Forget, RunType, DiskType, BookType, disk
<1>8. CASE SweepBegins(r) \/ CleanDirectory(r)
  <2>1. PICK t \in Temps : Begin(r, t)
    BY <1>8 DEF SweepBegins, CleanDirectory
  <2> QED
    BY <2>1 DEF Begin, RunType, DiskType, WorkType, BookType, run, disk, books
<1>9. CASE SweepEnds(r)
  BY <1>9 DEF SweepEnds, AfterSweep, Goto, RunType, DiskType, WorkType, BookType, disk, work,
              Active, Early
<1>10. CASE SweepFails(r)
  BY <1>10 DEF SweepFails, AfterSweep, Goto, Fault, RunType, DiskType, WorkType, BookType, disk,
               work, Active, Early
<1>11. CASE CleanFile(r)
  BY <1>11 DEF CleanFile, RunType, DiskType, WorkType, BookType, run, work, books, Gone,
               FileState, Authors
<1>12. CASE UnlinkEntry(r) \/ UnlinkDirectory(r)
  <2>1. removing[r] \in Temps /\ (EmptyOne(removing[r]) \/ RemoveDirectory(removing[r]))
    BY <1>12 DEF UnlinkEntry, UnlinkDirectory, WorkType
  <2>2. staging' \in [Temps -> StagingState]
    BY <2>1, Emptying, Removing
  <2> QED
    BY <1>12, <2>2 DEF UnlinkEntry, UnlinkDirectory, RunType, DiskType, WorkType, BookType,
                       run, work, books
<1>13. CASE CleanEnds(r)
  BY <1>13 DEF CleanEnds, Goto, RunType, DiskType, WorkType, BookType, disk, work, books,
               Active, Early
<1>14. ASSUME NEW w \in Writers,
              BundleBegins(r, w) \/ WriteFile(r, w) \/ IndexBegins(r, w)
       PROVE  TypeInv'
  <2>1. PICK p \in Staged, sync \in BOOLEAN : MakeTemp(r, w, p, sync)
    BY <1>14 DEF BundleBegins, WriteFile, IndexBegins, Staged
  <2>2. /\ job' \in [Runs -> [Writers -> JobState]]
        /\ staging' \in [Temps -> StagingState]
    BY <2>1, MakeTempType
  <2>3. /\ writes' = writes \/ (writes > 0 /\ writes' = writes - 1)
        /\ UNCHANGED <<lock, phase, outcome, options, target, listed, editing, toFormat,
                       removing, tracked, swept, stuck, faults>>
    BY <1>14 DEF BundleBegins, WriteFile, IndexBegins, run, books
  <2> QED
    BY <2>2, <2>3 DEF RunType, DiskType, WorkType, BookType
<1>15. ASSUME NEW w \in Writers, Replacement(r, w)
       PROVE  TypeInv'
  BY <1>15, ReplacementType
<1>16. ASSUME NEW p \in Paths, NEW author \in Authors, Open(r, p, author)
       PROVE  target' \in [Paths -> FileState] /\ editing' \in [Runs -> EditState]
  BY <1>16 DEF Open, DiskType, WorkType, FileState, EditState
<1>17. ASSUME NEW torn \in BOOLEAN, Close(r, torn)
       PROVE  target' \in [Paths -> FileState] /\ editing' \in [Runs -> EditState]
  BY <1>17 DEF Close, DiskType, WorkType, FileState, EditState, NoEdit
<1>18. CASE DeclareBegins(r) \/ CopyBegins(r)
  <2>1. target' \in [Paths -> FileState] /\ editing' \in [Runs -> EditState]
    BY <1>16, <1>18 DEF DeclareBegins, CopyBegins, Paths, Authors
  <2> QED
    BY <1>18, <2>1 DEF DeclareBegins, CopyBegins, RunType, DiskType, WorkType, BookType, run, books
<1>19. CASE DeclareEnds(r)
  <2>1. target' \in [Paths -> FileState] /\ editing' \in [Runs -> EditState]
    BY <1>17, <1>19 DEF DeclareEnds
  <2> QED
    BY <1>19, <2>1 DEF DeclareEnds, Goto, RunType, DiskType, WorkType, BookType, books, Active
<1>20. CASE CopyEnds(r)
  <2>1. target' \in [Paths -> FileState] /\ editing' \in [Runs -> EditState]
    BY <1>17, <1>20 DEF CopyEnds
  <2> QED
    BY <1>20, <2>1 DEF CopyEnds, RunType, DiskType, WorkType, BookType, run, Tracked
<1>21. CASE FormatEnds(r)
  <2>1. target' \in [Paths -> FileState] /\ editing' \in [Runs -> EditState]
    BY <1>17, <1>21 DEF FormatEnds, WorkType, EditState
  <2> QED
    BY <1>21, <2>1 DEF FormatEnds, RunType, DiskType, WorkType, BookType, run, books
<1>22. CASE CopyFails(r)
  BY <1>22, AbandonType DEF CopyFails, Fault, RunType, DiskType, BookType, disk
<1>23. CASE FormatBegins(r)
  <2>1. toFormat[r] \in SUBSET Paths /\ toFormat[r] # {}
    BY <1>23 DEF FormatBegins, WorkType
  <2>2. First(toFormat[r]) \in Paths
    BY <2>1, FirstIsOne
  <2>3. target[First(toFormat[r])].by \in Authors
    BY <2>2 DEF DiskType, FileState
  <2>4. target' \in [Paths -> FileState] /\ editing' \in [Runs -> EditState]
    BY <1>16, <1>23, <2>2, <2>3 DEF FormatBegins
  <2> QED
    BY <1>23, <2>4 DEF FormatBegins, RunType, DiskType, WorkType, BookType, run, books
<1> QED
  BY <1>1, <1>2, <1>3, <1>4, <1>5, <1>6, <1>7, <1>8, <1>9, <1>10, <1>11, <1>12, <1>13, <1>14,
     <1>15, <1>18, <1>19, <1>20, <1>21, <1>22, <1>23 DEF StepOf, Workflow, Preparation, InPlace

-----------------------------------------------------------------------------
(* The other runs: one that rests is not disturbed, and nobody else works. *)

\* What belongs to run q is as it was.
Untouched(q) ==
  /\ phase'[q] = phase[q] /\ outcome'[q] = outcome[q] /\ job'[q] = job[q]
  /\ editing'[q] = editing[q] /\ toFormat'[q] = toFormat[q] /\ tracked'[q] = tracked[q]
  /\ swept'[q] = swept[q] /\ stuck'[q] = stuck[q] /\ removing'[q] = removing[q]

LEMMA Frame ==
  ASSUME TypeInv, NEW r \in Runs, StepOf(r)
  PROVE  options' = options /\ \A q \in Runs \ {r} : Untouched(q)
<1> USE DEF TypeInv, RunType, WorkType, BookType, Untouched, run, disk, work, books
<1>1. CASE Workflow(r) /\ ~\E w \in Writers :
                             BundleBegins(r, w) \/ WriteFile(r, w) \/ IndexBegins(r, w)
                               \/ Replacement(r, w)
  BY <1>1 DEF Workflow, Acquire, Refused, GenerateEnds, Finish, Release, Stop, Crash, Abandon,
              Forget, Goto
<1>2. ASSUME NEW w \in Writers, BundleBegins(r, w) \/ WriteFile(r, w) \/ IndexBegins(r, w)
      PROVE  options' = options /\ \A q \in Runs \ {r} : Untouched(q)
  <2>1. \A q \in Runs \ {r} : job'[q] = job[q]
    BY <1>2 DEF BundleBegins, WriteFile, IndexBegins, MakeTemp
  <2> QED
    BY <1>2, <2>1 DEF BundleBegins, WriteFile, IndexBegins
<1>3. ASSUME NEW w \in Writers, Replacement(r, w)
      PROVE  options' = options /\ \A q \in Runs \ {r} : Untouched(q)
  <2>1. \A q \in Runs \ {r} : job'[q] = job[q]
    BY <1>3 DEF Replacement, Mark, WriteContent, Rename, TrackWrite, WriteFails, GiveUp, Unlink,
                Remove, RemoveFails, Step, work
  <2>2. CASE Remove(r, w) \/ RemoveFails(r, w)
    BY <2>1, <2>2 DEF Remove, RemoveFails, Succeeded, Failed, Goto
  <2>3. CASE ~(Remove(r, w) \/ RemoveFails(r, w))
    BY <1>3, <2>1, <2>3 DEF Replacement, Mark, WriteContent, Rename, TrackWrite, WriteFails, GiveUp,
                           Unlink
  <2> QED
    BY <2>2, <2>3
<1>4. CASE Preparation(r)
  BY <1>4 DEF Preparation, SweepBegins, Begin, UnlinkEntry, UnlinkDirectory, SweepEnds, SweepFails,
              CleanFile, CleanDirectory, CleanEnds,
              AfterSweep, Goto
<1>5. CASE InPlace(r)
  BY <1>5 DEF InPlace, DeclareBegins, DeclareEnds, CopyBegins, CopyEnds, CopyFails, FormatBegins,
              FormatEnds, Open, Close, Abandon, Goto
<1> QED
  BY <1>1, <1>2, <1>3, <1>4, <1>5 DEF StepOf, Workflow

\* A run that is not active can only try to begin.
LEMMA OnlyActiveWork ==
  ASSUME IInv, NEW r \in Runs, StepOf(r), phase[r] \notin Active
  PROVE  Acquire(r) \/ Refused(r)
<1>1. phase[r] \notin Early /\ phase[r] \notin {"generate", "index", "format", "leave"}
  BY DEF Active
<1>2. editing[r] = NoEdit /\ \A w \in Writers : ~Working(r, w)
  BY SMTT(40) DEF IInv, RunInv, Resting, Quiet
<1>3. ASSUME NEW w \in Writers, Replacement(r, w) PROVE FALSE
  BY <1>2, <1>3 DEF Replacement, Mark, WriteContent, Rename, TrackWrite, WriteFails, GiveUp,
                    Unlink, Remove, RemoveFails, At, Working, Interruptible
<1>4. ~Preparation(r)
  BY <1>1 DEF Preparation, SweepBegins, Begin, UnlinkEntry, UnlinkDirectory, SweepEnds, SweepFails,
              CleanFile, CleanDirectory, CleanEnds,
              Early
<1>5. ~InPlace(r)
  BY <1>1 DEF InPlace, DeclareBegins, DeclareEnds, CopyBegins, CopyEnds, CopyFails, FormatBegins,
              FormatEnds, Early
<1>6. ASSUME NEW w \in Writers, BundleBegins(r, w) \/ WriteFile(r, w) \/ IndexBegins(r, w)
      PROVE  FALSE
  BY <1>1, <1>6 DEF BundleBegins, WriteFile, IndexBegins, Early
<1>7. ~Release(r) /\ ~Stop(r) /\ ~GenerateEnds(r) /\ ~Finish(r)
  BY <1>1 DEF Release, Stop, GenerateEnds, Finish, Early
<1>8. ~Crash(r)
  BY <1>1 DEF Crash, Early, IInv, TypeInv, RunType, Active
<1> QED
  BY <1>3, <1>4, <1>5, <1>6, <1>7, <1>8 DEF StepOf, Workflow

\* The lock tells who is active.
LEMMA OneActive ==
  ASSUME IInv, NEW q \in Runs, NEW r \in Runs, phase[q] \in Active, phase[r] \in Active
  PROVE  q = r
  BY DEF IInv, RunInv, Holding, PhaseInv

LEMMA NoneActive ==
  ASSUME IInv, Unlocked, NEW q \in Runs
  PROVE  phase[q] \notin Active
<1>1. phase[q] \in Active => lock = q
  BY DEF IInv, RunInv, Holding, PhaseInv
<1> QED
  BY <1>1, NamesAssumption DEF Unlocked, Active, Early

\* Nothing becomes the work of another run.
LEMMA AuthorFrame ==
  ASSUME TypeInv, NEW r \in Runs, StepOf(r)
  PROVE  \A p \in Paths : target'[p].by \in {target[p].by, r, Nobody}
<1> USE DEF TypeInv, DiskType, disk
<1>1. CASE /\ Workflow(r)
           /\ ~\E w \in Writers : BundleBegins(r, w) \/ WriteFile(r, w) \/ IndexBegins(r, w)
                                    \/ Replacement(r, w)
  BY <1>1 DEF Workflow, Acquire, Refused, GenerateEnds, Finish, Release, Stop, Crash
<1>2. ASSUME NEW w \in Writers, BundleBegins(r, w) \/ WriteFile(r, w) \/ IndexBegins(r, w)
      PROVE  target' = target
  BY <1>2 DEF BundleBegins, WriteFile, IndexBegins
<1>3. ASSUME NEW w \in Writers, Replacement(r, w)
      PROVE  \A p \in Paths : target'[p].by \in {target[p].by, r, Nobody}
  <2>1. CASE Rename(r, w)
    BY <2>1 DEF Rename
  <2>2. CASE ~Rename(r, w)
    BY <1>3, <2>2 DEF Replacement, Mark, WriteContent, TrackWrite, WriteFails, GiveUp, Unlink, Remove,
                      RemoveFails
  <2> QED
    BY <2>1, <2>2
<1>4. CASE Preparation(r)
  BY <1>4 DEF Preparation, SweepBegins, Begin, UnlinkEntry, UnlinkDirectory, SweepEnds, SweepFails,
              CleanFile, CleanDirectory, CleanEnds,
              Gone
<1>5. ASSUME NEW p, NEW author, Open(r, p, author), author = r \/ author = target[p].by
      PROVE  \A q \in Paths : target'[q].by \in {target[q].by, r, Nobody}
  BY <1>5 DEF Open
<1>6. ASSUME NEW torn, Close(r, torn)
      PROVE  \A q \in Paths : target'[q].by = target[q].by
  BY <1>6 DEF Close, FileState
<1>7. CASE InPlace(r)
  BY <1>5, <1>6, <1>7 DEF InPlace, DeclareBegins, DeclareEnds, CopyBegins, CopyEnds, CopyFails,
                          FormatBegins, FormatEnds
<1> QED
  BY <1>1, <1>2, <1>3, <1>4, <1>7 DEF StepOf, Workflow

LEMMA OtherRuns ==
  ASSUME IInv, NEW r \in Runs, StepOf(r), NEW q \in Runs \ {r}
  PROVE  RunInv(q)'
<1>1. Untouched(q) /\ options' = options
  BY Frame DEF IInv
<1>2. CASE phase[q] \notin Active
  <2>1. \A p \in Tracked : target'[p].by = q => target[p].by = q
    <3>1. q # Nobody /\ Tracked \subseteq Paths
      BY NamesAssumption DEF Tracked, Paths, Staged
    <3> QED
      BY <3>1, AuthorFrame DEF IInv
  <2>2. Resting(q)'
    BY <1>1, <1>2, <2>1 DEF IInv, RunInv, Resting, Untouched, Quiet, NoWriter, Working
  <2> QED
    BY <1>1, <1>2, <2>2 DEF RunInv, Untouched
<1>3. CASE phase[q] \in Active
  <2>1. phase[r] \notin Active
    BY <1>3, OneActive
  <2>2. ~Acquire(r)
    BY <1>3, NoneActive DEF Acquire
  <2>3. Refused(r)
    BY <2>1, <2>2, OnlyActiveWork
  <2>4. UNCHANGED <<lock, options, target, listed, staging, job, editing, toFormat, tracked>>
    BY <2>3 DEF Refused, disk, work, books
  <2>5. phase'[q] = phase[q] /\ outcome'[q] = outcome[q]
    BY <1>1 DEF Untouched
  <2>6. PhaseInv(q)' /\ JobInv(q)' /\ IndexInv(q)'
    BY <1>3, <2>4, <2>5 DEF IInv, RunInv, Holding, PhaseInv, JobInv, IndexInv, Published, Quiet,
                            Working
  <2> QED
    BY <1>3, <2>5, <2>6 DEF RunInv, Holding
<1> QED
  BY <1>2, <1>3

-----------------------------------------------------------------------------
(* The run that takes a step: its comings and goings                       *)

LEMMA Held ==
  ASSUME IInv, NEW r \in Runs, phase[r] \in Active
  PROVE  PhaseInv(r) /\ JobInv(r) /\ IndexInv(r)
  BY DEF IInv, RunInv, Holding

LEMMA AcquireStep ==
  ASSUME IInv, NEW r \in Runs, Acquire(r)
  PROVE  RunInv(r)'
<1>1. /\ phase[r] = "ready" /\ phase' = [phase EXCEPT ![r] = "sweep"] /\ lock' = r
      /\ UNCHANGED <<outcome, options, target, listed, staging, job, editing, toFormat, tracked>>
  BY DEF Acquire, Goto, disk, work, books
<1>2. phase'[r] = "sweep"
  BY <1>1 DEF IInv, TypeInv, RunType
<1>3. Resting(r) /\ outcome[r] = "none" /\ \A p \in Tracked : target[p].by # r
  BY <1>1 DEF IInv, RunInv, Active, Early, Resting
<1>4. PhaseInv(r)' /\ JobInv(r)' /\ IndexInv(r)'
  BY <1>1, <1>2, <1>3 DEF Resting, Quiet, NoWriter, Working, PhaseInv, JobInv, IndexInv, Early
<1> QED
  BY <1>2, <1>4 DEF RunInv, Holding, Active, Early

LEMMA RefusedStep ==
  ASSUME IInv, NEW r \in Runs, Refused(r)
  PROVE  RunInv(r)'
<1>1. /\ phase[r] = "ready" /\ phase' = [phase EXCEPT ![r] = "ended"]
      /\ UNCHANGED <<target, job, editing, toFormat, tracked, swept>>
  BY DEF Refused, Goto, disk, work, books
<1>2. phase'[r] = "ended"
  BY <1>1 DEF IInv, TypeInv, RunType
<1>3. Resting(r)
  BY <1>1 DEF IInv, RunInv, Active, Early
<1> QED
  BY <1>1, <1>2, <1>3 DEF Resting, Quiet, NoWriter, Working, RunInv, Active, Early

LEMMA ReleaseStep ==
  ASSUME IInv, NEW r \in Runs, Release(r)
  PROVE  RunInv(r)'
<1>1. /\ phase[r] = "leave" /\ Quiet(r) /\ phase' = [phase EXCEPT ![r] = "ended"]
      /\ UNCHANGED <<target, job, editing, toFormat>>
      /\ tracked' = [tracked EXCEPT ![r] = {}] /\ swept' = [swept EXCEPT ![r] = FALSE]
  BY DEF Release, Goto, Forget, disk, work
<1>2. phase'[r] = "ended" /\ tracked'[r] = {} /\ swept'[r] = FALSE
  BY <1>1 DEF IInv, TypeInv, RunType, BookType
<1>3. PhaseInv(r) /\ JobInv(r)
  BY <1>1, Held DEF Active
<1> QED
  BY <1>1, <1>2, <1>3 DEF PhaseInv, JobInv, Resting, Quiet, NoWriter, Working, RunInv, Active, Early

LEMMA CrashStep ==
  ASSUME IInv, NEW r \in Runs, Crash(r)
  PROVE  RunInv(r)'
<1>1. /\ phase'[r] = "dead" /\ job'[r] = [w \in Writers |-> Idle] /\ editing'[r] = NoEdit
      /\ toFormat'[r] = {} /\ tracked'[r] = {} /\ swept'[r] = FALSE
  BY DEF Crash, Goto, Forget, IInv, TypeInv, RunType, WorkType, BookType
<1> QED
  BY <1>1 DEF Resting, Quiet, NoWriter, Working, Idle, RunInv, Active, Early

\* Replacements that are cut short keep their directories until these are removed.
LEMMA AbandonStep ==
  ASSUME IInv, NEW r \in Runs, phase[r] \in Active \ {"leave"}, Abandon(r),
         UNCHANGED <<lock, options, target, listed, staging, tracked>>,
         \A w \in Writers : Working(r, w) => job[r][w].path # Index
  PROVE  RunInv(r)'
<1>1. /\ phase'[r] = "leave" /\ outcome'[r] = "failed" /\ editing'[r] = NoEdit
      /\ toFormat'[r] = {} /\ job'[r] = CutShort(job[r])
  BY DEF Abandon, Goto, IInv, TypeInv, RunType, WorkType
<1>2. PhaseInv(r) /\ JobInv(r)
  BY Held
<1>3. ASSUME NEW w \in Writers
      PROVE  /\ Working(r, w)' <=> Working(r, w)
             /\ job'[r][w].temp = job[r][w].temp /\ job'[r][w].path = job[r][w].path
             /\ job'[r][w].sync = job[r][w].sync
             /\ job'[r][w].step \in {"idle", "renamed", "cleaning"}
             /\ job'[r][w].step = "renamed" => job[r][w].step = "renamed"
  <2>1. job[r][w] \in JobState
    BY DEF IInv, TypeInv, WorkType
  <2>2. job'[r][w] = IF job[r][w].step \in Interruptible
                       THEN [job[r][w] EXCEPT !.step = "cleaning", !.ok = FALSE] ELSE job[r][w]
    BY <1>1 DEF CutShort
  <2> QED
    BY <2>1, <2>2 DEF Working, JobState, Steps, Interruptible
<1>4. PhaseInv(r)'
  BY <1>1, <1>2, <1>3 DEF PhaseInv
<1>5. JobInv(r)'
  BY <1>2, <1>3 DEF JobInv
<1>6. IndexInv(r)'
  BY <1>1 DEF IndexInv, Early
<1> QED
  BY <1>1, <1>4, <1>5, <1>6 DEF RunInv, Holding, Active

LEMMA StopStep ==
  ASSUME IInv, NEW r \in Runs, Stop(r) \/ CopyFails(r)
  PROVE  RunInv(r)'
<1>1. /\ phase[r] \in Active \ {"leave"} /\ Abandon(r)
      /\ UNCHANGED <<lock, options, target, listed, staging, tracked>>
  BY DEF Stop, CopyFails, Active, Early, disk, books
<1>2. ASSUME NEW w \in Writers, Working(r, w)
      PROVE  job[r][w].path # Index
  <2>1. PhaseInv(r)
    BY <1>1, Held
  <2>2. Index # Bundle /\ Index \notin Files
    BY NamesAssumption
  <2>3. CASE Stop(r)
    BY <1>2, <2>1, <2>2, <2>3 DEF Stop, ThreadFree, PhaseInv
  <2>4. CASE CopyFails(r)
    BY <1>2, <2>1, <2>2, <2>4 DEF CopyFails, PhaseInv
  <2> QED
    BY <2>3, <2>4
<1> QED
  BY <1>1, <1>2, AbandonStep

\* While it sweeps and cleans, a run has nothing of its own in the directory.
LEMMA PreparationStep ==
  ASSUME IInv, NEW r \in Runs, Preparation(r)
  PROVE  RunInv(r)'
<1>1. /\ phase[r] \in {"sweep", "clean"}
      /\ phase' = phase \/ (\E p \in {"clean", "bundle"} :
           /\ phase' = [phase EXCEPT ![r] = p]
           /\ p = "clean" => options[r].clean)
      /\ UNCHANGED <<lock, outcome, options, job, editing, toFormat, tracked>>
  BY DEF Preparation, SweepBegins, Begin, UnlinkEntry, UnlinkDirectory, SweepEnds, SweepFails,
              CleanFile, CleanDirectory, CleanEnds,
         AfterSweep, Goto, run, work, books
<1>2. phase'[r] \in {"sweep", "clean", "bundle"} /\ (phase'[r] = "clean" => options[r].clean)
  <2>1. PhaseInv(r)
    BY <1>1, Held DEF Active, Early
  <2> QED
    BY <1>1, <2>1 DEF PhaseInv, IInv, TypeInv, RunType
<1>3. PhaseInv(r) /\ JobInv(r) /\ IndexInv(r)
  BY <1>1, Held DEF Active, Early
<1>4. NoWriter(r) /\ editing[r] = NoEdit /\ toFormat[r] = {}
  BY <1>1, <1>3 DEF PhaseInv, NoWriter
<1>5. PhaseInv(r)'
  BY <1>1, <1>2, <1>3, <1>4 DEF PhaseInv, NoWriter, Working
<1>6. JobInv(r)'
  BY <1>1, <1>3, <1>4 DEF JobInv, NoWriter, Working
<1>7. IndexInv(r)'
  <2>1. \A p \in Tracked : target'[p].by = r => target[p].by = r
    <3>1. CASE CleanFile(r)
      BY <3>1, NamesAssumption
         DEF CleanFile, Gone, IInv, TypeInv, DiskType, Tracked, Paths, Staged
    <3>2. CASE ~CleanFile(r)
      BY <3>2 DEF Preparation, SweepBegins, Begin, UnlinkEntry, UnlinkDirectory, SweepEnds,
              SweepFails, CleanDirectory, CleanEnds, disk
    <3> QED
      BY <3>1, <3>2
  <2>2. \A w \in Writers : job[r][w].step = "idle"
    BY <1>4 DEF NoWriter, Working
  <2> QED
    BY <1>1, <1>2, <1>3, <2>1, <2>2 DEF IndexInv, Early
<1> QED
  BY <1>2, <1>5, <1>6, <1>7 DEF RunInv, Holding, Active, Early

LEMMA GenerateEndsStep ==
  ASSUME IInv, NEW r \in Runs, GenerateEnds(r)
  PROVE  RunInv(r)'
<1>1. /\ phase[r] = "generate" /\ phase' = [phase EXCEPT ![r] = "index"] /\ Quiet(r)
      /\ UNCHANGED <<lock, outcome, options, target, listed, staging, job, editing, toFormat,
                     tracked>>
  BY DEF GenerateEnds, Goto, disk, work, books
<1>2. phase'[r] = "index"
  BY <1>1 DEF IInv, TypeInv, RunType
<1>3. PhaseInv(r) /\ JobInv(r) /\ IndexInv(r)
  BY <1>1, Held DEF Active
<1>4. PhaseInv(r)'
  BY <1>1, <1>2, <1>3 DEF PhaseInv, Quiet, Working
<1>5. JobInv(r)'
  BY <1>1, <1>3 DEF JobInv, Working
<1>6. \A p \in Tracked : target[p].by = r => p \in tracked[r]
  <2>1. \A p \in Tracked : editing[r].path # p
    BY <1>1, NamesAssumption DEF Quiet, NoEdit, Tracked, Paths, Staged
  <2> QED
    BY <1>1, <1>3, <2>1 DEF IndexInv, Quiet, Working
<1>7. IndexInv(r)'
  <2>1. \A w \in Writers : job'[r][w].step = "idle"
    BY <1>1 DEF Quiet, Working
  <2>2. \A p \in tracked[r] \cup {Bundle, Declaration} : Published(r, p)'
    BY <1>1, <1>3 DEF IndexInv, Published
  <2> QED
    BY <1>1, <1>2, <1>3, <1>6, <2>1, <2>2 DEF IndexInv, Early, Quiet, NoEdit
<1> QED
  BY <1>2, <1>4, <1>5, <1>7 DEF RunInv, Holding, Active

\* Success: what the tracker holds is what the index lists and what is there.
LEMMA FinishStep ==
  ASSUME IInv, NEW r \in Runs, Finish(r)
  PROVE  RunInv(r)'
<1>1. /\ phase[r] = "format" /\ phase' = [phase EXCEPT ![r] = "leave"] /\ Quiet(r)
      /\ outcome' = [outcome EXCEPT ![r] = "ok"] /\ toFormat[r] = {}
      /\ UNCHANGED <<lock, options, target, listed, staging, job, editing, toFormat, tracked>>
  BY DEF Finish, Goto, disk, work, books
<1>2. phase'[r] = "leave" /\ outcome'[r] = "ok"
  BY <1>1 DEF IInv, TypeInv, RunType
<1>3. PhaseInv(r) /\ JobInv(r) /\ IndexInv(r)
  BY <1>1, Held DEF Active
<1>4. PhaseInv(r)'
  BY <1>1, <1>2, <1>3 DEF PhaseInv, Quiet, Working
<1>5. JobInv(r)'
  BY <1>1, <1>3 DEF JobInv, Working
<1>6. \A p \in tracked[r] \cup {Bundle, Declaration} : target[p] = [by |-> r, torn |-> FALSE]
  <2> SUFFICES ASSUME NEW p \in tracked[r] \cup {Bundle, Declaration}
               PROVE  target[p] = [by |-> r, torn |-> FALSE]
    OBVIOUS
  <2>1. p \in Paths /\ target[p] \in FileState
    BY DEF IInv, TypeInv, BookType, DiskType, Tracked, Paths, Staged
  <2>2. editing[r].path # p
    BY <1>1, <2>1, NamesAssumption DEF Quiet, NoEdit
  <2> QED
    BY <1>1, <1>3, <2>1, <2>2 DEF IndexInv, Published, FileState
<1>7. \A p \in Tracked : target[p].by = r => p \in tracked[r]
  <2>1. \A p \in Tracked : editing[r].path # p
    BY <1>1, NamesAssumption DEF Quiet, NoEdit, Tracked, Paths, Staged
  <2> QED
    BY <1>1, <1>3, <2>1 DEF IndexInv, Quiet, Working
<1>8. IndexInv(r)'
  <2>1. listed = tracked[r] \cap (Files \cup {Lib}) /\ Index \in tracked[r]
    BY <1>1, <1>3 DEF IndexInv
  <2>2. listed = {p \in Files \cup {Lib} : target[p].by = r}
    BY <1>6, <1>7, <2>1 DEF Tracked
  <2>3. \A p \in listed \cup {Index, Bundle, Declaration} : target[p] = [by |-> r, torn |-> FALSE]
    BY <1>6, <2>1
  <2> QED
    BY <1>1, <1>2, <2>2, <2>3 DEF IndexInv, Quiet, Working, Early
<1> QED
  BY <1>2, <1>4, <1>5, <1>8 DEF RunInv, Holding, Active

-----------------------------------------------------------------------------
(* Files written in place                                                  *)

\* What closing a file changes
LEMMA CloseFacts ==
  ASSUME TypeInv, NEW r \in Runs, NEW torn, Close(r, torn), editing[r].path \in Paths
  PROVE  /\ editing'[r] = NoEdit
         /\ target'[editing[r].path].by = target[editing[r].path].by
         /\ target'[editing[r].path].torn = torn
         /\ \A q \in Paths \ {editing[r].path} : target'[q] = target[q]
  BY DEF Close, TypeInv, WorkType, DiskType, FileState

LEMMA DeclareBeginsStep ==
  ASSUME IInv, NEW r \in Runs, DeclareBegins(r)
  PROVE  RunInv(r)'
<1>1. /\ phase[r] = "declare" /\ Quiet(r) /\ Open(r, Declaration, r)
      /\ UNCHANGED <<lock, phase, outcome, options, listed, staging, job, toFormat, tracked>>
  BY DEF DeclareBegins, run, books
<1>2. PhaseInv(r) /\ JobInv(r) /\ IndexInv(r)
  BY <1>1, Held DEF Active, Early
<1>3. /\ editing'[r] = [path |-> Declaration, was |-> target[Declaration].torn]
      /\ target'[Declaration].by = r
      /\ \A q \in Paths \ {Declaration} : target'[q] = target[q]
  <2>1. Declaration \in Paths /\ TypeInv /\ Open(r, Declaration, r)
    BY <1>1 DEF Paths, IInv
  <2> QED
    BY <2>1 DEF Open, TypeInv, WorkType, DiskType
<1>4. PhaseInv(r)' /\ JobInv(r)'
  BY <1>1, <1>2, <1>3 DEF PhaseInv, JobInv, Working
<1>5. IndexInv(r)'
  <2>1. Tracked \subseteq Paths \ {Declaration} /\ Bundle \in Paths \ {Declaration}
    BY NamesAssumption DEF Tracked, Paths, Staged
  <2>2. editing'[r].path = Declaration /\ editing[r] = NoEdit /\ NoEdit.path # Bundle
    BY <1>1, <1>3, <2>1, NamesAssumption DEF Quiet, NoEdit
  <2>3. Published(r, Bundle)'
    BY <1>1, <1>2, <1>3, <2>1, <2>2 DEF IndexInv, Published
  <2> QED
    BY <1>1, <1>2, <1>3, <2>1, <2>2, <2>3 DEF IndexInv, Early
<1> QED
  BY <1>1, <1>4, <1>5 DEF RunInv, Holding, Active, Early

LEMMA DeclareEndsStep ==
  ASSUME IInv, NEW r \in Runs, DeclareEnds(r)
  PROVE  RunInv(r)'
<1>1. /\ phase[r] = "declare" /\ editing[r].path = Declaration /\ Close(r, FALSE)
      /\ phase' = [phase EXCEPT ![r] = "generate"]
      /\ UNCHANGED <<lock, outcome, options, listed, staging, job, toFormat, tracked>>
  BY DEF DeclareEnds, Goto, books
<1>2. PhaseInv(r) /\ JobInv(r) /\ IndexInv(r)
  BY <1>1, Held DEF Active, Early
<1>3. phase'[r] = "generate"
  BY <1>1 DEF IInv, TypeInv, RunType
<1>4. /\ editing'[r] = NoEdit
      /\ target'[Declaration].by = target[Declaration].by /\ target'[Declaration].torn = FALSE
      /\ \A q \in Paths \ {Declaration} : target'[q] = target[q]
  BY <1>1, CloseFacts DEF IInv, Paths
<1>5. NoWriter(r)
  BY <1>1, <1>2 DEF PhaseInv, NoWriter
<1>6. PhaseInv(r)' /\ JobInv(r)'
  BY <1>1, <1>2, <1>3, <1>4, <1>5 DEF PhaseInv, JobInv, NoWriter, Working
<1>7. IndexInv(r)'
  <2>1. Tracked \subseteq Paths \ {Declaration} /\ Bundle \in Paths \ {Declaration}
    BY NamesAssumption DEF Tracked, Paths, Staged
  <2>2. NoEdit.path = NoPath /\ NoPath \notin Paths /\ Lib \in Paths
    BY NamesAssumption DEF NoEdit, Paths
  <2>3. Published(r, Bundle)'
    BY <1>1, <1>2, <1>4, <2>1, <2>2 DEF IndexInv, Published
  <2>4. Published(r, Declaration)'
    BY <1>1, <1>2, <1>4, <2>2, NamesAssumption DEF IndexInv, Published, Paths
  <2> QED
    BY <1>1, <1>2, <1>3, <1>4, <1>5, <2>1, <2>2, <2>3, <2>4
       DEF IndexInv, Early, NoWriter, Working
<1> QED
  BY <1>3, <1>6, <1>7 DEF RunInv, Holding, Active

LEMMA CopyBeginsStep ==
  ASSUME IInv, NEW r \in Runs, CopyBegins(r)
  PROVE  RunInv(r)'
<1>1. /\ phase[r] = "generate" /\ ThreadFree(r) /\ Lib \notin tracked[r] /\ Open(r, Lib, r)
      /\ UNCHANGED <<lock, phase, outcome, options, listed, staging, job, toFormat, tracked>>
  BY DEF CopyBegins, run, books
<1>2. PhaseInv(r) /\ JobInv(r) /\ IndexInv(r)
  BY <1>1, Held DEF Active
<1>3. /\ editing'[r] = [path |-> Lib, was |-> target[Lib].torn]
      /\ target'[Lib].by = r
      /\ \A q \in Paths \ {Lib} : target'[q] = target[q]
  <2>1. Lib \in Paths /\ TypeInv /\ Open(r, Lib, r)
    BY <1>1 DEF Paths, IInv
  <2> QED
    BY <2>1 DEF Open, TypeInv, WorkType, DiskType
<1>4. editing[r] = NoEdit
  BY <1>1, <1>2, NamesAssumption DEF PhaseInv, ThreadFree
<1>5. PhaseInv(r)' /\ JobInv(r)'
  BY <1>1, <1>2, <1>3 DEF PhaseInv, JobInv, Working
<1>6. IndexInv(r)'
  <2>1. editing'[r].path = Lib
    BY <1>3
  <2>2. /\ Tracked \subseteq Paths /\ Lib \in Paths
        /\ tracked[r] \cup {Bundle, Declaration} \subseteq Paths \ {Lib}
    BY <1>1, NamesAssumption DEF Tracked, Paths, Staged, IInv, TypeInv, BookType
  <2>3. ASSUME NEW p \in Paths \ {Lib}, Published(r, p)
        PROVE  Published(r, p)'
    BY <1>3, <1>4, <2>1, <2>3, NamesAssumption DEF Published, NoEdit
  <2>4. ASSUME NEW w \in Writers, job[r][w].step = "renamed"
        PROVE  Published(r, job[r][w].path)'
    <3>1. job[r][w].path \in Paths \ {Lib}
      BY <2>4, WorkerHolds, NamesAssumption DEF Working, Paths, Staged
    <3>2. Published(r, job[r][w].path)
      BY <1>1, <1>2, <2>4 DEF IndexInv
    <3> QED
      BY <1>1, <2>3, <3>1, <3>2
  <2>5. \A p \in tracked[r] \cup {Bundle, Declaration} : Published(r, p)'
    BY <1>1, <1>2, <2>2, <2>3 DEF IndexInv
  <2>6. \A p \in Tracked : target'[p].by = r =>
          \/ p \in tracked[r] \/ p = Lib
          \/ \E w \in Writers : job[r][w].path = p /\ job[r][w].step = "renamed"
    BY <1>1, <1>2, <1>3, <1>4, <2>2, NamesAssumption DEF IndexInv, NoEdit
  <2> QED
    BY <1>1, <1>2, <1>3, <2>1, <2>4, <2>5, <2>6 DEF IndexInv, Early
<1> QED
  BY <1>1, <1>5, <1>6 DEF RunInv, Holding, Active

LEMMA CopyEndsStep ==
  ASSUME IInv, NEW r \in Runs, CopyEnds(r)
  PROVE  RunInv(r)'
<1>1. /\ phase[r] = "generate" /\ editing[r].path = Lib /\ Close(r, FALSE)
      /\ tracked' = [tracked EXCEPT ![r] = @ \cup {Lib}]
      /\ UNCHANGED <<lock, phase, outcome, options, listed, staging, job, toFormat>>
  BY DEF CopyEnds, run
<1>2. PhaseInv(r) /\ JobInv(r) /\ IndexInv(r)
  BY <1>1, Held DEF Active
<1>3. /\ editing'[r] = NoEdit
      /\ target'[Lib].by = target[Lib].by /\ target'[Lib].torn = FALSE
      /\ \A q \in Paths \ {Lib} : target'[q] = target[q]
  <2>1. editing[r].path \in Paths /\ TypeInv /\ Close(r, FALSE)
    BY <1>1 DEF Paths, IInv
  <2> QED
    BY <1>1, <2>1, CloseFacts
<1>4. tracked'[r] = tracked[r] \cup {Lib}
  BY <1>1 DEF IInv, TypeInv, BookType
<1>5. PhaseInv(r)' /\ JobInv(r)'
  BY <1>1, <1>2, <1>3 DEF PhaseInv, JobInv, Working
<1>6. IndexInv(r)'
  <2>1. NoEdit.path = NoPath /\ NoPath \notin Paths /\ Lib \in Paths /\ Tracked \subseteq Paths
    BY NamesAssumption DEF NoEdit, Paths, Tracked, Staged
  <2>2. ASSUME NEW p \in Paths, Published(r, p)
        PROVE  Published(r, p)'
    BY <1>1, <1>3, <2>1, <2>2 DEF Published
  <2>3. Published(r, Lib)'
    BY <1>1, <1>2, <1>3, <2>1, NamesAssumption DEF Published, IndexInv, NoEdit
  <2>4. ASSUME NEW w \in Writers, job[r][w].step = "renamed"
        PROVE  Published(r, job[r][w].path)'
    <3>1. job[r][w].path \in Paths
      BY <2>4, WorkerHolds DEF Working, Paths, Staged
    <3>2. Published(r, job[r][w].path)
      BY <1>1, <1>2, <2>4 DEF IndexInv
    <3> QED
      BY <1>1, <2>2, <3>1, <3>2
  <2>5. tracked[r] \cup {Bundle, Declaration} \subseteq Paths
    BY DEF Tracked, Paths, Staged, IInv, TypeInv, BookType
  <2>6. \A p \in tracked'[r] \cup {Bundle, Declaration} : Published(r, p)'
    BY <1>1, <1>2, <1>4, <2>2, <2>3, <2>5 DEF IndexInv
  <2>7. \A p \in Tracked : target'[p].by = r =>
          p \in tracked'[r] \/ \E w \in Writers : job[r][w].path = p /\ job[r][w].step = "renamed"
    BY <1>1, <1>2, <1>3, <1>4, <2>1 DEF IndexInv
  <2> QED
    BY <1>1, <1>2, <1>3, <1>4, <2>1, <2>4, <2>6, <2>7 DEF IndexInv, Early
<1> QED
  BY <1>1, <1>5, <1>6 DEF RunInv, Holding, Active

LEMMA FormatBeginsStep ==
  ASSUME IInv, NEW r \in Runs, FormatBegins(r)
  PROVE  RunInv(r)'
<1> DEFINE f == First(toFormat[r])
<1>1. /\ phase[r] = "format" /\ Quiet(r) /\ toFormat[r] # {} /\ Open(r, f, target[f].by)
      /\ toFormat' = [toFormat EXCEPT ![r] = @ \ {f}]
      /\ UNCHANGED <<lock, phase, outcome, options, listed, staging, job, tracked>>
  BY DEF FormatBegins, run, books
<1>2. PhaseInv(r) /\ JobInv(r) /\ IndexInv(r)
  BY <1>1, Held DEF Active
<1>3. f \in Paths /\ TypeInv
  BY <1>1, FirstIsOne DEF IInv, TypeInv, WorkType
<1> HIDE DEF f
<1>4. /\ editing'[r] = [path |-> f, was |-> target[f].torn]
      /\ target'[f].by = target[f].by
      /\ \A q \in Paths \ {f} : target'[q] = target[q]
  BY <1>1, <1>3 DEF Open, TypeInv, WorkType, DiskType, FileState
<1>5. PhaseInv(r)' /\ JobInv(r)'
  BY <1>1, <1>2, <1>3, <1>4 DEF PhaseInv, JobInv, Working
<1>6. IndexInv(r)'
  <2>1. editing'[r].path = f /\ editing'[r].was = target[f].torn /\ NoEdit.path \notin Paths
    BY <1>4, NamesAssumption DEF NoEdit
  <2>2. ASSUME NEW p \in Paths, Published(r, p)
        PROVE  Published(r, p)'
    BY <1>1, <1>4, <2>1, <2>2 DEF Published, Quiet
  <2>3. tracked[r] \cup {Bundle, Declaration} \subseteq Paths /\ Tracked \subseteq Paths
    BY DEF Tracked, Paths, Staged, IInv, TypeInv, BookType
  <2>4. \A p \in tracked[r] \cup {Bundle, Declaration} : Published(r, p)'
    BY <1>1, <1>2, <2>2, <2>3 DEF IndexInv
  <2>5. \A p \in Tracked : target'[p].by = r => p \in tracked[r]
    BY <1>1, <1>2, <1>4, <2>3 DEF IndexInv, Quiet, Working
  <2> QED
    BY <1>1, <1>2, <2>4, <2>5 DEF IndexInv, Early, Quiet, Working
<1> QED
  BY <1>1, <1>5, <1>6 DEF RunInv, Holding, Active

LEMMA FormatEndsStep ==
  ASSUME IInv, NEW r \in Runs, FormatEnds(r)
  PROVE  RunInv(r)'
<1> DEFINE f == editing[r].path
<1>1. /\ phase[r] = "format" /\ editing[r] # NoEdit /\ Close(r, editing[r].was)
      /\ UNCHANGED <<lock, phase, outcome, options, listed, staging, job, toFormat, tracked>>
  BY DEF FormatEnds, run, books
<1>2. PhaseInv(r) /\ JobInv(r) /\ IndexInv(r)
  BY <1>1, Held DEF Active
<1>3. f \in Paths /\ TypeInv
  BY <1>1, <1>2 DEF PhaseInv, IInv
<1>4. /\ editing'[r] = NoEdit
      /\ target'[f].by = target[f].by /\ target'[f].torn = editing[r].was
      /\ \A q \in Paths \ {f} : target'[q] = target[q]
  BY <1>1, <1>3, CloseFacts
<1>5. PhaseInv(r)' /\ JobInv(r)'
  BY <1>1, <1>2, <1>4 DEF PhaseInv, JobInv, Working
<1>6. IndexInv(r)'
  <2>1. editing'[r].path \notin Paths
    BY <1>4, NamesAssumption DEF NoEdit
  <2>2. ASSUME NEW p \in Paths, Published(r, p)
        PROVE  Published(r, p)'
    BY <1>1, <1>4, <2>1, <2>2 DEF Published
  <2>3. tracked[r] \cup {Bundle, Declaration} \subseteq Paths /\ Tracked \subseteq Paths
    BY DEF Tracked, Paths, Staged, IInv, TypeInv, BookType
  <2>4. \A p \in tracked[r] \cup {Bundle, Declaration} : Published(r, p)'
    BY <1>1, <1>2, <2>2, <2>3 DEF IndexInv
  <2>5. NoWriter(r)
    BY <1>1, <1>2 DEF PhaseInv, NoWriter
  <2>6. \A p \in Tracked : target'[p].by = r => p \in tracked[r]
    BY <1>1, <1>2, <1>4, <2>3, <2>5 DEF IndexInv, NoWriter, Working
  <2> QED
    BY <1>1, <1>2, <2>4, <2>5, <2>6 DEF IndexInv, Early, NoWriter, Working
<1> QED
  BY <1>1, <1>5, <1>6 DEF RunInv, Holding, Active

-----------------------------------------------------------------------------
(* Replacements                                                            *)

\* What a step of a replacement touches is the replacement's own.
OthersStay(r, w) ==
  \A u \in Temps : u # job[r][w].temp => staging'[u] = staging[u]

LEMMA WorkingPhases ==
  ASSUME IInv, NEW r \in Runs, NEW w \in Writers, Working(r, w)
  PROVE  /\ phase[r] \in {"bundle", "generate", "index", "leave"}
         /\ phase[r] = "bundle" => job[r][w].path = Bundle
         /\ phase[r] = "index" => job[r][w].path = Index
         /\ phase[r] = "generate" => job[r][w].path \in Files
         /\ phase[r] = "leave" => job[r][w].path \in Files \cup {Bundle} /\ outcome[r] # "ok"
         /\ phase[r] \in {"bundle", "index"} => \A v \in Writers : Working(r, v) => v = w
         /\ editing[r] # NoEdit => phase[r] = "generate" /\ editing[r].path = Lib
         /\ toFormat[r] = {}
<1>1. PhaseInv(r) /\ IndexInv(r) /\ phase[r] \in Active
  BY WorkerHolds DEF Holding
<1> QED
  BY <1>1, NamesAssumption DEF PhaseInv, IndexInv, Quiet, Active, Early

LEMMA PhaseKept ==
  ASSUME IInv, NEW r \in Runs, NEW w \in Writers, Working(r, w), OthersSame(r, w),
         Working(r, w)', job'[r][w].path = job[r][w].path, job'[r][w].sync = job[r][w].sync,
         UNCHANGED <<lock, phase, outcome, options, editing, toFormat>>
  PROVE  PhaseInv(r)'
<1>1. PhaseInv(r)
  BY WorkerHolds DEF Holding
<1>2. \A v \in Writers : /\ Working(r, v)' <=> Working(r, v)
                         /\ job'[r][v].path = job[r][v].path /\ job'[r][v].sync = job[r][v].sync
  BY DEF OthersSame, Working
<1> QED
  BY <1>1, <1>2 DEF PhaseInv

LEMMA JobKept ==
  ASSUME IInv, NEW r \in Runs, NEW w \in Writers, Working(r, w), OthersSame(r, w),
         OthersStay(r, w), Working(r, w)', job'[r][w].temp = job[r][w].temp,
         staging'[job[r][w].temp].owner = r,
         job'[r][w].step \in {"writing", "written"} => staging'[job[r][w].temp].marked,
         job'[r][w].step = "written" => staging'[job[r][w].temp].content = "whole",
         job'[r][w].step = "renamed" => job'[r][w].path # Bundle
  PROVE  JobInv(r)'
<1>1. JobInv(r)
  BY WorkerHolds DEF Holding
<1>2. \A v \in Writers \ {w} : job'[r][v] = job[r][v] /\ (Working(r, v)' <=> Working(r, v))
  BY DEF OthersSame, Working
<1>3. \A v \in Writers \ {w} : Working(r, v) =>
        /\ job[r][v].temp # job[r][w].temp
        /\ staging'[job[r][v].temp] = staging[job[r][v].temp]
  BY <1>1 DEF JobInv, OthersStay
<1> QED
  BY <1>1, <1>2, <1>3 DEF JobInv

LEMMA JobGone ==
  ASSUME IInv, NEW r \in Runs, NEW w \in Writers, Working(r, w), OthersSame(r, w),
         OthersStay(r, w), job'[r][w] = Idle
  PROVE  JobInv(r)'
<1>1. JobInv(r)
  BY WorkerHolds DEF Holding
<1>2. \A v \in Writers \ {w} : job'[r][v] = job[r][v] /\ (Working(r, v)' <=> Working(r, v))
  BY DEF OthersSame, Working
<1>3. \A v \in Writers \ {w} : Working(r, v) =>
        staging'[job[r][v].temp] = staging[job[r][v].temp]
  BY <1>1 DEF JobInv, OthersStay
<1>4. ~Working(r, w)' /\ job'[r][w].temp = NoTemp
  BY DEF Working, Idle
<1> QED
  BY <1>1, <1>2, <1>3, <1>4 DEF JobInv

\* Until it renames, a replacement concerns nobody.
LEMMA IndexKept ==
  ASSUME IInv, NEW r \in Runs, NEW w \in Writers, phase[r] \in Active, OthersSame(r, w),
         phase[r] = "leave" => Working(r, w),
         job[r][w].step # "renamed", job'[r][w].step # "renamed",
         job'[r][w].step = "cleaning" => ~job'[r][w].ok,
         UNCHANGED <<phase, outcome, target, listed, tracked, editing>>
  PROVE  IndexInv(r)'
<1>1. IndexInv(r)
  BY Held
<1>2. \A v \in Writers \ {w} : job'[r][v] = job[r][v]
  BY DEF OthersSame
<1>3. ~(phase[r] = "leave" /\ outcome[r] = "ok")
  BY <1>1 DEF IndexInv, Quiet
<1>4. \A p \in Paths \cup {NoPath} : Published(r, p)' <=> Published(r, p)
  BY DEF Published
<1>5. ASSUME NEW v \in Writers, job'[r][v].step = "renamed"
      PROVE  v # w /\ job[r][v].step = "renamed"
  BY <1>2, <1>5
<1>6. ASSUME NEW v \in Writers, job'[r][v].step = "cleaning", job'[r][v].ok
      PROVE  v # w /\ job[r][v].step = "cleaning" /\ job[r][v].ok
  BY <1>2, <1>6
<1>7. ASSUME phase[r] \in {"generate", "index", "format"}
      PROVE  /\ \A p \in Tracked : target[p].by = r =>
                  \/ p \in tracked[r]
                  \/ phase[r] = "generate" /\ editing[r].path = p
                  \/ \E v \in Writers : job'[r][v].path = p /\ job'[r][v].step = "renamed"
             /\ \A p \in tracked[r] \cup {Bundle, Declaration} : Published(r, p)'
             /\ \A v \in Writers :
                  /\ job'[r][v].step = "renamed" => Published(r, job[r][v].path)'
                  /\ job'[r][v].step = "cleaning" /\ job'[r][v].ok =>
                       job'[r][v].path \in tracked[r]
  BY <1>1, <1>2, <1>5, <1>6, <1>7 DEF IndexInv, Published
<1> QED
  BY <1>1, <1>2, <1>3, <1>5, <1>6, <1>7 DEF IndexInv, Published

\* A new staging directory has a name of its own.
NewStaging(d, r) == d.owner = r /\ ~d.marked /\ d.content = "none"

LEMMA BeginFacts ==
  ASSUME IInv, NEW r \in Runs, NEW w \in Writers, NEW p \in Staged, NEW sync \in BOOLEAN,
         MakeTemp(r, w, p, sync)
  PROVE  \E t \in Temps \ {Lookalike} :
           /\ staging[t] = NoStaging
           /\ NewStaging(staging'[t], r)
           /\ \A u \in Temps : u # t => staging'[u] = staging[u]
           /\ OthersSame(r, w)
           /\ job'[r][w] =
                [step |-> "marking", temp |-> t, path |-> p, sync |-> sync, ok |-> TRUE]
           /\ ~Working(r, w) /\ ThreadFree(r)
<1>1. PICK t \in Temps \ {Lookalike} :
        /\ staging[t] = NoStaging
        /\ staging' = [staging EXCEPT ![t].owner = r]
        /\ job' = [job EXCEPT ![r][w] =
             [step |-> "marking", temp |-> t, path |-> p, sync |-> sync, ok |-> TRUE]]
  BY DEF MakeTemp
<1>2. [step |-> "marking", temp |-> t, path |-> p, sync |-> sync, ok |-> TRUE] \in JobState
  BY DEF JobState, Steps
<1>3. WorkType /\ DiskType
  BY DEF IInv, TypeInv
<1>4. OthersSame(r, w) /\ job'[r][w] =
        [step |-> "marking", temp |-> t, path |-> p, sync |-> sync, ok |-> TRUE]
  BY <1>1, <1>2, <1>3, JobSet
<1>5. /\ staging'[t] = [staging[t] EXCEPT !.owner = r]
      /\ \A u \in Temps : u # t => staging'[u] = staging[u]
  BY <1>1, <1>3 DEF DiskType
<1>7. NewStaging(staging'[t], r)
  <2>1. staging[t] \in StagingState
    BY <1>3 DEF DiskType
  <2>2. staging[t] = NoStaging
    BY <1>1
  <2>3. ~staging[t].marked /\ staging[t].content = "none"
    BY <2>2 DEF NoStaging
  <2> QED
    BY <1>5, <2>1, <2>3 DEF StagingState, NewStaging
<1>6. ~Working(r, w) /\ ThreadFree(r)
  BY DEF MakeTemp
<1> QED
  BY <1>1, <1>4, <1>5, <1>6, <1>7

LEMMA BeginStep ==
  ASSUME IInv, NEW r \in Runs, NEW w \in Writers,
         BundleBegins(r, w) \/ WriteFile(r, w) \/ IndexBegins(r, w)
  PROVE  RunInv(r)'
<1>1. PICK p \in Staged, sync \in BOOLEAN :
        /\ MakeTemp(r, w, p, sync)
        /\ \/ phase[r] = "bundle" /\ Quiet(r) /\ p = Bundle /\ ~sync
           \/ phase[r] = "generate" /\ p \in Files
           \/ phase[r] = "index" /\ Quiet(r) /\ p = Index /\ sync
  BY DEF BundleBegins, WriteFile, IndexBegins, Staged
<1>2. UNCHANGED <<lock, phase, outcome, options, target, listed, editing, toFormat, tracked>>
  BY DEF BundleBegins, WriteFile, IndexBegins, run, books
<1> MakeTemp(r, w, p, sync)
  BY <1>1
<1>3. PICK t \in Temps \ {Lookalike} :
        /\ staging[t] = NoStaging
        /\ NewStaging(staging'[t], r)
        /\ \A u \in Temps : u # t => staging'[u] = staging[u]
        /\ OthersSame(r, w)
        /\ job'[r][w] = [step |-> "marking", temp |-> t, path |-> p, sync |-> sync, ok |-> TRUE]
        /\ ~Working(r, w) /\ ThreadFree(r)
  BY BeginFacts
<1>4. phase[r] \in Active
  BY <1>1 DEF Active, Early
<1>5. PhaseInv(r) /\ JobInv(r) /\ IndexInv(r)
  BY <1>4, Held
<1>6. /\ Working(r, w)' /\ job'[r][w].temp = t /\ job'[r][w].path = p
      /\ job'[r][w].sync = sync /\ job'[r][w].step = "marking"
  BY <1>3 DEF Working
<1>7. \A v \in Writers \ {w} : job'[r][v] = job[r][v] /\ (Working(r, v)' <=> Working(r, v))
  BY <1>3 DEF OthersSame, Working
<1>8. PhaseInv(r)'
  <2>1. \A v \in Writers : Working(r, v)' =>
          \/ job'[r][v].path = Bundle /\ phase[r] \in {"bundle", "leave"} /\ ~job'[r][v].sync
          \/ job'[r][v].path = Index /\ phase[r] = "index" /\ job'[r][v].sync
          \/ job'[r][v].path \in Files /\ phase[r] \in {"generate", "leave"}
    BY <1>1, <1>5, <1>6, <1>7 DEF PhaseInv
  <2>2. phase[r] \in {"bundle", "index"} => \A v \in Writers : Working(r, v)' => v = w
    BY <1>1, <1>7 DEF Quiet
  <2> QED
    BY <1>2, <1>5, <2>1, <2>2 DEF PhaseInv
<1>9. JobInv(r)'
  <2>1. staging'[t].owner = r
    BY <1>3 DEF NewStaging
  <2>2. \A v \in Writers \ {w} : Working(r, v) =>
          job[r][v].temp # t /\ staging'[job[r][v].temp] = staging[job[r][v].temp]
    <3>1. staging[t].owner # r
      BY <1>3, NamesAssumption DEF NoStaging
    <3> QED
      BY <1>3, <1>5, <3>1 DEF JobInv
  <2> QED
    BY <1>5, <1>6, <1>7, <2>1, <2>2 DEF JobInv
<1>10. IndexInv(r)'
  <2>1. job[r][w].step = "idle" /\ phase[r] # "leave"
    BY <1>1, <1>3 DEF Working
  <2> QED
    BY <1>2, <1>3, <1>4, <1>6, <2>1, IndexKept
<1> QED
  BY <1>2, <1>4, <1>8, <1>9, <1>10 DEF RunInv, Holding

\* The marker, the content, a failure: the replacement goes on.
LEMMA GoesOnStep ==
  ASSUME IInv, NEW r \in Runs, NEW w \in Writers,
         Mark(r, w) \/ WriteContent(r, w) \/ WriteFails(r, w) \/ GiveUp(r, w)
  PROVE  RunInv(r)'
<1> DEFINE t == job[r][w].temp
<1>1. /\ Working(r, w) /\ job[r][w].step \in Interruptible
      /\ UNCHANGED <<lock, phase, outcome, options, target, listed, editing, toFormat, tracked>>
  BY DEF Mark, WriteContent, WriteFails, GiveUp, At, Working, Interruptible, run, disk, books
<1>2. /\ phase[r] \in Active /\ Holding(r) /\ t \in Temps /\ job[r][w] \in JobState
      /\ staging[t].owner = r /\ staging[t] \in StagingState
      /\ job[r][w].step \in {"writing", "written"} => staging[t].marked
      /\ TypeInv /\ WorkType /\ DiskType
  BY <1>1, WorkerHolds DEF Holding, JobInv, IInv, TypeInv, WorkType, DiskType
<1>3. /\ OthersSame(r, w) /\ OthersStay(r, w)
      /\ Working(r, w)' /\ job'[r][w].temp = job[r][w].temp
      /\ job'[r][w].path = job[r][w].path /\ job'[r][w].sync = job[r][w].sync
      /\ job'[r][w].step \in {"writing", "written", "cleaning"}
      /\ job'[r][w].step = "cleaning" => ~job'[r][w].ok
      /\ staging'[t].owner = r
      /\ job'[r][w].step \in {"writing", "written"} => staging'[t].marked
      /\ job'[r][w].step = "written" => staging'[t].content = "whole"
  <2>1. CASE Mark(r, w)
    <3>1. OthersSame(r, w) /\ job'[r][w] = [job[r][w] EXCEPT !.step = "writing"]
      BY <1>2, <2>1, JobStep DEF Mark, Steps
    <3>2. staging' = [staging EXCEPT ![t] = [staging[t] EXCEPT !.marked = TRUE, !.content = "part"]]
      BY <1>2, <2>1 DEF Mark, DiskType
    <3>3. /\ staging'[t] = [staging[t] EXCEPT !.marked = TRUE, !.content = "part"]
          /\ OthersStay(r, w)
      BY <1>2, <3>2 DEF DiskType, OthersStay
    <3> QED
      BY <1>2, <3>1, <3>3 DEF JobState, StagingState, Working
  <2>2. CASE WriteContent(r, w)
    <3>1. OthersSame(r, w) /\ job'[r][w] = [job[r][w] EXCEPT !.step = "written"]
      BY <1>2, <2>2, JobStep DEF WriteContent, Steps
    <3>2. staging' = [staging EXCEPT ![t] = [staging[t] EXCEPT !.content = "whole"]]
      BY <1>2, <2>2 DEF WriteContent, DiskType
    <3>3. /\ staging'[t] = [staging[t] EXCEPT !.content = "whole"]
          /\ OthersStay(r, w)
      BY <1>2, <3>2 DEF DiskType, OthersStay
    <3>4. job[r][w].step = "writing"
      BY <2>2 DEF WriteContent, At
    <3> QED
      BY <1>2, <3>1, <3>3, <3>4 DEF JobState, StagingState, Working
  <2>3. CASE WriteFails(r, w) \/ GiveUp(r, w)
    <3>1. job' = [job EXCEPT ![r][w] = [job[r][w] EXCEPT !.step = "cleaning", !.ok = FALSE]]
      <4>1. CASE WriteFails(r, w)
        BY <1>2, <4>1, CutOne, ZenonT(60) DEF WriteFails
      <4>2. CASE GiveUp(r, w)
        BY <1>2, <4>2, CutOne DEF GiveUp
      <4> QED
        BY <2>3, <4>1, <4>2
    <3>2. OthersSame(r, w) /\ job'[r][w] = [job[r][w] EXCEPT !.step = "cleaning", !.ok = FALSE]
      BY <1>2, <3>1, JobFails
    <3>3. staging' = staging
      BY <2>3 DEF WriteFails, GiveUp, disk
    <3> QED
      BY <1>2, <3>2, <3>3 DEF JobState, Working, OthersStay
  <2> QED
    BY <2>1, <2>2, <2>3
<1>4. PhaseInv(r)'
  BY <1>1, <1>3, PhaseKept
<1>5. JobInv(r)'
  BY <1>1, <1>3, JobKept
<1>6. IndexInv(r)'
  BY <1>1, <1>2, <1>3, IndexKept DEF Interruptible
<1> QED
  BY <1>1, <1>2, <1>4, <1>5, <1>6, SMTT(40) DEF RunInv, Holding

\* The rename publishes what was written to the end.
LEMMA RenameFacts ==
  ASSUME IInv, NEW r \in Runs, NEW w \in Writers, Rename(r, w)
  PROVE  /\ Working(r, w) /\ job[r][w].step = "written" /\ job[r][w].path \in Staged
         /\ OthersSame(r, w) /\ OthersStay(r, w)
         /\ job'[r][w] = [job[r][w] EXCEPT !.step =
              IF job[r][w].path = Bundle THEN "cleaning" ELSE "renamed"]
         /\ staging'[job[r][w].temp] = [staging[job[r][w].temp] EXCEPT !.content = "none"]
         /\ target' = [target EXCEPT ![job[r][w].path] = [by |-> r, torn |-> FALSE]]
         /\ UNCHANGED <<lock, phase, outcome, options, editing, toFormat, tracked>>
<1>1. Working(r, w) /\ job[r][w].step = "written"
  BY DEF Rename, At, Working
<1>2. job[r][w].path \in Staged /\ job[r][w].temp \in Temps
  BY <1>1, WorkerHolds
<1>3. staging[job[r][w].temp].content = "whole"
  BY <1>1, WorkerHolds DEF Holding, JobInv
<1>4. target' = [target EXCEPT ![job[r][w].path] = [by |-> r, torn |-> FALSE]]
  BY <1>3 DEF Rename
<1>5. WorkType /\ DiskType
  BY DEF IInv, TypeInv
<1>6. OthersSame(r, w) /\ job'[r][w] = [job[r][w] EXCEPT !.step =
        IF job[r][w].path = Bundle THEN "cleaning" ELSE "renamed"]
  BY <1>5, JobStep DEF Rename, Steps
<1>7. staging' = [staging EXCEPT ![job[r][w].temp] =
        [staging[job[r][w].temp] EXCEPT !.content = "none"]]
  BY <1>2, <1>5 DEF Rename, DiskType
<1>8. /\ staging'[job[r][w].temp] = [staging[job[r][w].temp] EXCEPT !.content = "none"]
      /\ OthersStay(r, w)
  BY <1>2, <1>5, <1>7 DEF DiskType, OthersStay
<1> QED
  BY <1>1, <1>2, <1>4, <1>6, <1>8 DEF Rename, run, books

LEMMA RenameStep ==
  ASSUME IInv, NEW r \in Runs, NEW w \in Writers, Rename(r, w)
  PROVE  RunInv(r)'
<1> DEFINE p == job[r][w].path
           t == job[r][w].temp
<1>1. /\ Working(r, w) /\ job[r][w].step = "written" /\ p \in Staged
      /\ OthersSame(r, w) /\ OthersStay(r, w)
      /\ job'[r][w] = [job[r][w] EXCEPT !.step = IF p = Bundle THEN "cleaning" ELSE "renamed"]
      /\ staging'[t] = [staging[t] EXCEPT !.content = "none"]
      /\ target' = [target EXCEPT ![p] = [by |-> r, torn |-> FALSE]]
      /\ UNCHANGED <<lock, phase, outcome, options, editing, toFormat, tracked>>
      /\ listed' = IF p = Index THEN tracked[r] \cap (Files \cup {Lib}) ELSE listed
  BY RenameFacts DEF Rename
<1>2. /\ phase[r] \in Active /\ Holding(r) /\ t \in Temps /\ job[r][w] \in JobState
      /\ staging[t].owner = r /\ staging[t] \in StagingState /\ DiskType
  BY <1>1, WorkerHolds DEF Holding, JobInv, IInv, TypeInv, WorkType, DiskType
<1>3. /\ Working(r, w)' /\ job'[r][w].temp = t /\ job'[r][w].path = p
      /\ job'[r][w].sync = job[r][w].sync
      /\ job'[r][w].step = IF p = Bundle THEN "cleaning" ELSE "renamed"
      /\ staging'[t].owner = r
  BY <1>1, <1>2 DEF JobState, StagingState, Working
<1>4. PhaseInv(r)'
  BY <1>1, <1>3, PhaseKept
<1>5. JobInv(r)'
  BY <1>1, <1>3, JobKept
<1>6. IndexInv(r)'
  <2>1. /\ p \in Paths /\ target'[p] = [by |-> r, torn |-> FALSE]
        /\ \A q \in Paths \ {p} : target'[q] = target[q]
    BY <1>1, <1>2 DEF DiskType, Paths
  <2>2. editing[r].path # p
    <3>1. editing[r] = NoEdit \/ editing[r].path = Lib
      BY <1>1, WorkingPhases
    <3> QED
      BY <1>1, <2>1, <3>1, NamesAssumption DEF NoEdit, Staged
  <2>3. ASSUME NEW q \in Paths, q = p
        PROVE  Published(r, q)'
    BY <1>1, <2>1, <2>2, <2>3 DEF Published
  <2>4. ASSUME NEW q \in Paths, Published(r, q)
        PROVE  Published(r, q)'
    BY <1>1, <2>1, <2>3, <2>4 DEF Published
  <2>5. \A v \in Writers \ {w} : job'[r][v] = job[r][v]
    BY <1>1 DEF OthersSame
  <2>6. PhaseInv(r) /\ IndexInv(r)
    BY <1>2 DEF Holding
  <2>7. CASE phase[r] = "bundle"
    <3>1. p = Bundle /\ Bundle \notin Tracked /\ Tracked \subseteq Paths
      BY <1>1, <2>7, WorkingPhases, NamesAssumption DEF Tracked, Paths, Staged
    <3>2. \A v \in Writers : job'[r][v].step = "cleaning" /\ job'[r][v].ok => Published(r, Bundle)'
      BY <2>1, <2>3, <3>1
    <3> QED
      BY <1>1, <2>1, <2>6, <2>7, <3>1, <3>2 DEF IndexInv, Early
  <2>8. CASE phase[r] = "leave"
    BY <1>1, <2>8, WorkingPhases, SMTT(40) DEF IndexInv, Early
  <2>9. CASE phase[r] \in {"generate", "index"}
    <3>1. p \in Files \cup {Index} /\ p # Bundle /\ (phase[r] = "index" => p = Index)
          /\ (phase[r] = "generate" => p \in Files)
      BY <1>1, <2>9, WorkingPhases, NamesAssumption
    <3>2. \A q \in Tracked : target'[q].by = r =>
            \/ q \in tracked[r]
            \/ phase[r] = "generate" /\ editing[r].path = q
            \/ \E v \in Writers : job'[r][v].path = q /\ job'[r][v].step = "renamed"
      <4> SUFFICES ASSUME NEW q \in Tracked, target'[q].by = r
                   PROVE  \/ q \in tracked[r]
                          \/ phase[r] = "generate" /\ editing[r].path = q
                          \/ \E v \in Writers : job'[r][v].path = q /\ job'[r][v].step = "renamed"
        OBVIOUS
      <4>1. CASE q = p
        BY <1>3, <3>1, <4>1
      <4>2. CASE q # p
        <5>1. target[q].by = r
          BY <2>1, <4>2 DEF Tracked, Paths, Staged
        <5>2. \/ q \in tracked[r]
              \/ phase[r] = "generate" /\ editing[r].path = q
              \/ \E v \in Writers : job[r][v].path = q /\ job[r][v].step = "renamed"
          BY <2>6, <2>9, <5>1 DEF IndexInv
        <5>3. job[r][w].step # "renamed"
          BY <1>1
        <5> QED
          BY <2>5, <5>2, <5>3
      <4> QED
        BY <4>1, <4>2
    <3>3. \A q \in tracked[r] \cup {Bundle, Declaration} : Published(r, q)'
      <4>1. tracked[r] \cup {Bundle, Declaration} \subseteq Paths
        BY DEF IInv, TypeInv, BookType, Tracked, Paths, Staged
      <4> QED
        BY <2>4, <2>6, <2>9, <4>1 DEF IndexInv
    <3>4. ASSUME NEW v \in Writers
          PROVE  /\ job'[r][v].step = "renamed" => Published(r, job[r][v].path)'
                 /\ job'[r][v].step = "cleaning" /\ job'[r][v].ok => job'[r][v].path \in tracked[r]
      <4>1. CASE v = w
        BY <1>3, <2>1, <2>3, <3>1, <4>1
      <4>2. CASE v # w
        <5>1. job'[r][v] = job[r][v]
          BY <2>5, <4>2
        <5>2. ASSUME job[r][v].step = "renamed"
              PROVE  Published(r, job[r][v].path)'
          <6>1. job[r][v].path \in Paths
            BY <5>2, WorkerHolds DEF Working, Paths
          <6>2. Published(r, job[r][v].path)
            BY <2>6, <2>9, <5>2 DEF IndexInv
          <6> QED
            BY <2>4, <5>1, <6>1, <6>2
        <5> QED
          BY <2>6, <2>9, <5>1, <5>2 DEF IndexInv
      <4> QED
        BY <4>1, <4>2
    <3>5. editing[r] # NoEdit => target'[editing[r].path].by = r
      <4>1. editing[r] # NoEdit => editing[r].path = Lib /\ Lib \in Paths
        BY <1>1, WorkingPhases DEF Paths
      <4> QED
        BY <2>1, <2>2, <2>6, <2>9, <4>1, WorkingPhases, <1>1 DEF IndexInv
    <3>6. phase[r] = "index" => listed' = tracked[r] \cap (Files \cup {Lib})
      BY <1>1, <3>1
    <3> QED
      BY <1>1, <2>6, <2>9, <3>2, <3>3, <3>4, <3>5, <3>6 DEF IndexInv, Early, Published
  <2> QED
    BY <1>1, <2>7, <2>8, <2>9, WorkingPhases
<1> QED
  BY <1>1, <1>2, <1>4, <1>5, <1>6, SMTT(40) DEF RunInv, Holding

\* What was renamed becomes known to the tracker.
LEMMA TrackWriteStep ==
  ASSUME IInv, NEW r \in Runs, NEW w \in Writers, TrackWrite(r, w)
  PROVE  RunInv(r)'
<1> DEFINE p == job[r][w].path
           t == job[r][w].temp
<1>1. /\ Working(r, w) /\ job[r][w].step = "renamed"
      /\ tracked' = [tracked EXCEPT ![r] = @ \cup {p}] /\ Step(r, w, "cleaning")
      /\ UNCHANGED <<lock, phase, outcome, options, target, listed, staging, editing, toFormat>>
  BY DEF TrackWrite, At, Working, run, disk
<1>2. /\ phase[r] \in Active /\ Holding(r) /\ t \in Temps /\ job[r][w] \in JobState
      /\ staging[t].owner = r /\ p \in Files \cup {Index} /\ WorkType
      /\ tracked'[r] = tracked[r] \cup {p}
  BY <1>1, WorkerHolds DEF Holding, JobInv, IInv, TypeInv, WorkType, BookType
<1>3. OthersSame(r, w) /\ job'[r][w] = [job[r][w] EXCEPT !.step = "cleaning"]
  BY <1>1, <1>2, JobStep DEF Steps
<1>4. /\ Working(r, w)' /\ job'[r][w].temp = t /\ job'[r][w].path = p
      /\ job'[r][w].sync = job[r][w].sync /\ job'[r][w].step = "cleaning"
  BY <1>2, <1>3 DEF JobState, Working
<1>5. PhaseInv(r)'
  BY <1>1, <1>3, <1>4, PhaseKept
<1>6. JobInv(r)'
  BY <1>1, <1>2, <1>3, <1>4, JobKept DEF OthersStay
<1>7. IndexInv(r)'
  <2>1. PhaseInv(r) /\ IndexInv(r)
    BY <1>2 DEF Holding
  <2>2. \A v \in Writers \ {w} : job'[r][v] = job[r][v]
    BY <1>3 DEF OthersSame
  <2>3. CASE phase[r] = "leave"
    BY <1>1, <2>3, WorkingPhases DEF IndexInv, Early
  <2>4. CASE phase[r] \in {"generate", "index"}
    <3>1. Published(r, p)
      BY <1>1, <2>1, <2>4 DEF IndexInv
    <3>2. \A q \in tracked'[r] \cup {Bundle, Declaration} : Published(r, q)'
      BY <1>1, <1>2, <2>1, <2>4, <3>1 DEF IndexInv, Published
    <3>3. \A q \in Tracked : target[q].by = r =>
            \/ q \in tracked'[r]
            \/ phase[r] = "generate" /\ editing[r].path = q
            \/ \E v \in Writers : job'[r][v].path = q /\ job'[r][v].step = "renamed"
      BY <1>2, <2>1, <2>2, <2>4 DEF IndexInv
    <3>4. \A v \in Writers :
            /\ job'[r][v].step = "renamed" => Published(r, job[r][v].path)'
            /\ job'[r][v].step = "cleaning" /\ job'[r][v].ok => job'[r][v].path \in tracked'[r]
      BY <1>1, <1>2, <1>4, <2>1, <2>2, <2>4 DEF IndexInv, Published
    <3>5. p # Lib /\ Index \notin Files \cup {Lib}
      BY <1>2, NamesAssumption
    <3>6. phase[r] = "index" => /\ listed = tracked'[r] \cap (Files \cup {Lib})
                                /\ p = Index
      BY <1>1, <1>2, <2>1, <3>5, WorkingPhases DEF IndexInv
    <3> QED
      BY <1>1, <1>2, <2>1, <2>4, <3>2, <3>3, <3>4, <3>5, <3>6 DEF IndexInv, Early, Published
  <2>5. phase[r] # "bundle"
    BY <1>1, <1>2, WorkingPhases, NamesAssumption
  <2> QED
    BY <1>1, <2>3, <2>4, <2>5, WorkingPhases
<1> QED
  BY <1>1, <1>2, <1>5, <1>6, <1>7 DEF RunInv, Holding

\* The end of a replacement may be the end of its phase.
StaysOn == UNCHANGED <<phase, outcome, toFormat>>
BundleDone(r, w) ==
  /\ phase[r] = "bundle" /\ job[r][w].path = Bundle /\ job[r][w].ok
  /\ Goto(r, "declare") /\ UNCHANGED <<outcome, toFormat>>
IndexDone(r, w) ==
  /\ job[r][w].path = Index /\ job[r][w].ok
  /\ Goto(r, "format") /\ UNCHANGED outcome
  /\ toFormat' = [toFormat EXCEPT ![r] = IF options[r].format THEN Present ELSE {}]
BreaksOff(r, w) ==
  /\ job[r][w].path \notin Files
  /\ Goto(r, "leave") /\ outcome' = [outcome EXCEPT ![r] = "failed"] /\ UNCHANGED toFormat

LEMMA GoneStep ==
  ASSUME IInv, NEW r \in Runs, NEW w \in Writers, job[r][w].step = "cleaning",
         OthersSame(r, w), OthersStay(r, w), job'[r][w] = Idle,
         UNCHANGED <<lock, options, target, listed, editing, tracked>>,
         StaysOn \/ BundleDone(r, w) \/ IndexDone(r, w) \/ BreaksOff(r, w)
  PROVE  RunInv(r)'
<1>1. Working(r, w) /\ TypeInv
  BY DEF Working, IInv
<1>2. phase[r] \in Active /\ PhaseInv(r) /\ IndexInv(r)
  BY <1>1, WorkerHolds DEF Holding
<1>3. JobInv(r)'
  BY <1>1, JobGone
<1>4. /\ \A v \in Writers \ {w} : job'[r][v] = job[r][v] /\ (Working(r, v)' <=> Working(r, v))
      /\ ~Working(r, w)' /\ job'[r][w].step = "idle"
  BY DEF OthersSame, Working, Idle
<1>5. CASE StaysOn
  <2>1. PhaseInv(r)'
    BY <1>2, <1>4, <1>5 DEF PhaseInv, StaysOn
  <2>2. IndexInv(r)'
    <3>1. \A q \in Tracked : \A v \in Writers :
            job[r][v].path = q /\ job[r][v].step = "renamed" =>
              job'[r][v].path = q /\ job'[r][v].step = "renamed"
      BY <1>4
    <3>2. \A v \in Writers : job'[r][v].step \in {"renamed", "cleaning"} => job'[r][v] = job[r][v]
      BY <1>4
    <3>3. ASSUME phase[r] \in {"generate", "index", "format"}
          PROVE  /\ \A p \in Tracked : target[p].by = r =>
                      \/ p \in tracked[r]
                      \/ phase[r] = "generate" /\ editing[r].path = p
                      \/ \E v \in Writers : job'[r][v].path = p /\ job'[r][v].step = "renamed"
                 /\ \A p \in tracked[r] \cup {Bundle, Declaration} : Published(r, p)'
                 /\ \A v \in Writers :
                      /\ job'[r][v].step = "renamed" => Published(r, job[r][v].path)'
                      /\ job'[r][v].step = "cleaning" /\ job'[r][v].ok =>
                           job'[r][v].path \in tracked[r]
      BY <1>2, <3>1, <3>2, <3>3 DEF IndexInv, Published
    <3>4. ~(phase[r] = "leave" /\ outcome[r] = "ok")
      BY <1>1, WorkingPhases
    <3> QED
      BY <1>2, <1>4, <1>5, <3>2, <3>3, <3>4 DEF IndexInv, StaysOn, Published
  <2> QED
    BY <1>2, <1>3, <1>5, <2>1, <2>2 DEF RunInv, Holding, StaysOn
<1>6. CASE BundleDone(r, w)
  <2>1. /\ phase[r] = "bundle" /\ phase'[r] = "declare"
        /\ outcome' = outcome /\ toFormat' = toFormat
    BY <1>1, <1>6 DEF BundleDone, Goto, TypeInv, RunType
  <2>2. NoWriter(r)' /\ editing[r] = NoEdit /\ toFormat[r] = {}
    BY <1>1, <1>4, <2>1, WorkingPhases DEF NoWriter
  <2>3. PhaseInv(r)'
    BY <1>2, <2>1, <2>2 DEF PhaseInv, NoWriter
  <2>4. Published(r, Bundle)
    BY <1>2, <1>6 DEF IndexInv, BundleDone
  <2>5. IndexInv(r)'
    BY <1>2, <2>1, <2>2, <2>4 DEF IndexInv, Early, Published
  <2> QED
    BY <1>3, <2>1, <2>3, <2>5 DEF RunInv, Holding, Active, Early
<1>7. CASE IndexDone(r, w)
  <2>1. phase[r] = "index"
    BY <1>1, <1>2, <1>7, NamesAssumption DEF PhaseInv, IndexDone
  <2>2. /\ phase'[r] = "format" /\ outcome' = outcome
        /\ toFormat'[r] # {} => options[r].format
    BY <1>1, <1>7 DEF IndexDone, Goto, TypeInv, RunType, WorkType
  <2>3. NoWriter(r)' /\ editing[r] = NoEdit
    BY <1>1, <1>4, <2>1, WorkingPhases DEF NoWriter
  <2>4. PhaseInv(r)'
    BY <1>2, <2>1, <2>2, <2>3 DEF PhaseInv, NoWriter
  <2>5. Index \in tracked[r] /\ listed = tracked[r] \cap (Files \cup {Lib})
    BY <1>2, <1>7, <2>1 DEF IndexInv, IndexDone
  <2>6. \A p \in tracked[r] \cup {Bundle, Declaration} : Published(r, p)'
    BY <1>2, <2>1 DEF IndexInv, Published
  <2>7. \A p \in Tracked : target[p].by = r => p \in tracked[r]
    <3>1. \A v \in Writers : job[r][v].step # "renamed"
      BY <1>1, <2>1, WorkingPhases DEF Working
    <3> QED
      BY <1>2, <2>1, <3>1 DEF IndexInv
  <2>8. IndexInv(r)'
    BY <2>2, <2>3, <2>5, <2>6, <2>7 DEF IndexInv, Early, NoWriter, Working
  <2> QED
    BY <1>3, <2>2, <2>4, <2>8 DEF RunInv, Holding, Active
<1>8. CASE BreaksOff(r, w)
  <2>1. phase'[r] = "leave" /\ outcome'[r] = "failed" /\ toFormat' = toFormat
    BY <1>1, <1>8 DEF BreaksOff, Goto, TypeInv, RunType
  <2>2. editing[r] = NoEdit /\ toFormat[r] = {} /\ phase[r] \in {"bundle", "index", "leave"}
    BY <1>1, <1>8, WorkingPhases DEF BreaksOff
  <2>3. \A v \in Writers : Working(r, v)' =>
          \/ job'[r][v].path = Bundle /\ ~job'[r][v].sync
          \/ job'[r][v].path \in Files
    BY <1>1, <1>2, <1>4, <2>2, WorkingPhases DEF PhaseInv
  <2>4. PhaseInv(r)'
    BY <1>2, <2>1, <2>2, <2>3 DEF PhaseInv
  <2>5. IndexInv(r)'
    BY <2>1 DEF IndexInv, Early
  <2> QED
    BY <1>3, <2>1, <2>4, <2>5 DEF RunInv, Holding, Active
<1> QED
  BY <1>5, <1>6, <1>7, <1>8

LEMMA RemoveFacts ==
  ASSUME IInv, NEW r \in Runs, NEW w \in Writers, Remove(r, w)
  PROVE  /\ job[r][w].step = "cleaning" /\ OthersSame(r, w) /\ OthersStay(r, w)
         /\ job'[r][w] = Idle /\ staging'[job[r][w].temp] = NoStaging
         /\ job[r][w].temp \in Temps \ {Lookalike}
         /\ UNCHANGED <<lock, options, target, listed, editing, books>>
<1>1. job[r][w].step = "cleaning" /\ Working(r, w)
  BY DEF Remove, At, Working
<1>2. job[r][w].temp \in Temps \ {Lookalike} /\ WorkType /\ DiskType
  BY <1>1, WorkerHolds DEF IInv, TypeInv
<1>3. OthersSame(r, w) /\ job'[r][w] = Idle
  BY <1>2, JobIdle DEF Remove
<1>4. RemoveDirectory(job[r][w].temp)
  BY DEF Remove
<1>5. OthersStay(r, w) /\ staging'[job[r][w].temp] = NoStaging
  BY <1>2, <1>4, Removing DEF OthersStay
<1> QED
  BY <1>1, <1>2, <1>3, <1>5 DEF Remove

\* While its directory is emptied, a replacement concerns nobody any more.
LEMMA UnlinkFacts ==
  ASSUME IInv, NEW r \in Runs, NEW w \in Writers, Unlink(r, w)
  PROVE  /\ job[r][w].step = "cleaning" /\ job[r][w].temp \in Temps \ {Lookalike}
         /\ Working(r, w) /\ OthersStay(r, w) /\ EmptyOne(job[r][w].temp)
         /\ staging'[job[r][w].temp].owner = staging[job[r][w].temp].owner
         /\ staging'[job[r][w].temp].marked => staging[job[r][w].temp].marked
         /\ staging'[job[r][w].temp].removal
         /\ UNCHANGED <<run, target, listed, job, editing, toFormat, books>>
<1>1. job[r][w].step = "cleaning" /\ Working(r, w) /\ EmptyOne(job[r][w].temp)
  BY DEF Unlink, At, Working
<1>2. job[r][w].temp \in Temps \ {Lookalike} /\ DiskType
  BY <1>1, WorkerHolds DEF IInv, TypeInv
<1> QED
  BY <1>1, <1>2, Emptying DEF Unlink, OthersStay, work

LEMMA UnlinkStep ==
  ASSUME IInv, NEW r \in Runs, NEW w \in Writers, Unlink(r, w)
  PROVE  RunInv(r)'
<1>1. Working(r, w) /\ job[r][w].step = "cleaning" /\ OthersStay(r, w)
  BY UnlinkFacts
<1>2. UNCHANGED <<lock, phase, outcome, options, target, listed, job, editing, toFormat, tracked>>
  BY UnlinkFacts DEF run, books
<1>3. phase[r] \in Active /\ PhaseInv(r) /\ JobInv(r) /\ IndexInv(r)
  BY <1>1, WorkerHolds DEF Holding
<1>4. OthersSame(r, w) /\ Working(r, w)'
  BY <1>1, <1>2 DEF OthersSame, Working
<1>5. PhaseInv(r)'
  BY <1>1, <1>2, <1>4, PhaseKept
<1>6. staging'[job[r][w].temp].owner = r
  BY <1>1, <1>3, UnlinkFacts DEF JobInv
<1>7. JobInv(r)'
  BY <1>1, <1>2, <1>4, <1>6, JobKept
<1>8. IndexInv(r)'
  BY <1>2, <1>3 DEF IndexInv, Published, Quiet, Working
<1> QED
  BY <1>2, <1>3, <1>5, <1>7, <1>8 DEF RunInv, Holding

LEMMA RemoveStep ==
  ASSUME IInv, NEW r \in Runs, NEW w \in Writers, Remove(r, w)
  PROVE  RunInv(r)'
<1>1. StaysOn \/ BundleDone(r, w) \/ IndexDone(r, w) \/ BreaksOff(r, w)
  BY DEF Remove, Succeeded, Failed, StaysOn, BundleDone, IndexDone, BreaksOff
<1>2. UNCHANGED <<lock, options, target, listed, editing, tracked>>
  BY DEF Remove, books
<1> QED
  BY <1>1, <1>2, RemoveFacts, GoneStep

LEMMA RemoveFailsStep ==
  ASSUME IInv, NEW r \in Runs, NEW w \in Writers, RemoveFails(r, w)
  PROVE  RunInv(r)'
<1>1. StaysOn \/ BreaksOff(r, w)
  BY DEF RemoveFails, Failed, StaysOn, BreaksOff
<1>2. UNCHANGED <<lock, options, target, listed, staging, editing, tracked>>
  BY DEF RemoveFails, disk
<1>3. job[r][w].step = "cleaning" /\ WorkType
  BY DEF RemoveFails, At, IInv, TypeInv
<1>4. OthersSame(r, w) /\ job'[r][w] = Idle
  BY <1>3, JobIdle DEF RemoveFails
<1>5. OthersStay(r, w)
  BY <1>2 DEF OthersStay
<1> QED
  BY <1>1, <1>2, <1>3, <1>4, <1>5, GoneStep

LEMMA RunStep ==
  ASSUME IInv, NEW r \in Runs, StepOf(r)
  PROVE  \A q \in Runs : RunInv(q)'
<1>1. RunInv(r)'
  <2>1. CASE Workflow(r)
    BY <2>1, AcquireStep, RefusedStep, GenerateEndsStep, FinishStep, ReleaseStep, StopStep,
       CrashStep, BeginStep, GoesOnStep, RenameStep, TrackWriteStep, UnlinkStep, RemoveStep,
       RemoveFailsStep
       DEF Workflow, Replacement
  <2>2. CASE Preparation(r)
    BY <2>2, PreparationStep
  <2>3. CASE InPlace(r)
    BY <2>3, DeclareBeginsStep, DeclareEndsStep, CopyBeginsStep, CopyEndsStep, StopStep,
       FormatBeginsStep, FormatEndsStep DEF InPlace
  <2> QED
    BY <2>1, <2>2, <2>3 DEF StepOf
<1> QED
  BY <1>1, OtherRuns

-----------------------------------------------------------------------------
(* Staging directories                                                     *)

\* What a step of run r can do to a staging directory
StagingMove(r, t) ==
  \/ staging'[t] = staging[t]
  \/ staging'[t] = NoStaging
  \/ /\ staging'[t].owner = staging[t].owner /\ staging'[t].removal
     /\ staging'[t].marked => staging[t].marked
  \/ /\ t # Lookalike /\ NewStaging(staging'[t], r)
     /\ \E w \in Writers : job'[r][w].temp = t
  \/ /\ t # Lookalike /\ phase[r] \in Active
     /\ staging'[t].owner = r /\ (staging'[t].content # "none" => staging'[t].marked)
     /\ \E w \in Writers : job'[r][w].temp = t

LEMMA StagingMoves ==
  ASSUME IInv, NEW r \in Runs, StepOf(r), NEW t \in Temps
  PROVE  StagingMove(r, t)
<1>1. CASE staging' = staging
  BY <1>1 DEF StagingMove
<1>2. CASE UnlinkEntry(r) \/ UnlinkDirectory(r)
  <2>1. removing[r] \in Temps /\ (EmptyOne(removing[r]) \/ RemoveDirectory(removing[r]))
    BY <1>2 DEF UnlinkEntry, UnlinkDirectory, IInv, TypeInv, WorkType
  <2>2. DiskType
    BY DEF IInv, TypeInv
  <2> QED
    BY <2>1, <2>2, Emptying, Removing DEF StagingMove
<1>3. ASSUME NEW w \in Writers, BundleBegins(r, w) \/ WriteFile(r, w) \/ IndexBegins(r, w)
      PROVE  StagingMove(r, t)
  <2>1. PICK p \in Staged, sync \in BOOLEAN : MakeTemp(r, w, p, sync)
    BY <1>3 DEF BundleBegins, WriteFile, IndexBegins, Staged
  <2> MakeTemp(r, w, p, sync)
    BY <2>1
  <2>2. PICK u \in Temps \ {Lookalike} :
          /\ staging[u] = NoStaging
          /\ NewStaging(staging'[u], r)
          /\ \A v \in Temps : v # u => staging'[v] = staging[v]
          /\ OthersSame(r, w)
          /\ job'[r][w] = [step |-> "marking", temp |-> u, path |-> p, sync |-> sync, ok |-> TRUE]
          /\ ~Working(r, w) /\ ThreadFree(r)
    BY BeginFacts
  <2>3. job'[r][w].temp = u
    BY <2>2
  <2> QED
    BY <2>2, <2>3 DEF StagingMove
<1>4. ASSUME NEW w \in Writers, Mark(r, w) \/ WriteContent(r, w) \/ Rename(r, w)
      PROVE  StagingMove(r, t)
  <2> DEFINE u == job[r][w].temp
  <2>1. Working(r, w) /\ job[r][w].step \in {"marking", "writing", "written"}
    BY <1>4 DEF Mark, WriteContent, Rename, At, Working
  <2>2. /\ u \in Temps \ {Lookalike} /\ staging[u].owner = r /\ phase[r] \in Active
        /\ job[r][w].step \in {"writing", "written"} => staging[u].marked
    BY <2>1, WorkerHolds DEF Holding, JobInv
  <2>3. WorkType /\ DiskType /\ staging[u] \in StagingState /\ job[r][w] \in JobState
    BY <2>2 DEF IInv, TypeInv, WorkType, DiskType
  <2>4. job'[r][w].temp = u
    <3>1. PICK s \in Steps : Step(r, w, s)
      BY <1>4 DEF Mark, WriteContent, Rename, Steps
    <3> Step(r, w, s)
      BY <3>1
    <3>2. job'[r][w] = [job[r][w] EXCEPT !.step = s]
      BY <2>3, JobStep
    <3> QED
      BY <2>3, <3>2, SMTT(40) DEF JobState
  <2>5. CASE Mark(r, w)
    <3>1. staging' = [staging EXCEPT ![u] = [staging[u] EXCEPT !.marked = TRUE, !.content = "part"]]
      BY <2>2, <2>3, <2>5 DEF Mark, DiskType
    <3>2. /\ staging'[u] = [staging[u] EXCEPT !.marked = TRUE, !.content = "part"]
          /\ \A v \in Temps : v # u => staging'[v] = staging[v]
      BY <2>2, <2>3, <3>1 DEF DiskType
    <3>3. staging'[u].owner = r /\ staging'[u].marked
      BY <2>2, <2>3, <3>2 DEF StagingState
    <3> QED
      BY <2>2, <2>4, <3>2, <3>3 DEF StagingMove
  <2>6. ASSUME NEW c \in {"none", "whole"}, staging' = [staging EXCEPT ![u].content = c],
               job[r][w].step \in {"writing", "written"}
        PROVE  StagingMove(r, t)
    <3>1. staging' = [staging EXCEPT ![u] = [staging[u] EXCEPT !.content = c]]
      BY <2>2, <2>3, <2>6 DEF DiskType
    <3>2. /\ staging'[u] = [staging[u] EXCEPT !.content = c]
          /\ \A v \in Temps : v # u => staging'[v] = staging[v]
      BY <2>2, <2>3, <3>1 DEF DiskType
    <3>3. staging'[u].owner = r /\ staging'[u].marked
      BY <2>2, <2>3, <2>6, <3>2 DEF StagingState
    <3> QED
      BY <2>2, <2>4, <3>2, <3>3 DEF StagingMove
  <2> QED
    BY <1>4, <2>5, <2>6, SMTT(40) DEF WriteContent, Rename, At
<1>5. ASSUME NEW w \in Writers, Remove(r, w)
      PROVE  StagingMove(r, t)
  BY <1>5, RemoveFacts DEF OthersStay, StagingMove
<1>7. ASSUME NEW w \in Writers, Unlink(r, w)
      PROVE  StagingMove(r, t)
  BY <1>7, UnlinkFacts DEF OthersStay, StagingMove
<1>6. staging' = staging \/ UnlinkEntry(r) \/ UnlinkDirectory(r)
      \/ (\E w \in Writers : BundleBegins(r, w) \/ WriteFile(r, w) \/ IndexBegins(r, w))
      \/ (\E w \in Writers : Mark(r, w) \/ WriteContent(r, w) \/ Rename(r, w))
      \/ (\E w \in Writers : Unlink(r, w) \/ Remove(r, w))
  <2>1. CASE Workflow(r)
    BY <2>1 DEF Workflow, Acquire, Refused, GenerateEnds, Finish, Release, Stop, Crash,
                Replacement, TrackWrite, WriteFails, GiveUp, RemoveFails, disk
  <2>2. CASE Preparation(r)
    BY <2>2 DEF Preparation, SweepBegins, Begin, SweepEnds, SweepFails, CleanFile,
                CleanDirectory, CleanEnds, disk
  <2>3. CASE InPlace(r)
    BY <2>3 DEF InPlace, DeclareBegins, DeclareEnds, CopyBegins, CopyEnds, CopyFails,
                FormatBegins, FormatEnds, disk
  <2> QED
    BY <2>1, <2>2, <2>3 DEF StepOf
<1> QED
  BY <1>1, <1>2, <1>3, <1>4, <1>5, <1>6, <1>7

\* A replacement lets go of its directory by removing it, by failing to, or by
\* the death of its run.
LEMMA TempsKept ==
  ASSUME IInv, NEW r \in Runs, StepOf(r), NEW w \in Writers, job[r][w].temp \in Temps
  PROVE  \/ phase'[r] = "dead" \/ job[r][w].temp \in stuck'[r]
         \/ job'[r][w].temp = job[r][w].temp
         \/ staging'[job[r][w].temp] = NoStaging
<1> DEFINE Kept == job'[r][w].temp = job[r][w].temp
<1>1. WorkType /\ TypeInv
  BY DEF IInv, TypeInv
<1>2. CASE job'[r] = job[r]
  BY <1>2
<1>3. CASE Crash(r)
  BY <1>1, <1>3 DEF Crash, Goto, TypeInv, RunType
<1>4. CASE Abandon(r)
  <2>1. job'[r][w] = CutShort(job[r])[w] /\ job[r][w] \in JobState
    BY <1>1, <1>4 DEF Abandon, WorkType
  <2> QED
    BY <2>1 DEF CutShort, JobState
<1>5. ASSUME NEW v \in Writers, BundleBegins(r, v) \/ WriteFile(r, v) \/ IndexBegins(r, v)
      PROVE  Kept
  <2>1. PICK p \in Staged, sync \in BOOLEAN : MakeTemp(r, v, p, sync)
    BY <1>5 DEF BundleBegins, WriteFile, IndexBegins, Staged
  <2> MakeTemp(r, v, p, sync)
    BY <2>1
  <2>2. OthersSame(r, v) /\ ~Working(r, v)
    BY BeginFacts
  <2>3. w # v
    <3>1. phase[r] \in Active
      BY <1>5 DEF BundleBegins, WriteFile, IndexBegins, Active, Early
    <3>2. job[r][v].temp = NoTemp
      BY <2>2, <3>1, Held DEF JobInv
    <3> QED
      BY <3>2, NamesAssumption
  <2> QED
    BY <2>2, <2>3 DEF OthersSame
<1>6. ASSUME NEW v \in Writers, Mark(r, v) \/ WriteContent(r, v) \/ Rename(r, v) \/ TrackWrite(r, v)
      PROVE  Kept
  <2>1. PICK s \in Steps : Step(r, v, s)
    BY <1>6 DEF Mark, WriteContent, Rename, TrackWrite, Steps
  <2> Step(r, v, s)
    BY <2>1
  <2>2. OthersSame(r, v) /\ job'[r][v] = [job[r][v] EXCEPT !.step = s] /\ job[r][v] \in JobState
    BY <1>1, JobStep DEF WorkType
  <2> QED
    BY <2>2, SMTT(40) DEF OthersSame, JobState
<1>7. ASSUME NEW v \in Writers, WriteFails(r, v) \/ GiveUp(r, v)
      PROVE  Kept
  <2>1. job' = [job EXCEPT ![r][v] = [job[r][v] EXCEPT !.step = "cleaning", !.ok = FALSE]]
    <3>1. CASE WriteFails(r, v)
      BY <1>1, <3>1, CutOne DEF WriteFails
    <3>2. CASE GiveUp(r, v)
      BY <1>1, <3>2, CutOne DEF GiveUp
    <3> QED
      BY <1>7, <3>1, <3>2
  <2>2. OthersSame(r, v) /\ job'[r][v] = [job[r][v] EXCEPT !.step = "cleaning", !.ok = FALSE]
    BY <1>1, <2>1, JobFails
  <2>3. job[r][v] \in JobState
    BY <1>1 DEF WorkType
  <2> QED
    BY <2>2, <2>3 DEF OthersSame, JobState
<1>8. ASSUME NEW v \in Writers, Remove(r, v)
      PROVE  Kept \/ staging'[job[r][w].temp] = NoStaging
  BY <1>8, RemoveFacts DEF OthersSame
<1>9. ASSUME NEW v \in Writers, RemoveFails(r, v)
      PROVE  Kept \/ job[r][w].temp \in stuck'[r]
  <2>1. OthersSame(r, v)
    BY <1>1, <1>9, JobIdle DEF RemoveFails
  <2>2. stuck'[r] = stuck[r] \cup {job[r][v].temp}
    BY <1>1, <1>9 DEF RemoveFails, TypeInv, BookType
  <2> QED
    BY <2>1, <2>2 DEF OthersSame
<1>10. CASE Workflow(r)
  BY <1>2, <1>3, <1>4, <1>5, <1>6, <1>7, <1>8, <1>9, <1>10
     DEF Workflow, Replacement, Acquire, Refused, GenerateEnds, Finish, Release, Stop, Unlink, work
<1>11. CASE Preparation(r)
  BY <1>2, <1>11 DEF Preparation, SweepBegins, Begin, UnlinkEntry, UnlinkDirectory, SweepEnds, SweepFails,
                        CleanFile, CleanDirectory,
                     CleanEnds, work
<1>12. CASE InPlace(r)
  BY <1>2, <1>4, <1>12 DEF InPlace, DeclareBegins, DeclareEnds, CopyBegins, CopyEnds, CopyFails,
                           FormatBegins, FormatEnds
<1> QED
  BY <1>10, <1>11, <1>12 DEF StepOf

\* A run that has swept holds the lock, and nobody marks a directory but it.
LEMMA SweptStep ==
  ASSUME IInv, NEW r \in Runs, StepOf(r), NEW q \in Runs, lock' = q, swept'[q]
  PROVE  \/ lock = q /\ swept[q] /\ (q = r \/ phase[r] \notin Active)
         \/ \A t \in Temps : ~staging'[t].marked
<1>1. CASE SweepEnds(r)
  BY <1>1 DEF SweepEnds, Sweepable, disk
<1>2. CASE Acquire(r)
  <2>1. q = r /\ swept'[q] = swept[q]
    BY <1>2 DEF Acquire, books
  <2>2. swept[r] = FALSE
    BY <1>2 DEF Acquire, IInv, RunInv, Resting, Active, Early
  <2> QED
    BY <2>1, <2>2
<1>3. CASE Release(r)
  <2>1. lock = r
    BY <1>3, Held DEF Release, Active, PhaseInv
  <2> QED
    BY <1>3, <2>1, NamesAssumption DEF Release
<1>4. CASE Crash(r)
  <2>1. swept'[r] = FALSE /\ lock' = lock /\ \A u \in Runs : u # r => swept'[u] = swept[u]
    BY <1>4 DEF Crash, Forget, IInv, TypeInv, BookType
  <2>2. lock = r
    <3>1. phase[r] \in Active
      BY <1>4 DEF Crash, IInv, TypeInv, RunType
    <3> QED
      BY <3>1, Held DEF PhaseInv
  <2> QED
    BY <2>1, <2>2
<1>5. CASE ~SweepEnds(r) /\ ~Acquire(r) /\ ~Release(r) /\ ~Crash(r)
  <2>1. lock' = lock /\ swept' = swept
    <3>1. CASE Workflow(r)
      BY <1>5, <3>1 DEF Workflow, Refused, GenerateEnds, Finish, Stop, BundleBegins, WriteFile,
                        IndexBegins, Replacement, Mark, WriteContent, Rename, TrackWrite, WriteFails,
                        GiveUp, Unlink, Remove, RemoveFails, run, books
    <3>2. CASE Preparation(r)
      BY <1>5, <3>2 DEF Preparation, SweepBegins, Begin, UnlinkEntry, UnlinkDirectory, SweepFails,
                        CleanFile, CleanDirectory, CleanEnds,
                        run, books
    <3>3. CASE InPlace(r)
      BY <3>3 DEF InPlace, DeclareBegins, DeclareEnds, CopyBegins, CopyEnds, CopyFails,
                  FormatBegins, FormatEnds, run, books
    <3> QED
      BY <3>1, <3>2, <3>3, SMTT(40) DEF StepOf
  <2>2. phase[r] \in Active => lock = r
    BY Held DEF PhaseInv
  <2> QED
    BY <2>1, <2>2
<1> QED
  BY <1>1, <1>2, <1>3, <1>4, <1>5

LEMMA StagingStep ==
  ASSUME IInv, NEW r \in Runs, StepOf(r)
  PROVE  StagingInv'
<1>1. ASSUME NEW t \in Temps
      PROVE  /\ StagingMove(r, t) /\ staging'[t].owner \in Runs \cup {User, Nobody}
             /\ NoStaging.owner \notin Runs /\ ~NoStaging.marked
  <2>1. StagingMove(r, t)
    BY StagingMoves
  <2>2. staging'[t].owner \in Runs \cup {User, Nobody}
    BY TypeStep DEF TypeInv, DiskType, StagingState
  <2> QED
    BY <2>1, <2>2, NamesAssumption DEF NoStaging
<1>2. staging'[Lookalike].owner \notin Runs /\ ~staging'[Lookalike].marked
  BY <1>1, NamesAssumption DEF IInv, StagingInv, StagingMove
<1>3. \A t \in Temps : staging'[t].owner \in Runs /\ staging'[t].content # "none" =>
        staging'[t].marked \/ staging'[t].removal
  BY <1>1 DEF IInv, StagingInv, DebrisIsExplained, StagingMove, NewStaging
<1>4. ASSUME NEW t \in Temps, NEW q \in Runs, staging'[t].owner = q
      PROVE  phase'[q] = "dead" \/ t \in stuck'[q] \/ \E w \in Writers : job'[q][w].temp = t
  <2>1. CASE staging'[t].owner # staging[t].owner \/ \E w \in Writers : job'[r][w].temp = t /\ q = r
    BY <1>1, <1>4, <2>1 DEF StagingMove, NewStaging
  <2>2. CASE staging'[t].owner = staging[t].owner
    <3>1. phase[q] = "dead" \/ t \in stuck[q] \/ \E w \in Writers : job[q][w].temp = t
      BY <1>4, <2>2 DEF IInv, StagingInv, DebrisIsExplained
    <3>2. CASE q # r
      BY <3>1, <3>2, Frame DEF Untouched, IInv
    <3>3. CASE q = r
      <4>1. phase[r] # "dead"
        BY OnlyActiveWork DEF Acquire, Refused, Active, Early
      <4>2. stuck[r] \subseteq stuck'[r]
        <5>1. CASE stuck' = stuck
          BY <5>1
        <5>2. ASSUME NEW w \in Writers, RemoveFails(r, w)
              PROVE  stuck[r] \subseteq stuck'[r]
          BY <5>2 DEF RemoveFails, IInv, TypeInv, BookType
        <5>3. stuck' = stuck \/ \E w \in Writers : RemoveFails(r, w)
          <6>1. CASE Workflow(r)
            BY <6>1 DEF Workflow, Acquire, Refused, GenerateEnds, Finish, Release, Stop, Crash,
                        BundleBegins, WriteFile, IndexBegins, Replacement, Mark, WriteContent,
                        Rename, TrackWrite, WriteFails, GiveUp, Unlink, Remove, books
          <6>2. CASE Preparation(r)
            BY <6>2 DEF Preparation, SweepBegins, Begin, UnlinkEntry, UnlinkDirectory, SweepEnds, SweepFails,
                        CleanFile, CleanDirectory,
                        CleanEnds, books
          <6>3. CASE InPlace(r)
            BY <6>3 DEF InPlace, DeclareBegins, DeclareEnds, CopyBegins, CopyEnds, CopyFails,
                        FormatBegins, FormatEnds, books
          <6> QED
            BY <6>1, <6>2, <6>3, SMTT(40) DEF StepOf
        <5> QED
          BY <5>1, <5>2, <5>3
      <4>3. ASSUME NEW w \in Writers, job[r][w].temp = t
            PROVE  phase'[r] = "dead" \/ t \in stuck'[r] \/ job'[r][w].temp = t
        BY <1>1, <1>4, <4>3, TempsKept
      <4> QED
        BY <3>1, <3>3, <4>1, <4>2, <4>3
    <3> QED
      BY <3>2, <3>3
  <2> QED
    BY <2>1, <2>2
<1>5. ASSUME NEW q \in Runs, NEW t \in Temps, lock' = q, swept'[q], staging'[t].marked
      PROVE  staging'[t].owner = q
  <2>1. lock = q /\ swept[q] /\ (q = r \/ phase[r] \notin Active)
    BY <1>5, SweptStep
  <2>2. staging[t].marked => staging[t].owner = q
    BY <2>1 DEF IInv, StagingInv, DebrisIsExplained
  <2> QED
    BY <1>1, <1>5, <2>1, <2>2 DEF StagingMove, NewStaging
<1>6. DebrisIsExplained'
  BY <1>3, <1>4, <1>5 DEF DebrisIsExplained
<1> QED
  BY <1>2, <1>6 DEF StagingInv

\* A sweep removes what is marked, and that the user's directory is not.
LEMMA RemovingStep ==
  ASSUME IInv, NEW r \in Runs, StepOf(r)
  PROVE  RemovingInv'
<1>1. Allowed(r) /\ removing[r] \in Temps \cup {NoTemp}
  BY DEF IInv, RemovingInv, TypeInv, WorkType
<1>2. ASSUME NEW q \in Runs \ {r} PROVE Allowed(q)'
  <2>1. phase'[q] = phase[q] /\ removing'[q] = removing[q]
    BY Frame DEF IInv, Untouched
  <2> QED
    BY <2>1 DEF IInv, RemovingInv, Allowed
<1> SUFFICES Allowed(r)'
  BY <1>2 DEF RemovingInv
<1>3. CASE Stop(r) \/ CopyFails(r) \/ Crash(r)
  BY <1>3 DEF Stop, CopyFails, Crash, Abandon, Allowed, IInv, TypeInv, WorkType
<1>4. CASE Preparation(r)
  <2>1. CASE SweepBegins(r)
    <3>1. PICK t \in Temps : Sweepable(t) /\ Begin(r, t)
      BY <2>1 DEF SweepBegins
    <3>2. t # Lookalike
      BY <3>1 DEF IInv, StagingInv, Sweepable
    <3> QED
      BY <2>1, <3>1, <3>2 DEF SweepBegins, Begin, Allowed, run, IInv, TypeInv, WorkType
  <2>2. CASE CleanDirectory(r)
    BY <2>2 DEF CleanDirectory, Begin, Allowed, run
  <2>3. CASE UnlinkEntry(r) \/ CleanFile(r)
    BY <1>1, <2>3 DEF UnlinkEntry, CleanFile, Allowed, run, work
  <2>4. CASE UnlinkDirectory(r) \/ SweepFails(r)
    BY <2>4 DEF UnlinkDirectory, SweepFails, Allowed, IInv, TypeInv, WorkType
  <2>5. CASE SweepEnds(r) \/ CleanEnds(r)
    BY <2>5 DEF SweepEnds, CleanEnds, Allowed, work
  <2> QED
    BY <1>4, <2>1, <2>2, <2>3, <2>4, <2>5 DEF Preparation
<1>5. CASE ~Stop(r) /\ ~CopyFails(r) /\ ~Crash(r) /\ ~Preparation(r)
  <2>1. removing' = removing
    <3>1. CASE Workflow(r)
      BY <1>5, <3>1 DEF Workflow, Acquire, Refused, GenerateEnds, Finish, Release, BundleBegins,
                        WriteFile, IndexBegins, Replacement, Mark, WriteContent, Rename,
                        TrackWrite, WriteFails, GiveUp, Unlink, Remove, RemoveFails, work
    <3>2. CASE InPlace(r)
      BY <1>5, <3>2 DEF InPlace, DeclareBegins, DeclareEnds, CopyBegins, CopyEnds, FormatBegins,
                        FormatEnds
    <3> QED
      BY <1>5, <3>1, <3>2 DEF StepOf
  <2>2. phase[r] \notin {"sweep", "clean"}
    <3>1. ASSUME NEW w \in Writers, Working(r, w) PROVE phase[r] \notin {"sweep", "clean"}
      BY <3>1, WorkingPhases
    <3>2. ASSUME NEW w \in Writers, Replacement(r, w) PROVE Working(r, w)
      BY <3>2 DEF Replacement, Mark, WriteContent, Rename, TrackWrite, WriteFails, GiveUp, Unlink,
                  Remove, RemoveFails, At, Working, Interruptible
    <3>3. CASE Workflow(r)
      BY <1>5, <3>1, <3>2, <3>3 DEF Workflow, Acquire, Refused, GenerateEnds, Finish, Release,
                                    BundleBegins, WriteFile, IndexBegins
    <3>4. CASE InPlace(r)
      BY <1>5, <3>4 DEF InPlace, DeclareBegins, DeclareEnds, CopyBegins, CopyEnds, FormatBegins,
                        FormatEnds
    <3> QED
      BY <1>5, <3>3, <3>4 DEF StepOf
  <2> QED
    BY <1>1, <2>1, <2>2 DEF Allowed
<1> QED
  BY <1>3, <1>4, <1>5

\* Only the formatter tears what is staged.
LEMMA AtomicStep ==
  ASSUME IInv, NEW r \in Runs, StepOf(r)
  PROVE  AtomicUnlessFormatted'
<1>1. ASSUME NEW p \in Staged, target'[p].torn
      PROVE  target[p].torn \/ options[r].format
  <2>1. p \in Paths /\ p \notin {Declaration, Lib} /\ TypeInv /\ DiskType
    BY NamesAssumption DEF Paths, Staged, IInv, TypeInv
  <2>2. CASE target' = target
    BY <1>1, <2>2
  <2>3. CASE CleanFile(r)
    BY <1>1, <2>1, <2>3 DEF CleanFile, Gone, DiskType
  <2>4. ASSUME NEW w \in Writers, Rename(r, w)
        PROVE  target[p].torn
    <3>1. target' = [target EXCEPT ![job[r][w].path] = [by |-> r, torn |-> FALSE]]
      BY <2>4, RenameFacts
    <3> QED
      BY <1>1, <2>1, <3>1 DEF DiskType
  <2>5. CASE DeclareBegins(r) \/ DeclareEnds(r) \/ CopyBegins(r) \/ CopyEnds(r)
    <3>1. target'[p] = target[p]
      BY <2>1, <2>5 DEF DeclareBegins, DeclareEnds, CopyBegins, CopyEnds, Open, Close, DiskType
    <3> QED
      BY <1>1, <3>1
  <2>6. CASE FormatBegins(r) \/ FormatEnds(r)
    <3>1. PhaseInv(r) /\ phase[r] = "format" /\ (toFormat[r] # {} \/ editing[r] # NoEdit)
      BY <2>6, Held DEF FormatBegins, FormatEnds, Active
    <3> QED
      BY <3>1 DEF PhaseInv
  <2>7. target' = target \/ CleanFile(r) \/ (\E w \in Writers : Rename(r, w))
        \/ DeclareBegins(r) \/ DeclareEnds(r) \/ CopyBegins(r) \/ CopyEnds(r)
        \/ FormatBegins(r) \/ FormatEnds(r)
    <3>1. CASE Workflow(r)
      BY <3>1 DEF Workflow, Acquire, Refused, GenerateEnds, Finish, Release, Stop, Crash,
                  BundleBegins, WriteFile, IndexBegins, Replacement, Mark, WriteContent,
                  TrackWrite, WriteFails, GiveUp, Unlink, Remove, RemoveFails, disk
    <3>2. CASE Preparation(r)
      BY <3>2 DEF Preparation, SweepBegins, Begin, UnlinkEntry, UnlinkDirectory, SweepEnds,
              SweepFails, CleanDirectory, CleanEnds, disk
    <3>3. CASE InPlace(r)
      BY <3>3 DEF InPlace, CopyFails, disk
    <3> QED
      BY <3>1, <3>2, <3>3, SMTT(40) DEF StepOf
  <2> QED
    BY <2>2, <2>3, <2>4, <2>5, <2>6, <2>7
<1>2. options' = options
  BY Frame DEF IInv
<1> QED
  BY <1>1, <1>2 DEF IInv, AtomicUnlessFormatted

-----------------------------------------------------------------------------
(* The invariant                                                           *)

LEMMA InitStep == Init => IInv
<1> SUFFICES ASSUME Init PROVE IInv
  OBVIOUS
<1>1. TypeInv
  <2>1. RunType
    BY ChoicesAssumption DEF Init, RunType
  <2>2. target \in [Paths -> FileState] /\ listed \in SUBSET (Files \cup {Lib})
    BY DEF Init, FileState, Authors
  <2>3. staging \in [Temps -> StagingState]
    BY DEF Init, StagingState, NoStaging
  <2>4. job \in [Runs -> [Writers -> JobState]]
    <3>1. Idle \in JobState
      BY DEF Idle, JobState, Steps
    <3> QED
      BY <3>1 DEF Init
  <2>5. /\ editing \in [Runs -> EditState] /\ toFormat \in [Runs -> SUBSET Paths]
        /\ removing \in [Runs -> Temps \cup {NoTemp}]
    BY DEF Init, EditState, NoEdit
  <2>6. BookType
    BY BoundsAssumption DEF Init, BookType
  <2> QED
    BY <2>1, <2>2, <2>3, <2>4, <2>5, <2>6 DEF TypeInv, DiskType, WorkType
<1>2. ASSUME NEW r \in Runs PROVE RunInv(r)
  <2>1. phase[r] \in {"ready", "ended"} /\ outcome[r] = "none"
    BY DEF Init
  <2>2. \A w \in Writers : job[r][w] = Idle
    BY DEF Init
  <2>3. editing[r] = NoEdit /\ toFormat[r] = {} /\ tracked[r] = {} /\ swept[r] = FALSE
    BY DEF Init
  <2>4. \A p \in Paths : target[p].by # r
    BY NamesAssumption DEF Init
  <2>5. Resting(r)
    BY <2>1, <2>2, <2>3, <2>4 DEF Resting, Quiet, NoWriter, Working, Idle, Tracked, Paths, Staged
  <2> QED
    BY <2>1, <2>5 DEF RunInv, Active, Early
<1>3. \A t \in Temps : staging[t].owner \notin Runs /\ ~staging[t].marked
  BY NamesAssumption DEF Init, NoStaging
<1>4. StagingInv
  BY <1>3, NamesAssumption DEF StagingInv, DebrisIsExplained
<1>5. AtomicUnlessFormatted /\ RemovingInv
  BY DEF Init, AtomicUnlessFormatted, Paths, RemovingInv, Allowed
<1> QED
  BY <1>1, <1>2, <1>4, <1>5 DEF IInv

LEMMA StutterStep ==
  ASSUME IInv, UNCHANGED vars
  PROVE  IInv'
<1> USE DEF vars, run, disk, work, books
<1>1. TypeInv'
  BY DEF IInv, TypeInv, RunType, DiskType, WorkType, BookType
<1>2. ASSUME NEW r \in Runs PROVE RunInv(r)'
  <2>1. CASE phase[r] \in Active
    BY <2>1 DEF IInv, RunInv, Holding, PhaseInv, JobInv, IndexInv, Published, Quiet, Working
  <2>2. CASE phase[r] \notin Active
    BY <2>2 DEF IInv, RunInv, Resting, Quiet, NoWriter, Working
  <2> QED
    BY <2>1, <2>2
<1>3. StagingInv' /\ RemovingInv' /\ AtomicUnlessFormatted'
  BY DEF IInv, StagingInv, DebrisIsExplained, RemovingInv, Allowed, AtomicUnlessFormatted
<1> QED
  BY <1>1, <1>2, <1>3 DEF IInv

LEMMA NextStep ==
  ASSUME IInv, [Next]_vars
  PROVE  IInv'
<1>1. ASSUME NEW r \in Runs, StepOf(r) PROVE IInv'
  <2>1. TypeInv' /\ StagingInv' /\ RemovingInv' /\ AtomicUnlessFormatted'
    BY <1>1, TypeStep, StagingStep, RemovingStep, AtomicStep
  <2>2. \A q \in Runs : RunInv(q)'
    BY <1>1, RunStep
  <2> QED
    BY <2>1, <2>2 DEF IInv
<1> QED
  BY <1>1, StutterStep DEF Next, StepOf

\* The inductive invariant holds in every reachable state.
THEOREM Invariance == Spec => []IInv
  BY InitStep, NextStep, PTL DEF Spec

-----------------------------------------------------------------------------
(* What it gives                                                           *)

\* Whoever works in the directory holds its lock, and its staging directories
\* are its own (the lock of withGenerationLock around prepareLockedOutput and the
\* workflow).
THEOREM WorkIsProtectedAlways == Spec => []WorkIsProtected
<1>1. IInv => WorkIsProtected
  <2> SUFFICES ASSUME IInv, NEW r \in Runs
               PROVE  /\ ~Quiet(r) => lock = r
                      /\ \A w \in Writers : job[r][w].step \in Interruptible =>
                           staging[job[r][w].temp].owner = r
    BY DEF WorkIsProtected
  <2>1. ~Quiet(r) => lock = r
    BY DEF IInv, RunInv, Resting, Holding, PhaseInv
  <2>2. ASSUME NEW w \in Writers, job[r][w].step \in Interruptible
        PROVE  staging[job[r][w].temp].owner = r
    <3>1. Working(r, w)
      BY <2>2 DEF Working, Interruptible
    <3> QED
      BY <3>1, WorkerHolds DEF Holding, JobInv
  <2> QED
    BY <2>1, <2>2
<1> QED
  BY <1>1, Invariance, PTL

\* A staging directory outlives its replacement only by a kill or a failed removal,
\* it is marked before it has content and until its removal begins, and the sweep
\* of a run leaves no marked one but that run's own (writeFileViaTempReplace,
\* sweepOrphanTempdirs).
THEOREM DebrisIsExplainedAlways == Spec => []DebrisIsExplained
<1>1. IInv => DebrisIsExplained
  BY DEF IInv, StagingInv
<1> QED
  BY <1>1, Invariance, PTL

\* The tracker knows every published file, and a run that reports success leaves
\* an index that lists exactly the files it produced, all whole.
THEOREM IndexIsExactAlways == Spec => []IndexIsExact
<1>1. IInv => IndexIsExact
  <2> SUFFICES ASSUME IInv, NEW r \in Runs
               PROVE  /\ \A p \in Tracked :
                           target[p].by = r /\ phase[r] \in {"generate", "index", "format"} =>
                             \/ p \in tracked[r]
                             \/ editing[r].path = p
                             \/ \E w \in Writers :
                                  job[r][w].path = p /\ job[r][w].step = "renamed"
                      /\ outcome[r] = "ok" /\ phase[r] = "leave" =>
                           /\ listed = {p \in Files \cup {Lib} : target[p].by = r}
                           /\ \A p \in listed \cup {Index, Bundle, Declaration} :
                                target[p] = [by |-> r, torn |-> FALSE]
    BY DEF IndexIsExact
  <2>1. phase[r] \in Active => IndexInv(r)
    BY Held
  <2> QED
    BY <2>1 DEF IndexInv, Active
<1> QED
  BY <1>1, Invariance, PTL

\* Without the formatter no failure, interruption or crash leaves a file torn that
\* is published by a rename (ADR 0007).
THEOREM AtomicUnlessFormattedAlways == Spec => []AtomicUnlessFormatted
<1>1. IInv => AtomicUnlessFormatted
  BY DEF IInv
<1> QED
  BY <1>1, Invariance, PTL

LEMMA SparingStep ==
  ASSUME IInv, NEW r \in Runs, StepOf(r),
         \/ target[Own].by = User /\ target'[Own].by # User
         \/ staging[Lookalike].owner = User /\ staging'[Lookalike] # staging[Lookalike]
  PROVE  lock = r /\ phase[r] = "clean" /\ options[r].clean
<1>1. /\ Own \in Paths /\ Own \notin Staged \cup {Declaration, Lib} /\ Lookalike \in Temps
      /\ TypeInv /\ DiskType
  BY NamesAssumption DEF Paths, Staged, IInv, TypeInv
<1>2. ASSUME target'[Own].by # target[Own].by
      PROVE  phase[r] = "clean"
  <2>1. CASE CleanFile(r)
    BY <2>1 DEF CleanFile
  <2>2. ASSUME NEW w \in Writers, Rename(r, w)
        PROVE  FALSE
    <3>1. /\ target' = [target EXCEPT ![job[r][w].path] = [by |-> r, torn |-> FALSE]]
          /\ job[r][w].path \in Staged
      BY <2>2, RenameFacts
    <3> QED
      BY <1>1, <1>2, <3>1 DEF DiskType
  <2>3. CASE DeclareBegins(r) \/ DeclareEnds(r) \/ CopyBegins(r) \/ CopyEnds(r)
    <3>1. target'[Own] = target[Own]
      BY <1>1, <2>3 DEF DeclareBegins, DeclareEnds, CopyBegins, CopyEnds, Open, Close, DiskType
    <3> QED
      BY <1>2, <3>1
  <2>4. CASE FormatBegins(r)
    <3>1. Open(r, First(toFormat[r]), target[First(toFormat[r])].by)
      BY <2>4 DEF FormatBegins
    <3> QED
      BY <1>1, <1>2, <3>1 DEF Open, DiskType
  <2>5. CASE FormatEnds(r)
    <3>1. Close(r, editing[r].was)
      BY <2>5 DEF FormatEnds
    <3> QED
      BY <1>1, <1>2, <3>1 DEF Close, DiskType, FileState
  <2>6. target' # target
    BY <1>2, SMTT(40)
  <2>7. CASE Workflow(r)
    BY <2>2, <2>6, <2>7 DEF Workflow, Acquire, Refused, GenerateEnds, Finish, Release, Stop,
       Crash, BundleBegins, WriteFile, IndexBegins, Replacement, Mark, WriteContent, TrackWrite,
       WriteFails, GiveUp, Unlink, Remove, RemoveFails, disk
  <2>8. CASE Preparation(r)
    BY <2>1, <2>6, <2>8 DEF Preparation, SweepBegins, Begin, UnlinkEntry, UnlinkDirectory,
       SweepEnds, SweepFails, CleanDirectory, CleanEnds, disk
  <2>9. CASE InPlace(r)
    BY <2>3, <2>4, <2>5, <2>6, <2>9 DEF InPlace, CopyFails, disk
  <2> QED
    BY <2>7, <2>8, <2>9 DEF StepOf
<1>3. ASSUME staging'[Lookalike] # staging[Lookalike]
      PROVE  phase[r] = "clean"
  <2>2. CASE UnlinkEntry(r) \/ UnlinkDirectory(r)
    <3>1. /\ removing[r] \in Temps
          /\ EmptyOne(removing[r]) \/ RemoveDirectory(removing[r])
          /\ phase[r] = "clean" \/ removing[r] # Lookalike
      BY <2>2 DEF UnlinkEntry, UnlinkDirectory, IInv, TypeInv, WorkType, RemovingInv, Allowed
    <3> QED
      BY <1>1, <1>3, <3>1, Emptying, Removing
  <2>4. ASSUME NEW w \in Writers, BundleBegins(r, w) \/ WriteFile(r, w) \/ IndexBegins(r, w)
        PROVE  FALSE
    <3>1. PICK p \in Staged, sync \in BOOLEAN : MakeTemp(r, w, p, sync)
      BY <2>4 DEF BundleBegins, WriteFile, IndexBegins, Staged
    <3>2. PICK t \in Temps \ {Lookalike} : staging' = [staging EXCEPT ![t].owner = r]
      BY <3>1 DEF MakeTemp
    <3> QED
      BY <1>1, <1>3, <3>2 DEF DiskType
  <2>5. ASSUME NEW w \in Writers, \/ Mark(r, w) \/ WriteContent(r, w) \/ Rename(r, w)
                                 \/ Unlink(r, w) \/ Remove(r, w)
        PROVE  FALSE
    <3>1. Working(r, w)
      BY <2>5 DEF Mark, WriteContent, Rename, Unlink, Remove, At, Working
    <3>2. job[r][w].temp # Lookalike
      BY <3>1, WorkerHolds, SMTT(40)
    <3>3. CASE Mark(r, w) \/ WriteContent(r, w) \/ Rename(r, w)
      BY <1>1, <1>3, <3>2, <3>3 DEF Mark, WriteContent, Rename, DiskType
    <3>4. CASE Unlink(r, w) \/ Remove(r, w)
      BY <1>1, <1>3, <3>2, <3>4, UnlinkFacts, RemoveFacts DEF OthersStay
    <3> QED
      BY <2>5, <3>3, <3>4
  <2>6. staging' # staging
    BY <1>3
  <2>7. CASE Workflow(r)
    BY <2>4, <2>5, <2>6, <2>7 DEF Workflow, Acquire, Refused, GenerateEnds, Finish, Release,
       Stop, Crash, Replacement, TrackWrite, WriteFails, GiveUp, RemoveFails, disk
  <2>8. CASE Preparation(r)
    BY <2>2, <2>6, <2>8 DEF Preparation, SweepBegins, Begin, SweepEnds, SweepFails, CleanFile,
       CleanDirectory, CleanEnds, disk
  <2>9. CASE InPlace(r)
    BY <2>6, <2>9 DEF InPlace, DeclareBegins, DeclareEnds, CopyBegins, CopyEnds, CopyFails,
       FormatBegins, FormatEnds, disk
  <2> QED
    BY <2>7, <2>8, <2>9 DEF StepOf
<1>4. phase[r] = "clean"
  BY <1>2, <1>3
<1>5. PhaseInv(r)
  BY <1>4, Held DEF Active, Early
<1> QED
  BY <1>4, <1>5 DEF PhaseInv

\* A file of the user, and a directory of the user that looks like debris, disappear
\* only in the clean step of a run that was told to clean (prepareLockedOutput).
THEOREM UsersFilesAreSparedAlways == Spec => UsersFilesAreSpared
<1> DEFINE Sparing ==
      \/ target[Own].by = User /\ target'[Own].by # User
      \/ staging[Lookalike].owner = User /\ staging'[Lookalike] # staging[Lookalike]
      => \E r \in Runs : lock = r /\ phase[r] = "clean" /\ options[r].clean
<1>1. ASSUME IInv, [Next]_vars
      PROVE  [Sparing]_vars
  <2>1. CASE UNCHANGED vars
    BY <2>1
  <2>2. ASSUME NEW r \in Runs, StepOf(r) PROVE Sparing
    BY <1>1, <2>2, SparingStep
  <2> QED
    BY <1>1, <2>1, <2>2 DEF Next, StepOf
<1> QED
  BY <1>1, Invariance, PTL DEF Spec, UsersFilesAreSpared
=============================================================================
