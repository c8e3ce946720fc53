--------------------------- MODULE PluginScaffold ---------------------------
(***************************************************************************)
(* `typeweaver add plugin' (PluginScaffolder.ts of packages/cli): a new    *)
(* directory is created exclusively, the templates are written into it one *)
(* by one, and a failure or an interruption takes the directory away       *)
(* again.  Each call to the file system may fail, the process may be       *)
(* killed, several scaffolds may have one target, and its user may already *)
(* put files of his own into it.                                           *)
(***************************************************************************)
EXTENDS Naturals, FiniteSets

CONSTANTS
  Scaffolds,       \* executions of the command on one target
  TemplateFiles,   \* how many there are: TEMPLATE_FILES is an array
  Owner,           \* the user
  Nobody,
  MaxFailures      \* bound: calls that fail

ASSUME ScaffoldAssumption ==
  /\ Owner \notin Scaffolds /\ Nobody \notin Scaffolds \cup {Owner}
  /\ TemplateFiles \in Nat /\ MaxFailures \in Nat

VARIABLES
  site,        \* who made the target directory, if it is there
  content,     \* of each template's path: who wrote it, and whether all of it
  at,          \* where each scaffold is
  written,     \* how many templates it has written
  ownsTarget,
  complete,
  ending,      \* its exit: "none", "ok", "exists", "failed" or "defect"
  inFlight,    \* a mkdir whose fiber was interrupted: "none", "flying", "landed"
  failures,    \* calls that failed so far
  placed       \* history: files the user has put into the target

scaffoldVars == <<site, content, at, written, ownsTarget, complete, ending,
                  inFlight, failures, placed>>
place == <<site, content, placed>>
flags == <<ownsTarget, complete>>

Slots == 1 .. TemplateFiles
NoText == [by |-> Nobody, whole |-> FALSE]
Torn(s) == [by |-> s, whole |-> FALSE]
Text(s) == [by |-> s, whole |-> TRUE]

Move(s, to) == at' = [at EXCEPT ![s] = to]
Exits(s, how) == ending' = [ending EXCEPT ![s] = how] /\ Move(s, "onExit")
Turn(s) == written[s] + 1

ScaffoldInit ==
  /\ site \in {Nobody, Owner}
  /\ content = [f \in Slots |-> NoText]
  /\ at = [s \in Scaffolds |-> "exists"]
  /\ written = [s \in Scaffolds |-> 0]
  /\ ownsTarget = [s \in Scaffolds |-> FALSE]
  /\ complete = [s \in Scaffolds |-> FALSE]
  /\ ending = [s \in Scaffolds |-> "none"]
  /\ inFlight = [s \in Scaffolds |-> "none"]
  /\ failures = 0 /\ placed = {}

-----------------------------------------------------------------------------
(* scaffold and publishScaffold                                            *)

CheckAbsent(s) ==
  /\ at[s] = "exists"
  /\ IF site # Nobody THEN Exits(s, "exists")
     ELSE Move(s, "makeTarget") /\ UNCHANGED ending
  /\ UNCHANGED <<place, written, flags, inFlight, failures>>

\* Mutant: the target is made like its parents, whether it is there or not.
MakeTargetIfAbsent(s) ==
  /\ at[s] = "makeTarget"
  /\ site' = IF site = Nobody THEN s ELSE site
  /\ ownsTarget' = [ownsTarget EXCEPT ![s] = TRUE]
  /\ Move(s, "makeDirectory")
  /\ UNCHANGED <<content, placed, written, complete, ending, inFlight, failures>>

\* The parents may be there, the target must not.  Uninterruptible.
MakeTarget(s) ==
  /\ at[s] = "makeTarget"
  /\ IF site # Nobody THEN Exits(s, "exists") /\ UNCHANGED <<site, ownsTarget>>
     ELSE /\ site' = s
          /\ ownsTarget' = [ownsTarget EXCEPT ![s] = TRUE]
          /\ Move(s, "makeDirectory") /\ UNCHANGED ending
  /\ UNCHANGED <<content, placed, written, complete, inFlight, failures>>

\* writeScaffoldFile: mkdir -p would make the target, too.
MakeDirectoryOf(s) ==
  /\ at[s] = "makeDirectory" /\ written[s] < TemplateFiles
  /\ site' = IF site = Nobody THEN s ELSE site
  /\ Move(s, "create")
  /\ UNCHANGED <<content, placed, written, flags, ending, inFlight, failures>>

\* The flag "wx": a file that is there is an error.
CreateFile(s) ==
  /\ at[s] = "create"
  /\ IF content[Turn(s)] # NoText
       THEN Exits(s, "failed") /\ UNCHANGED content
       ELSE /\ content' = [content EXCEPT ![Turn(s)] = Torn(s)]
            /\ Move(s, "fill") /\ UNCHANGED ending
  /\ UNCHANGED <<site, placed, written, flags, inFlight, failures>>

FillFile(s) ==
  /\ at[s] = "fill"
  /\ content' = [content EXCEPT ![Turn(s)] = Text(s)]
  /\ written' = [written EXCEPT ![s] = Turn(s)]
  /\ Move(s, "makeDirectory")
  /\ UNCHANGED <<site, placed, flags, ending, inFlight, failures>>

SetComplete(s) ==
  /\ at[s] = "makeDirectory" /\ written[s] = TemplateFiles
  /\ complete' = [complete EXCEPT ![s] = TRUE]
  /\ Move(s, "complete")
  /\ UNCHANGED <<place, written, ownsTarget, ending, inFlight, failures>>

Succeed(s) ==
  /\ at[s] = "complete"
  /\ Exits(s, "ok")
  /\ UNCHANGED <<place, written, flags, inFlight, failures>>

-----------------------------------------------------------------------------
(* onExit                                                                  *)

\* A recursive remove takes the files of other people as well.
RemoveTarget ==
  /\ site' = Nobody
  /\ content' = [f \in Slots |-> NoText]
  /\ placed' = {}

OnExit(s) ==
  /\ at[s] = "onExit"
  /\ IF ownsTarget[s] /\ (~complete[s] \/ ending[s] # "ok")
       THEN RemoveTarget ELSE UNCHANGED place
  /\ Move(s, "done")
  /\ UNCHANGED <<written, flags, ending, inFlight, failures>>

-----------------------------------------------------------------------------
(* Failures, interruption and other people                                 *)

Working == {"exists", "makeTarget", "makeDirectory", "create", "fill"}

CallFails(s) ==
  /\ at[s] \in Working /\ failures < MaxFailures
  /\ ~(at[s] = "makeDirectory" /\ written[s] = TemplateFiles)
  /\ failures' = failures + 1
  /\ Exits(s, "failed")
  /\ UNCHANGED <<place, written, flags, inFlight>>

\* orDie, with some of the files gone
RemoveDies(s) ==
  /\ at[s] = "onExit" /\ failures < MaxFailures
  /\ ownsTarget[s] /\ (~complete[s] \/ ending[s] # "ok")
  /\ failures' = failures + 1
  /\ \E gone \in SUBSET Slots :
       content' = [f \in Slots |-> IF f \in gone THEN NoText ELSE content[f]]
  /\ placed' = {f \in placed : content'[f].by = Owner}
  /\ ending' = [ending EXCEPT ![s] = "defect"]
  /\ Move(s, "done")
  /\ UNCHANGED <<site, written, flags, inFlight>>

\* An interrupted fiber does not wait for the call it has made.  A directory may so
\* be made late; that the file an interrupted write creates may, too, is left out.
InterruptScaffold(s) ==
  /\ at[s] \in Working \cup {"complete"}
  /\ inFlight' = [inFlight EXCEPT ![s] =
       IF at[s] = "makeDirectory" /\ written[s] < TemplateFiles
         THEN "flying" ELSE "none"]
  /\ Exits(s, "failed")
  /\ UNCHANGED <<place, written, flags, failures>>

LateDirectory(s) ==
  /\ inFlight[s] = "flying"
  /\ inFlight' = [inFlight EXCEPT ![s] = "landed"]
  /\ site' = IF site = Nobody THEN s ELSE site
  /\ UNCHANGED <<content, placed, at, written, flags, ending, failures>>

ScaffoldDies(s) ==
  /\ at[s] \notin {"done", "dead"}
  /\ Move(s, "dead")
  /\ UNCHANGED <<place, written, flags, ending, inFlight, failures>>

OwnerWrites ==
  /\ site # Nobody
  /\ \E f \in Slots \ placed :
       /\ content[f] = NoText
       /\ content' = [content EXCEPT ![f] = Text(Owner)]
       /\ placed' = placed \cup {f}
  /\ UNCHANGED <<site, at, written, flags, ending, inFlight, failures>>

ScaffoldNext ==
  \/ \E s \in Scaffolds :
       \/ CheckAbsent(s) \/ MakeTarget(s) \/ MakeDirectoryOf(s) \/ CreateFile(s)
       \/ FillFile(s) \/ SetComplete(s) \/ Succeed(s)
       \/ OnExit(s)
       \/ CallFails(s) \/ RemoveDies(s) \/ InterruptScaffold(s)
       \/ LateDirectory(s) \/ ScaffoldDies(s)
  \/ OwnerWrites

-----------------------------------------------------------------------------
(* Properties                                                              *)

By(s) == {f \in Slots : content[f].by = s}

\* Scaffolds with one target do not disturb one another.  One that succeeds has
\* written all its files, and the one that loses does not take them away; one that
\* fails leaves none, nor a directory, unless it was interrupted in the middle of
\* making one.  A target that was there is left alone, and what its user puts into
\* a new one is not overwritten ("never overwrites user files", cli/README.md).
ScaffoldIsExclusive ==
  /\ site = Owner => \A f \in Slots : content[f].by \in {Nobody, Owner}
  /\ placed \subseteq By(Owner)
  /\ \A s \in Scaffolds : at[s] = "done" =>
       /\ ending[s] = "ok" =>
            site = s /\ \A f \in Slots : content[f] = Text(s)
       /\ ending[s] \in {"exists", "failed"} =>
            By(s) = {} /\ (site = s => inFlight[s] = "landed")
=============================================================================
