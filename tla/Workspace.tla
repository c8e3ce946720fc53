----------------------------- MODULE Workspace -----------------------------
(***************************************************************************)
(* The commands that work in directories of a user: `typeweaver init'      *)
(* publishes a project into one, `add plugin' makes a new one, and         *)
(* `generate' empties one, if that is safe.  They share no state, so a     *)
(* behaviour follows one of them.                                          *)
(***************************************************************************)
EXTENDS ProjectInit, PluginScaffold, CleanTarget

VARIABLE subcommand   \* "init", "add plugin" or "generate"

vars == <<subcommand, initVars, scaffoldVars, cleanVars>>

\* The directories of the commands that are not run
InitIdle == target = [f \in Files |-> Absent] /\ dirs = {} /\ force = [i \in Inits |-> FALSE]
ScaffoldIdle == site = Nobody
CleanIdle ==
  /\ tree = (CHOOSE t \in Trees : TRUE)
  /\ command = (CHOOSE c \in Commands(tree) : TRUE)
  /\ stage = "preflight" /\ swapped = FALSE /\ cleaned = NotCleaned

Init ==
  /\ subcommand \in {"init", "add plugin", "generate"}
  /\ InitStart /\ (subcommand # "init" => InitIdle)
  /\ ScaffoldInit /\ (subcommand # "add plugin" => ScaffoldIdle)
  /\ IF subcommand = "generate" THEN CleanInit ELSE CleanIdle

InitCommand ==
  subcommand = "init" /\ InitNext
    /\ UNCHANGED <<subcommand, scaffoldVars, cleanVars>>

AddPluginCommand ==
  subcommand = "add plugin" /\ ScaffoldNext
    /\ UNCHANGED <<subcommand, initVars, cleanVars>>

GenerateCommand ==
  subcommand = "generate" /\ CleanNext
    /\ UNCHANGED <<subcommand, initVars, scaffoldVars>>

Next == InitCommand \/ AddPluginCommand \/ GenerateCommand

Spec == Init /\ [][Next]_vars
=============================================================================
