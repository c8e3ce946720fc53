--------------------------- MODULE MCProjectInit ---------------------------
(***************************************************************************)
(* A plan of one file in the target directory, one in a directory below it *)
(* and the package manifest; the directory above the target may be         *)
(* missing, too.                                                           *)
(***************************************************************************)
EXTENDS ProjectInit, TLC

CONSTANTS readme, spec, package, above, root, api

PlannedFiles == <<readme, spec, package>>
FileDirs == readme :> {above, root} @@ spec :> {above, root, api}
              @@ package :> {above, root}
DirDepth == above :> 0 @@ root :> 1 @@ api :> 2
=============================================================================
