------------------------- MODULE MCOutputDirectory -------------------------
(***************************************************************************)
(* One run whose plugins write twice, at the same time or not; or two      *)
(* runs, one after or against the other, that write once.  The files of an *)
(* earlier generation are there; one file-system call may fail.            *)
(***************************************************************************)
EXTENDS OutputDirectory, TLC

CONSTANT file

SomeChoices == {[clean |-> TRUE, format |-> TRUE], [clean |-> FALSE, format |-> TRUE],
                [clean |-> FALSE, format |-> FALSE]}
Listing == Bundle :> 1 @@ Declaration :> 2 @@ file :> 3 @@ Index :> 4 @@ Lib :> 5 @@ Own :> 6
AloneOrTwo == {[runs |-> {r}, writes |-> 2] : r \in Runs} \cup {[runs |-> Runs, writes |-> 1]}
Symmetry == Permutations(Runs) \cup Permutations(Writers) \cup Permutations(Temps \ {Lookalike})
=============================================================================
