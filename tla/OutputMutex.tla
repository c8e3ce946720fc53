---------------------------- MODULE OutputMutex ----------------------------
(***************************************************************************)
(* What withGenerationLock promises: the workflow of at most one           *)
(* generation run at a time works on an output directory.  A run enters    *)
(* when nobody is inside; it leaves by finishing, by failing or by being   *)
(* killed.  Who is turned away, and why, is left to the implementation.    *)
(***************************************************************************)
CONSTANTS Runs, NoRun

VARIABLE owner          \* the run whose workflow is executing, or NoRun

MutexInit == owner = NoRun

Enter(r) == owner = NoRun /\ owner' = r
Leave(r) == owner = r /\ owner' = NoRun

MutexNext == \E r \in Runs : Enter(r) \/ Leave(r)

MutexSpec == MutexInit /\ [][MutexNext]_owner
=============================================================================
