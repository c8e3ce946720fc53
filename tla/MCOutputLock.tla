---------------------------- MODULE MCOutputLock ----------------------------
(***************************************************************************)
(* Instances of OutputLock with three processes, each executing one run    *)
(* again and again.  In lock_operator p3 may have the pid of p1.           *)
(***************************************************************************)
EXTENDS OutputLock, TLC

CONSTANTS p1, p2, p3, r1, r2, r3, t1, t2, t3

DistinctPids == p1 :> 1 @@ p2 :> 2 @@ p3 :> 3
ReusedPid == p1 :> 1 @@ p2 :> 2 @@ p3 :> 1

ThreeRuns == r1 :> p1 @@ r2 :> p2 @@ r3 :> p3

\* Tokens are compared for equality only.
TokenSymmetry == Permutations(Tokens)

\* For the same reason, and where a liveness property allows no SYMMETRY: it is
\* enough to look at the behaviours that draw the tokens in this order.
InTurn ==
  /\ drawnBy[t2] # NoRun => drawnBy[t1] # NoRun
  /\ drawnBy[t3] # NoRun => drawnBy[t2] # NoRun
=============================================================================
