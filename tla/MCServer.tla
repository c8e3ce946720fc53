------------------------------ MODULE MCServer ------------------------------
(***************************************************************************)
(* Every Node request of up to three bytes with limits on both sides, and  *)
(* every router configuration under up to two middlewares.                 *)
(***************************************************************************)
EXTENDS Server

CONSTANTS Depths, Limits

Plain ==
  [depth |-> 0, route |-> "matched", validateRequests |-> FALSE,
   validateResponses |-> FALSE, onRequest |-> "default",
   onResponse |-> "default", onHttp |-> "default", onUnknown |-> "default",
   maxBodySize |-> 1]

AllRequests ==
  {r \in [method : {"GET", "HEAD", "POST"}, target : {"ok", "bad", "throws"},
          declared : {0, 1, 2, 3, NoLength}, chunked : BOOLEAN,
          maxBodySize : Limits] :
     r.chunked => r.declared = NoLength}

LimitedApps == {[Plain EXCEPT !.maxBodySize = limit] : limit \in Limits}

Router(depth, check, on) ==
  [Plain EXCEPT !.depth = depth, !.validateRequests = TRUE,
                !.validateResponses = check, !.onRequest = on[1],
                !.onResponse = on[2], !.onHttp = on[3], !.onUnknown = on[4]]

\* Every combination of options without middleware, the uniform ones with
Routers ==
  {Router(0, check, on) : check \in BOOLEAN, on \in [1 .. 4 -> Options]}
  \cup {Router(depth, TRUE, [k \in 1 .. 4 |-> option]) :
          depth \in Depths, option \in Options}
Unrouted ==
  {[Plain EXCEPT !.depth = depth, !.route = route] :
     depth \in Depths, route \in {"none", "otherMethod"}}
AllApps == Routers \cup Unrouted

SomeBodies ==
  {[present |-> size > 0, size |-> size, prevalidated |-> NoLimit] :
     size \in {0, 1, 2}}
=============================================================================
