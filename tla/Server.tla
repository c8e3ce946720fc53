------------------------------- MODULE Server -------------------------------
(***************************************************************************)
(* A request in a generated server: through nodeAdapter to                 *)
(* TypeweaverApp.fetch and back, or to fetch directly, as Bun, Deno and    *)
(* other Fetch runtimes call it.  Requests share nothing but the routes.   *)
(***************************************************************************)
EXTENDS AppPipeline, NodeAdapter

CONSTANTS
  NodeRequests,   \* requests that come through nodeAdapter
  NodeConfigs,    \* and the apps they meet
  FetchConfigs,   \* apps that are called directly
  FetchBodies     \* and the bodies they are given

\* The types of TypeweaverRouterOptions and of the requests; only nodeAdapter
\* marks a body as checked, and what stands for "none" is neither an answer nor
\* an error.
AppConfigs ==
  [depth : Nat, route : {"matched", "otherMethod", "none"},
   validateRequests : BOOLEAN, validateResponses : BOOLEAN, onRequest : Options,
   onResponse : Options, onHttp : Options, onUnknown : Options,
   maxBodySize : Nat]
ASSUME ConfigAssumption == NodeConfigs \cup FetchConfigs \subseteq AppConfigs
ASSUME RequestAssumption ==
  NodeRequests \subseteq
    [method : STRING, target : {"ok", "bad", "throws"},
     declared : Nat \cup {NoLength}, chunked : BOOLEAN, maxBodySize : Nat]
ASSUME BodyAssumption ==
  FetchBodies \subseteq [present : BOOLEAN, size : Nat, prevalidated : {NoLimit}]
ASSUME PendingAssumption == Pending \notin Responses \cup Errors

VARIABLE via      \* "node" or "fetch"

vars == <<via, appVars, nodeVars>>

NoBody == [present |-> FALSE, size |-> 0, prevalidated |-> NoLimit]
NoRequest == [method |-> "GET", target |-> "ok", declared |-> NoLength,
              chunked |-> FALSE, maxBodySize |-> 0]

Init ==
  \/ /\ via = "node"
     /\ NodeInit(NodeRequests)
     /\ AppInit(NodeConfigs, {NoBody}, "idle")
  \/ /\ via = "fetch"
     /\ NodeInit({NoRequest})
     /\ AppInit(FetchConfigs, FetchBodies, "read")

\* new Request, markRequestBodyPrevalidated, app.fetch
Enter ==
  /\ phase = "fetch" /\ stage = "idle"
  /\ incoming' = IF Bodyless THEN NoBody
                 ELSE [present |-> TRUE, size |-> body,
                       prevalidated |-> request.maxBodySize]
  /\ stage' = "read"
  /\ UNCHANGED <<config, pipeline, handler, result, final, errors, nodeVars>>

StatusOf(answer) ==
  CASE answer \in {"validation400", "unparsable400"}           -> 400
    [] answer = "notFound404"                                  -> 404
    [] answer = "notAllowed405"                                -> 405
    [] answer = "tooLarge413"                                  -> 413
    [] answer \in {"invalid500", "unknown500", "crash500"}     -> 500
    [] OTHER                                                   -> 200

\* The Response is written, or its body cannot be read; that of a HEAD
\* request is not read.
Reply ==
  /\ phase = "fetch" /\ stage = "done"
  /\ \/ Write(StatusOf(final))
     \/ request.method # "HEAD" /\ Write(500)
  /\ UNCHANGED appVars

\* The steps of the program, of user code and of Node, not of the client
ServerNext ==
  \/ via = "node" /\ AdapterNext /\ UNCHANGED appVars
  \/ via = "node" /\ (Enter \/ Reply)
  \/ AppNext /\ UNCHANGED nodeVars

Next ==
  /\ \/ ServerNext
     \/ via = "node" /\ ClientNext /\ UNCHANGED appVars
  /\ UNCHANGED via

(* Node runs what is ready, timers fire, an answer is flushed, and user    *)
(* code comes to an end; nothing is assumed of the client.                 *)
Fairness == WF_vars(ServerNext /\ UNCHANGED via)

Spec == Init /\ [][Next]_vars /\ Fairness

-----------------------------------------------------------------------------
(* Properties                                                              *)

\* Whatever reaches middleware and handlers has been capped by the app's
\* limit, and through Node by the adapter's too, one of them trusting the
\* other; and it is the whole body, not one that broke off.
BodiesAreWholeAndCapped ==
  index > 0 \/ started > 0 =>
    /\ incoming.size <= config.maxBodySize
    /\ via = "node" /\ ~Bodyless =>
         /\ incoming.size <= request.maxBodySize
         /\ stream = "ended" /\ incoming.size = sent

\* The adapter never destroys a request before its answer has been flushed:
\* the client of an oversized request is told so.
AnswerPrecedesDestruction == destroyed => phase = "finished"

\* A client that stalls in the body of a GET or HEAD request does not keep it from
\* being answered, and the body of a request that was refused is read to its end
\* or destroyed, however slowly the client sends it.
SlowClientsAreBounded ==
  /\ via = "node" /\ Bodyless ~> phase \in {"answered", "finished"}
  /\ via = "node" /\ HasBody /\ status \in {400, 413} ~> stream # "open"
=============================================================================
