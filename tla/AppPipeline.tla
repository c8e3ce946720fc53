---------------------------- MODULE AppPipeline ----------------------------
(***************************************************************************)
(* One request in TypeweaverApp.fetch (packages/server/src/lib): reading   *)
(* the body (FetchApiAdapter), the middleware pipeline (Middleware), the   *)
(* route's handler with its validation and error handlers, and the mapping *)
(* of errors to responses.  Middleware and handlers are user code and may  *)
(* do what their types allow: call next or not, await it or not, return    *)
(* something of their own, throw, call next a second time or late.         *)
(***************************************************************************)
EXTENDS Naturals, FiniteSets

CONSTANTS Pending, NoLimit

VARIABLES
  config,    \* the router's options, the route matched, the app's limits
  incoming,  \* the body of the Request and what is known of it
  stage,     \* "idle", "read", "run" or "done"
  index,     \* the middlewares that have been started
  mw,        \* for each middleware, its promise and its use of next
  state,     \* ctx.state: whose state has been merged
  handler,   \* the final handler: where it is, the error in hand
  result,    \* what the promise of each component was settled with
  final,     \* the Response
  reported,  \* errors given to onError
  handled,   \* history: errors for which an error handler found a response
  raised,    \* history: errors thrown or rejected with
  started,   \* history: how often the final handler was started
  seen       \* history: ctx.state when each component was started

appVars == <<config, incoming, stage, index, mw, state, handler, result, final,
             reported, handled, raised, started, seen>>
pipeline == <<index, mw, state, started, seen>>
errors == <<reported, handled, raised>>

-----------------------------------------------------------------------------
Options == {"off", "default", "custom"}
Typed == {"typedGood", "typedBad"}
Errors == Typed \cup {"requestValidation", "unknown", "validator", "nextTwice",
                      "middleware", "tooLarge", "unparsable", "unreadable",
                      "unserializable"}
Failures == {"onRequest failed", "onResponse failed", "onHttp failed",
             "onUnknown failed"}
Responses == {"good", "bad", "own", "custom", "validation400", "invalid500",
              "unknown500", "notFound404", "notAllowed405"}
Answers == Responses \cup {"tooLarge413", "unparsable400", "crash500"}

Last == config.depth + 1       \* the final handler
Components == 1 .. Last

Settle(k, with) == result' = [result EXCEPT ![k] = with]
Raise(error) == raised' = raised \cup {error}
Report(error) == reported' = reported \cup {error}

AppInit(configs, bodies, first) ==
  /\ config \in configs /\ incoming \in bodies
  /\ stage = first
  /\ index = 0
  /\ mw = [i \in 1 .. config.depth |->
             [left |-> FALSE, called |-> FALSE, refused |-> FALSE]]
  /\ state = {}
  /\ handler = [at |-> "idle", error |-> Pending, response |-> Pending,
                rescued |-> TRUE]
  /\ result = [k \in Components |-> Pending]
  /\ final = Pending
  /\ reported = {} /\ handled = {} /\ raised = {}
  /\ started = 0
  /\ seen = [k \in Components |-> {}]

-----------------------------------------------------------------------------
(* The body: FetchApiAdapter.parseRequestBody                              *)

OverLimit(size, limit) == size > limit

\* hasSatisfiedBodyLimitPolicy
Satisfied == /\ incoming.prevalidated # NoLimit
             /\ incoming.prevalidated <= config.maxBodySize

MayBeParsed == Satisfied \/ ~OverLimit(incoming.size, config.maxBodySize)

\* advance: the next middleware, or the final handler
Advance(k, states) ==
  /\ index' = IF k <= config.depth THEN k ELSE index
  /\ seen' = [seen EXCEPT ![k] = states]
  /\ IF k <= config.depth
       THEN UNCHANGED <<handler, started>>
       ELSE /\ started' = started + 1
            /\ handler' = [handler EXCEPT !.at = "start"]

\* toRequest fails: the pipeline is not entered.
ReadFails(error) ==
  /\ Raise(error)
  /\ final' = CASE error = "tooLarge"   -> "tooLarge413"
                [] error = "unparsable" -> "unparsable400"
                [] OTHER                -> "crash500"
  /\ reported' = IF error = "unparsable" THEN reported
                                         ELSE reported \cup {error}
  /\ stage' = "done"
  /\ UNCHANGED <<pipeline, handler>>

\* A body that Node has not capped is read here, up to the limit.  The refusal of a
\* Content-Length over the limit, before anything is read, is left out: it has the
\* outcome of reading that much.
ReadBody ==
  /\ stage = "read"
  /\ \/ /\ incoming.present /\ ~Satisfied
        /\ \/ /\ OverLimit(incoming.size, config.maxBodySize)
              /\ ReadFails("tooLarge")
           \/ ReadFails("unreadable")
     \/ /\ incoming.present /\ MayBeParsed
        /\ ReadFails("unparsable")
     \/ /\ MayBeParsed
        /\ Advance(1, state)
        /\ stage' = "run"
        /\ UNCHANGED <<mw, state, errors, final>>
  /\ UNCHANGED <<config, incoming, result, handled>>

-----------------------------------------------------------------------------
(* executeMiddlewarePipeline                                               *)

Started(i) == i <= index
Live(i) == Started(i) /\ ~mw[i].left

\* Mutant: the state is merged when the rest of the pipeline has begun.
MergeLate(i, provides) ==
  /\ state' = IF provides THEN state \cup {i} ELSE state
  /\ Advance(index + 1, state)

MergeAndAdvance(i, provides) ==
  LET merged == IF provides THEN state \cup {i} ELSE state IN
  /\ state' = merged
  /\ Advance(index + 1, merged)

\* Also after the middleware has returned, from code it did not await
CallNext(i) ==
  /\ Started(i) /\ ~mw[i].called
  /\ mw' = [mw EXCEPT ![i].called = TRUE]
  /\ \E provides \in BOOLEAN : MergeAndAdvance(i, provides)
  /\ UNCHANGED <<config, incoming, stage, result, final, errors>>

\* Mutant: a second call of next goes on with whatever comes next.
CallNextFreely(i) ==
  /\ Live(i) /\ mw[i].called /\ ~mw[i].refused
  /\ mw' = [mw EXCEPT ![i].refused = TRUE]
  /\ Advance(index + 1, state)
  /\ UNCHANGED <<config, incoming, stage, state, result, final, errors>>

\* MiddlewareNextAlreadyCalledError
CallNextAgain(i) ==
  /\ Live(i) /\ mw[i].called /\ ~mw[i].refused
  /\ mw' = [mw EXCEPT ![i].refused = TRUE]
  /\ UNCHANGED <<config, incoming, stage, index, state, handler, result, final,
                 started, seen, errors>>

Leave(i, with) ==
  /\ mw' = [mw EXCEPT ![i].left = TRUE]
  /\ Settle(i, with)
  /\ UNCHANGED <<config, incoming, stage, index, state, handler, final, started,
                 seen, reported, handled>>

\* Its own response: a short circuit, a replacement, or next not awaited
Respond(i) == Live(i) /\ Leave(i, "own") /\ UNCHANGED raised

\* What next() was settled with, a response or an error
Forward(i) ==
  /\ Live(i) /\ mw[i].called /\ result[i + 1] # Pending
  /\ Leave(i, result[i + 1])
  /\ UNCHANGED raised

Throw(i) ==
  /\ Live(i)
  /\ \E error \in {"middleware"} \cup (IF mw[i].refused THEN {"nextTwice"} ELSE {}) :
       Leave(i, error) /\ Raise(error)

-----------------------------------------------------------------------------
(* The final handler: resolveAndExecute, validateResponse, handleError     *)

At(where) == handler.at = where
Go(where) == handler' = [handler EXCEPT !.at = where]
Done(with) == Go("done") /\ Settle(Last, with)

HandlerStep == UNCHANGED <<config, incoming, stage, pipeline, final>>

\* Which error handler an error is given to first; those that are off are
\* passed over, and an error nobody takes is thrown on.
LastResort == IF config.onUnknown = "off" THEN "rethrow" ELSE "onUnknown"
FirstFor(error) ==
  IF error = "requestValidation" /\ config.onRequest # "off" THEN "onRequest"
  ELSE IF error \in Typed /\ config.onHttp # "off" THEN "onHttp"
  ELSE LastResort

HandleError(error) ==
  /\ handler' = [handler EXCEPT !.at = FirstFor(error), !.error = error,
                                !.rescued = FALSE]
  /\ Raise(error)

Validate(response) ==
  handler' = [handler EXCEPT !.at = "validate", !.response = response]

NotFound ==
  /\ At("start") /\ config.route # "matched"
  /\ Done(IF config.route = "otherMethod" THEN "notAllowed405"
                                          ELSE "notFound404")
  /\ UNCHANGED errors
  /\ HandlerStep

Execute ==
  /\ At("start") /\ config.route = "matched"
  /\ \/ /\ \E response \in {"good", "bad"} : Validate(response)
        /\ UNCHANGED raised
     \/ \E error \in Typed \cup {"unknown"} : HandleError(error)
     \/ config.validateRequests /\ HandleError("requestValidation")
  /\ UNCHANGED <<result, reported, handled>>
  /\ HandlerStep

\* `rescued': this validation runs inside the try of resolveAndExecute.
ValidateResponse ==
  /\ At("validate")
  /\ \/ /\ config.validateResponses => handler.response # "bad"
        /\ Done(handler.response)
        /\ UNCHANGED raised
     \/ /\ config.validateResponses /\ handler.response = "bad"
        /\ CASE config.onResponse = "off"     -> Done("bad")
             [] config.onResponse = "default" -> Done("invalid500")
             [] config.onResponse = "custom"  -> Go("onResponse")
                                                   /\ UNCHANGED result
        /\ UNCHANGED raised
     \/ /\ config.validateResponses   \* the schema's own code throws
        /\ IF handler.rescued
             THEN HandleError("validator") /\ UNCHANGED result
             ELSE Done("validator") /\ Raise("validator")
  /\ UNCHANGED <<reported, handled>>
  /\ HandlerStep

\* safelyExecuteErrorHandler: a handler that throws is reported and, like
\* one that yields nothing, passed over.
PassedOver(failure) ==
  \/ Report(failure)
  \/ UNCHANGED reported

OnResponse ==
  /\ At("onResponse")
  /\ \/ Done("custom") /\ UNCHANGED reported
     \/ Done("invalid500") /\ PassedOver("onResponse failed")
  /\ UNCHANGED <<handled, raised>>
  /\ HandlerStep

OnRequest ==
  /\ At("onRequest")
  /\ \/ /\ Done(IF config.onRequest = "default" THEN "validation400"
                                                ELSE "custom")
        /\ handled' = handled \cup {handler.error}
        /\ UNCHANGED reported
     \/ /\ config.onRequest = "custom"
        /\ Go(LastResort)
        /\ PassedOver("onRequest failed")
        /\ UNCHANGED <<handled, result>>
  /\ UNCHANGED raised
  /\ HandlerStep

\* Mutant: the response made of a thrown one is not validated.
AcceptTyped(response) == Done(response)

\* A response made of a thrown one is validated like a returned one.
CheckTyped(response) == Validate(response) /\ UNCHANGED result

OnHttp ==
  /\ At("onHttp")
  /\ \/ /\ config.onHttp = "default"
        /\ CheckTyped(IF handler.error = "typedGood" THEN "good" ELSE "bad")
        /\ handled' = handled \cup {handler.error}
        /\ UNCHANGED reported
     \/ /\ config.onHttp = "custom"
        /\ \E response \in {"good", "bad"} : CheckTyped(response)
        /\ handled' = handled \cup {handler.error}
        /\ UNCHANGED reported
     \/ /\ config.onHttp = "custom"
        /\ Go(LastResort)
        /\ PassedOver("onHttp failed")
        /\ UNCHANGED <<handled, result>>
  /\ UNCHANGED raised
  /\ HandlerStep

\* The error is reported whichever handler has answered it.
OnUnknown ==
  /\ At("onUnknown")
  /\ \/ /\ Done(IF config.onUnknown = "default" THEN "unknown500" ELSE "custom")
        /\ Report(handler.error)
     \/ /\ config.onUnknown = "custom"
        /\ Go("rethrow")
        /\ PassedOver("onUnknown failed")
        /\ UNCHANGED result
  /\ UNCHANGED <<handled, raised>>
  /\ HandlerStep

\* Mutant: the error that nobody took becomes a response here.
RethrowNothing ==
  /\ At("rethrow")
  /\ Done("unknown500")
  /\ UNCHANGED errors
  /\ HandlerStep

Rethrow ==
  /\ At("rethrow")
  /\ Done(handler.error)
  /\ UNCHANGED errors
  /\ HandlerStep

-----------------------------------------------------------------------------
(* The end of fetch                                                        *)

\* Serialization may fail too.
Answer ==
  /\ stage = "run" /\ result[1] # Pending
  /\ \/ /\ result[1] \in Responses
        /\ final' = result[1]
        /\ UNCHANGED <<reported, raised>>
     \/ /\ result[1] \in {"good", "bad", "own", "custom"}
        /\ final' = "crash500"
        /\ Raise("unserializable") /\ Report("unserializable")
     \/ /\ result[1] \in Errors
        /\ final' = "crash500"
        /\ Report(result[1])
        /\ UNCHANGED raised
  /\ stage' = "done"
  /\ UNCHANGED <<config, incoming, pipeline, handler, result, handled>>

FinalHandlerNext ==
  \/ NotFound \/ Execute \/ ValidateResponse \/ OnResponse \/ OnRequest
  \/ OnHttp \/ OnUnknown \/ Rethrow

AppNext ==
  \/ ReadBody \/ FinalHandlerNext \/ Answer
  \/ \E i \in DOMAIN mw :
       CallNext(i) \/ CallNextAgain(i) \/ Respond(i) \/ Forward(i) \/ Throw(i)

-----------------------------------------------------------------------------
\* The pipeline is an onion whatever middleware does with next: the final
\* handler is started at most once, and only when every middleware has
\* called next, each before the one inside it.
HandlerRunsOnce ==
  /\ started <= 1
  /\ \A i \in DOMAIN mw : (started = 1 \/ i < index) => mw[i].called

\* State given to next is there for everything downstream when it starts.
StateFlowsDown ==
  \A k \in Components : \A i \in state :
    i < k /\ k <= index + started => i \in seen[k]

\* An error is always somewhere: with an error handler, in the promise of a
\* component whose caller has not let go of it, reported, or answered by the
\* configured handler.  A body that cannot be parsed is a 400 and no error.
Held(error) ==
  \/ handler.error = error /\ ~At("done")
  \/ \E k \in Components : /\ result[k] = error
                           /\ IF k = 1 THEN stage # "done"
                                       ELSE result[k - 1] # error
ErrorsAreAccountedFor ==
  \A error \in raised \ {"unparsable"} :
    \/ error \in reported \cup handled
    \/ Held(error)

\* With response validation on and its errors handled, no response that its
\* operation does not declare leaves the router, returned or thrown.
OnlyDeclaredResponses ==
  config.validateResponses /\ config.onResponse # "off" => result[Last] # "bad"

\* README of the server package, on handleUnknownErrors: "A custom
\* `handleUnknownErrors` function replaces that default reporting strategy".
CustomUnknownReplacesReporting ==
  config.onUnknown = "custom" /\ config.depth = 0 /\ final = "custom"
    => reported \subseteq Failures
=============================================================================
