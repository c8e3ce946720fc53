---------------------------- MODULE ServerProofs ----------------------------
(***************************************************************************)
(* Proofs about Server and its parts, AppPipeline and NodeAdapter, for any *)
(* number of middlewares, any limits, bodies of any size and any options.  *)
(***************************************************************************)
EXTENDS Server, WellFoundedInduction, TLAPS

-----------------------------------------------------------------------------
(* The inductive invariant of the pipeline                                 *)

Middlewares == 1 .. config.depth
Settled == Responses \cup Errors
Places == {"idle", "start", "validate", "onResponse", "onRequest", "onHttp",
           "onUnknown", "rethrow", "done"}
Choosing == {"onRequest", "onHttp", "onUnknown", "rethrow"}
NotEntered == index = 0 /\ started = 0

MiddlewareState == [left : BOOLEAN, called : BOOLEAN, refused : BOOLEAN]
HandlerState == [at : Places, error : Errors \cup {Pending},
                 response : {"good", "bad", Pending}, rescued : BOOLEAN]
AppBodies == [present : BOOLEAN, size : Nat, prevalidated : Nat \cup {NoLimit}]

AppType ==
  /\ config \in AppConfigs
  /\ incoming \in AppBodies
  /\ stage \in {"idle", "read", "run", "done"}
  /\ index \in 0 .. config.depth
  /\ mw \in [Middlewares -> MiddlewareState]
  /\ state \in SUBSET Middlewares
  /\ handler \in HandlerState
  /\ result \in [Components -> Settled \cup {Pending}]
  /\ raised \in SUBSET Errors
  /\ started \in {0, 1}
  /\ seen \in [Components -> SUBSET Middlewares]

\* The middlewares that have been started have called next, except the last one.
OnionInv ==
  /\ stage \in {"idle", "read"} => NotEntered /\ state = {} /\ raised = {}
  /\ started = 1 => index = config.depth
  /\ \A i \in Middlewares : (started = 1 \/ i < index) => mw[i].called

\* A promise is settled once, by a component that was running.
PromiseInv ==
  /\ \A i \in Middlewares : result[i] # Pending => mw[i].left /\ i <= index
  /\ result[Last] # Pending => At("done")
  /\ At("idle") <=> started = 0
  /\ stage = "done" => result[1] # Pending \/ NotEntered

\* The error in hand, and the response to be validated
HandlerInv ==
  /\ handler.rescued <=> handler.error = Pending
  /\ handler.at \in {"idle", "start"} => handler.error = Pending
  /\ handler.at \in Choosing => handler.error # Pending
  /\ At("validate") => handler.response # Pending
  /\ handler.at \in {"validate", "onResponse"} =>
       handler.error \in handled \cup {Pending}

\* An error is somewhere, and an error that was the answer has been reported.
Accounted(error) ==
  \/ error \in reported \cup handled
  \/ handler.error = error /\ ~At("done")
  \/ \E k \in Components : result[k] = error
ErrorInv ==
  /\ \A error \in raised \ {"unparsable"} : Accounted(error)
  /\ stage = "done" /\ result[1] \in Errors => result[1] \in reported

PipelineInv ==
  /\ AppType /\ OnionInv /\ PromiseInv /\ HandlerInv /\ ErrorInv
  /\ StateFlowsDown /\ OnlyDeclaredResponses

-----------------------------------------------------------------------------
(* The inductive invariant of the adapter, and what joins the two          *)

AdapterType ==
  /\ request \in NodeRequests \cup {NoRequest}
  /\ stream \in {"open", "ended", "closed"}
  /\ sent \in Nat /\ counted \in Nat /\ body \in Nat
  /\ reader \in {"none", "drain", "collect", "sink", "cleanup"}
  /\ phase \in {"arrived", "reading", "fetch", "answered", "finished"}
  /\ destroyed \in BOOLEAN

\* Who listens to the stream at each phase, and what it has counted
ReaderInv ==
  /\ phase = "arrived" => stream = "open" /\ reader = "none" /\ sent = 0
  /\ phase = "reading" <=> reader \in {"drain", "collect"}
  /\ phase = "reading" => stream = "open" /\ (reader = "drain" <=> Bodyless)
  /\ reader = "collect" => counted = sent /\ ~OverNodeLimit(counted)
  /\ reader = "cleanup" => phase = "finished"

\* A body that was collected is whole.
WholeBody(size) == stream = "ended" /\ size = sent /\ ~OverNodeLimit(size)
CollectedInv == phase = "fetch" /\ ~Bodyless => WholeBody(body)

AdapterInv ==
  AdapterType /\ ReaderInv /\ CollectedInv /\ AnswerPrecedesDestruction

\* The application is entered with what the adapter has read, and a body that is
\* too large gets no further than its reading.
EntryInv ==
  /\ via = "node" /\ stage \in {"read", "run"} => phase = "fetch"
  /\ via = "node" /\ stage # "idle" /\ ~Bodyless => WholeBody(incoming.size)
  /\ incoming.prevalidated # NoLimit => incoming.size <= incoming.prevalidated
  /\ ~NotEntered => incoming.size <= config.maxBodySize

IInv == PipelineInv /\ AdapterInv /\ EntryInv

-----------------------------------------------------------------------------
(* The pipeline                                                            *)

LEMMA DepthIsNat == AppType => config.depth \in Nat
  BY DEF AppType, AppConfigs

\* Whoever is started next is the component after the last one.
LEMMA AdvanceStep ==
  ASSUME PipelineInv, NEW states \in SUBSET Middlewares, started = 0,
         \A i \in states \ state : i = index,
         UNCHANGED config, state' = states,
         Advance(index + 1, states)
  PROVE  /\ index' \in 0 .. config.depth
         /\ started' \in {0, 1}
         /\ index' + started' = index + 1
         /\ started' = 1 => index' = config.depth
         /\ seen' \in [Components -> SUBSET Middlewares]
         /\ StateFlowsDown'
         /\ handler' = IF started' = 1 THEN [handler EXCEPT !.at = "start"] ELSE handler
<1>1. config.depth \in Nat
  BY DepthIsNat DEF PipelineInv
<1>2. index \in 0 .. config.depth /\ index + 1 \in Components
  BY <1>1 DEF PipelineInv, AppType, Components, Last
<1>3. /\ index' \in 0 .. config.depth
      /\ started' \in {0, 1}
      /\ index' + started' = index + 1
      /\ started' = 1 => index' = config.depth
      /\ handler' = IF started' = 1 THEN [handler EXCEPT !.at = "start"] ELSE handler
  BY <1>1, <1>2 DEF Advance
<1>4. seen' = [seen EXCEPT ![index + 1] = states]
  BY DEF Advance
<1>5. seen' \in [Components -> SUBSET Middlewares]
  BY <1>2, <1>4 DEF PipelineInv, AppType
<1>6. StateFlowsDown'
  <2> SUFFICES ASSUME NEW k \in Components, NEW i \in states,
                      i < k, k <= index' + started'
               PROVE  i \in seen'[k]
    BY DEF StateFlowsDown, Components, Last
  <2>1. CASE k = index + 1
    BY <1>2, <1>4, <2>1 DEF PipelineInv, AppType
  <2>2. CASE k # index + 1
    <3>1. k \in Nat /\ i \in Nat /\ index \in Nat
      BY <1>1 DEF Components, Last, Middlewares, PipelineInv, AppType
    <3>2. k <= index /\ i # index /\ seen'[k] = seen[k]
      BY <1>2, <1>3, <1>4, <2>2, <3>1 DEF PipelineInv, AppType
    <3>3. k <= index + started /\ i \in state
      BY <3>1, <3>2
    <3> QED
      BY <3>2, <3>3 DEF PipelineInv, StateFlowsDown
  <2> QED
    BY <2>1, <2>2
<1> QED
  BY <1>3, <1>5, <1>6

LEMMA CallNextStep ==
  ASSUME PipelineInv, NEW i \in Middlewares, CallNext(i)
  PROVE  PipelineInv'
<1> USE DEF PipelineInv
<1>1. config.depth \in Nat
  BY DepthIsNat
<1>2. i = index /\ started = 0 /\ stage \notin {"idle", "read"}
  BY <1>1 DEF CallNext, Started, AppType, OnionInv, Middlewares, NotEntered
<1>3. PICK provides \in BOOLEAN : MergeAndAdvance(i, provides)
  BY DEF CallNext
<1>4. /\ mw' = [mw EXCEPT ![i].called = TRUE]
      /\ UNCHANGED <<config, incoming, stage, result, final, reported, handled, raised>>
  BY DEF CallNext, errors
<1>5. /\ state' \in SUBSET Middlewares
      /\ \A j \in state' \ state : j = index
      /\ Advance(index + 1, state')
  BY <1>2, <1>3 DEF MergeAndAdvance, AppType
<1>6. /\ index' \in 0 .. config.depth
      /\ started' \in {0, 1}
      /\ index' + started' = index + 1
      /\ started' = 1 => index' = config.depth
      /\ seen' \in [Components -> SUBSET Middlewares]
      /\ StateFlowsDown'
      /\ handler' = IF started' = 1 THEN [handler EXCEPT !.at = "start"] ELSE handler
  BY <1>2, <1>4, <1>5, AdvanceStep
<1>7. AppType'
  <2>1. handler' \in HandlerState
    BY <1>6 DEF AppType, HandlerState, Places
  <2>2. mw' \in [Middlewares -> MiddlewareState]
    BY <1>4 DEF AppType, MiddlewareState
  <2> QED
    BY <1>4, <1>5, <1>6, <2>1, <2>2 DEF AppType, Middlewares, Components, Last
<1>8. \A j \in Middlewares : /\ mw'[j].left = mw[j].left
                             /\ mw[j].called \/ j = i => mw'[j].called
  BY <1>4 DEF AppType, MiddlewareState
<1>9. OnionInv'
  BY <1>1, <1>2, <1>4, <1>6, <1>8 DEF AppType, OnionInv, Middlewares
<1>10. At("idle") /\ handler.error = Pending /\ result[Last] = Pending
  BY <1>2 DEF PromiseInv, HandlerInv, At, AppType
<1>11. PromiseInv'
  BY <1>1, <1>2, <1>4, <1>6, <1>8, <1>10
     DEF AppType, PromiseInv, Middlewares, At, NotEntered, Last, HandlerState
<1>12. HandlerInv'
  BY <1>4, <1>6, <1>10 DEF AppType, HandlerInv, At, Choosing, HandlerState
<1>13. ErrorInv'
  BY <1>4, <1>10, PendingAssumption DEF AppType, ErrorInv, Accounted, Components, Last
<1>14. OnlyDeclaredResponses'
  BY <1>4 DEF OnlyDeclaredResponses, Last
<1> QED
  BY <1>6, <1>7, <1>9, <1>11, <1>12, <1>13, <1>14

\* The body is read, and the first middleware or the final handler is started.
LEMMA ReadBodyStep ==
  ASSUME PipelineInv, ReadBody
  PROVE  PipelineInv'
<1> USE DEF PipelineInv
<1>1. config.depth \in Nat
  BY DepthIsNat
<1>2. stage = "read" /\ NotEntered /\ state = {} /\ raised = {}
  BY DEF ReadBody, OnionInv
<1>3. At("idle") /\ handler.error = Pending /\ result[Last] = Pending
  BY <1>2 DEF PromiseInv, HandlerInv, At, NotEntered, AppType
<1>4. UNCHANGED <<config, incoming, result, handled>>
  BY DEF ReadBody
<1>5. \A i \in Middlewares : result[i] = Pending
  BY <1>1, <1>2 DEF PromiseInv, NotEntered, Middlewares, AppType
<1>6. 1 \in Components /\ \A k \in Components : result[k] = Pending
  BY <1>1, <1>3, <1>5 DEF Components, Last, Middlewares
<1>7. OnlyDeclaredResponses'
  BY <1>4 DEF OnlyDeclaredResponses, Last
<1>8. CASE \E error \in {"tooLarge", "unreadable", "unparsable"} : ReadFails(error)
  <2>1. PICK error \in {"tooLarge", "unreadable", "unparsable"} : ReadFails(error)
    BY <1>8
  <2>2. /\ raised' = {error} /\ stage' = "done"
        /\ error # "unparsable" => error \in reported'
        /\ UNCHANGED <<index, mw, state, started, seen, handler>>
    BY <1>2, <2>1 DEF ReadFails, Raise, pipeline
  <2>3. AppType'
    BY <1>4, <2>2 DEF AppType, Middlewares, Components, Last, Errors
  <2>4. OnionInv' /\ PromiseInv' /\ HandlerInv'
    BY <1>2, <1>4, <2>2 DEF OnionInv, PromiseInv, HandlerInv, NotEntered, Middlewares, Last, At
  <2>5. ErrorInv'
    BY <1>4, <1>6, <2>2, PendingAssumption DEF ErrorInv, Accounted
  <2>6. StateFlowsDown'
    BY <1>4, <2>2 DEF StateFlowsDown, Components, Last
  <2> QED
    BY <1>7, <2>3, <2>4, <2>5, <2>6
<1>9. CASE /\ MayBeParsed /\ Advance(1, state) /\ stage' = "run"
           /\ UNCHANGED <<mw, state, errors, final>>
  <2>1. Advance(index + 1, state) /\ state' = state
    BY <1>2, <1>9 DEF NotEntered
  <2>2. /\ index' \in 0 .. config.depth
        /\ started' \in {0, 1}
        /\ index' + started' = 1
        /\ started' = 1 => index' = config.depth
        /\ seen' \in [Components -> SUBSET Middlewares]
        /\ StateFlowsDown'
        /\ handler' = IF started' = 1 THEN [handler EXCEPT !.at = "start"] ELSE handler
    <3>1. state \in SUBSET Middlewares /\ started = 0 /\ index + 1 = 1
      BY <1>2 DEF AppType, NotEntered
    <3> QED
      BY <1>4, <2>1, <3>1, AdvanceStep
  <2>3. handler' \in HandlerState
    BY <2>2 DEF AppType, HandlerState, Places
  <2>4. AppType'
    BY <1>4, <1>9, <2>2, <2>3 DEF AppType, Middlewares, Components, Last, errors
  <2>5. OnionInv'
    BY <1>1, <1>4, <1>9, <2>2 DEF AppType, OnionInv, Middlewares
  <2>6. PromiseInv'
    BY <1>3, <1>4, <1>5, <1>9, <2>2 DEF AppType, PromiseInv, Middlewares, At, Last, HandlerState
  <2>7. HandlerInv'
    BY <1>3, <1>4, <1>9, <2>2 DEF AppType, HandlerInv, At, Choosing, HandlerState
  <2>8. ErrorInv'
    BY <1>2, <1>9 DEF ErrorInv, errors
  <2> QED
    BY <1>7, <2>2, <2>4, <2>5, <2>6, <2>7, <2>8
<1> QED
  BY <1>8, <1>9 DEF ReadBody

LEMMA CallNextAgainStep ==
  ASSUME PipelineInv, NEW i \in Middlewares, CallNextAgain(i)
  PROVE  PipelineInv'
<1> USE DEF PipelineInv
<1>1. /\ mw' = [mw EXCEPT ![i].refused = TRUE]
      /\ UNCHANGED <<config, incoming, stage, index, state, handler, result, final,
                     started, seen, reported, handled, raised>>
  BY DEF CallNextAgain, errors
<1>2. mw' \in [Middlewares -> MiddlewareState]
  BY <1>1 DEF AppType, MiddlewareState
<1>3. \A j \in Middlewares : mw'[j].left = mw[j].left /\ mw'[j].called = mw[j].called
  BY <1>1 DEF AppType, MiddlewareState
<1>4. AppType'
  BY <1>1, <1>2 DEF AppType, Middlewares, Components, Last
<1>5. OnionInv' /\ PromiseInv'
  BY <1>1, <1>3 DEF OnionInv, PromiseInv, NotEntered, Middlewares, Last, At
<1>6. HandlerInv' /\ ErrorInv'
  BY <1>1 DEF HandlerInv, ErrorInv, Accounted, At, Components, Last
<1>7. StateFlowsDown' /\ OnlyDeclaredResponses'
  BY <1>1 DEF StateFlowsDown, OnlyDeclaredResponses, Components, Last
<1> QED
  BY <1>4, <1>5, <1>6, <1>7

\* A promise that is settled stays as it is: only a running component settles one.
LEMMA SettleOnce ==
  ASSUME AppType, NEW k \in Components, NEW with \in Settled,
         result[k] = Pending, Settle(k, with), UNCHANGED config
  PROVE  /\ result' \in [Components' -> Settled \cup {Pending}]
         /\ result'[k] = with
         /\ \A j \in Components : j # k => result'[j] = result[j]
         /\ \A error \in Errors :
              (\E j \in Components : result[j] = error)
                => \E j \in Components : result'[j] = error
<1>1. Components' = Components
  BY DEF Components, Last
<1>2. result' = [result EXCEPT ![k] = with]
  BY DEF Settle
<1>3. /\ result' \in [Components -> Settled \cup {Pending}]
      /\ result'[k] = with
      /\ \A j \in Components : j # k => result'[j] = result[j]
  BY <1>2 DEF AppType
<1> QED
  BY <1>1, <1>3, PendingAssumption

\* A middleware that is running settles its promise, with an error that it raises
\* or that is known already.
LEMMA LeaveStep ==
  ASSUME PipelineInv, NEW i \in Middlewares, NEW with \in Settled,
         Live(i), Leave(i, with),
         raised' = raised \/ (with \in Errors /\ raised' = raised \cup {with})
  PROVE  PipelineInv'
<1> USE DEF PipelineInv
<1>1. config.depth \in Nat /\ i \in Components /\ i # Last
  BY DepthIsNat DEF Middlewares, Components, Last
<1>2. /\ mw' = [mw EXCEPT ![i].left = TRUE]
      /\ Settle(i, with)
      /\ UNCHANGED <<config, incoming, stage, index, state, handler, final, started,
                     seen, reported, handled>>
  BY DEF Leave
<1>3. i <= index /\ result[i] = Pending
  BY DEF Live, Started, PromiseInv
<1>4. /\ result' \in [Components' -> Settled \cup {Pending}]
      /\ result'[i] = with
      /\ \A j \in Components : j # i => result'[j] = result[j]
      /\ \A error \in Errors :
           (\E j \in Components : result[j] = error)
             => \E j \in Components : result'[j] = error
  BY <1>1, <1>2, <1>3, SettleOnce
<1>5. mw' \in [Middlewares -> MiddlewareState]
  BY <1>2 DEF AppType, MiddlewareState
<1>6. \A j \in Middlewares : /\ mw'[j].called = mw[j].called
                             /\ mw[j].left \/ j = i => mw'[j].left
  BY <1>2 DEF AppType, MiddlewareState
<1>7. AppType'
  BY <1>2, <1>4, <1>5 DEF AppType, Middlewares, Components, Last
<1>8. stage \notin {"idle", "read"}
  BY <1>1, <1>3 DEF OnionInv, NotEntered, Middlewares
<1>9. OnionInv'
  BY <1>2, <1>6, <1>8 DEF OnionInv, Middlewares
<1>10. result'[Last] = result[Last] /\ (stage = "done" => result'[1] = result[1])
  <2>1. stage = "done" => result[1] # Pending
    BY <1>1, <1>3 DEF PromiseInv, NotEntered, Middlewares
  <2>2. 1 \in Components /\ Last \in Components
    BY <1>1 DEF Components, Last
  <2> QED
    BY <1>1, <1>3, <1>4, <2>1, <2>2
<1>11. PromiseInv'
  <2>1. \A j \in Middlewares : result'[j] # Pending => mw'[j].left /\ j <= index
    BY <1>1, <1>3, <1>4, <1>6 DEF PromiseInv, Middlewares, Components, Last
  <2>2. Middlewares' = Middlewares /\ Last' = Last /\ index' = index
    BY <1>2 DEF Middlewares, Last
  <2>3. (stage = "done" => result[1] # Pending \/ NotEntered)'
    BY <1>2, <1>10 DEF PromiseInv, NotEntered
  <2> QED
    BY <1>2, <1>10, <2>1, <2>2, <2>3 DEF PromiseInv, At
<1>12. HandlerInv'
  BY <1>2 DEF HandlerInv, At
<1>13. ErrorInv'
  <2>1. Components' = Components
    BY <1>2 DEF Components, Last
  <2>2. ASSUME NEW error \in raised' \ {"unparsable"}
        PROVE  Accounted(error)'
    <3>1. CASE error = with
      BY <1>1, <1>4, <2>1, <3>1 DEF Accounted
    <3>2. CASE error # with
      <4>1. error \in Errors /\ Accounted(error)
        BY <3>2 DEF ErrorInv, AppType
      <4> QED
        BY <1>2, <1>4, <2>1, <4>1 DEF Accounted, At
    <3> QED
      BY <3>1, <3>2
  <2> QED
    BY <1>2, <1>10, <2>2 DEF ErrorInv
<1>14. StateFlowsDown' /\ OnlyDeclaredResponses'
  BY <1>2, <1>10 DEF StateFlowsDown, OnlyDeclaredResponses, Components, Last
<1> QED
  BY <1>7, <1>9, <1>11, <1>12, <1>13, <1>14

LEMMA MiddlewareStep ==
  ASSUME PipelineInv, NEW i \in Middlewares,
         Respond(i) \/ Forward(i) \/ Throw(i)
  PROVE  PipelineInv'
<1>1. CASE Respond(i)
  <2>1. "own" \in Settled
    BY DEF Settled, Responses
  <2> QED
    BY <1>1, <2>1, LeaveStep DEF Respond
<1>2. CASE Forward(i)
  <2>1. i + 1 \in Components
    BY DepthIsNat DEF Components, Last, Middlewares, PipelineInv
  <2>2. result[i + 1] \in Settled
    BY <1>2, <2>1 DEF Forward, PipelineInv, AppType
  <2> QED
    BY <1>2, <2>2, LeaveStep DEF Forward
<1>3. CASE Throw(i)
  <2>1. PICK error \in {"middleware", "nextTwice"} :
          Leave(i, error) /\ raised' = raised \cup {error}
    BY <1>3 DEF Throw, Raise
  <2>2. error \in Errors /\ error \in Settled
    BY DEF Errors, Settled
  <2> QED
    BY <1>3, <2>1, <2>2, LeaveStep DEF Throw
<1> QED
  BY <1>1, <1>2, <1>3

-----------------------------------------------------------------------------
(* The final handler                                                       *)

\* The final handler is settled, with an error that it raises or that is known;
\* the error it had in hand is that one, or it has been reported or handled.
LEMMA DoneStep ==
  ASSUME PipelineInv, NEW with \in Settled,
         handler.at \notin {"idle", "done"}, Done(with), HandlerStep,
         reported \subseteq reported', handled \subseteq handled',
         raised' = raised \/ (with \in Errors /\ raised' = raised \cup {with}),
         handler.error \in {Pending, with} \cup reported' \cup handled',
         with = "bad" => ~config.validateResponses \/ config.onResponse = "off"
  PROVE  PipelineInv'
<1> USE DEF PipelineInv
<1>1. config.depth \in Nat /\ 1 \in Components /\ Last \in Components
  BY DepthIsNat DEF Components, Last
<1>2. /\ handler' = [handler EXCEPT !.at = "done"] /\ Settle(Last, with)
      /\ UNCHANGED <<config, incoming, stage, index, mw, state, started, seen, final>>
  BY DEF Done, Go, HandlerStep, pipeline
<1>3. started = 1 /\ result[Last] = Pending
  BY DEF PromiseInv, At, AppType
<1>4. /\ result' \in [Components' -> Settled \cup {Pending}]
      /\ result'[Last] = with
      /\ \A j \in Components : j # Last => result'[j] = result[j]
      /\ \A error \in Errors :
           (\E j \in Components : result[j] = error)
             => \E j \in Components : result'[j] = error
  BY <1>1, <1>2, <1>3, SettleOnce
<1>5. handler' \in HandlerState /\ handler'.at = "done"
  BY <1>2 DEF AppType, HandlerState, Places
<1>6. AppType'
  BY <1>2, <1>4, <1>5 DEF AppType, Middlewares, Components, Last
<1>7. Components' = Components /\ Middlewares' = Middlewares /\ Last' = Last
  BY <1>2 DEF Components, Middlewares, Last
<1>8. OnionInv'
  BY <1>2, <1>3, <1>7 DEF OnionInv, NotEntered
<1>9. stage = "done" => result'[1] = result[1] /\ result[1] # Pending
  BY <1>1, <1>3, <1>4 DEF PromiseInv, NotEntered
<1>10. PromiseInv'
  <2>1. \A j \in Middlewares : result'[j] = result[j]
    BY <1>1, <1>4 DEF Middlewares, Components, Last
  <2> QED
    BY <1>2, <1>3, <1>5, <1>7, <1>9, <2>1 DEF PromiseInv, At
<1>11. HandlerInv'
  BY <1>2, <1>5 DEF HandlerInv, At, Choosing, AppType, HandlerState
<1>12. ErrorInv'
  <2>1. ASSUME NEW error \in raised' \ {"unparsable"}
        PROVE  Accounted(error)'
    <3>1. CASE error = with
      BY <1>1, <1>4, <1>7, <3>1 DEF Accounted
    <3>2. CASE error # with
      <4>1. error \in Errors /\ error # Pending /\ Accounted(error)
        BY <3>2, PendingAssumption DEF ErrorInv, AppType
      <4> QED
        BY <1>4, <1>7, <3>2, <4>1 DEF Accounted
    <3> QED
      BY <3>1, <3>2
  <2>2. stage' = "done" /\ result'[1] \in Errors => result'[1] \in reported'
    BY <1>2, <1>9 DEF ErrorInv
  <2> QED
    BY <2>1, <2>2 DEF ErrorInv
<1>13. StateFlowsDown' /\ OnlyDeclaredResponses'
  BY <1>2, <1>4, <1>7 DEF StateFlowsDown, OnlyDeclaredResponses
<1> QED
  BY <1>6, <1>8, <1>10, <1>11, <1>12, <1>13

\* The final handler goes on with the error in hand or one it has just raised.
LEMMA MoveStep ==
  ASSUME PipelineInv, handler.at \notin {"idle", "done"},
         handler' \in HandlerState, handler'.at \notin {"idle", "start", "done"},
         HandlerInv', UNCHANGED result, HandlerStep,
         reported \subseteq reported', handled \subseteq handled',
         \/ raised' = raised
         \/ handler'.error \in Errors /\ raised' = raised \cup {handler'.error},
         handler.error \in {Pending, handler'.error}
  PROVE  PipelineInv'
<1> USE DEF PipelineInv
<1>1. UNCHANGED <<config, incoming, stage, index, mw, state, started, seen, final, result>>
  BY DEF HandlerStep, pipeline
<1>2. started = 1 /\ result[Last] = Pending
  BY DEF PromiseInv, At, AppType
<1>3. Components' = Components /\ Middlewares' = Middlewares /\ Last' = Last
  BY <1>1 DEF Components, Middlewares, Last
<1>4. AppType'
  BY <1>1, <1>3 DEF AppType
<1>5. OnionInv' /\ PromiseInv'
  BY <1>1, <1>2, <1>3 DEF OnionInv, PromiseInv, NotEntered, At
<1>6. ErrorInv'
  <2>1. ASSUME NEW error \in raised' \ {"unparsable"}
        PROVE  Accounted(error)'
    <3>1. CASE error = handler'.error
      BY <3>1 DEF Accounted, At
    <3>2. CASE error # handler'.error
      <4>1. error # Pending /\ Accounted(error)
        BY <3>2, PendingAssumption DEF ErrorInv, AppType
      <4> QED
        BY <1>1, <1>3, <3>2, <4>1 DEF Accounted
    <3> QED
      BY <3>1, <3>2
  <2> QED
    BY <1>1, <2>1 DEF ErrorInv
<1>7. StateFlowsDown' /\ OnlyDeclaredResponses'
  BY <1>1, <1>3 DEF StateFlowsDown, OnlyDeclaredResponses
<1> QED
  BY <1>4, <1>5, <1>6, <1>7

\* The first error handler to be asked is one that is configured, or the last resort.
LEMMA FirstForChooses == ASSUME NEW error PROVE FirstFor(error) \in Choosing
  BY DEF FirstFor, LastResort, Choosing

\* An error is raised while there is none in hand.
LEMMA HandleErrorStep ==
  ASSUME PipelineInv, NEW error \in Errors,
         handler.at \notin {"idle", "done"}, handler.error = Pending,
         HandleError(error), UNCHANGED <<result, reported, handled>>, HandlerStep
  PROVE  PipelineInv'
<1>1. /\ handler' = [handler EXCEPT !.at = FirstFor(error), !.error = error,
                                    !.rescued = FALSE]
      /\ raised' = raised \cup {error}
  BY DEF HandleError, Raise
<1>2. FirstFor(error) \in Choosing
  BY FirstForChooses
<1>3. handler' \in HandlerState /\ handler'.at = FirstFor(error) /\ handler'.error = error
  BY <1>1, <1>2 DEF PipelineInv, AppType, HandlerState, Choosing, Places
<1>4. error # Pending
  BY PendingAssumption
<1>5. HandlerInv'
  BY <1>1, <1>2, <1>3, <1>4 DEF HandlerInv, At, Choosing, PipelineInv, AppType, HandlerState
<1>6. handler'.at \notin {"idle", "start", "done"}
  BY <1>2, <1>3 DEF Choosing
<1> QED
  BY <1>1, <1>3, <1>5, <1>6, MoveStep

\* The response is to be validated; the error it was made of, if any, is handled.
LEMMA ValidateStep ==
  ASSUME PipelineInv, NEW response \in {"good", "bad"},
         handler.at \notin {"idle", "done"}, Validate(response),
         UNCHANGED <<result, raised>>, reported \subseteq reported',
         handled \subseteq handled', handler.error \in handled' \cup {Pending}, HandlerStep
  PROVE  PipelineInv'
<1>1. handler' = [handler EXCEPT !.at = "validate", !.response = response]
  BY DEF Validate
<1>2. handler' \in HandlerState /\ handler'.at = "validate"
  BY <1>1 DEF PipelineInv, AppType, HandlerState, Places
<1>3. response # Pending
  BY PendingAssumption DEF Responses
<1>4. HandlerInv'
  BY <1>1, <1>2, <1>3 DEF HandlerInv, At, Choosing, PipelineInv, AppType, HandlerState
<1>5. handler'.error = handler.error
  BY <1>1 DEF PipelineInv, AppType, HandlerState
<1> QED
  BY <1>2, <1>4, <1>5, MoveStep

\* A handler that failed or yielded nothing passes its error on.
LEMMA GoStep ==
  ASSUME PipelineInv, NEW where \in {"onResponse", "onUnknown", "rethrow"},
         handler.at \notin {"idle", "done"}, Go(where),
         where = "onResponse" => handler.error \in handled' \cup {Pending},
         where \in Choosing => handler.error # Pending,
         UNCHANGED <<result, raised>>, reported \subseteq reported',
         handled \subseteq handled', HandlerStep
  PROVE  PipelineInv'
<1>1. handler' = [handler EXCEPT !.at = where]
  BY DEF Go
<1>2. handler' \in HandlerState /\ handler'.at = where /\ handler'.error = handler.error
  BY <1>1 DEF PipelineInv, AppType, HandlerState, Places
<1>3. HandlerInv'
  BY <1>1, <1>2 DEF HandlerInv, At, Choosing, PipelineInv, AppType, HandlerState
<1> QED
  BY <1>2, <1>3, MoveStep

LEMMA NotFoundStep == ASSUME PipelineInv, NotFound PROVE PipelineInv'
<1>1. PICK with \in {"notAllowed405", "notFound404"} : Done(with)
  BY DEF NotFound
<1>2. with \in Settled /\ with # "bad"
  BY DEF Settled, Responses
<1>3. handler.at = "start" /\ handler.error = Pending
  BY DEF NotFound, At, PipelineInv, HandlerInv
<1>4. UNCHANGED <<reported, handled, raised>> /\ HandlerStep
  BY DEF NotFound, errors
<1> QED
  BY <1>1, <1>2, <1>3, <1>4, DoneStep

LEMMA ExecuteStep == ASSUME PipelineInv, Execute PROVE PipelineInv'
<1>1. handler.at = "start" /\ handler.error = Pending
  BY DEF Execute, At, PipelineInv, HandlerInv
<1>2. UNCHANGED <<result, reported, handled>> /\ HandlerStep
  BY DEF Execute
<1>3. ASSUME NEW response \in {"good", "bad"}, Validate(response), UNCHANGED raised
      PROVE  PipelineInv'
  BY <1>1, <1>2, <1>3, ValidateStep
<1>4. ASSUME NEW error \in Typed \cup {"unknown", "requestValidation"}, HandleError(error)
      PROVE  PipelineInv'
  <2>1. error \in Errors
    BY DEF Errors
  <2> QED
    BY <1>1, <1>2, <1>4, <2>1, HandleErrorStep
<1> QED
  BY <1>3, <1>4 DEF Execute

\* The error a validated response was made of has been handled.
LEMMA ValidateResponseStep == ASSUME PipelineInv, ValidateResponse PROVE PipelineInv'
<1>1. /\ handler.at = "validate"
      /\ handler.response \in {"good", "bad"}
      /\ handler.error \in handled \cup {Pending}
      /\ handler.rescued <=> handler.error = Pending
  BY DEF ValidateResponse, At, PipelineInv, HandlerInv, AppType, HandlerState
<1>2. UNCHANGED <<reported, handled>> /\ HandlerStep
  BY DEF ValidateResponse
<1>3. ASSUME NEW with \in Settled, Done(with), 
             raised' = raised \/ (with \in Errors /\ raised' = raised \cup {with}),
             with = "bad" => ~config.validateResponses \/ config.onResponse = "off"
      PROVE  PipelineInv'
  BY <1>1, <1>2, <1>3, DoneStep
<1>4. {"good", "bad", "invalid500", "validator"} \subseteq Settled
  BY DEF Settled, Responses, Errors
<1>5. CASE /\ config.validateResponses => handler.response # "bad"
           /\ Done(handler.response)
           /\ UNCHANGED raised
  BY <1>1, <1>3, <1>4, <1>5
<1>6. CASE /\ config.onResponse = "off"
           /\ Done("bad")
           /\ UNCHANGED raised
  BY <1>3, <1>4, <1>6
<1>7. CASE Done("invalid500") /\ UNCHANGED raised
  BY <1>3, <1>4, <1>7
<1>8. CASE Go("onResponse") /\ UNCHANGED <<result, raised>>
  BY <1>1, <1>2, <1>8, GoStep DEF Choosing
<1>9. CASE handler.rescued /\ HandleError("validator") /\ UNCHANGED result
  BY <1>1, <1>2, <1>9, HandleErrorStep DEF Errors
<1>10. CASE Done("validator") /\ Raise("validator")
  BY <1>3, <1>4, <1>10 DEF Raise, Errors
<1>11. config.onResponse \in {"off", "default", "custom"}
  BY DEF PipelineInv, AppType, AppConfigs, Options
<1> QED
  BY <1>5, <1>6, <1>7, <1>8, <1>9, <1>10, <1>11 DEF ValidateResponse

LEMMA OnResponseStep == ASSUME PipelineInv, OnResponse PROVE PipelineInv'
<1>1. handler.at = "onResponse" /\ handler.error \in handled \cup {Pending}
  BY DEF OnResponse, At, PipelineInv, HandlerInv
<1>2. /\ reported \subseteq reported' /\ UNCHANGED <<handled, raised>> /\ HandlerStep
      /\ \E with \in {"custom", "invalid500"} : Done(with)
  BY DEF OnResponse, PassedOver, Report
<1>3. {"custom", "invalid500"} \subseteq Settled \ {"bad"}
  BY DEF Settled, Responses
<1> QED
  BY <1>1, <1>2, <1>3, DoneStep

LEMMA OnRequestStep == ASSUME PipelineInv, OnRequest PROVE PipelineInv'
<1>1. handler.at = "onRequest" /\ handler.error # Pending
  BY DEF OnRequest, At, Choosing, PipelineInv, HandlerInv
<1>2. UNCHANGED raised /\ HandlerStep /\ reported \subseteq reported'
  BY DEF OnRequest, PassedOver, Report
<1>3. ASSUME NEW with \in {"validation400", "custom"}, Done(with),
             handled' = handled \cup {handler.error}
      PROVE  PipelineInv'
  <2>1. with \in Settled /\ with # "bad"
    BY DEF Settled, Responses
  <2> QED
    BY <1>1, <1>2, <1>3, <2>1, DoneStep
<1>4. ASSUME NEW where \in {"onUnknown", "rethrow"}, Go(where), UNCHANGED <<handled, result>>
      PROVE  PipelineInv'
  BY <1>1, <1>2, <1>4, GoStep
<1> QED
  BY <1>3, <1>4 DEF OnRequest, LastResort

LEMMA OnHttpStep == ASSUME PipelineInv, OnHttp PROVE PipelineInv'
<1>1. handler.at = "onHttp" /\ handler.error # Pending
  BY DEF OnHttp, At, Choosing, PipelineInv, HandlerInv
<1>2. UNCHANGED raised /\ HandlerStep /\ reported \subseteq reported'
  BY DEF OnHttp, PassedOver, Report
<1>3. ASSUME NEW response \in {"good", "bad"}, CheckTyped(response),
             handled' = handled \cup {handler.error}
      PROVE  PipelineInv'
  BY <1>1, <1>2, <1>3, ValidateStep DEF CheckTyped
<1>4. ASSUME NEW where \in {"onUnknown", "rethrow"}, Go(where), UNCHANGED <<handled, result>>
      PROVE  PipelineInv'
  BY <1>1, <1>2, <1>4, GoStep
<1> QED
  BY <1>3, <1>4 DEF OnHttp, LastResort

LEMMA OnUnknownStep == ASSUME PipelineInv, OnUnknown PROVE PipelineInv'
<1>1. handler.at = "onUnknown" /\ handler.error # Pending
  BY DEF OnUnknown, At, Choosing, PipelineInv, HandlerInv
<1>2. UNCHANGED <<handled, raised>> /\ HandlerStep /\ reported \subseteq reported'
  BY DEF OnUnknown, PassedOver, Report
<1>3. ASSUME NEW with \in {"unknown500", "custom"}, Done(with), Report(handler.error)
      PROVE  PipelineInv'
  <2>1. with \in Settled /\ with # "bad" /\ handler.error \in reported'
    BY <1>3 DEF Settled, Responses, Report
  <2> QED
    BY <1>1, <1>2, <1>3, <2>1, DoneStep
<1>4. CASE Go("rethrow") /\ UNCHANGED result
  BY <1>1, <1>2, <1>4, GoStep
<1> QED
  BY <1>3, <1>4 DEF OnUnknown

LEMMA RethrowStep == ASSUME PipelineInv, Rethrow PROVE PipelineInv'
<1>1. handler.at = "rethrow" /\ handler.error \in Errors
  BY DEF Rethrow, At, Choosing, PipelineInv, HandlerInv, AppType, HandlerState
<1>2. UNCHANGED <<reported, handled, raised>> /\ HandlerStep /\ Done(handler.error)
  BY DEF Rethrow, errors
<1>3. handler.error \in Settled /\ handler.error # "bad"
  BY <1>1 DEF Settled, Errors, Typed
<1> QED
  BY <1>1, <1>2, <1>3, DoneStep

\* The pipeline's promise is final when the answer is made of it.
LEMMA AnswerStep == ASSUME PipelineInv, Answer PROVE PipelineInv'
<1> USE DEF PipelineInv
<1>1. /\ stage = "run" /\ stage' = "done" /\ result[1] # Pending
      /\ UNCHANGED <<config, incoming, index, mw, state, started, seen, handler, result,
                     handled>>
  BY DEF Answer, pipeline
<1>2. Components' = Components /\ Middlewares' = Middlewares /\ Last' = Last
  BY <1>1 DEF Components, Middlewares, Last
<1>3. /\ reported \subseteq reported'
      /\ raised' = raised \/ raised' = raised \cup {"unserializable"}
      /\ raised' # raised => "unserializable" \in reported'
      /\ result[1] \in Errors => result[1] \in reported'
  <2>1. "good" \notin Errors /\ "bad" \notin Errors /\ "own" \notin Errors /\ "custom" \notin Errors
    BY DEF Errors, Typed
  <2>2. Responses \cap Errors = {}
    BY DEF Errors, Typed, Responses
  <2> QED
    BY <2>1, <2>2 DEF Answer, Report, Raise
<1>4. AppType'
  BY <1>1, <1>2, <1>3 DEF AppType, Errors
<1>5. OnionInv' /\ PromiseInv' /\ HandlerInv'
  BY <1>1, <1>2 DEF OnionInv, PromiseInv, HandlerInv, NotEntered, At
<1>6. ErrorInv'
  BY <1>1, <1>2, <1>3 DEF ErrorInv, Accounted, At
<1>7. StateFlowsDown' /\ OnlyDeclaredResponses'
  BY <1>1, <1>2 DEF StateFlowsDown, OnlyDeclaredResponses
<1> QED
  BY <1>4, <1>5, <1>6, <1>7

LEMMA AppStep == ASSUME PipelineInv, AppNext PROVE PipelineInv'
<1>1. CASE ReadBody
  BY <1>1, ReadBodyStep
<1>2. CASE FinalHandlerNext
  BY <1>2, NotFoundStep, ExecuteStep, ValidateResponseStep, OnResponseStep,
     OnRequestStep, OnHttpStep, OnUnknownStep, RethrowStep DEF FinalHandlerNext
<1>3. CASE Answer
  BY <1>3, AnswerStep
<1>4. ASSUME NEW i \in DOMAIN mw,
             CallNext(i) \/ CallNextAgain(i) \/ Respond(i) \/ Forward(i) \/ Throw(i)
      PROVE  PipelineInv'
  <2>1. i \in Middlewares
    BY DEF PipelineInv, AppType
  <2> QED
    BY <1>4, <2>1, CallNextStep, CallNextAgainStep, MiddlewareStep
<1> QED
  BY <1>1, <1>2, <1>3, <1>4 DEF AppNext

\* What a step of the application leaves alone for the adapter's sake
LEMMA AppFrame ==
  ASSUME PipelineInv, AppNext
  PROVE  /\ UNCHANGED <<config, incoming>>
         /\ stage' = "idle" <=> stage = "idle"
         /\ stage' \in {"read", "run"} => stage \in {"read", "run"}
         /\ NotEntered => NotEntered' \/ MayBeParsed
<1>1. CASE ReadBody
  BY <1>1 DEF ReadBody, ReadFails, pipeline, NotEntered
<1>2. CASE FinalHandlerNext
  <2>1. UNCHANGED <<config, incoming, stage, index, started>>
    BY <1>2 DEF FinalHandlerNext, NotFound, Execute, ValidateResponse, OnResponse, OnRequest,
                OnHttp, OnUnknown, Rethrow, HandlerStep, pipeline
  <2> QED
    BY <2>1 DEF NotEntered
<1>3. CASE Answer
  BY <1>3 DEF Answer, pipeline, NotEntered
<1>4. ASSUME NEW i \in DOMAIN mw, CallNext(i)
      PROVE  UNCHANGED <<config, incoming, stage>> /\ ~NotEntered
  <2>1. i \in Middlewares /\ index \in Nat /\ config.depth \in Nat
    BY DepthIsNat DEF PipelineInv, AppType
  <2> QED
    BY <1>4, <2>1 DEF CallNext, Started, NotEntered, Middlewares
<1>5. ASSUME NEW i \in DOMAIN mw,
             CallNextAgain(i) \/ Respond(i) \/ Forward(i) \/ Throw(i)
      PROVE  UNCHANGED <<config, incoming, stage, index, started>>
  BY <1>5 DEF CallNextAgain, Respond, Forward, Throw, Leave
<1> QED
  BY <1>1, <1>2, <1>3, <1>4, <1>5 DEF AppNext, NotEntered

-----------------------------------------------------------------------------
(* The adapter                                                             *)

LEMMA RequestType ==
  ASSUME AdapterType
  PROVE  /\ request.maxBodySize \in Nat
         /\ request.declared \in Nat \cup {NoLength}
  BY RequestAssumption DEF AdapterType, NoRequest

\* Steps of the adapter and of the client keep the adapter's invariant.
LEMMA AdapterStep ==
  ASSUME AdapterInv, AdapterNext \/ ClientNext
  PROVE  AdapterInv'
<1> USE DEF AdapterInv
<1>1. request' = request
  BY DEF AdapterNext, ClientNext, RejectTarget, TargetThrows, RejectLength, StartReading,
         Timeout, Finish, Data, End, Break
<1>2. Bodyless' = Bodyless
  BY <1>1 DEF Bodyless
<1>3. request.maxBodySize \in Nat
  BY RequestType
<1> USE DEF AdapterType, ReaderInv, CollectedInv, WholeBody, OverNodeLimit,
            AnswerPrecedesDestruction
<1>4. CASE RejectTarget \/ TargetThrows \/ RejectLength
  BY <1>1, <1>2, <1>4 DEF RejectTarget, TargetThrows, RejectLength, AnswerWith
<1>5. CASE StartReading
  BY <1>1, <1>2, <1>3, <1>5 DEF StartReading, Dispatch, Listen
<1>6. CASE Timeout
  <2>1. UNCHANGED <<sent, body>> /\ stream = "open"
    BY <1>6 DEF Timeout
  <2>2. CASE reader = "cleanup" /\ DestroyRequest
    BY <1>1, <1>2, <2>1, <2>2 DEF DestroyRequest, Listen
  <2>3. CASE reader = "drain" /\ StopReading
    BY <1>1, <1>2, <2>1, <2>3 DEF StopReading, AnswerWith, Listen
  <2> QED
    BY <1>6, <2>2, <2>3 DEF Timeout
<1>7. CASE Finish
  <2>1. /\ phase = "answered" /\ phase' = "finished"
        /\ UNCHANGED <<sent, body>> /\ reader \notin {"drain", "collect", "cleanup"}
    BY <1>7 DEF Finish
  <2>2. /\ stream' \in {stream, "closed"} /\ reader' \in {reader, "none", "cleanup"}
        /\ counted' \in {counted, 0} /\ destroyed' \in BOOLEAN
    BY <1>7 DEF Finish, Listen
  <2> QED
    BY <1>1, <1>2, <2>1, <2>2
<1>8. ASSUME NEW n \in {1, 2}, Data(n)
      PROVE  AdapterInv'
  <2>1. sent' = sent + n /\ body' = body /\ stream = "open" /\ reader # "none"
    BY <1>8 DEF Data
  <2>2. CASE ~(reader = "sink" \/ ~TooMuch(n)) /\ reader = "cleanup" /\ DestroyRequest
    BY <1>1, <1>2, <2>1, <2>2 DEF DestroyRequest, Listen
  <2>3. CASE ~(reader = "sink" \/ ~TooMuch(n)) /\ reader # "cleanup" /\ StopReading
    BY <1>1, <1>2, <2>1, <2>3 DEF StopReading, AnswerWith, Listen
  <2>4. CASE /\ reader = "sink" \/ ~TooMuch(n)
             /\ counted' = IF reader = "sink" THEN counted ELSE counted + n
             /\ UNCHANGED <<stream, reader, phase, status, cleanup, destroyed>>
    BY <1>1, <1>2, <1>3, <2>1, <2>4 DEF TooMuch
  <2> QED
    BY <1>8, <2>2, <2>3, <2>4 DEF Data
<1>9. CASE End
  BY <1>1, <1>2, <1>9 DEF End, Dispatch, Listen
<1>10. CASE Break
  BY <1>1, <1>2, <1>10 DEF Break, Dispatch, Listen, FailCollecting, AnswerWith
<1> QED
  BY <1>4, <1>5, <1>6, <1>7, <1>8, <1>9, <1>10 DEF AdapterNext, ClientNext

\* A request in app.fetch stays there, and a body that has been read stays whole.
LEMMA AdapterFrame ==
  ASSUME AdapterInv, AdapterNext \/ ClientNext
  PROVE  /\ request' = request
         /\ phase = "fetch" => phase' = "fetch"
         /\ \A size : WholeBody(size) => WholeBody(size)'
<1>1. request' = request /\ (phase = "fetch" => phase' = "fetch")
  <2>1. phase = "fetch" => reader \notin {"drain", "collect", "cleanup"}
    BY DEF AdapterInv, ReaderInv
  <2>2. CASE AdapterNext
    BY <2>1, <2>2 DEF AdapterNext, RejectTarget, TargetThrows, RejectLength, StartReading,
                      Timeout, Finish
  <2>3. ASSUME NEW n \in {1, 2}, Data(n)
        PROVE  request' = request /\ (phase = "fetch" => phase' = "fetch")
    <3>1. request' = request /\ stream = "open" /\ reader # "none"
      BY <2>3 DEF Data
    <3>2. CASE reader = "sink"
      BY <2>3, <3>1, <3>2 DEF Data
    <3>3. CASE reader # "sink"
      BY <2>1, <3>1, <3>3 DEF AdapterInv, AdapterType
    <3> QED
      BY <3>2, <3>3
  <2>4. CASE End \/ Break
    BY <2>1, <2>4 DEF End, Break
  <2> QED
    BY <2>2, <2>3, <2>4 DEF ClientNext
<1>2. stream = "ended" => UNCHANGED <<stream, sent>>
  BY DEF AdapterNext, ClientNext, RejectTarget, TargetThrows, RejectLength, StartReading,
         Timeout, Finish, Data, End, Break
<1> QED
  BY <1>1, <1>2 DEF WholeBody, OverNodeLimit

-----------------------------------------------------------------------------
(* The server                                                              *)

LEMMA InitStep == ASSUME Init PROVE IInv
<1>1. config \in NodeConfigs \cup FetchConfigs /\ incoming \in {NoBody} \cup FetchBodies
  BY DEF Init, AppInit
<1>2. config \in AppConfigs /\ incoming \in AppBodies
  <2>1. NoBody \in AppBodies
    BY DEF AppBodies, NoBody
  <2>2. ASSUME NEW some \in FetchBodies PROVE some \in AppBodies
    BY BodyAssumption DEF AppBodies
  <2> QED
    BY <1>1, <2>1, <2>2, ConfigAssumption
<1>3. config.depth \in Nat
  BY <1>2 DEF AppConfigs
<1>4. /\ index = 0 /\ started = 0 /\ state = {} /\ raised = {}
      /\ mw = [i \in Middlewares |->
                 [left |-> FALSE, called |-> FALSE, refused |-> FALSE]]
      /\ handler = [at |-> "idle", error |-> Pending, response |-> Pending,
                    rescued |-> TRUE]
      /\ result = [k \in Components |-> Pending]
      /\ seen = [k \in Components |-> {}]
      /\ stage \in {"idle", "read"}
      /\ via = "node" => stage = "idle"
  BY DEF Init, AppInit, Middlewares
<1>5. Last \in Components /\ \A i \in Middlewares : i \in Components
  BY <1>3 DEF Components, Last, Middlewares
<1>6. AppType
  BY <1>2, <1>3, <1>4 DEF AppType, MiddlewareState, HandlerState, Places
<1>7. OnionInv /\ PromiseInv /\ HandlerInv /\ ErrorInv
  BY <1>3, <1>4, <1>5
     DEF OnionInv, PromiseInv, HandlerInv, ErrorInv, NotEntered, At, Choosing, Middlewares
<1>8. StateFlowsDown /\ OnlyDeclaredResponses
  BY <1>4, <1>5, PendingAssumption DEF StateFlowsDown, OnlyDeclaredResponses, Responses
<1>9. AdapterInv
  <2>1. /\ request \in NodeRequests \cup {NoRequest}
        /\ stream = "open" /\ reader = "none" /\ phase = "arrived" /\ ~destroyed
        /\ sent = 0 /\ counted = 0 /\ body = 0 /\ destroyed \in BOOLEAN
    BY DEF Init, NodeInit
  <2> QED
    BY <2>1 DEF AdapterInv, AdapterType, ReaderInv, CollectedInv, AnswerPrecedesDestruction
<1>10. incoming.prevalidated = NoLimit
  BY <1>1, BodyAssumption DEF NoBody
<1>11. EntryInv
  BY <1>4, <1>10 DEF EntryInv, NotEntered
<1> QED
  BY <1>6, <1>7, <1>8, <1>9, <1>11 DEF IInv, PipelineInv

LEMMA EnterStep == ASSUME IInv, via = "node", Enter PROVE IInv'
<1>1. /\ phase = "fetch" /\ stage = "idle" /\ stage' = "read"
      /\ UNCHANGED <<config, index, mw, state, started, seen, handler, result, final,
                     reported, handled, raised>>
      /\ UNCHANGED nodeVars
  BY DEF Enter, pipeline, errors
<1>2. AdapterType /\ CollectedInv /\ request.maxBodySize \in Nat /\ body \in Nat
  BY RequestType DEF IInv, AdapterInv, AdapterType
<1>3. /\ incoming' \in AppBodies
      /\ ~Bodyless => incoming'.size = body
      /\ incoming'.prevalidated # NoLimit =>
           incoming'.prevalidated = request.maxBodySize /\ ~Bodyless
  BY <1>2 DEF Enter, NoBody, AppBodies
<1>4. AppType'
  BY <1>1, <1>3 DEF IInv, PipelineInv, AppType, Middlewares, Components, Last
<1>5. OnionInv' /\ PromiseInv' /\ HandlerInv' /\ ErrorInv'
  BY <1>1 DEF IInv, PipelineInv, OnionInv, PromiseInv, HandlerInv, ErrorInv, Accounted,
              NotEntered, At, Middlewares, Components, Last
<1>6. StateFlowsDown' /\ OnlyDeclaredResponses'
  BY <1>1 DEF IInv, PipelineInv, StateFlowsDown, OnlyDeclaredResponses, Components, Last
<1>7. AdapterInv'
  BY <1>1 DEF IInv, AdapterInv, AdapterType, ReaderInv, CollectedInv, WholeBody,
              AnswerPrecedesDestruction, Bodyless, OverNodeLimit, nodeVars
<1>8. EntryInv'
  <2>1. NotEntered'
    BY <1>1 DEF IInv, PipelineInv, OnionInv, NotEntered
  <2>2. ~Bodyless => WholeBody(incoming'.size)
    BY <1>1, <1>2, <1>3 DEF CollectedInv
  <2>3. ~Bodyless => incoming'.size <= request.maxBodySize
    BY <1>2, <1>3, <2>2 DEF WholeBody, OverNodeLimit
  <2> QED
    BY <1>1, <1>3, <2>1, <2>2, <2>3
       DEF EntryInv, WholeBody, OverNodeLimit, Bodyless, nodeVars
<1> QED
  BY <1>4, <1>5, <1>6, <1>7, <1>8 DEF IInv, PipelineInv

\* What the application's variables determine is as it was when they are.
LEMMA AppUnchanged ==
  ASSUME PipelineInv, UNCHANGED appVars
  PROVE  PipelineInv'
<1>1. UNCHANGED <<config, incoming, stage, index, mw, state, handler, result, reported,
                 handled, raised, started, seen>>
  BY DEF appVars
<1>2. AppType'
  BY <1>1 DEF PipelineInv, AppType, Middlewares, Components, Last
<1>3. OnionInv' /\ PromiseInv' /\ HandlerInv' /\ ErrorInv'
  BY <1>1 DEF PipelineInv, OnionInv, PromiseInv, HandlerInv, ErrorInv, Accounted,
              NotEntered, At, Middlewares, Components, Last
<1>4. StateFlowsDown' /\ OnlyDeclaredResponses'
  BY <1>1 DEF PipelineInv, StateFlowsDown, OnlyDeclaredResponses, Components, Last
<1> QED
  BY <1>2, <1>3, <1>4 DEF PipelineInv

LEMMA ReplyStep == ASSUME IInv, via = "node", Reply PROVE IInv'
<1>1. /\ phase = "fetch" /\ stage = "done" /\ phase' = "answered"
      /\ UNCHANGED <<request, stream, sent, reader, counted, body, destroyed>>
      /\ UNCHANGED appVars
  BY DEF Reply, Write, AnswerWith
<1>2. PipelineInv'
  BY <1>1, AppUnchanged DEF IInv
<1>3. AdapterInv'
  <2>1. AdapterType'
    BY <1>1 DEF IInv, AdapterInv, AdapterType
  <2> QED
    BY <1>1, <2>1 DEF IInv, AdapterInv, ReaderInv, CollectedInv, AnswerPrecedesDestruction,
                      OverNodeLimit
<1>4. EntryInv'
  <2>1. UNCHANGED <<config, incoming, stage, index, started>>
    BY <1>1 DEF appVars
  <2> QED
    BY <1>1, <2>1 DEF IInv, EntryInv, WholeBody, OverNodeLimit, Bodyless, NotEntered
<1> QED
  BY <1>2, <1>3, <1>4 DEF IInv

LEMMA AdapterEntryStep ==
  ASSUME IInv, AdapterNext \/ ClientNext, UNCHANGED <<via, appVars>>
  PROVE  IInv'
<1>1. PipelineInv' /\ AdapterInv'
  BY AppUnchanged, AdapterStep DEF IInv
<1>2. /\ request' = request
      /\ phase = "fetch" => phase' = "fetch"
      /\ \A size : WholeBody(size) => WholeBody(size)'
  BY AdapterFrame DEF IInv
<1>3. UNCHANGED <<via, config, incoming, stage, index, started>>
  BY DEF appVars
<1>4. EntryInv'
  <2>1. WholeBody(incoming.size) => WholeBody(incoming.size)'
    BY <1>2, <1>3 DEF WholeBody, OverNodeLimit
  <2> QED
    BY <1>2, <1>3, <2>1 DEF IInv, EntryInv, NotEntered, Bodyless
<1> QED
  BY <1>1, <1>4 DEF IInv

LEMMA AppEntryStep ==
  ASSUME IInv, AppNext, UNCHANGED <<via, nodeVars>>
  PROVE  IInv'
<1>1. PipelineInv'
  BY AppStep DEF IInv
<1>2. AdapterInv'
  BY DEF IInv, AdapterInv, AdapterType, ReaderInv, CollectedInv, WholeBody,
         AnswerPrecedesDestruction, Bodyless, OverNodeLimit, nodeVars
<1>3. /\ UNCHANGED <<config, incoming>>
      /\ stage' = "idle" <=> stage = "idle"
      /\ stage' \in {"read", "run"} => stage \in {"read", "run"}
      /\ NotEntered => NotEntered' \/ MayBeParsed
  BY AppFrame DEF IInv
<1>4. EntryInv'
  <2>1. UNCHANGED <<via, request, stream, sent, phase>>
    BY DEF nodeVars
  <2>2. MayBeParsed => incoming.size <= config.maxBodySize
    <3>1. /\ config.maxBodySize \in Nat /\ incoming.size \in Nat
          /\ incoming.prevalidated \in Nat \cup {NoLimit}
      BY DEF IInv, PipelineInv, AppType, AppConfigs, AppBodies
    <3> QED
      BY <3>1 DEF MayBeParsed, Satisfied, OverLimit, IInv, EntryInv
  <2>3. ~NotEntered' => incoming.size <= config.maxBodySize
    BY <1>3, <2>2 DEF IInv, EntryInv
  <2>4. via = "node" /\ stage # "idle" /\ ~Bodyless => WholeBody(incoming.size)'
    BY <1>3, <2>1 DEF IInv, EntryInv, WholeBody, OverNodeLimit
  <2> QED
    BY <1>3, <2>1, <2>3, <2>4 DEF IInv, EntryInv, Bodyless
<1> QED
  BY <1>1, <1>2, <1>4 DEF IInv

\* Every reachable state satisfies the inductive invariant.
THEOREM Invariance == Spec => []IInv
<1>1. Init => IInv
  BY InitStep
<1>2. IInv /\ [Next]_vars => IInv'
  <2> SUFFICES ASSUME IInv, [Next]_vars PROVE IInv'
    OBVIOUS
  <2>1. CASE UNCHANGED vars
    <3>1. UNCHANGED <<via, appVars, nodeVars>>
      BY <2>1 DEF vars
    <3>2. PipelineInv'
      BY <3>1, AppUnchanged DEF IInv
    <3>3. AdapterInv'
      BY <3>1 DEF IInv, AdapterInv, AdapterType, ReaderInv, CollectedInv, WholeBody,
             AnswerPrecedesDestruction, Bodyless, OverNodeLimit, nodeVars
    <3>4. EntryInv'
      BY <3>1 DEF IInv, EntryInv, WholeBody, OverNodeLimit, Bodyless, NotEntered, nodeVars, appVars
    <3> QED
      BY <3>2, <3>3, <3>4 DEF IInv
  <2>2. CASE Next
    BY <2>2, AppEntryStep, AdapterEntryStep, EnterStep, ReplyStep DEF Next, ServerNext
  <2> QED
    BY <2>1, <2>2
<1> QED
  BY <1>1, <1>2, PTL DEF Spec

-----------------------------------------------------------------------------
(* The least of some numbers: the order of Nat is well-founded.            *)

Less == {pair \in Nat \X Nat : pair[1] < pair[2]}

LEMMA LeastNatural ==
  ASSUME NEW T \in SUBSET Nat, T # {}
  PROVE  \E least \in T : \A k \in T : least <= k
<1>1. IsWellFoundedOn(Less, Nat)
  BY NatLessThanWellFounded DEF OpToRel, Less
<1>2. PICK least \in T : \A k \in T : <<k, least>> \notin Less
  BY <1>1, WFMin
<1>3. \A k \in T : ~(k < least)
  BY <1>2 DEF Less
<1> QED
  BY <1>3

-----------------------------------------------------------------------------
(* The theorems                                                            *)

\* Whatever middleware does with next, the handler of a route is started at most
\* once, and only after every middleware has called next, each before the one
\* inside it (executeMiddlewarePipeline).
THEOREM HandlerRunsOnceAlways == Spec => []HandlerRunsOnce
<1>1. IInv => HandlerRunsOnce
  BY DEF IInv, PipelineInv, AppType, OnionInv, HandlerRunsOnce, Middlewares
<1> QED
  BY <1>1, Invariance, PTL

\* What a middleware gives to next is in the state of everything started after it,
\* however many middlewares there are (StateMap, executeMiddlewarePipeline).
THEOREM StateFlowsDownAlways == Spec => []StateFlowsDown
<1>1. IInv => StateFlowsDown
  BY DEF IInv, PipelineInv
<1> QED
  BY <1>1, Invariance, PTL

\* With response validation on and its errors handled, the router answers with no
\* response its operation does not declare (validateResponse, handleError).
THEOREM OnlyDeclaredResponsesAlways == Spec => []OnlyDeclaredResponses
<1>1. IInv => OnlyDeclaredResponses
  BY DEF IInv, PipelineInv
<1> QED
  BY <1>1, Invariance, PTL

\* No error is lost: it is with an error handler, in a promise whose caller has not let
\* go of it, reported, or answered.  Of the components whose promises carry it the
\* outermost is the one that holds it.
THEOREM ErrorsAreAccountedForAlways == Spec => []ErrorsAreAccountedFor
<1>1. IInv => ErrorsAreAccountedFor
  <2> SUFFICES ASSUME IInv, NEW error \in raised \ {"unparsable"},
                      error \notin reported \cup handled,
                      ~(handler.error = error /\ ~At("done"))
               PROVE  \E k \in Components : /\ result[k] = error
                                            /\ IF k = 1 THEN stage # "done"
                                                        ELSE result[k - 1] # error
    BY DEF ErrorsAreAccountedFor, Held
  <2> DEFINE Carriers == {k \in Components : result[k] = error}
  <2>1. error \in Errors /\ Accounted(error)
    BY DEF IInv, PipelineInv, AppType, ErrorInv
  <2>2. Components \subseteq Nat /\ config.depth \in Nat
    BY DepthIsNat DEF IInv, PipelineInv, Components, Last
  <2>3. Carriers \in SUBSET Nat /\ Carriers # {}
    BY <2>1, <2>2 DEF Accounted
  <2>4. PICK k \in Carriers : \A j \in Carriers : k <= j
    BY <2>3, LeastNatural
  <2>5. k = 1 => stage # "done"
    BY <2>1, <2>4 DEF IInv, PipelineInv, ErrorInv
  <2>6. k # 1 => result[k - 1] # error
    <3>1. k # 1 => k - 1 \in Components /\ ~(k <= k - 1)
      BY <2>2 DEF Components, Last
    <3> QED
      BY <2>4, <3>1
  <2> QED
    BY <2>4, <2>5, <2>6
<1> QED
  BY <1>1, Invariance, PTL

\* The body that middleware and handlers are given is within the app's limit, and
\* through nodeAdapter the whole body and within the adapter's, although the app does
\* not measure what the adapter has (collectBody, hasSatisfiedBodyLimitPolicy).
THEOREM BodiesAreWholeAndCappedAlways == Spec => []BodiesAreWholeAndCapped
<1>1. IInv => BodiesAreWholeAndCapped
  <2> SUFFICES ASSUME IInv, index > 0 \/ started > 0
               PROVE  /\ incoming.size <= config.maxBodySize
                      /\ via = "node" /\ ~Bodyless => WholeBody(incoming.size)
    <3>1. ASSUME WholeBody(incoming.size), IInv
          PROVE  /\ incoming.size <= request.maxBodySize
                 /\ stream = "ended" /\ incoming.size = sent
      <4>1. incoming.size \in Nat /\ request.maxBodySize \in Nat
        BY <3>1, RequestType DEF IInv, PipelineInv, AppType, AppBodies, AdapterInv
      <4> QED
        BY <3>1, <4>1 DEF WholeBody, OverNodeLimit
    <3> QED
      BY <3>1 DEF BodiesAreWholeAndCapped
  <2>1. ~NotEntered
    BY DEF NotEntered
  <2>2. stage # "idle"
    BY <2>1 DEF IInv, PipelineInv, OnionInv
  <2> QED
    BY <2>1, <2>2 DEF IInv, EntryInv
<1> QED
  BY <1>1, Invariance, PTL

\* The adapter destroys a request only when its answer has been flushed, whatever the
\* client sends and whenever the timers fire (drainRequest, sendErrorResponse).
THEOREM AnswerPrecedesDestructionAlways == Spec => []AnswerPrecedesDestruction
<1>1. IInv => AnswerPrecedesDestruction
  BY DEF IInv, AdapterInv
<1> QED
  BY <1>1, Invariance, PTL
=============================================================================
