----------------------------- MODULE ApiClient -----------------------------
(***************************************************************************)
(* One send of a generated client (packages/clients): execute of ApiClient *)
(* with its one signal for timeout and caller, the reading of the body,    *)
(* and processResponse of the request command.  The server answers, fails  *)
(* or stays silent; the caller aborts whenever it likes.                   *)
(***************************************************************************)
EXTENDS Naturals

CONSTANTS
  Calls,        \* signal, timeout, honours, early: how a client is called
  KnownCodes,   \* keys of NETWORK_ERROR_MESSAGES
  FetchCodes,   \* codes a failing fetch may carry
  Reasons,      \* what a caller may abort with
  Answers       \* kind, status and body of a response

ASSUME CallsAssumption ==
  \A call \in Calls : /\ call.signal \in BOOLEAN /\ call.timeout \in BOOLEAN
                       /\ call.honours \in BOOLEAN
ASSUME CodesAssumption == KnownCodes \cap {"ABORT", "TIMEOUT"} = {}
ASSUME ReasonsAssumption == "none" \notin Reasons
ASSUME AnswersAssumption ==
  \A a \in Answers : a.kind \in {"declared", "undeclared"} /\ a.status \in Nat

VARIABLES
  plan,       \* the call
  phase,      \* "unsent", "fetching", "reading", "settled" or "gone"
  timer,      \* "off", "running" or "fired"
  aborted,    \* reason the caller's own signal is aborted with
  reason,     \* reason the signal given to fetch is aborted with
  answer,     \* the response whose headers have arrived
  outcome     \* what send returns or throws

callVars == <<plan, phase, timer, aborted, reason, answer, outcome>>

Nothing == [kind |-> "none"]
Response(a) == [kind |-> "response", status |-> a.status]
UnknownResponse == [kind |-> "unknownResponse"]
NetworkError(code) == [kind |-> "network", code |-> code]
ParseError(cause) == [kind |-> "parse", cause |-> cause]
Early(name) == [kind |-> "early", name |-> name]

Active == phase \in {"fetching", "reading"}

\* Mutant: a timeout replaces the caller's signal.
RequestSignalOfOne ==
  IF plan.timeout THEN {"timer"} ELSE IF plan.signal THEN {"caller"} ELSE {}

\* createRequestSignal: what can abort the signal that fetch is given.
RequestSignal ==
  (IF plan.signal THEN {"caller"} ELSE {})
    \cup (IF plan.timeout THEN {"timer"} ELSE {})

\* classifyNetworkFailure, of an abort and of an error with a code
ClassifyAbort(why) ==
  CASE why = "TimeoutError" -> "TIMEOUT"
    [] why = "AbortError" -> "ABORT"
    [] OTHER -> "UNKNOWN"
ClassifyCode(code) == IF code \in KnownCodes THEN code ELSE "UNKNOWN"

\* A reason that is not an Error is dropped from a ResponseParseError.
CauseOf(why) == IF why = "string" THEN "none" ELSE why

\* performFetch gives fetch the signal, which covers the body as well; a custom
\* fetchFn may leave it alone.
Cancelled == plan.honours /\ reason # "none"

Settle(result) ==
  /\ phase' = "settled"
  /\ outcome' = result
  /\ timer' = "off"

CallInit ==
  /\ plan = [signal |-> FALSE, timeout |-> FALSE, honours |-> TRUE,
             early |-> "none"]
  /\ phase = "unsent"
  /\ timer = "off"
  /\ aborted = "none" /\ reason = "none"
  /\ answer = Nothing /\ outcome = Nothing

\* execute up to the call of fetch: the path, the URL and the body are made
\* first, then the signal.
Send(call) ==
  /\ phase = "unsent"
  /\ plan' = call
  /\ IF call.early # "none"
       THEN Settle(Early(call.early)) /\ UNCHANGED reason
       ELSE /\ phase' = "fetching"
            /\ timer' = IF call.timeout THEN "running" ELSE "off"
            /\ reason' = IF call.signal THEN aborted ELSE "none"
            /\ UNCHANGED outcome
  /\ UNCHANGED <<aborted, answer>>

\* AbortSignal.any: the first source to abort gives its reason.
Reaches(source, why) ==
  reason' = IF reason = "none" /\ Active /\ source \in RequestSignal
              THEN why ELSE reason

Abort(why) ==
  /\ phase \notin {"settled", "gone"} /\ aborted = "none"
  /\ aborted' = why
  /\ Reaches("caller", why)
  /\ UNCHANGED <<plan, phase, timer, answer, outcome>>

TimerFires ==
  /\ timer = "running"
  /\ timer' = "fired"
  /\ Reaches("timer", "TimeoutError")
  /\ UNCHANGED <<plan, phase, aborted, answer, outcome>>

FetchCancelled ==
  /\ phase = "fetching" /\ Cancelled
  /\ Settle(NetworkError(ClassifyAbort(reason)))
  /\ UNCHANGED <<plan, aborted, reason, answer>>

FetchRejects(code) ==
  /\ phase = "fetching" /\ ~Cancelled
  /\ Settle(NetworkError(ClassifyCode(code)))
  /\ UNCHANGED <<plan, aborted, reason, answer>>

\* processResponse: a response the operation does not declare is an error.
Process(a) == IF a.kind = "declared" THEN Response(a) ELSE UnknownResponse

\* The headers are there.  204 and 304 have no body to wait for.
FetchAnswers(a) ==
  /\ phase = "fetching" /\ ~Cancelled
  /\ answer' = a
  /\ IF a.body = "none" THEN Settle(Process(a))
     ELSE phase' = "reading" /\ UNCHANGED <<timer, outcome>>
  /\ UNCHANGED <<plan, aborted, reason>>

\* parseResponseBody: an empty text is no body, only JSON is parsed.
BodyEnds(content) ==
  /\ phase = "reading" /\ ~Cancelled
  /\ Settle(IF answer.body = "json" /\ content = "malformed"
              THEN ParseError("SyntaxError") ELSE Process(answer))
  /\ UNCHANGED <<plan, aborted, reason, answer>>

\* readBody
BodyBreaks ==
  /\ phase = "reading" /\ ~Cancelled
  /\ Settle(ParseError("TypeError"))
  /\ UNCHANGED <<plan, aborted, reason, answer>>

\* Mutant: the signal is dropped once the headers are there.
BodyCancelledNever == FALSE /\ UNCHANGED callVars

BodyCancelled ==
  /\ phase = "reading" /\ Cancelled
  /\ Settle(ParseError(CauseOf(reason)))
  /\ UNCHANGED <<plan, aborted, reason, answer>>

\* The process of the caller ends.
CallerDies ==
  /\ phase' = (IF Active THEN "gone" ELSE phase)
  /\ UNCHANGED <<plan, timer, aborted, reason, answer, outcome>>

Cancellation == FetchCancelled \/ BodyCancelled

Server ==
  \/ \E code \in FetchCodes : FetchRejects(code)
  \/ \E a \in Answers : FetchAnswers(a)
  \/ \E content \in {"empty", "valid", "malformed"} : BodyEnds(content)
  \/ BodyBreaks

CallNext ==
  \/ \E call \in Calls : Send(call)
  \/ \E why \in Reasons : Abort(why)
  \/ TimerFires \/ Cancellation \/ Server
  \/ Active /\ CallerDies

\* A timer that is due fires and an aborted fetch or body rejects; nothing is
\* assumed of the server or of the caller.
CallFairness == WF_callVars(TimerFires) /\ WF_callVars(Cancellation)

CallSpec == CallInit /\ [][CallNext]_callVars /\ CallFairness

-----------------------------------------------------------------------------
(* Properties                                                              *)

CallTypeOK ==
  /\ phase \in {"unsent", "fetching", "reading", "settled", "gone"}
  /\ timer \in {"off", "running", "fired"}
  /\ phase = "unsent" => reason = "none" /\ answer = Nothing /\ timer = "off"
  /\ phase = "fetching" => answer = Nothing
  /\ phase = "reading" => answer # Nothing

\* What a caller is told is what happened.  ABORT and TIMEOUT are reported only
\* when the caller aborted that way or the timer fired, and only before there was
\* a response; a ResponseParseError only after.  An aborted call is never reported
\* as a response or as a fault of the network, whichever of the two sources was
\* first and whether the headers had arrived, provided fetch heeds its signal.
ErrorNamesItsCause ==
  phase = "settled" =>
    /\ outcome = NetworkError("ABORT") => aborted = "AbortError"
    /\ outcome = NetworkError("TIMEOUT") => reason = "TimeoutError"
    /\ outcome.kind = "network" => answer = Nothing
    /\ outcome.kind \in {"parse", "response", "unknownResponse"} =>
         answer # Nothing
    /\ (plan.honours /\ plan.signal /\ aborted # "none"
          /\ outcome.kind # "early") =>
         outcome \in {NetworkError(ClassifyAbort(reason)),
                      ParseError(CauseOf(reason))} /\ reason # "none"

\* A call with a timeout settles, and so does one whose caller aborts, even if
\* the server never sends headers or stops in the middle of a body.
CancelledCallSettles ==
  (Active /\ plan.honours /\ (plan.timeout \/ (plan.signal /\ aborted # "none")))
    ~> ~Active
=============================================================================
