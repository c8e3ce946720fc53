-------------------------- MODULE ApiClientProofs --------------------------
(***************************************************************************)
(* Proofs about ApiClient, for any calls, codes, reasons and answers.      *)
(***************************************************************************)
EXTENDS ApiClient, TLAPS

-----------------------------------------------------------------------------
(* The inductive invariant                                                 *)

Outcomes == {"none", "response", "unknownResponse", "network", "parse", "early"}

TypeInv ==
  /\ CallTypeOK
  /\ plan.signal \in BOOLEAN /\ plan.timeout \in BOOLEAN
  /\ plan.honours \in BOOLEAN
  /\ answer \in Answers \cup {Nothing}
  /\ phase \in {"unsent", "fetching", "reading"} => outcome = Nothing
  /\ outcome.kind = "response" => outcome.status \in Nat

\* The signal of the request is aborted by nobody but the caller and the timer,
\* and by the caller at once.
SignalInv ==
  /\ reason \in {"none", "TimeoutError", aborted}
  /\ plan.signal /\ aborted # "none" /\ Active => reason # "none"

IInv == TypeInv /\ SignalInv /\ ErrorNamesItsCause

-----------------------------------------------------------------------------
(* Outcomes                                                                *)

\* An abort is told from a fault of the network by its code.
LEMMA CodeFacts ==
  ASSUME NEW code
  PROVE  ClassifyCode(code) \notin {"ABORT", "TIMEOUT"}
  BY CodesAssumption DEF ClassifyCode

\* Only an AbortError and a TimeoutError have codes of their own.
LEMMA AbortFacts ==
  ASSUME NEW why
  PROVE  /\ ClassifyAbort(why) = "ABORT" => why = "AbortError"
         /\ ClassifyAbort(why) = "TIMEOUT" => why = "TimeoutError"
  BY DEF ClassifyAbort

LEMMA ProcessFacts ==
  ASSUME NEW a \in Answers
  PROVE  /\ Process(a).kind \in {"response", "unknownResponse"}
         /\ Process(a).kind = "response" => Process(a).status \in Nat
  BY AnswersAssumption DEF Process, Response, UnknownResponse

\* A call that is settled before there is an answer ends with a fault of the
\* network, and with the abort's own if fetch heeds an aborted signal.
LEMMA SettleFetch ==
  ASSUME IInv, phase = "fetching", NEW code, Settle(NetworkError(code)),
         UNCHANGED <<plan, aborted, reason, answer>>,
         code = "ABORT" => reason = "AbortError",
         code = "TIMEOUT" => reason = "TimeoutError",
         Cancelled => code = ClassifyAbort(reason)
  PROVE  IInv'
<1>1. outcome' = NetworkError(code) /\ phase' = "settled" /\ timer' = "off"
  BY DEF Settle
<1>2. answer = Nothing
  BY DEF IInv, TypeInv, CallTypeOK
<1>3. TypeInv'
  <2>1. NetworkError(code).kind = "network"
    BY DEF NetworkError
  <2> QED
    BY <1>1, <2>1 DEF IInv, TypeInv, CallTypeOK
<1>4. SignalInv'
  BY <1>1 DEF IInv, SignalInv, Active
<1>5. ErrorNamesItsCause'
  <2>1. NetworkError(code).kind = "network" /\ NetworkError(code).code = code
    BY DEF NetworkError
  <2>2. code = "ABORT" => aborted = "AbortError"
    BY DEF IInv, SignalInv
  <2>3. plan.honours /\ plan.signal /\ aborted # "none" =>
          reason # "none" /\ code = ClassifyAbort(reason)
    BY DEF IInv, SignalInv, Active, Cancelled
  <2> QED
    BY <1>1, <1>2, <2>1, <2>2, <2>3 DEF ErrorNamesItsCause, NetworkError
<1> QED
  BY <1>3, <1>4, <1>5 DEF IInv

\* A call that is settled after the headers ends with what became of the body,
\* and with the abort's own error if fetch heeds an aborted signal.
LEMMA SettleAnswered ==
  ASSUME IInv, Active, NEW result, Settle(result),
         answer' \in Answers, UNCHANGED <<plan, aborted, reason>>,
         result.kind \in {"parse", "response", "unknownResponse"},
         result.kind = "response" => result.status \in Nat,
         Cancelled => result = ParseError(CauseOf(reason))
  PROVE  IInv'
<1>1. outcome' = result /\ phase' = "settled" /\ timer' = "off"
  BY DEF Settle
<1>2. answer' # Nothing
  BY AnswersAssumption DEF Nothing
<1>3. TypeInv'
  BY <1>1 DEF IInv, TypeInv, CallTypeOK
<1>4. SignalInv'
  BY <1>1 DEF IInv, SignalInv, Active
<1>5. ErrorNamesItsCause'
  <2>1. \A code : result # NetworkError(code)
    BY DEF NetworkError
  <2>2. plan.honours /\ plan.signal /\ aborted # "none" =>
          reason # "none" /\ result = ParseError(CauseOf(reason))
    BY DEF IInv, SignalInv, Cancelled
  <2> QED
    BY <1>1, <1>2, <2>1, <2>2 DEF ErrorNamesItsCause
<1> QED
  BY <1>3, <1>4, <1>5 DEF IInv

-----------------------------------------------------------------------------
(* Preservation                                                            *)

LEMMA InvInit == CallInit => IInv
  BY DEF CallInit, IInv, TypeInv, CallTypeOK, SignalInv, ErrorNamesItsCause,
     Active, Nothing

\* What each step that other components take part in keeps.
LEMMA SendKeeps ==
  ASSUME IInv, NEW call, Send(call), call.signal \in BOOLEAN,
         call.timeout \in BOOLEAN, call.honours \in BOOLEAN
  PROVE  IInv'
<1>2. reason = "none" /\ answer = Nothing /\ timer = "off" /\ outcome = Nothing
  BY DEF Send, IInv, TypeInv, CallTypeOK
<1>3. CASE call.early # "none"
  <2>1. /\ phase' = "settled" /\ outcome' = Early(call.early) /\ timer' = "off"
        /\ plan' = call /\ UNCHANGED <<reason, aborted, answer>>
    BY <1>3 DEF Send, Settle
  <2>2. outcome'.kind = "early"
    BY <2>1 DEF Early
  <2>3. TypeInv'
    BY <1>2, <2>1, <2>2 DEF IInv, TypeInv, CallTypeOK
  <2>4. SignalInv'
    BY <1>2, <2>1 DEF IInv, SignalInv, Active
  <2>5. ErrorNamesItsCause'
    <3>1. \A code : outcome' # NetworkError(code)
      BY <2>2 DEF NetworkError
    <3> QED
      BY <2>2, <3>1 DEF ErrorNamesItsCause
  <2> QED
    BY <2>3, <2>4, <2>5 DEF IInv
<1>4. CASE call.early = "none"
  <2>1. /\ phase' = "fetching" /\ timer' \in {"running", "off"}
        /\ reason' = IF call.signal THEN aborted ELSE "none"
        /\ plan' = call /\ UNCHANGED <<outcome, aborted, answer>>
    BY <1>4 DEF Send
  <2>2. TypeInv'
    BY <1>2, <2>1 DEF IInv, TypeInv, CallTypeOK
  <2>3. SignalInv'
    BY <2>1 DEF SignalInv, Active
  <2> QED
    BY <2>1, <2>2, <2>3 DEF IInv, ErrorNamesItsCause
<1> QED
  BY <1>3, <1>4

LEMMA AbortKeeps ==
  ASSUME IInv, NEW why, why # "none", Abort(why)
  PROVE  IInv'
<1>1. /\ phase \notin {"settled", "gone"} /\ aborted = "none" /\ aborted' = why
      /\ UNCHANGED <<plan, phase, timer, answer, outcome>>
      /\ reason' = IF reason = "none" /\ Active /\ "caller" \in RequestSignal
                     THEN why ELSE reason
  BY DEF Abort, Reaches
<1>2. TypeInv'
  BY <1>1 DEF IInv, TypeInv, CallTypeOK, Active
<1>3. SignalInv'
  BY <1>1 DEF IInv, TypeInv, SignalInv, Active, RequestSignal
<1> QED
  BY <1>1, <1>2, <1>3 DEF IInv, ErrorNamesItsCause

LEMMA DyingKeeps ==
  ASSUME IInv, CallerDies
  PROVE  IInv'
<1>1. /\ phase' = IF Active THEN "gone" ELSE phase
      /\ UNCHANGED <<plan, timer, aborted, reason, answer, outcome>>
  BY DEF CallerDies
<1> QED
  BY <1>1 DEF IInv, TypeInv, CallTypeOK, SignalInv, Active, ErrorNamesItsCause

LEMMA InvNext == IInv /\ [CallNext]_callVars => IInv'
<1> SUFFICES ASSUME IInv, [CallNext]_callVars PROVE IInv'
  OBVIOUS
<1>1. ASSUME NEW call \in Calls, Send(call) PROVE IInv'
  BY <1>1, SendKeeps, CallsAssumption
<1>2. ASSUME NEW why \in Reasons, Abort(why) PROVE IInv'
  BY <1>2, AbortKeeps, ReasonsAssumption
<1>3. CASE TimerFires
  <2>1. /\ timer = "running" /\ timer' = "fired"
        /\ UNCHANGED <<plan, phase, aborted, answer, outcome>>
        /\ reason' = IF reason = "none" /\ Active /\ "timer" \in RequestSignal
                       THEN "TimeoutError" ELSE reason
    BY <1>3 DEF TimerFires, Reaches
  <2>2. TypeInv'
    BY <2>1 DEF IInv, TypeInv, CallTypeOK, Active
  <2>3. SignalInv'
    BY <2>1 DEF IInv, SignalInv, Active
  <2>4. ErrorNamesItsCause'
    BY <2>1 DEF IInv, TypeInv, ErrorNamesItsCause, Active
  <2> QED
    BY <2>2, <2>3, <2>4 DEF IInv
<1>4. CASE FetchCancelled
  BY <1>4, SettleFetch, AbortFacts DEF FetchCancelled
<1>5. CASE BodyCancelled
  <2>1. answer' \in Answers
    BY <1>5 DEF BodyCancelled, IInv, TypeInv, CallTypeOK
  <2>2. ParseError(CauseOf(reason)).kind = "parse"
    BY DEF ParseError
  <2> QED
    BY <1>5, <2>1, <2>2, SettleAnswered DEF BodyCancelled, Active
<1>6. ASSUME NEW code \in FetchCodes, FetchRejects(code) PROVE IInv'
  BY <1>6, SettleFetch, CodeFacts DEF FetchRejects
<1>7. ASSUME NEW a \in Answers, FetchAnswers(a) PROVE IInv'
  <2>1. CASE a.body = "none"
    BY <1>7, <2>1, SettleAnswered, ProcessFacts DEF FetchAnswers, Active
  <2>2. CASE a.body # "none"
    <3>1. /\ phase = "fetching" /\ phase' = "reading" /\ answer' = a
          /\ UNCHANGED <<timer, outcome, plan, aborted, reason>>
      BY <1>7, <2>2 DEF FetchAnswers
    <3>2. TypeInv'
      BY <3>1, AnswersAssumption DEF IInv, TypeInv, CallTypeOK, Nothing
    <3>3. SignalInv'
      BY <3>1 DEF IInv, SignalInv, Active
    <3> QED
      BY <3>1, <3>2, <3>3 DEF IInv, ErrorNamesItsCause
  <2> QED
    BY <2>1, <2>2
<1>8. ASSUME NEW content \in {"empty", "valid", "malformed"}, BodyEnds(content)
      PROVE  IInv'
  <2>1. answer \in Answers
    BY <1>8 DEF BodyEnds, IInv, TypeInv, CallTypeOK
  <2>2. PICK result : /\ Settle(result)
                      /\ result.kind \in {"parse", "response", "unknownResponse"}
                      /\ result.kind = "response" => result.status \in Nat
    BY <1>8, <2>1, ProcessFacts DEF BodyEnds, ParseError
  <2> QED
    BY <1>8, <2>1, <2>2, SettleAnswered DEF BodyEnds, Active
<1>9. CASE BodyBreaks
  <2>1. answer' \in Answers
    BY <1>9 DEF BodyBreaks, IInv, TypeInv, CallTypeOK
  <2>2. ParseError("TypeError").kind = "parse"
    BY DEF ParseError
  <2> QED
    BY <1>9, <2>1, <2>2, SettleAnswered DEF BodyBreaks, Active
<1>10. CASE Active /\ CallerDies
  BY <1>10, DyingKeeps
<1>11. CASE UNCHANGED callVars
  BY <1>11 DEF callVars, IInv, TypeInv, CallTypeOK, SignalInv, Active,
     ErrorNamesItsCause
<1> QED
  BY <1>1, <1>2, <1>3, <1>4, <1>5, <1>6, <1>7, <1>8, <1>9, <1>10, <1>11
     DEF CallNext, Cancellation, Server

LEMMA Invariance == CallSpec => []IInv
  BY InvInit, InvNext, PTL DEF CallSpec

-----------------------------------------------------------------------------
(* Theorem                                                                 *)

\* Whatever the order of the answer, the timeout, the caller's abort and the
\* fault of the network, and whether or not the headers had arrived, the error a
\* caller gets names what happened.
THEOREM Attribution == CallSpec => []ErrorNamesItsCause
  BY Invariance, PTL DEF IInv
=============================================================================
