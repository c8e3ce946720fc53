---------------------------- MODULE NodeAdapter ----------------------------
(***************************************************************************)
(* One HTTP request in nodeAdapter (packages/server/src/lib): the checks   *)
(* of target and length, the reading or draining of the body, the call of  *)
(* app.fetch, the answer, and the clean-up of a rejected body once the     *)
(* answer has been flushed.  The client sends chunks, ends, breaks off or  *)
(* stalls; timers fire whenever they are armed.                            *)
(***************************************************************************)
EXTENDS Naturals

CONSTANTS
  NoLength,    \* no (valid) Content-Length
  NoStatus,
  MaxSent      \* bound: bytes of a body

ASSUME MaxSentAssumption == MaxSent \in Nat

VARIABLES
  request,     \* method, target and headers, and the adapter's limit
  stream,      \* the IncomingMessage: "open", "ended" or "closed"
  sent,        \* bytes of the body that were delivered
  reader,      \* who listens: "none", "drain", "collect", "sink", "cleanup"
  counted,     \* bytes counted by that listener
  phase,       \* "arrived", "reading", "fetch", "answered" or "finished"
  status,      \* of the answer
  cleanup,     \* on "finish": "none", "drain" or "destroy"
  body,        \* history: the size of the body given to app.fetch
  destroyed    \* history: the adapter destroyed the request

nodeVars == <<request, stream, sent, reader, counted, phase, status, cleanup,
              body, destroyed>>

-----------------------------------------------------------------------------
Bodyless == request.method \in {"GET", "HEAD"}        \* ~shouldValidateBody
HasBody == request.declared # NoLength \/ request.chunked
OverNodeLimit(size) == size > request.maxBodySize
DeclaredTooLarge == request.declared # NoLength /\ OverNodeLimit(request.declared)

NodeInit(requests) ==
  /\ request \in requests
  /\ stream = "open"
  /\ sent = 0
  /\ reader = "none"
  /\ counted = 0
  /\ phase = "arrived"
  /\ status = NoStatus
  /\ cleanup = "none"
  /\ body = 0
  /\ destroyed = FALSE

Listen(who) == reader' = who /\ counted' = 0

\* writeDefaultErrorResponse, with what is done when it is flushed
AnswerWith(code, then) ==
  /\ status' = code
  /\ phase' = "answered"
  /\ cleanup' = then

\* app.fetch is called; `size' is the body of its Request.
Dispatch(size) ==
  /\ phase' = "fetch"
  /\ body' = size
  /\ UNCHANGED <<status, cleanup>>

-----------------------------------------------------------------------------
(* handleRequest, up to its first await                                    *)

RejectTarget ==
  /\ phase = "arrived" /\ request.target = "bad"
  /\ AnswerWith(400, IF ~HasBody THEN "none"
                     ELSE IF DeclaredTooLarge THEN "destroy" ELSE "drain")
  /\ UNCHANGED <<request, stream, sent, reader, counted, body, destroyed>>

\* new URL throws on a target that is not a path.
TargetThrows ==
  /\ phase = "arrived" /\ request.target = "throws"
  /\ AnswerWith(500, "none")
  /\ UNCHANGED <<request, stream, sent, reader, counted, body, destroyed>>

\* Mutant: the rejected body is left where it is.
RejectAndForget ==
  /\ phase = "arrived" /\ request.target = "ok" /\ DeclaredTooLarge
  /\ AnswerWith(413, "none")
  /\ UNCHANGED <<request, stream, sent, reader, counted, body, destroyed>>

\* enforceContentLengthLimit
RejectLength ==
  /\ phase = "arrived" /\ request.target = "ok" /\ DeclaredTooLarge
  /\ AnswerWith(413, "drain")
  /\ UNCHANGED <<request, stream, sent, reader, counted, body, destroyed>>

\* Data events begin when a listener is attached.
StartReading ==
  /\ phase = "arrived" /\ request.target = "ok" /\ ~DeclaredTooLarge
  /\ IF Bodyless /\ ~HasBody
       THEN Dispatch(0) /\ UNCHANGED <<reader, counted>>
       ELSE /\ phase' = "reading"
            /\ Listen(IF Bodyless THEN "drain" ELSE "collect")
            /\ UNCHANGED <<status, cleanup, body>>
  /\ UNCHANGED <<request, stream, sent, destroyed>>

-----------------------------------------------------------------------------
(* Events of the request's stream                                          *)

\* Mutant: the first drain destroys what it stops reading.
StopAndDestroy ==
  /\ AnswerWith(413, "drain")
  /\ Listen("sink")
  /\ stream' = "closed" /\ destroyed' = TRUE

TooMuch(n) == OverNodeLimit(counted + n)

\* PayloadTooLargeError or RequestBodyDrainTimeoutError before the answer:
\* nobody listens, the stream flows on.
StopReading ==
  /\ AnswerWith(413, "drain")
  /\ Listen("sink")
  /\ UNCHANGED <<stream, destroyed>>

\* The adapter's drain after the answer destroys what it does not read.
DestroyRequest ==
  /\ stream' = "closed" /\ destroyed' = TRUE
  /\ Listen("none")
  /\ UNCHANGED <<phase, status, cleanup>>

MayArrive(n) ==
  /\ HasBody
  /\ sent + n <= (IF request.declared = NoLength THEN MaxSent
                                                 ELSE request.declared)

Data(n) ==
  /\ stream = "open" /\ reader # "none" /\ MayArrive(n)
  /\ sent' = sent + n
  /\ IF reader = "sink" \/ ~TooMuch(n)
       THEN /\ counted' = IF reader = "sink" THEN counted ELSE counted + n
            /\ UNCHANGED <<stream, reader, phase, status, cleanup, destroyed>>
       ELSE IF reader = "cleanup" THEN DestroyRequest
       ELSE StopReading
  /\ UNCHANGED <<request, body>>

\* "end": the parser has seen the whole body, all that was declared.
End ==
  /\ stream = "open" /\ reader # "none"
  /\ request.declared # NoLength => sent = request.declared
  /\ stream' = "ended"
  /\ IF phase = "reading"
       THEN Dispatch(IF reader = "collect" THEN counted ELSE 0) /\ Listen("none")
       ELSE Listen("none") /\ UNCHANGED <<phase, status, cleanup, body>>
  /\ UNCHANGED <<request, sent, destroyed>>

\* Mutant: a body that breaks off is taken for a whole one.
CollectWhatCame == Dispatch(counted)
FailCollecting == AnswerWith(500, "none") /\ UNCHANGED body

\* "aborted", "error" or "close" before the end; handleRequest is called
\* when the head is parsed and listens before it awaits anything.
Break ==
  /\ stream = "open" /\ phase # "arrived"
  /\ stream' = "closed"
  /\ Listen("none")
  /\ CASE phase = "reading" /\ reader = "collect" -> FailCollecting
       [] phase = "reading" /\ reader = "drain"   -> Dispatch(0)
       [] OTHER -> UNCHANGED <<phase, status, cleanup, body>>
  /\ UNCHANGED <<request, sent, destroyed>>

\* The timer of drainRequest
Timeout ==
  /\ stream = "open" /\ reader \in {"drain", "cleanup"}
  /\ IF reader = "cleanup" THEN DestroyRequest ELSE StopReading
  /\ UNCHANGED <<request, sent, body>>

-----------------------------------------------------------------------------
(* The answer                                                              *)

\* The Response is written, or reading its body fails.
Write(code) ==
  /\ phase = "fetch"
  /\ AnswerWith(code, "none")
  /\ UNCHANGED <<request, stream, sent, reader, counted, body, destroyed>>

\* "finish": the answer has been handed over; the clean-up starts.
Finish ==
  /\ phase = "answered"
  /\ phase' = "finished"
  /\ IF stream # "open" \/ cleanup = "none"
       THEN UNCHANGED <<stream, reader, counted, destroyed>>
     ELSE IF cleanup = "drain"
       THEN Listen("cleanup") /\ UNCHANGED <<stream, destroyed>>
     ELSE stream' = "closed" /\ destroyed' = TRUE /\ Listen("none")
  /\ UNCHANGED <<request, sent, status, cleanup, body>>

ClientNext == (\E n \in {1, 2} : Data(n)) \/ End \/ Break

\* Steps of the adapter and of Node
AdapterNext ==
  \/ RejectTarget \/ TargetThrows \/ RejectLength \/ StartReading
  \/ Timeout \/ Finish

=============================================================================
