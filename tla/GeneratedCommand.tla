-------------------------- MODULE GeneratedCommand --------------------------
(***************************************************************************)
(* The generated command line (packages/command): the arguments, the body, *)
(* the credentials, the call through the generated client, the exit code,  *)
(* and SIGINT at any time.  Every operation of an accepted contract is one *)
(* command.                                                                *)
(***************************************************************************)
EXTENDS ContractNormalization, ApiClient

CONSTANT Invocations   \* contract, resource, operation, argv, environment, body

\* A command is generated from a contract whose security passed normalization.
ASSUME InvocationsAssumption ==
  \A call \in Invocations :
    /\ IsSequence(call.argv)
    /\ IsSequence(call.contract.schemes)
    /\ SchemesError(call.contract.schemes) = "none"
    /\ \A security \in {call.contract.security, call.resource.security,
                        call.operation.security} \ {Undeclared} :
         /\ IsSequence(security)
         /\ \A k \in DOMAIN security : IsSequence(security[k])
         /\ SecurityError(security, call.contract.schemes) = "none"

VARIABLES
  invocation,
  stage,       \* "start", "body", "executing", "exited" or "killed"
  body,        \* the body once it is read
  sent,        \* credentials in the request, by place
  interrupts,  \* SIGINTs the process has survived
  exitCode

commandVars == <<invocation, stage, body, sent, interrupts, exitCode>>

Running == 256    \* no exit code yet

-----------------------------------------------------------------------------
(* Arguments.  A token is a word, --option or --option=value.              *)

Switches == {"help", "human", "body-stdin"}
GlobalValueOptions == {"base-url", "body", "body-file"}

AddValue(parsed, option, value) ==
  LET before == IF option \in DOMAIN parsed.values THEN parsed.values[option]
                ELSE << >>
  IN  [parsed EXCEPT !.values = With(@, option, Append(before, value))]

Refuse(parsed) == [parsed EXCEPT !.error = TRUE]

\* parseLongOption, `pending' being the option whose value comes next.
ParseToken(parsed, token) ==
  LET free == ~parsed.error /\ parsed.pending = ""
  IN  CASE parsed.error -> parsed
        [] ~parsed.error /\ parsed.pending # "" ->
             IF token.kind = "word"
               THEN [AddValue(parsed, parsed.pending, token.text)
                       EXCEPT !.pending = ""]
               ELSE Refuse(parsed)
        [] free /\ token.kind = "word" ->
             IF parsed.command # "" THEN Refuse(parsed)
             ELSE [parsed EXCEPT !.command = token.text]
        [] free /\ token.kind = "assigned" ->
             AddValue(parsed, token.text, token.value)
        [] free /\ token.kind \notin {"word", "assigned"} ->
             IF token.text \in Switches
               THEN [parsed EXCEPT !.switches = @ \cup {token.text}]
               ELSE [parsed EXCEPT !.pending = token.text]

\* parseArguments
ParseArguments(argv) ==
  LET read[n \in 0 .. Len(argv)] ==
        IF n = 0 THEN [command |-> "", pending |-> "", values |-> << >>,
                       switches |-> {}, error |-> FALSE]
        ELSE ParseToken(read[n - 1], argv[n])
      parsed == read[Len(argv)]
  IN  IF parsed.pending # "" THEN Refuse(parsed) ELSE parsed

Given(parsed, option) == option \in DOMAIN parsed.values
Repeated(parsed, option) ==
  Given(parsed, option) /\ Len(parsed.values[option]) > 1    \* onlyValue

-----------------------------------------------------------------------------
(* The command of an operation (model.ts)                                  *)

Flag(scheme) == "auth-" \o scheme.name
HeaderPlace(key) == [target |-> "header", key |-> key]

\* Where a scheme's credential goes; "cookie" is one header for all its keys.
PlaceOf(scheme) ==
  IF scheme.kind = "apiKey" THEN scheme.place ELSE HeaderPlace("authorization")

\* buildSecurityModel: the requirements as sequences of scheme names, sorted.
Requirements(security) ==
  [k \in DOMAIN security |->
     [j \in DOMAIN security[k] |-> security[k][j].scheme]]

\* buildInputs: an input in the place of a credential is left out; a cookie
\* credential has no place of its own.
CommandInputs(operation, schemes) ==
  {input \in operation.inputs :
     \A scheme \in ToSet(schemes) :
       \/ PlaceOf(scheme).key = "cookie"
       \/ PlaceOf(scheme) # [target |-> input.target, key |-> input.key]}

InputFlag(input) == input.target \o "-" \o input.key

\* buildCommandOperationModels
CommandOf(call) ==
  LET requirements == Requirements(NormalizedSecurity(call.contract,
                                     call.resource, call.operation))
      declared == call.contract.schemes
      schemes == Selected(declared,
        {i \in DOMAIN declared : \E k \in DOMAIN requirements :
           declared[i].name \in ToSet(requirements[k])})
  IN  [name |-> call.operation.id, requirements |-> requirements,
       schemes |-> schemes, inputs |-> CommandInputs(call.operation, schemes),
       hasBody |-> call.operation.hasBody]

KnownOptions(command) ==
  Switches \cup GlobalValueOptions \cup {InputFlag(i) : i \in command.inputs}
    \cup {Flag(s) : s \in ToSet(command.schemes)}

-----------------------------------------------------------------------------
(* runCommand                                                              *)

BodyOptions(parsed) ==
  {o \in {"body", "body-file"} : Given(parsed, o)}
    \cup (parsed.switches \cap {"body-stdin"})

MissingBaseUrl(parsed, environment) ==
  IF Given(parsed, "base-url") THEN parsed.values["base-url"][1] = ""
  ELSE environment = ""

\* The checks before the body is read: "help", "usage" or "none".
ArgumentsVerdict(call) ==
  LET parsed == ParseArguments(call.argv)
      command == CommandOf(call)
      help == "help" \in parsed.switches
  IN  CASE parsed.error -> "usage"
        [] ~parsed.error /\ parsed.command = "" ->
             IF help THEN "help" ELSE "usage"
        [] ~parsed.error /\ parsed.command \notin {"", command.name} -> "usage"
        [] OTHER ->
             IF (DOMAIN parsed.values \cup parsed.switches)
                  \ KnownOptions(command) # {} THEN "usage"
             ELSE IF help THEN "help"
             ELSE IF \/ \E o \in GlobalValueOptions : Repeated(parsed, o)
                     \/ MissingBaseUrl(parsed, call.environment)
                     \/ Cardinality(BodyOptions(parsed)) > 1
                     \/ ~command.hasBody /\ BodyOptions(parsed) # {}
               THEN "usage"
             ELSE "none"

\* What readBody waits for; nothing when there is no body, or none was piped.
BodySource(call) ==
  LET options == BodyOptions(ParseArguments(call.argv))
  IN  CASE ~call.operation.hasBody -> "none"
        [] call.operation.hasBody /\ options # {} -> CHOOSE o \in options : TRUE
        [] OTHER -> IF call.terminal THEN "none" ELSE "body-stdin"

InputError(command, parsed) ==
  \E input \in command.inputs :
    \/ input.required /\ ~Given(parsed, InputFlag(input))
    \/ Repeated(parsed, InputFlag(input))

Satisfied(requirement, parsed, schemes) ==
  \A k \in DOMAIN requirement : Given(parsed, Flag(SchemeNamed(schemes, requirement[k])))

\* selectedSecuritySchemes: the first requirement that is satisfied.
SelectedSchemes(command, parsed) ==
  LET satisfied == {k \in DOMAIN command.requirements :
                      Satisfied(command.requirements[k], parsed, command.schemes)}
  IN  IF satisfied = {} THEN << >> ELSE command.requirements[Least(satisfied)]

SecurityMissing(command, parsed) ==
  command.requirements # << >> /\ SelectedSchemes(command, parsed) = << >>

\* applySecurityScheme: a second credential in one place replaces the first,
\* cookies are joined.
ApplySecurityScheme(placed, scheme) ==
  LET place == PlaceOf(scheme)
      before == IF place \in DOMAIN placed /\ place.key = "cookie"
                  THEN placed[place] ELSE {}
  IN  With(placed, place, before \cup {scheme.name})

Credentials(command, parsed) ==
  LET selected == SelectedSchemes(command, parsed)
      usable == Selected(selected,
                  {k \in DOMAIN selected :
                     Given(parsed, Flag(SchemeNamed(command.schemes, selected[k])))})
      placed[n \in 0 .. Len(usable)] ==
        IF n = 0 THEN << >>
        ELSE ApplySecurityScheme(placed[n - 1], SchemeNamed(command.schemes, usable[n]))
  IN  placed[Len(usable)]

\* mergeRequestHeaders and buildQueryString: the request's own values come
\* before the client's defaults, which carry the credentials.
InRequest(command, parsed, place) ==
  \E input \in command.inputs :
    Given(parsed, InputFlag(input))
      /\ place = [target |-> input.target, key |-> input.key]

MergedCredentials(command, parsed) ==
  LET placed == Credentials(command, parsed)
  IN  [place \in {p \in DOMAIN placed : ~InRequest(command, parsed, p)} |->
         placed[place]]

-----------------------------------------------------------------------------
(* Actions                                                                 *)

Exit(code) == stage' = "exited" /\ exitCode' = code

\* runGeneratedCommandCli up to the body.  Without one to wait for, readBody
\* and what follows it run in microtasks.
Start ==
  /\ stage = "start"
  /\ LET arguments == ArgumentsVerdict(invocation)
     IN  CASE arguments = "help" -> Exit(0) /\ UNCHANGED body
           [] arguments = "usage" -> Exit(2) /\ UNCHANGED body
           [] OTHER ->
                /\ stage' = IF BodySource(invocation) \in {"body-file", "body-stdin"}
                              THEN "body" ELSE "ready"
                /\ body' = IF BodySource(invocation) = "body"
                             THEN invocation.content ELSE "empty"
                /\ UNCHANGED exitCode
  /\ UNCHANGED <<invocation, sent, interrupts, callVars>>

\* The file or stdin is there; a file that cannot be read is an internal failure.
ReadBody ==
  /\ stage = "body"
  /\ IF invocation.content = "unreadable" /\ BodySource(invocation) = "body-file"
       THEN Exit(6) /\ UNCHANGED body
       ELSE stage' = "ready" /\ body' = invocation.content /\ UNCHANGED exitCode
  /\ UNCHANGED <<invocation, sent, interrupts, callVars>>

\* parseBodyValue, requestFromInputs, resolveSecurity, then execute: validate,
\* new client, send, which ends at the call of fetch.
Execute ==
  LET command == CommandOf(invocation)
      parsed == ParseArguments(invocation.argv)
      early == invocation.early
  IN  /\ stage = "ready"
      /\ IF \/ body = "malformed"
            \/ InputError(command, parsed)
            \/ SecurityMissing(command, parsed)
            \/ \E name \in ToSet(SelectedSchemes(command, parsed)) :
                 Repeated(parsed, Flag(SchemeNamed(command.schemes, name)))
           THEN Exit(2) /\ UNCHANGED <<sent, callVars>>
         ELSE IF early = "RequestValidationError"
           THEN Exit(3) /\ UNCHANGED <<sent, callVars>>
         ELSE IF early = "ApiClientConfigurationError"
           THEN Exit(6) /\ UNCHANGED <<sent, callVars>>
         ELSE /\ stage' = "executing"
              /\ sent' = IF early = "none" THEN MergedCredentials(command, parsed)
                         ELSE << >>
              /\ Send([signal |-> TRUE, timeout |-> FALSE, honours |-> TRUE,
                       early |-> early])
              /\ UNCHANGED exitCode
      /\ UNCHANGED <<invocation, body, interrupts>>

\* SIGINT: without the listener, which is registered once and only around
\* execute, the process ends.
Sigint ==
  /\ stage \in {"start", "body", "executing"}
  /\ stage = "executing" => phase # "settled"
  /\ IF stage = "executing" /\ interrupts = 0
       THEN /\ interrupts' = 1 /\ Abort("AbortError")
            /\ UNCHANGED <<stage, exitCode>>
       ELSE stage' = "killed" /\ CallerDies /\ UNCHANGED <<interrupts, exitCode>>
  /\ UNCHANGED <<invocation, body, sent>>

CancelledCallEnds ==
  stage = "executing" /\ Cancellation /\ UNCHANGED commandVars

CallRuns ==
  /\ stage = "executing"
  /\ Cancellation \/ Server      \* the command sets no timeout
  /\ UNCHANGED commandVars

\* Mutant: the signal is not looked at.
ClassifyFailureByError(error) ==
  IF error = NetworkError("ABORT") THEN 130
  ELSE IF error.kind = "network" THEN 5 ELSE 6

\* classifyFailure, with the signal of the command
ClassifyFailure(error) ==
  IF aborted # "none" \/ error = NetworkError("ABORT") THEN 130
  ELSE IF error.kind = "network" THEN 5
  ELSE 6

\* The rest of runCommand, in the microtasks after send.
Report ==
  /\ stage = "executing" /\ phase = "settled"
  /\ Exit(IF outcome.kind = "response"
            THEN IF outcome.status >= 400 THEN 4 ELSE 0
            ELSE ClassifyFailure(outcome))
  /\ UNCHANGED <<invocation, body, sent, interrupts, callVars>>

CommandInit(invocations) ==
  /\ invocation \in invocations
  /\ stage = "start"
  /\ body = "empty"
  /\ sent = << >>
  /\ interrupts = 0
  /\ exitCode = Running

CommandNext == Start \/ ReadBody \/ Execute \/ Sigint \/ CallRuns \/ Report

-----------------------------------------------------------------------------
(* Properties                                                              *)

\* The exit code tells what happened to the request: 2 and 3 that none was sent,
\* 0 and 4 that a declared response came in full, 5 that the network failed, 130
\* that the user interrupted it while it was under way, wherever the interrupt
\* fell; and an interrupted command never reports anything else.
ExitCodeTellsTheOutcome ==
  stage = "exited" =>
    /\ exitCode \in {2, 3} => phase = "unsent"
    /\ exitCode = 0 => \/ phase = "unsent" /\ interrupts = 0
                       \/ outcome.kind = "response" /\ outcome.status < 400
    /\ exitCode = 4 => outcome.kind = "response" /\ outcome.status >= 400
    /\ exitCode = 5 => outcome.kind = "network" /\ answer = Nothing
    /\ exitCode = 130 <=> interrupts = 1

\* Ctrl-C works: a command interrupted while its request is under way ends, even
\* if the server never answers or never finishes its answer.
InterruptedCommandEnds ==
  (stage = "executing" /\ interrupts = 1) ~> stage \in {"exited", "killed"}

\* Reference: the nearest level that says something about security rules.
RulingSecurity(call) ==
  LET levels == <<call.operation.security, call.resource.security,
                  call.contract.security>>
      ruling == {k \in 1 .. 3 : levels[k] # Undeclared}
  IN  IF ruling = {} THEN << >> ELSE levels[Least(ruling)]

\* The schemes an alternative of that security asks for
Asked(call, k) ==
  {RulingSecurity(call)[k][j].scheme : j \in DOMAIN RulingSecurity(call)[k]}

\* Credentials, by place, are those of one alternative, each from its own flag.
MeetTheContract(credentials, call) ==
  LET ruling == RulingSecurity(call)
      placesOf(k) == {PlaceOf(SchemeNamed(call.contract.schemes, n)) :
                       n \in Asked(call, k)}
      carried == UNION {credentials[place] : place \in DOMAIN credentials}
      given == {token.text : token \in ToSet(call.argv)}
      ownCookie == \E input \in call.operation.inputs : input.key = "cookie"
  IN  IF ruling = << >> THEN credentials = << >>
      ELSE \/ ownCookie
           \/ \E k \in DOMAIN ruling :
                /\ Cardinality(placesOf(k)) = Cardinality(Asked(call, k))
                     => carried = Asked(call, k)
                /\ carried \subseteq Asked(call, k)
                /\ DOMAIN credentials = placesOf(k)
                /\ {"auth-" \o n : n \in Asked(call, k)} \subseteq given

\* A request a command sends carries the credentials of one alternative of the
\* security that governs its operation, all of them and in their places, each from
\* its own flag, and none of another alternative; no security means no credential.
\* Two schemes in one place and an operation with a Cookie header of its own, which
\* replaces the cookie credentials, are the two exceptions.
CredentialsMeetTheContract ==
  (stage # "start" /\ phase # "unsent" /\ plan.early = "none") =>
    MeetTheContract(sent, invocation)
=============================================================================
