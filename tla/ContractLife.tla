---------------------------- MODULE ContractLife ----------------------------
(***************************************************************************)
(* A contract from its authors to the programs generated from it: response *)
(* objects and their normalization; a specification, its normalization and *)
(* the routes its routers register; a call through the generated client;   *)
(* one through the generated command line; the Effect handlers of a        *)
(* server; and the messages of the operations.  They are pieces of         *)
(* different programs and processes and share no state but the contract,   *)
(* so a behaviour follows one chapter of its life.                         *)
(***************************************************************************)
EXTENDS SpecNormalization, RouteAgreement, GeneratedCommand, EffectRuntime,
        MessageExchange

CONSTANT SomeContract   \* the contract of the chapters that do not look at it

VARIABLE chapter  \* which one a behaviour follows

vars == <<chapter, responseVars, routerVars, contractVars, callVars, commandVars,
          effectVars, exchangeVars>>

Chapters == {"responses", "routes", "call", "command", "handlers", "messages"}

Init ==
  /\ chapter \in Chapters
  /\ AuthoringInit /\ RouterInit /\ CallInit /\ EffectInit /\ ExchangeInit
  /\ chapter # "messages" => operation = 1
  /\ verdict = "open"
  /\ contract \in (IF chapter = "routes" THEN Contracts ELSE {SomeContract})
  /\ CommandInit(IF chapter = "command" THEN Invocations
                 ELSE {CHOOSE i \in Invocations : TRUE})

Responses ==
  /\ chapter = "responses" /\ AuthoringNext
  /\ UNCHANGED <<chapter, routerVars, contractVars, callVars, commandVars, effectVars,
                 exchangeVars>>

Routes ==
  /\ chapter = "routes"
  /\ \/ NormalizeContract /\ UNCHANGED routerVars
     \/ MountOne /\ UNCHANGED contractVars
  /\ UNCHANGED <<chapter, responseVars, callVars, commandVars, effectVars, exchangeVars>>

InCall(A) ==
  /\ chapter = "call" /\ A
  /\ UNCHANGED <<chapter, responseVars, routerVars, contractVars, commandVars,
                 effectVars, exchangeVars>>

InCommand(A) ==
  /\ chapter = "command" /\ A
  /\ UNCHANGED <<chapter, responseVars, routerVars, contractVars, effectVars,
                 exchangeVars>>

InHandlers(A) ==
  /\ chapter = "handlers" /\ A
  /\ UNCHANGED <<chapter, responseVars, routerVars, contractVars, callVars,
                 commandVars, exchangeVars>>

Messages ==
  /\ chapter = "messages" /\ ExchangeNext
  /\ UNCHANGED <<chapter, responseVars, routerVars, contractVars, callVars,
                 commandVars, effectVars>>

Call == InCall(CallNext)
Command == InCommand(CommandNext)
Handlers == InHandlers(EffectNext)

Next == Responses \/ Routes \/ Call \/ Command \/ Handlers \/ Messages

\* Timers fire, aborted calls reject, a command whose call has ended goes on, and
\* the effect library closes a scope; nothing is assumed of servers or users.
Fairness ==
  /\ WF_vars(InCall(TimerFires))
  /\ WF_vars(InCall(Cancellation))
  /\ WF_vars(InCommand(Report \/ CancelledCallEnds))
  /\ WF_vars(InHandlers(RuntimeWorks))

Spec == Init /\ [][Next]_vars /\ Fairness

-----------------------------------------------------------------------------
(* Properties                                                              *)

\* A contract normalization accepts is one its generated router can register, where
\* the path the client builds for an operation leads to that operation and to the
\* arguments given, and the fetch router, the Hono routes and the guards of
\* middleware read a path alike, within what ClientReachesItsOperation and
\* ReadersAgree leave out: parameters inside a segment, repeated names of parameters,
\* static segments in percent-encoding.
RoutesAreServed ==
  /\ AcceptedContractsMount
  /\ ClientReachesItsOperation
  /\ ReadersAgree

\* Whoever stops waiting is let go: a call with a timeout or an aborted signal
\* settles and an interrupted command ends though the server says nothing more,
\* and after dispose neither a disposer nor a request hangs, if the layer's
\* acquisition can be interrupted and its finalizers end.
WaitsEnd ==
  /\ CancelledCallSettles
  /\ InterruptedCommandEnds
  /\ DisposalEndsWaits
=============================================================================
