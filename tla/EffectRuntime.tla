--------------------------- MODULE EffectRuntime ---------------------------
(***************************************************************************)
(* createEffectHandlerRuntime (packages/effect): the requests that run     *)
(* Effect handlers in one ManagedRuntime, and its disposal.  The layer of  *)
(* services is built when the first request needs it and released by       *)
(* dispose; ManagedRuntime and Scope are the effect library's.  Left out   *)
(* are a handler that throws before it has made its effect, which rejects  *)
(* before the runtime is asked, and an exit with an empty cause, which is  *)
(* taken for a defect.                                                     *)
(***************************************************************************)
EXTENDS Naturals, FiniteSets

CONSTANTS
  Handlings,   \* requests
  Closers      \* calls of dispose

VARIABLES
  services,    \* "fresh", "building", "ready", "broken"
  disposed,    \* runtime.dispose has been called
  scope,       \* "open", "closing" or "closed"
  acquired,    \* history: how often the services were acquired
  released,    \* history: how often they were released
  handling,    \* per request: "idle", "waiting", "running", "mapping", "done"
  cause,       \* why its fiber ended: a set of "fail", "die", "interrupt"
  result,      \* what run returns or throws
  closer,      \* per disposer: "idle", "waiting" or "returned"
  disposal     \* the promise shared by all disposers: "none" or "pending"

effectVars == <<services, disposed, scope, acquired, released, handling, cause,
                result, closer, disposal>>

Pending == "pending"
Waiting == {q \in Handlings : handling[q] = "waiting"}

-----------------------------------------------------------------------------
(* run                                                                     *)

\* Mutant: a failure is mapped whatever else happened.
ClassifyFailureFirst(causes) ==
  IF causes = {} THEN "response"
  ELSE IF "fail" \in causes THEN "mapError"
  ELSE IF "die" \in causes THEN "DefectError"
  ELSE "InterruptedError"

\* What run makes of the exit of a fiber: defects first, then interruption;
\* only a failure alone goes to mapError.
Classify(causes) ==
  IF causes = {} THEN "response"
  ELSE IF "die" \in causes THEN "DefectError"
  ELSE IF "interrupt" \in causes THEN "InterruptedError"
  ELSE "mapError"

\* The fibers of the requests in `ended' exit with `causes'.
Exits(ended, causes) ==
  LET exit == Classify(causes)
  IN  /\ handling' = [q \in Handlings |->
           IF q \notin ended THEN handling[q]
           ELSE IF exit = "mapError" THEN "mapping" ELSE "done"]
      /\ cause' = [q \in Handlings |-> IF q \in ended THEN causes ELSE cause[q]]
      /\ result' = [q \in Handlings |->
           IF q \in ended /\ exit # "mapError" THEN exit ELSE result[q]]

\* runPromiseExit.  The first run forks the build; a disposed runtime dies.
Run(q) ==
  /\ handling[q] = "idle"
  /\ IF disposed \/ services = "broken"
       THEN Exits({q}, {"die"}) /\ UNCHANGED services
       ELSE /\ handling' = [handling EXCEPT
                 ![q] = IF services = "ready" THEN "running" ELSE "waiting"]
            /\ services' = IF services = "fresh" THEN "building" ELSE services
            /\ UNCHANGED <<cause, result>>
  /\ UNCHANGED <<disposed, scope, acquired, released, closer, disposal>>

\* The handler ends: a response, an error, a defect, or several of parallel fibers.
HandlerEnds(q) ==
  /\ handling[q] = "running"
  /\ \E causes \in SUBSET {"fail", "die", "interrupt"} : Exits({q}, causes)
  /\ UNCHANGED <<services, disposed, scope, acquired, released, closer, disposal>>

\* context.signal
RequestAborts(q) ==
  /\ handling[q] \in {"waiting", "running"}
  /\ Exits({q}, {"interrupt"})
  /\ UNCHANGED <<services, disposed, scope, acquired, released, closer, disposal>>

\* mapError returns a response, or a promise of one; or throws.
MapError(q) ==
  /\ handling[q] = "mapping"
  /\ handling' = [handling EXCEPT ![q] = "done"]
  /\ \E mapped \in {"response", "thrown"} : result' = [result EXCEPT ![q] = mapped]
  /\ UNCHANGED <<services, disposed, scope, acquired, released, cause, closer,
                 disposal>>

-----------------------------------------------------------------------------
(* The layer                                                               *)

BuildSucceeds ==
  /\ services = "building" /\ scope = "open"
  /\ services' = "ready"
  /\ acquired' = acquired + 1
  /\ handling' = [q \in Handlings |->
                    IF q \in Waiting THEN "running" ELSE handling[q]]
  /\ UNCHANGED <<disposed, scope, released, cause, result, closer, disposal>>

\* A layer has no error type; it may still die.
BuildDies ==
  /\ services = "building" /\ scope = "open"
  /\ services' = "broken"
  /\ Exits(Waiting, {"die"})
  /\ UNCHANGED <<disposed, scope, acquired, released, closer, disposal>>

\* The scope that closes interrupts the build, before the services are acquired
\* or after; they are then released with it.  A layer that acquires its services
\* without allowing an interruption delays this by as long as that takes.
BuildInterrupted ==
  /\ services = "building" /\ scope = "closing"
  /\ services' = "broken"
  /\ \E n \in 0 .. 1 : acquired' = acquired + n /\ released' = released + n
  /\ Exits(Waiting, {"interrupt"})
  /\ UNCHANGED <<disposed, scope, closer, disposal>>

-----------------------------------------------------------------------------
(* dispose                                                                 *)

\* runtime.dispose: later runs die; closing a scope again returns at once.
DisposeRuntime ==
  /\ disposed' = TRUE
  /\ scope' = IF scope = "open" THEN "closing" ELSE scope

\* Mutant: every call of dispose calls the runtime's.
DisposeUnshared(d) ==
  /\ closer[d] = "idle"
  /\ closer' = [closer EXCEPT ![d] = IF scope = "closing" THEN "returned"
                                     ELSE "waiting"]
  /\ disposal' = Pending
  /\ DisposeRuntime
  /\ UNCHANGED <<services, acquired, released, handling, cause, result>>

Dispose(d) ==
  /\ closer[d] = "idle"
  /\ closer' = [closer EXCEPT ![d] = "waiting"]
  /\ disposal' = Pending
  /\ IF disposal = "none" THEN DisposeRuntime ELSE UNCHANGED <<disposed, scope>>
  /\ UNCHANGED <<services, acquired, released, handling, cause, result>>

\* The finalizers of the scope have run.
Release ==
  /\ scope = "closing" /\ services # "building"
  /\ scope' = "closed"
  /\ released' = acquired
  /\ UNCHANGED <<services, disposed, acquired, handling, cause, result, closer,
                 disposal>>

DisposeReturns(d) ==
  /\ closer[d] = "waiting" /\ scope = "closed"
  /\ closer' = [closer EXCEPT ![d] = "returned"]
  /\ UNCHANGED <<services, disposed, scope, acquired, released, handling, cause,
                 result, disposal>>

EffectInit ==
  /\ services = "fresh" /\ disposed = FALSE /\ scope = "open"
  /\ acquired = 0 /\ released = 0
  /\ handling = [q \in Handlings |-> "idle"]
  /\ cause = [q \in Handlings |-> {}]
  /\ result = [q \in Handlings |-> "none"]
  /\ closer = [d \in Closers |-> "idle"]
  /\ disposal = "none"

\* What the library does by itself
RuntimeWorks ==
  BuildInterrupted \/ Release \/ \E d \in Closers : DisposeReturns(d)

EffectNext ==
  \/ \E q \in Handlings :
       Run(q) \/ HandlerEnds(q) \/ RequestAborts(q) \/ MapError(q)
  \/ BuildSucceeds \/ BuildDies
  \/ \E d \in Closers : Dispose(d)
  \/ RuntimeWorks

\* Builds and handlers take as long as they like, but an interrupted build stops and
\* the finalizers of the services end: that is up to the layer an application gives.
EffectFairness == WF_effectVars(RuntimeWorks)

EffectSpec == EffectInit /\ [][EffectNext]_effectVars /\ EffectFairness

-----------------------------------------------------------------------------
(* Properties                                                              *)

\* Every call of dispose returns only when the services have been released, the
\* second one that comes while the first is under way included; they are acquired
\* and released at most once, and never acquired again by a late request.
ShutdownWaitsForRelease ==
  /\ released <= acquired /\ acquired <= 1
  /\ \A d \in Closers : closer[d] = "returned" =>
       released = acquired /\ services # "building"

\* An error mapper sees typed failures only: a defect or an interruption, even
\* next to a failure in a parallel fiber or because the layer died, is thrown.
MapperSeesOnlyFailures ==
  \A q \in Handlings :
    /\ (handling[q] = "mapping" \/ result[q] \in {"thrown"}) => cause[q] = {"fail"}
    /\ result[q] = "response" => cause[q] \subseteq {"fail"}
    /\ cause[q] = {"fail"} => result[q] \in {"none", "response", "thrown"}

\* Disposal ends every wait: a disposer gets its answer, and a request that waits
\* for services that will not come is interrupted instead of hanging; as long as
\* the acquisition of the layer can be interrupted and its finalizers end.
DisposalEndsWaits ==
  /\ \A d \in Closers : closer[d] = "waiting" ~> closer[d] = "returned"
  /\ \A q \in Handlings : (handling[q] = "waiting" /\ disposed)
                             ~> handling[q] # "waiting"
=============================================================================
