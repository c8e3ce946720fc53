------------------------ MODULE EffectRuntimeProofs ------------------------
(***************************************************************************)
(* Proofs about EffectRuntime, for any number of requests and disposers.   *)
(***************************************************************************)
EXTENDS EffectRuntime, TLAPS

-----------------------------------------------------------------------------
(* The inductive invariant                                                 *)

Causes == SUBSET {"fail", "die", "interrupt"}
Results == {"none", "response", "thrown", "DefectError", "InterruptedError"}
Places == {"idle", "waiting", "running", "mapping", "done"}
Unfinished == {"idle", "waiting", "running"}

TypeInv ==
  /\ services \in {"fresh", "building", "ready", "broken"}
  /\ disposed \in BOOLEAN
  /\ scope \in {"open", "closing", "closed"}
  /\ acquired \in Nat /\ released \in Nat
  /\ handling \in [Handlings -> Places]
  /\ cause \in [Handlings -> Causes]
  /\ result \in [Handlings -> Results]
  /\ closer \in [Closers -> {"idle", "waiting", "returned"}]
  /\ disposal \in {"none", Pending}

\* The scope is closed once, by the disposer that came first.
DisposalInv ==
  /\ disposed <=> scope # "open"
  /\ disposal = "none" <=> scope = "open"
  /\ \A d \in Closers : closer[d] = "returned" => scope = "closed"

\* What the history variables say about the services
LayerInv ==
  /\ services \in {"fresh", "building"} => acquired = 0
  /\ services = "ready" => acquired = 1
  /\ acquired <= 1
  /\ released = IF scope = "closed" \/ services = "broken" THEN acquired ELSE 0
  /\ scope = "closed" => services # "building"

\* What is known of a request at each place of run
Settled(q) ==
  /\ handling[q] \in Unfinished => cause[q] = {} /\ result[q] = "none"
  /\ handling[q] = "mapping" => cause[q] = {"fail"} /\ result[q] = "none"
  /\ handling[q] = "done" =>
       IF cause[q] = {"fail"} THEN result[q] \in {"response", "thrown"}
       ELSE result[q] = Classify(cause[q])

RequestInv == \A q \in Handlings : Settled(q)

IInv == TypeInv /\ DisposalInv /\ LayerInv /\ RequestInv

-----------------------------------------------------------------------------
(* The end of a fiber                                                      *)

\* Classify gives a failure alone to the error mapper, and nothing else; only a
\* fiber that succeeded has a response.
LEMMA ClassifyFacts ==
  ASSUME NEW causes \in Causes
  PROVE  /\ Classify(causes) \in {"response", "mapError", "DefectError",
                                  "InterruptedError"}
         /\ Classify(causes) = "mapError" <=> causes = {"fail"}
         /\ Classify(causes) = "response" <=> causes = {}
<1>1. causes = {} \/ "die" \in causes \/ "interrupt" \in causes \/ causes = {"fail"}
  BY DEF Causes
<1> QED
  BY <1>1 DEF Classify, Causes

\* However many fibers end at once, each request is left where its causes say.
LEMMA ExitsKeeps ==
  ASSUME TypeInv, RequestInv, NEW ended \in SUBSET Handlings,
         NEW causes \in Causes, Exits(ended, causes)
  PROVE  /\ handling' \in [Handlings -> Places]
         /\ cause' \in [Handlings -> Causes]
         /\ result' \in [Handlings -> Results]
         /\ (\A q \in ended : handling[q] \in Unfinished) => RequestInv'
<1> DEFINE exit == Classify(causes)
<1>1. /\ exit \in {"response", "mapError", "DefectError", "InterruptedError"}
      /\ exit = "mapError" <=> causes = {"fail"}
  BY ClassifyFacts
<1>2. /\ handling' = [q \in Handlings |->
                        IF q \notin ended THEN handling[q]
                        ELSE IF exit = "mapError" THEN "mapping" ELSE "done"]
      /\ cause' = [q \in Handlings |-> IF q \in ended THEN causes ELSE cause[q]]
      /\ result' = [q \in Handlings |->
                      IF q \in ended /\ exit # "mapError" THEN exit ELSE result[q]]
  BY DEF Exits
<1> HIDE DEF exit
<1>3. handling' \in [Handlings -> Places]
  BY <1>2 DEF TypeInv, Places
<1>4. cause' \in [Handlings -> Causes]
  BY <1>2 DEF TypeInv
<1>5. result' \in [Handlings -> Results]
  BY <1>1, <1>2 DEF TypeInv, Results
<1>6. ASSUME \A q \in ended : handling[q] \in Unfinished,
             NEW q \in Handlings
      PROVE  Settled(q)'
  <2>1. Settled(q)
    BY DEF RequestInv
  <2>2. CASE q \notin ended
    BY <1>2, <2>1, <2>2 DEF Settled
  <2>3. CASE q \in ended
    <3>1. result[q] = "none"
      BY <1>6, <2>1, <2>3 DEF Settled
    <3>2. cause'[q] = causes
      BY <1>2, <2>3
    <3>3. CASE exit = "mapError"
      <4>1. handling'[q] = "mapping" /\ result'[q] = "none" /\ causes = {"fail"}
        BY <1>1, <1>2, <2>3, <3>1, <3>3
      <4> QED
        BY <3>2, <4>1 DEF Settled, Unfinished
    <3>4. CASE exit # "mapError"
      <4>1. handling'[q] = "done" /\ result'[q] = exit /\ causes # {"fail"}
        BY <1>1, <1>2, <2>3, <3>4
      <4> QED
        BY <3>2, <4>1 DEF Settled, Unfinished, exit
    <3> QED
      BY <3>3, <3>4
  <2> QED
    BY <2>2, <2>3
<1> QED
  BY <1>3, <1>4, <1>5, <1>6 DEF RequestInv

\* A fiber of one request ends.
LEMMA OneExits ==
  ASSUME IInv, NEW q \in Handlings, NEW causes \in Causes,
         handling[q] \in Unfinished, Exits({q}, causes),
         UNCHANGED <<services, disposed, scope, acquired, released, closer,
                     disposal>>
  PROVE  IInv'
<1>1. {q} \in SUBSET Handlings /\ \A p \in {q} : handling[p] \in Unfinished
  OBVIOUS
<1>2. TypeInv /\ RequestInv
  BY DEF IInv
<1>3. /\ handling' \in [Handlings -> Places]
      /\ cause' \in [Handlings -> Causes]
      /\ result' \in [Handlings -> Results]
      /\ RequestInv'
  BY <1>1, <1>2, ExitsKeeps
<1> QED
  BY <1>3 DEF IInv, TypeInv, DisposalInv, LayerInv

-----------------------------------------------------------------------------
(* Preservation                                                            *)

LEMMA InvInit == EffectInit => IInv
<1> SUFFICES ASSUME EffectInit PROVE IInv
  OBVIOUS
<1> USE DEF EffectInit
<1>1. TypeInv
  BY DEF TypeInv, Causes, Results, Places
<1>2. DisposalInv /\ LayerInv
  BY DEF DisposalInv, LayerInv
<1>3. RequestInv
  BY DEF RequestInv, Settled, Unfinished
<1> QED
  BY <1>1, <1>2, <1>3 DEF IInv

LEMMA InvNext == IInv /\ [EffectNext]_effectVars => IInv'
<1> SUFFICES ASSUME IInv, [EffectNext]_effectVars PROVE IInv'
  OBVIOUS
<1>1. ASSUME NEW q \in Handlings, Run(q) PROVE IInv'
  <2>0. handling[q] \in Unfinished /\ {"die"} \in Causes
    BY <1>1 DEF Run, Unfinished, Causes
  <2>1. CASE disposed \/ services = "broken"
    BY <1>1, <2>0, <2>1, OneExits DEF Run
  <2>2. CASE ~(disposed \/ services = "broken")
    <3>1. /\ handling' = [handling EXCEPT
                  ![q] = IF services = "ready" THEN "running" ELSE "waiting"]
          /\ services' = IF services = "fresh" THEN "building" ELSE services
          /\ UNCHANGED <<cause, result, disposed, scope, acquired, released,
                         closer, disposal>>
      BY <1>1, <2>2 DEF Run
    <3>2. scope = "open"
      BY <2>2 DEF IInv, DisposalInv
    <3>3. TypeInv'
      BY <3>1 DEF IInv, TypeInv, Places
    <3>4. DisposalInv' /\ LayerInv'
      BY <3>1, <3>2 DEF IInv, TypeInv, DisposalInv, LayerInv
    <3>5. RequestInv'
      <4> SUFFICES ASSUME NEW p \in Handlings PROVE Settled(p)'
        BY DEF RequestInv
      <4>1. Settled(p)
        BY DEF IInv, RequestInv
      <4> QED
        BY <2>0, <3>1, <4>1 DEF IInv, TypeInv, Settled, Unfinished
    <3> QED
      BY <3>3, <3>4, <3>5 DEF IInv
  <2> QED
    BY <2>1, <2>2
<1>2. ASSUME NEW q \in Handlings, HandlerEnds(q) PROVE IInv'
  BY <1>2, OneExits DEF HandlerEnds, Unfinished, Causes
<1>3. ASSUME NEW q \in Handlings, RequestAborts(q) PROVE IInv'
  <2>1. handling[q] \in Unfinished /\ {"interrupt"} \in Causes
    BY <1>3 DEF RequestAborts, Unfinished, Causes
  <2> QED
    BY <1>3, <2>1, OneExits DEF RequestAborts
<1>4. ASSUME NEW q \in Handlings, MapError(q) PROVE IInv'
  <2>1. PICK mapped \in {"response", "thrown"} :
          result' = [result EXCEPT ![q] = mapped]
    BY <1>4 DEF MapError
  <2>2. TypeInv' /\ DisposalInv' /\ LayerInv'
    BY <1>4, <2>1 DEF MapError, IInv, TypeInv, DisposalInv, LayerInv, Places, Results
  <2>3. RequestInv'
    <3> SUFFICES ASSUME NEW p \in Handlings PROVE Settled(p)'
      BY DEF RequestInv
    <3>1. Settled(p)
      BY DEF IInv, RequestInv
    <3> QED
      BY <1>4, <2>1, <3>1 DEF MapError, IInv, TypeInv, Settled, Unfinished
  <2> QED
    BY <2>2, <2>3 DEF IInv
<1>5. CASE BuildSucceeds
  <2>1. TypeInv' /\ DisposalInv' /\ LayerInv'
    BY <1>5 DEF BuildSucceeds, IInv, TypeInv, DisposalInv, LayerInv, Places
  <2>2. RequestInv'
    <3> SUFFICES ASSUME NEW p \in Handlings PROVE Settled(p)'
      BY DEF RequestInv
    <3>1. Settled(p)
      BY DEF IInv, RequestInv
    <3> QED
      BY <1>5, <3>1 DEF BuildSucceeds, Waiting, IInv, TypeInv, Settled, Unfinished
  <2> QED
    BY <2>1, <2>2 DEF IInv
<1>6. ASSUME NEW causes \in Causes, Exits(Waiting, causes)
      PROVE  /\ handling' \in [Handlings -> Places]
             /\ cause' \in [Handlings -> Causes]
             /\ result' \in [Handlings -> Results]
             /\ RequestInv'
  <2>1. /\ Waiting \in SUBSET Handlings
        /\ \A q \in Waiting : handling[q] \in Unfinished
    BY DEF Waiting, Unfinished
  <2> QED
    BY <1>6, <2>1, ExitsKeeps DEF IInv
<1>7. CASE BuildDies
  <2>1. /\ handling' \in [Handlings -> Places]
        /\ cause' \in [Handlings -> Causes]
        /\ result' \in [Handlings -> Results]
        /\ RequestInv'
    BY <1>6, <1>7 DEF BuildDies, Causes
  <2> QED
    BY <1>7, <2>1 DEF BuildDies, IInv, TypeInv, DisposalInv, LayerInv
<1>8. CASE BuildInterrupted
  <2>1. /\ handling' \in [Handlings -> Places]
        /\ cause' \in [Handlings -> Causes]
        /\ result' \in [Handlings -> Results]
        /\ RequestInv'
    BY <1>6, <1>8 DEF BuildInterrupted, Causes
  <2> QED
    BY <1>8, <2>1 DEF BuildInterrupted, IInv, TypeInv, DisposalInv, LayerInv
<1>9. ASSUME UNCHANGED <<handling, cause, result>> PROVE RequestInv'
  BY <1>9 DEF IInv, RequestInv, Settled
<1>10. ASSUME NEW d \in Closers, Dispose(d) PROVE IInv'
  BY <1>9, <1>10 DEF Dispose, DisposeRuntime, Pending, IInv, TypeInv, DisposalInv,
     LayerInv
<1>11. CASE Release
  BY <1>9, <1>11 DEF Release, IInv, TypeInv, DisposalInv, LayerInv
<1>12. ASSUME NEW d \in Closers, DisposeReturns(d) PROVE IInv'
  BY <1>9, <1>12 DEF DisposeReturns, IInv, TypeInv, DisposalInv, LayerInv
<1>13. CASE UNCHANGED effectVars
  BY <1>9, <1>13 DEF effectVars, IInv, TypeInv, DisposalInv, LayerInv
<1> QED
  BY <1>1, <1>2, <1>3, <1>4, <1>5, <1>7, <1>8, <1>10, <1>11, <1>12, <1>13
     DEF EffectNext, RuntimeWorks

LEMMA Invariance == EffectSpec => []IInv
  BY InvInit, InvNext, PTL DEF EffectSpec

-----------------------------------------------------------------------------
(* Theorems                                                                *)

\* However many requests and disposers there are and however they overlap, the
\* services are acquired and released at most once, and every call of dispose
\* returns only after their release.
THEOREM Shutdown == EffectSpec => []ShutdownWaitsForRelease
<1>1. IInv => ShutdownWaitsForRelease
  BY DEF IInv, TypeInv, DisposalInv, LayerInv, ShutdownWaitsForRelease
<1> QED
  BY <1>1, Invariance, PTL

\* The error mapper of a handler is never shown a defect or an interruption.
THEOREM Mapping == EffectSpec => []MapperSeesOnlyFailures
<1>1. IInv => MapperSeesOnlyFailures
  <2> SUFFICES ASSUME IInv, NEW q \in Handlings
               PROVE  /\ (handling[q] = "mapping" \/ result[q] \in {"thrown"})
                           => cause[q] = {"fail"}
                      /\ result[q] = "response" => cause[q] \subseteq {"fail"}
                      /\ cause[q] = {"fail"} =>
                           result[q] \in {"none", "response", "thrown"}
    BY DEF MapperSeesOnlyFailures
  <2>1. Settled(q) /\ handling[q] \in Places /\ cause[q] \in Causes
    BY DEF IInv, TypeInv, RequestInv
  <2>2. CASE handling[q] # "done"
    BY <2>1, <2>2 DEF Settled, Places, Unfinished
  <2>3. CASE handling[q] = "done" /\ cause[q] = {"fail"}
    BY <2>1, <2>3 DEF Settled
  <2>4. CASE handling[q] = "done" /\ cause[q] # {"fail"}
    <3>1. result[q] = Classify(cause[q])
      BY <2>1, <2>4 DEF Settled
    <3> QED
      BY <2>1, <2>4, <3>1, ClassifyFacts
  <2> QED
    BY <2>2, <2>3, <2>4
<1> QED
  BY <1>1, Invariance, PTL
=============================================================================
