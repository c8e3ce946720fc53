-------------------------- MODULE PluginLifecycle --------------------------
(***************************************************************************)
(* The plugins of a generation: loading and registration (PluginLoader),   *)
(* ordering (PluginRegistry), and the hooks initialize, collectResources,  *)
(* generate and finalize as runPluginLifecycle of                          *)
(* packages/cli/src/services/internal/pluginLifecycle.ts calls them.       *)
(* Plugins made by defineScopedPlugin hold a Scope from initialize to      *)
(* finalize, in a FiberRef.  Generations run concurrently in one process   *)
(* and share the plugin records; each is a fiber that may be interrupted   *)
(* wherever it is interruptible, and each hook may succeed, fail or die.   *)
(***************************************************************************)
EXTENDS PluginRegistry

CONSTANTS
  Gens,            \* calls of Generator.generate in one process
  Plugins,         \* plugin records
  NameOf,
  Scoped,          \* those made by defineScopedPlugin
  Scenarios,       \* who generates with which plugins: a set of records
  NoPlugin,
  NoScope,
  MaxWrites,       \* bound: files one generate hook writes
  YieldsOnLeaving  \* may the fiber be suspended between the end of the
                   \* scope transaction of initialize and its registration?

ASSUME PluginAssumption ==
  /\ NameOf \in [Plugins -> Names] /\ Scoped \subseteq Plugins
  /\ NoPlugin \notin Plugins /\ NoScope \notin Gens
ASSUME BoundAssumption == MaxWrites \in Nat /\ YieldsOnLeaving \in BOOLEAN
ASSUME ScenarioAssumption ==
  \A s \in Scenarios : s.gens \subseteq Gens /\ s.entries \in Seq(Plugins)
                         /\ s.depends \in [Names -> SUBSET Names]

VARIABLES
  scenario,     \* the generations, their plugin entries, the dependencies
  stage,        \* where each generation is
  step,         \* inside initialize: "open", "build", "hook" or "leave"
  entries,      \* plugin entries still to be loaded
  registered,   \* the registry: a plugin, or NoPlugin, for each name
  order,        \* `initial', the sorted registrations (their names)
  next,         \* index in `order' of the plugin whose turn it is
  initialized,  \* the registrations to finalize, a sequence of names
  runtime,      \* the FiberRefs: whose Scope a scoped plugin's hooks use
  opened,       \* history: Scopes made by each generation for each name
  closed,       \* history: Scopes closed
  finalized,    \* history: the order in which finalize was called
  interrupted,  \* an interruption is pending
  exit,         \* the causes in the Exit so far; none is success
  drawn,        \* history: how the hooks of a generation ended, other than well
  written,      \* files published by each generation
  pending,      \* pendingWriteLogs
  logged        \* files reported as generated

vars == <<scenario, stage, step, entries, registered, order, next, initialized,
          runtime, opened, closed, finalized, interrupted, exit, drawn,
          written, pending, logged>>
registry == <<entries, registered, order>>
files == <<written, pending, logged>>
scopes == <<runtime, opened, closed>>

-----------------------------------------------------------------------------
Ends == {"ok", "fail", "die"}

Init ==
  /\ scenario \in Scenarios
  /\ stage = [g \in Gens |-> IF g \in scenario.gens THEN "load" ELSE "done"]
  /\ step = [g \in Gens |-> "open"]
  /\ entries = [g \in Gens |-> scenario.entries]
  /\ registered = [g \in Gens |-> [n \in Names |-> NoPlugin]]
  /\ order = [g \in Gens |-> << >>]
  /\ next = [g \in Gens |-> 1]
  /\ initialized = [g \in Gens |-> << >>]
  /\ runtime = [g \in Gens |-> [n \in Names |-> NoScope]]
  /\ opened = [g \in Gens |-> [n \in Names |-> 0]]
  /\ closed = [g \in Gens |-> [n \in Names |-> 0]]
  /\ finalized = [g \in Gens |-> << >>]
  /\ interrupted = [g \in Gens |-> FALSE]
  /\ exit = [g \in Gens |-> {}]
  /\ drawn = [g \in Gens |-> {}]
  /\ written = [g \in Gens |-> 0]
  /\ pending = [g \in Gens |-> 0]
  /\ logged = [g \in Gens |-> 0]

-----------------------------------------------------------------------------
(* Control                                                                 *)

At(g, s) == stage[g] = s /\ ~interrupted[g]
Proceed(g, s) == stage' = [stage EXCEPT ![g] = s]
Turn(g) == order[g][next[g]]
InTurn(g, s) == At(g, s) /\ next[g] <= Len(order[g])
AllDone(g, s) == At(g, s) /\ next[g] > Len(order[g])
IsScoped(g, n) == registered[g][n] \in Scoped

\* Mutant: one variable of the plugin instead of a FiberRef
SharedSlot(g) == CHOOSE h \in Gens : TRUE

\* The FiberRef of a scoped plugin has a value of its own in every fiber.
Slot(g) == g
Current(g, n) == runtime[Slot(g)][n]
SetCurrent(g, n, to) == runtime' = [runtime EXCEPT ![Slot(g)][n] = to]

\* The stage fails: onExit runs the finalizers of what is initialized.
FailsWith(g, cause) ==
  /\ exit' = [exit EXCEPT ![g] = @ \cup {cause}]
  /\ Proceed(g, IF stage[g] \in {"load", "sort"} THEN "done" ELSE "finalize")

Draws(g, end) ==
  drawn' = IF end = "ok" THEN drawn
                         ELSE [drawn EXCEPT ![g] = @ \cup {end}]

\* A hook of the plugin in turn has ended, its stage moves on or fails.
HookEnds(g, end) ==
  /\ Draws(g, end)
  /\ IF end = "ok"
       THEN next' = [next EXCEPT ![g] = @ + 1] /\ UNCHANGED <<exit, stage>>
       ELSE FailsWith(g, end) /\ UNCHANGED next

-----------------------------------------------------------------------------
(* PluginLoader.loadAll and PluginRegistry.getAll                          *)

\* The first registration of a name wins.
Wins(g, p) ==
  IF registered[g][NameOf[p]] = NoPlugin THEN p ELSE registered[g][NameOf[p]]

\* A plugin that cannot be loaded ends the generation (PluginLoadError).
LoadNext(g) ==
  /\ At(g, "load") /\ entries[g] # << >>
  /\ LET p == Head(entries[g]) IN
       \/ /\ registered' = [registered EXCEPT ![g][NameOf[p]] = Wins(g, p)]
          /\ entries' = [entries EXCEPT ![g] = Tail(@)]
          /\ UNCHANGED <<stage, exit, drawn>>
       \/ FailsWith(g, "fail") /\ Draws(g, "fail")
          /\ UNCHANGED <<registered, entries>>
  /\ UNCHANGED <<scenario, step, order, next, initialized, scopes, finalized,
                 interrupted, files>>

\* specLoader.load, between loadAll and getAll
LoadSpec(g) ==
  /\ At(g, "load") /\ entries[g] = << >>
  /\ \E end \in Ends :
       /\ Draws(g, end)
       /\ IF end = "ok" THEN Proceed(g, "sort") /\ UNCHANGED exit
                        ELSE FailsWith(g, end)
  /\ UNCHANGED <<scenario, step, registry, next, initialized, scopes,
                 finalized, interrupted, files>>

RegisteredNames(g) == {n \in Names : registered[g][n] # NoPlugin}

GetAll(g) ==
  LET walk == SortRegistrations(RegisteredNames(g), scenario.depends) IN
  /\ At(g, "sort")
  /\ IF walk.issue = NoIssue
       THEN /\ order' = [order EXCEPT ![g] = walk.sorted]
            /\ Proceed(g, "initialize")
            /\ UNCHANGED exit
       ELSE FailsWith(g, "fail") /\ UNCHANGED order
  /\ UNCHANGED <<scenario, step, entries, registered, next, initialized, scopes,
                 finalized, interrupted, drawn, files>>

-----------------------------------------------------------------------------
(* initializePlugin; makeInitialize of a scoped plugin                     *)

Push(g) ==
  /\ initialized' = [initialized EXCEPT ![g] = Append(@, Turn(g))]
  /\ next' = [next EXCEPT ![g] = @ + 1]

InitializePlain(g) ==
  /\ InTurn(g, "initialize") /\ ~IsScoped(g, Turn(g))
  /\ \E end \in Ends :
       /\ Draws(g, end)
       /\ IF end = "ok" THEN Push(g) /\ UNCHANGED <<exit, stage>>
                        ELSE FailsWith(g, end) /\ UNCHANGED <<initialized, next>>
  /\ UNCHANGED <<scenario, step, registry, scopes, finalized, interrupted,
                 files>>

\* A second initialization without a finalization is a defect.
OpenScope(g) ==
  LET n == Turn(g) IN
  /\ InTurn(g, "initialize") /\ IsScoped(g, n) /\ step[g] = "open"
  /\ IF Current(g, n) # NoScope
       THEN FailsWith(g, "die") /\ UNCHANGED <<opened, step>>
       ELSE /\ opened' = [opened EXCEPT ![g][n] = @ + 1]
            /\ step' = [step EXCEPT ![g] = "build"]
            /\ UNCHANGED <<stage, exit>>
  /\ UNCHANGED <<scenario, registry, next, initialized, runtime, closed,
                 finalized, interrupted, drawn, files>>

\* Mutant: a failed initialization leaves its Scope to somebody else.
LeaveProvisional(g) == SetCurrent(g, Turn(g), NoScope) /\ UNCHANGED closed

\* The release of acquireUseRelease after a use that did not succeed
CloseProvisional(g) ==
  /\ closed' = [closed EXCEPT ![g][Turn(g)] = @ + 1]
  /\ SetCurrent(g, Turn(g), NoScope)

\* Layer.buildWithScope, and the FiberRef set to what it built
BuildLayer(g) ==
  /\ InTurn(g, "initialize") /\ step[g] = "build"
  /\ \E end \in Ends :
       /\ Draws(g, end)
       /\ IF end = "ok"
            THEN /\ SetCurrent(g, Turn(g), g)
                 /\ step' = [step EXCEPT ![g] = "hook"]
                 /\ UNCHANGED <<exit, stage, closed>>
            ELSE CloseProvisional(g) /\ FailsWith(g, end) /\ UNCHANGED step
  /\ UNCHANGED <<scenario, registry, next, initialized, opened, finalized,
                 interrupted, files>>

InitializeHook(g) ==
  /\ InTurn(g, "initialize") /\ step[g] = "hook"
  /\ \E end \in Ends :
       /\ Draws(g, end)
       /\ IF end = "ok"
            THEN /\ step' = [step EXCEPT ![g] = "leave"]
                 /\ UNCHANGED <<exit, stage, closed, runtime>>
            ELSE CloseProvisional(g) /\ FailsWith(g, end) /\ UNCHANGED step
  /\ UNCHANGED <<scenario, registry, next, initialized, opened, finalized,
                 interrupted, files>>

\* The registration is pushed inside the uninterruptible mask.
Initialized(g) ==
  /\ InTurn(g, "initialize") /\ step[g] = "leave"
  /\ Push(g)
  /\ step' = [step EXCEPT ![g] = "open"]
  /\ UNCHANGED <<scenario, stage, registry, scopes, finalized, interrupted,
                 exit, drawn, files>>

-----------------------------------------------------------------------------
(* The other hooks                                                         *)

\* makeRuntimeProvider: a scoped plugin without a runtime dies.
HookMayEnd(g, end) == IsScoped(g, Turn(g)) /\ Current(g, Turn(g)) = NoScope
                        => end = "die"

CollectResources(g) ==
  /\ InTurn(g, "collect")
  /\ \E end \in Ends : HookMayEnd(g, end) /\ HookEnds(g, end)
  /\ UNCHANGED <<scenario, step, registry, initialized, scopes, finalized,
                 interrupted, files>>

\* writeFile: publication and recordWrite are one synchronous step.
WriteFile(g) ==
  /\ stage[g] \in {"generate", "index"} /\ ~interrupted[g]
  /\ stage[g] = "generate" => next[g] <= Len(order[g])
  /\ pending[g] < MaxWrites
  /\ written' = [written EXCEPT ![g] = @ + 1]
  /\ pending' = [pending EXCEPT ![g] = @ + 1]
  /\ UNCHANGED <<scenario, stage, step, registry, next, initialized, scopes,
                 finalized, interrupted, exit, drawn, logged>>

\* Mutant: only a hook that succeeds has its files reported.
FlushOnSuccess(g) ==
  IF exit' # exit THEN UNCHANGED <<pending, logged>>
  ELSE /\ logged' = [logged EXCEPT ![g] = @ + pending[g]]
       /\ pending' = [pending EXCEPT ![g] = 0]

\* onExit(flushGeneratedFileLogs)
Flush(g) ==
  /\ logged' = [logged EXCEPT ![g] = @ + pending[g]]
  /\ pending' = [pending EXCEPT ![g] = 0]

Generate(g) ==
  /\ InTurn(g, "generate")
  /\ \E end \in Ends : HookMayEnd(g, end) /\ HookEnds(g, end)
  /\ Flush(g)
  /\ UNCHANGED <<scenario, step, registry, initialized, scopes, finalized,
                 interrupted, written>>

GenerateIndex(g) ==
  /\ At(g, "index")
  /\ \E end \in Ends :
       /\ Draws(g, end)
       /\ IF end = "ok" THEN Proceed(g, "finalize") /\ UNCHANGED exit
                        ELSE FailsWith(g, end)
  /\ Flush(g)
  /\ UNCHANGED <<scenario, step, registry, next, initialized, scopes, finalized,
                 interrupted, written>>

\* The next stage begins with the first plugin again.
NextStage(g) ==
  /\ \E s \in {<<"initialize", "collect">>, <<"collect", "generate">>,
               <<"generate", "index">>} :
       AllDone(g, s[1]) /\ Proceed(g, s[2])
  /\ next' = [next EXCEPT ![g] = 1]
  /\ UNCHANGED <<scenario, step, registry, initialized, scopes, finalized,
                 interrupted, exit, drawn, files>>

-----------------------------------------------------------------------------
(* finalizePlugins, uninterruptible                                        *)

Unfinalized(g) == Len(initialized[g]) - Len(finalized[g])

NextToFinalize(g) == initialized[g][Unfinalized(g)]

\* A typed failure becomes a warning; a defect is kept until all have run.
\* The FiberRef is cleared first and the Scope is closed whatever happens.
FinalizeNext(g) ==
  /\ stage[g] = "finalize" /\ Unfinalized(g) > 0
  /\ LET n == NextToFinalize(g) IN
       /\ finalized' = [finalized EXCEPT ![g] = Append(@, n)]
       /\ IF IsScoped(g, n) /\ Current(g, n) # NoScope
            THEN /\ SetCurrent(g, n, NoScope)
                 /\ closed' = [closed EXCEPT ![Current(g, n)][n] = @ + 1]
            ELSE UNCHANGED <<runtime, closed>>
  /\ \E end \in Ends :
       /\ Draws(g, end)
       /\ exit' = IF end = "die" THEN [exit EXCEPT ![g] = @ \cup {"die"}]
                                 ELSE exit
  /\ UNCHANGED <<scenario, stage, step, registry, next, initialized, opened,
                 interrupted, files>>

\* Mutant: the first defect of a finalizer ends the loop.
FinishOnDefect(g) ==
  /\ stage[g] = "finalize" /\ (Unfinalized(g) = 0 \/ "die" \in exit[g])
  /\ Proceed(g, "done")
  /\ UNCHANGED <<scenario, step, registry, next, initialized, scopes, finalized,
                 interrupted, exit, drawn, files>>

Finish(g) ==
  /\ stage[g] = "finalize" /\ Unfinalized(g) = 0
  /\ Proceed(g, "done")
  /\ UNCHANGED <<scenario, step, registry, next, initialized, scopes, finalized,
                 interrupted, exit, drawn, files>>

-----------------------------------------------------------------------------
(* Interruption                                                            *)

\* A signal reaches the fiber while it is suspended: not on the short
\* synchronous way out of a scope transaction, unless it yields there.
Interrupt(g) ==
  /\ stage[g] \notin {"finalize", "done"} /\ ~interrupted[g]
  /\ step[g] = "leave" => YieldsOnLeaving
  /\ interrupted' = [interrupted EXCEPT ![g] = TRUE]
  /\ UNCHANGED <<scenario, stage, step, registry, next, initialized, scopes,
                 finalized, exit, drawn, files>>

\* An interruptible fiber takes it, inside the transaction or out of it.
TakeInterrupt(g) ==
  /\ interrupted[g] /\ stage[g] \notin {"finalize", "done"}
  /\ FailsWith(g, "interrupt")
  /\ IF stage[g] = "initialize" /\ step[g] \in {"build", "hook"}
       THEN CloseProvisional(g) ELSE UNCHANGED <<closed, runtime>>
  /\ Flush(g)
  /\ UNCHANGED <<scenario, step, registry, next, initialized, opened, finalized,
                 interrupted, drawn, written>>

Next ==
  \E g \in Gens :
    \/ LoadNext(g) \/ LoadSpec(g) \/ GetAll(g)
    \/ InitializePlain(g) \/ OpenScope(g) \/ BuildLayer(g)
    \/ InitializeHook(g) \/ Initialized(g)
    \/ CollectResources(g) \/ WriteFile(g) \/ Generate(g) \/ GenerateIndex(g)
    \/ NextStage(g) \/ FinalizeNext(g) \/ Finish(g)
    \/ Interrupt(g) \/ TakeInterrupt(g)

Spec == Init /\ [][Next]_vars

-----------------------------------------------------------------------------
(* Properties                                                              *)

\* Every Scope a generation opens for a plugin is closed exactly once by the
\* time it ends, however it ends (doc of defineScopedPlugin: "Failed,
\* defective, or interrupted initialization closes its provisional Scope
\* before the failure escapes").
ScopesAreClosed ==
  \A g \in Gens, n \in Names :
    /\ closed[g][n] <= opened[g][n]
    /\ stage[g] = "done" => closed[g][n] = opened[g][n]

\* What was initialized is finalized once and in reverse, whatever finalizers do,
\* and the plugins a plugin depends on are alive whenever one of its hooks runs.
FinalizersMirrorInitialization ==
  \A g \in Gens :
    LET Alive == ToSet(initialized[g]) \ ToSet(finalized[g]) IN
    /\ stage[g] = "done" => finalized[g] = Reverse(initialized[g])
    /\ \A n \in Alive : scenario.depends[n] \subseteq Alive
    /\ stage[g] = "initialize" /\ next[g] <= Len(order[g]) =>
         scenario.depends[Turn(g)] \subseteq Alive

SortsExactly(g) ==
  stage[g] = "sort" /\ stage'[g] # "sort" =>
    IF stage'[g] = "done"
      THEN interrupted[g] \/ ~Sortable(RegisteredNames(g), scenario.depends)
      ELSE /\ order'[g] \in Seq(Names) /\ IsInjective(order'[g])
           /\ ToSet(order'[g]) = RegisteredNames(g)
           /\ DependenciesFirst(order'[g], scenario.depends)

\* getAll fails only if no order exists, a stop apart, and otherwise yields all the
\* registered plugins, each once and after the plugins it depends on.
SortIsExact == [][\A g \in Gens : SortsExactly(g)]_vars

\* Generations that share plugin records do not see one another's services:
\* no defect without a hook of one's own that died.
NoForeignDefect ==
  \A g \in Gens : "die" \in exit[g] => "die" \in drawn[g]

\* When a generation ends, every file it published has been reported, once.
WritesAreReported ==
  \A g \in Gens : stage[g] = "done" => pending[g] = 0 /\ logged[g] = written[g]
=============================================================================
