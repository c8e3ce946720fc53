# Typeweaver: a verification development

Typeweaver generates typed servers, clients, command lines and documents from an
API specification, and ships the runtime that generated code uses.  This directory
holds TLA+ modules for the parts of it that are hard to get right and hard to
test, the TLC configurations that check them, and machine-checked proofs about the
output lock and the output directory, the guard of the clean target, the plugin
registry and lifecycle, `init` and the plugin scaffolder, the server, the routing of
requests, the Effect runtime, and the errors, exit codes and credentials of clients
and commands.  Paths below are relative to `src/packages/`.

## 1. Inventory

Components, their state, and what makes them correct.

| Component | State and operations | What must hold |
|---|---|---|
| Output lock (`cli/src/services/generatorIO.ts`, `internal/generatorPreflight.ts`) | the directory `.typeweaver-lock` with `info.json`, fences of stale locks, a process-wide map of failed releases; acquire, reclaim, release | one workflow at a time; nobody destroys the lock of a live owner; dead owners' locks come free |
| Clean-target guard (`cli/src/services/internal/generatorPreflight.ts`) | the file system with its links, checked before and under the lock | a clean never empties a workspace, the working directory or the specification's |
| Output writes, sweep, clean (`gen/.../pluginContextBuilder.ts`, `pluginContextEffectIO.ts`, `generatorIO.ts`) | the output directory, staging directories with markers, the tracker of generated files | files published whole and tracked; debris marked until its removal; the user's files spared |
| Spec bundling and loading, formatter, index (`SpecBundler.ts`, `SpecLoader.ts`, `Formatter.ts`, `IndexFileGenerator.ts`) | `spec/spec.js`, `spec.d.ts`, every generated file, `index.ts` | the build never outlives the lock; the index lists what exists |
| Plugin registry and lifecycle (`PluginRegistry.ts`, `PluginLoader.ts`, `pluginLifecycle.ts`, `defineScopedPlugin.ts`) | registrations, the finalizer stack, a `FiberRef` with a Scope per scoped plugin | dependencies first; every Scope closed; finalizers mirror initialization, also after failures and interruption |
| Project initialisation, plugin scaffolder (`ProjectInitializer.ts`, `PluginScaffolder.ts`) | target, staging and backup directories | nothing of the user's is lost; failure leaves the target as it was; two commands do not disturb one another |
| Spec normalization, core definitions (`gen/src`, `core/src`) | response objects, security schemes, resources, operations | exactly the contracts generators can serve pass; a credential is asked for where the contract says so |
| Server application (`server/src/lib/TypeweaverApp.ts`, `Middleware.ts`) | per request: pipeline index, `ctx.state`, error in hand | one handler call; no error lost; only declared responses |
| Node adapter (`server/src/lib/NodeAdapter.ts`, `BodyLimit.ts`) | per request: the stream and who listens to it, clean-up after the answer | bodies whole and capped; the answer before the connection is cut |
| Router, path matcher, Hono routes (`Router.ts`, `PathMatcher.ts`, `hono/src`) | a radix tree; an ordered list | the best match; all readers of a path agree |
| Client, generated commands (`clients/src`, `command/src`) | one call: signal, timer, response; exit code | the error names what ended the call; an interrupted command ends |
| Effect handlers (`effect/src/runtime.ts`) | one ManagedRuntime, its requests and disposers | released once, before any disposal returns; defects are not mapped |
| Adapters and validators (`FetchApiAdapter.ts`, `ApiClient.ts`, `types/src`) | one message | what one side lets pass arrives unchanged at the other |
| OpenAPI generation (`openapi/src`) | the registry of components | the document describes the messages |
| Zod conversions, templates, CDK, configuration, doctor, command line, middleware library, test utilities | little or none | — |

Interaction: `Generator.generate` checks the **clean target**, takes the **lock**,
checks again, sweeps and cleans the **output directory**, loads plugins into the
**registry**, bundles and **normalizes** the specification, runs the **lifecycle**
(whose generate hooks write through the context into the directory and its
tracker), writes the index, formats, and releases.  Of one **contract**, the
normalization is read by all generators: the server mounts its routes, the client
and the command line build URLs and credentials for them, the validators of both
sides check the messages, the OpenAPI document describes them.  A server request
passes through the **Node adapter**, which may hand a checked body to the
**application** by way of a `Request` and a `WeakMap`, and whose answer decides what
happens to the rest of the connection.

Hard behaviours: several operating-system processes on one directory; processes
killed between two file-system calls; system errors in the middle of a rollback;
Effect interruption at any suspension, with calls that go on after it; links that
change between a check and its use; plugin records shared by concurrent
generations; user middleware that calls `next` twice, late, or without awaiting;
clients that stall or break off while timers run; aborts, timeouts and SIGINT
against the reading of a response; disposal against running requests; readers of
one contract that each interpret it their own way.  `PROJECT.json` lists each hazard
at its line with the properties that cover it.

## 2. Modules

```
OutputMutex <--implements-- OutputLock <--EXTENDS-- OutputLockProofs (TLAPS)
                                | the mutex is the `lock' of
                            OutputDirectory <-- OutputDirectoryProofs (TLAPS)
PluginRegistry <-- PluginLifecycle <-- PluginLifecycleProofs (TLAPS)
AppPipeline, NodeAdapter <-- Server                          (composition)
                               ^-- ServerProofs (TLAPS)
ProjectInit, PluginScaffold, CleanTarget <-- Workspace       (composition)
                               ^-- WorkspaceProofs (TLAPS)

Router <-- RouteAgreement --------------------.
Router <-- ContractNormalization, ApiClient <-- GeneratedCommand
                     ApiClient <-- ApiClientProofs (TLAPS)    \
SpecNormalization ---------------------------------------------> ContractLife
EffectRuntime ------------------------------------------------/  (composition)
     ^-- EffectRuntimeProofs (TLAPS)                         /  ^-- ContractLifeProofs (TLAPS),
OpenApiDocument <-- MessageExchange ------------------------'       with ApiClientProofs
Collections: arrays, maps, filters and first errors, for PluginRegistry and the contract's modules
MC*  (constants of the TLC runs; MCMessages is a part of MCContractLife)
```

In every module a definition has the name of the function it models where TLA+
allows it, and `PROJECT.json` `map` gives its lines.  Operators whose comment begins
with "Mutant" are not part of the specification: they are plausible
bugs, and substituting one for the definition after it makes the property named
in `PROJECT.json` fail.  No configuration replaces a definition.  All of them turn
deadlock checking off, because all of these systems may stop: a command ends, a
request is answered.

Only type invariants that carry a proof are kept (`TypeOK` of `OutputLock`, and in
the proof modules `TypeInv` or, where a module composes several components,
`AppType`, `AdapterType`, `InitType` and `ScaffoldType`).  Where several statements describe one promise they
are one property with named conjuncts, e.g. `RoutesAreServed` or `WaitsEnd`.

### 2.1 OutputLock and OutputMutex

A step is one file-system call.  Acquisition and release are synchronous
JavaScript, so runs of one process interleave only between them and runs of
different processes at every call.  State: the canonical directory (absent,
unpublished, or the info it holds), the fences, the map
`failedOutputLockReleases` of each process, the program counter and local
variables of each run, which processes are alive.  Abstractions: `startedAt` and
`inputFile` go with the owner token, which is drawn once; writing the candidate of
`info.json` and renaming it is one step with its failure before or after; a
failing release and its being remembered are one step; processes share one host
and one pid namespace; `info.json` without a token (older versions) or unreadable
is not modelled.  The operator (the error message's "remove the stale lock") may
clear a lock that names nobody; with `OperatorRemovesPublished` also one that names
a dead process.

`OutputMutex` is what `withGenerationLock` promises: at most one run inside.
`OutputLock` implements it with `owner` = the run inside (`ImplementsMutex`).

### 2.2 OutputDirectory

Generation runs, each a process of its own, on one directory.  The lock is the
abstract mutex, a dead holder's lock being free.  One step is one file-system call
(a file written in place is two, so it can be torn in between), and a recursive
removal, `rmSync` or `fileSystem.remove`, is as many as there are entries and one for the
directory: the sweep (`SweepBegins`), the clean (`CleanDirectory`) and a replacement
that ends or is cut short (`Unlink`, `Remove`) unlink marker and content in either
order, and may fail or be killed in between.  A replacement goes through the steps marking, writing, written, renamed, cleaning; it is
synchronous (then nothing else of its process moves) or an Effect that a plugin
may interrupt and survive (`GiveUp`); rename and tracking are uninterruptible, and
so is Rolldown's build.  A run may fail or be interrupted (`Stop`) or killed
(`Crash`) anywhere; staging directories of interrupted replacements are removed
before the lock goes (`Release` needs `Quiet`, as Scopes close before
`acquireUseRelease` releases).  A look-alike directory of the user, whose name
`mkdtemp` could have made, and a file of the user are there from the beginning.

So debris without a marker exists: what a removal leaves that was cut short after the
marker.  `DebrisIsExplained` says that nothing else makes any (a directory with content is
marked until a removal of it has begun, which the history field `removal` records), and
that a sweep that succeeds leaves nothing marked.  That debris is what is marked, as the
comment of the sweep has it, is not claimed: it is false (section 5).

Left out: directories, modes, links and path safety; the formatter's skipping of
marked debris and a missing formatter (the same as `format: false`); plugins that
fork a write as a daemon; a write of the operating system that goes on after the
interruption of its fiber.  `Stop` in the phase "sweep" stands for the check of the
clean target as well, which precedes the sweep under the lock.

### 2.3 PluginRegistry and PluginLifecycle

`PluginRegistry` has the depth-first walk of `getAll` as a recursive function over
the walk's record (visiting, visited, sorted, issue).  `PluginLifecycle` has a
generation as a fiber with the stages of `runPluginLifecycle`; hooks succeed, fail
or die; interruption comes at any suspension where the fiber is interruptible;
`defineScopedPlugin`'s Scope, its shared runtime reference and `FiberRef` are
explicit, so two generations that share a plugin record can meet.  A generate hook
publishes files one by one and the log of each is flushed after the hook;
`MaxWrites` = 1 file per hook.  `YieldsOnLeaving` says whether the Effect runtime
may suspend a fiber inside the short synchronous stretch between the end of
`initialize` and its registration (it yields after some thousand operations).

### 2.4 Workspace: ProjectInit, PluginScaffold, CleanTarget

The three commands that work in a user's directories share no state, so a
behaviour of `Workspace` follows one of them.

*ProjectInit.*  One step per call that changes the file system; inspecting the
target and planning is one step (`package.json` is the last file of a plan, and is
left out where there is one), as is staging, which is private.  Death comes anywhere.
Interruption comes at once before `publishProject` (`Interrupt`); while it runs, which is
uninterruptible, the fiber is only told to stop (`InterruptLater` sets `signal`) and
stops at its end, instead of succeeding or failing.  So a rollback that fails under an
interruption does not reach `tapError` (`CannotRestore` sets `preserve` only if nobody has
interrupted), and the release removes the staging directory (`Unlink`, `CleanUp`), one
backup after the other, with the originals that could not be put back.  `Reported` is
what the command line says: an interruption takes the place of the outcome.
`remove` of a directory removes an empty one; a platform that refuses is covered by
the failing undo.  `orDie` on removing the staging directory (`CleanUpDies`) is the
outcome "defect".

`FailureRestores` says that an ordinary failure leaves the target as it was; that after a
failed rollback the backup that is named holds the originals; and that an interrupted
command has published everything or nothing, or failed to roll back.
`OriginalsSurvive` says that an original is in place or in a backup until `--force` has
replaced it, wherever the process fails or dies, with the one exception of a failed
rollback under an interruption (`Abandoned`), of which `UnrestoredAreKept` says what the
README of the command promises and `init_interrupted` shows that it does not hold.

*PluginScaffold.*  A scaffold creates its target exclusively, writes the templates
one by one and removes the target recursively if it fails or is interrupted and
owns it.  A `mkdir` whose fiber was interrupted may still land later; the user may
put files into the new directory; a process may be killed anywhere.  The `open` of an
aborted write that lands later is not modelled: it can make a file only where the
directory still is, or is again.

*CleanTarget.*  A file system is a function from paths to directories, files and
links in which only directories hold entries.  `RealPath` goes a path name by name and,
at a link, on from where its target leads, through at most `MaxLinks` links one after
the other.  `assertSafeCleanTarget` runs before the output is created and again under
the lock; between the two somebody may replace the output with a link; then the clean
empties the directory.  Neither the working directory nor the specification need exist:
`realpath` throws without the one, and there is nothing to spare without the
other (a path through a dangling link may end up inside the output once it is made).  A swap after
the second check is not seen by the code and not modelled.  `clean: false` passes no
input; the second `ensureOutputDirectories` and the lock's own files are left out.

### 2.5 AppPipeline, NodeAdapter, Server

One request, since requests share only the routes.  `AppPipeline` has
`TypeweaverApp.fetch`: reading the body, the middlewares as arbitrary user code,
the handler with its validation, the chain of error handlers and reporting, and
the serialization.  `NodeAdapter` has the request stream, its listener (drain,
collect, sink, clean-up), and the timers, which fire whenever they are armed.  The early
refusal by Content-Length in the fetch path is left out: a body as long as it says is
refused when its bytes are counted.
`Server` joins them: a body checked by the adapter reaches the application with
the limit it was checked against.  The adapter's own `reportError` calls and CORS
are left out; a response is declared or not, an error has a kind, a body a size.

### 2.6 ContractLife

The pieces a contract passes through are parts of different programs, so a
behaviour of `ContractLife` follows one of six chapters.

*Responses* (`SpecNormalization`).  Authors make response objects with
`defineResponse`, `defineDerivedResponse`, by hand, by copying, inside operations;
a specification lists some.  `NormalizationIsExact`: precisely the specifications
whose families are acyclic, complete and uniquely named pass.

*Routes* (`Router`, `RouteAgreement`, `ContractNormalization`).  A contract is
normalized (security schemes and requirements with their inheritance, operations,
duplicate routes) and its routers are mounted in every order, a mount that fails
half-way included.  The tree is a set of named nodes and a table of routes; a
reference definition of the best match is independent of the traversal
(`DispatchIsBest`).  `RoutesAreServed` relates normalization, mounting, the client's
URL, the Hono order and the guards of middleware.

A segment of a path is what the router makes of it: a parameter if it begins with a
colon, whose name is all the rest, or else text.  Normalization and the client look
for `:([A-Za-z0-9_]+)` anywhere, so to them a segment is a sequence of holes and texts
(`PiecesOf`); the constant `Embedding` gives it for those segments, such as
`:id.json`, `:name.:ext` or `todos:archive`, where the two readings differ.  Names may
repeat in a path, as normalization allows.  The properties leave out what does not
hold of such paths (section 5):

- an operation with a parameter inside a segment is not claimed to be reached
  (`~Embeds` in `ClientReachesItsOperation`);
- parameters are claimed to arrive while no path in the tree repeats a name
  (`NamedOnce`), because all levels of the walk write to one object;
- Hono decodes a path before it compares it, the router compares first, so they agree
  only on requests that do not percent-encode a static segment (`SpelledOut`):
  `/todos/%65xport` is `/todos/export` to one and `/todos/:id` to the other.  Nor is Hono
  claimed to agree where a resource has parameters inside a segment.

*Calls* (`ApiClient`).  One call with or without a signal and a timeout, a server
that answers, breaks off or is silent, a fetch that honours its signal or not.

*Commands* (`GeneratedCommand`).  A command line with its arguments, body source,
credentials and call (the actions of `ApiClient`), and SIGINT at any time.

*Handlers* (`EffectRuntime`).  Requests and disposers of one `ManagedRuntime`, which
is external and modelled as the code uses it: it builds the layer for the first
request, interrupts what waits when disposed, and closes its scope once.  The layer's
acquisition can be interrupted and its finalizers end, which `WaitsEnd` rests on.  A
handler that throws before it returns an Effect (`run` rejects without an exit) and an
exit with an empty cause are left out.

*Messages* (`OpenApiDocument`, `MessageExchange`).  A request and its response between
generated client and server: the adapters, the validators of both sides, and the
OpenAPI document.  A body value is a JavaScript kind and the data a message carries
for it, so that a string and an object may look alike on the wire; a header is a
string (the sequence of what stands between its commas, with the blanks before it) or a
list; `Headers` trims and joins them, the validator splits, trims and drops what is
empty.  Client and server serialize by rules of their own (`SerializeRequest`,
`SerializeResponse`): a typed array is sent raw by the one and as JSON by the other.
`MessagesAreReadAsSent`: whatever one side's validator lets pass and the wire can
carry the other side lets pass unchanged.  `Carried` says what that is: no `null` and no
typed array, bytes in responses only, text only under a text type, header
strings without a blank before them, and lists that are not empty, of strings that
are neither empty nor contain a comma nor begin with a blank.  Only a
response that is declared earlier may take it for its own.  `MessagesAreDocumented`:
the OpenAPI document has, at that status, the headers on the wire and a schema that
accepts the body under its media type, whatever responses were merged and whatever
names were taken, unless the author was warned that the media type is ambiguous or
the value is not of its schema's kind; and the references and warnings of merged
headers point to their own schema.  A schema parses what it accepts to itself and
is known by identity; a part has one spelling per header; a `Blob` with a type,
`URLSearchParams`, `FormData`, streams and multipart bodies, and request headers other than
Content-Type, are left out.

## 3. Runs

| Run | What it shows |
|---|---|
| `lock_reclaim` (160,666 states) | three processes, distinct pids, one failing call: exclusion, the lock names its holder, a lock of a live process is cared for and touched by nobody else, refinement of the mutex |
| `lock_operator` (92,150) | a long-lived process that generates again and again, a later process with its pid, a third one, and an operator who removes published locks: remembered releases are really abandoned, a delayed finalizer spares a replacement; and under fairness a dead process's lock does not stay for ever |
| `lock_operator_race` (violation) | a delayed reclaimer moves a replacement's lock after the operator removed the crashed one |
| `workspace_all` (982,341) | one init on every target of three files and three directories; two scaffolds with one target; generation on every file system over two names with up to two links, an output swapped for a link, and the specification anywhere or missing |
| `init_concurrent` (violation) | one init's rollback removes what the other published |
| `init_interrupted` (violation) | an interruption that waits for the publication to end lets the release remove originals that could not be put back |
| `lifecycle_all` (133,507) | all 4096 dependency graphs over three plugins and an absent name; two concurrent generations that share a scoped plugin |
| `lifecycle_yield` (violation) | an interruption in that stretch leaves a Scope open |
| `output_all` (1,016,502) | one run with two writes and two writers, or two competing runs; one failing call; stops and crashes, also inside a removal |
| `server_all` (162,264) | a request through the adapter with bodies up to 3 bytes and limits 0 to 2, or direct with all 162 combinations of error handlers and up to two middlewares |
| `server_unknown` (violation) | a custom handler for unknown errors does not replace the default reporting |
| `contract_life` (130,688) | the six chapters: response families of up to three objects; contracts whose resources share, shadow, duplicate or misname routes, repeat a parameter or have one inside a segment, and every request of up to three segments; every kind of call; command lines over three levels of security; two requests and two disposers; the messages of 67 operations |

The five violations each disagree with a sentence of the documentation or a comment,
quoted in `PROJECT.json` `findings`.

**Bounds.**  Three contenders are the least at which a delayed reclaimer meets a
replacement's lock that another reclaimer made room for; tokens are never drawn
twice, so as many as there are acquisitions of interest suffice: the three of
a dead holder, of a delayed finalizer and of what replaces its lock.  In `lock_operator`,
whose liveness property allows no `SYMMETRY`, the constraint `InTurn` has them drawn in
a fixed order instead: they are only compared for equality, so every behaviour is a
renaming of one that does.  No instance has two
workflows open in one process; the theorems of `OutputLockProofs` cover that.  One failing call
reaches every error path; two in one acquisition can orphan the lock of a live
process (a write that fails after its rename, then a failing rollback), which
`LiveLockIsCaredFor` therefore does not claim.  Three init faults reach a failing
undo of a failing rollback.  Two scaffolds, two templates and one failing call reach
a loser, an owner that fails half-way and a late `mkdir`.  Two links reach a link to a
link; the swap adds a third.  Three plugins have diamonds, cycles and missing names.
Two middlewares have an inner and an outer one.  Three bytes are one more than the
largest limit, and a chunk of two oversteps a limit of 0 or 1 at once.  Three names for
`mkdtemp` leave two writes and one orphan.  Three responses have cycles that skip a
member.  Three segments have a static branch that must be left for the parameter at
the first and at the second.  Two disposers share a promise; two requests meet in one
build of the layer.  Thirteen parts have every pairing of body kind and declared type
that the adapters treat differently, and a part meets itself and three others at one
status.

**Fairness.**  `lock_operator` assumes that a started acquisition or release goes on
(`WF` on its steps: it is straight-line synchronous code), that a workflow ends or
its process dies, and that `generate` is run again now and then
(`StaleLockIsReclaimed` says: if so, a stale lock is replaced).  `server_all` assumes
that armed timers fire, the answer is flushed, and user code settles (`WF` on the
server's own steps), and nothing about the client, who may stall for ever.
`contract_life` (`WaitsEnd`) assumes that timers fire, that a call whose signal is
aborted rejects (where the fetch function honours it), that a command goes on after
its call has ended, and that `ManagedRuntime` finishes what it has started; nothing is
assumed of servers, handlers or users.

## 4. Proofs

Each proof module states an inductive invariant, proves that the initial states
satisfy it and that every action keeps it, and derives the properties of the runs
from it.  TLC checked each invariant before it was proved.  "For every" below means
every value of the constants that satisfies the named `ASSUME`s of the module; what a
theorem needs beyond them is in its `ASSUME` or to the left of its implication.

**`OutputLockProofs`** proves, for every set of processes, runs, pids and tokens and
every number of failing calls, `TypeCorrect`, `Remembering` (`RememberedIsAbandoned`)
and `FinalizerSpares` (the action property `FinalizerSparesReplacement`), and, under
`~OperatorRemovesPublished`, `Exclusion` (`MutualExclusion`), `Naming` (`HolderIsNamed`),
`FencesProtect` (`OthersLeaveClaimAlone`) and `Refinement` (`ImplementsMutex`); the run
`lock_operator_race` shows that these four need the condition.

Exclusion is not inductive.  `IInv` adds what the algorithm rests on: which run
relies on the canonical directory (its claim) and that there is at most one
(`ClaimInv`, `UniqueClaim`); that tokens are drawn once and identify who signed the
lock, a fence, or what a reader has seen (`TokenInv`, `LockSigned`, `FencesSigned`,
`HoldersSigned`); that a holder found dead has no claim and that a fence of its name
stands in the way of whoever would move a later lock under it (`StaleInv`,
`FenceInv`); and that a remembered release names no lock in use (`FailedInv`).  The
proof has one step per action and, below it, one per conjunct the action can disturb;
`Refinement` maps each step to Enter, Leave or a stutter.  `Remembering` and
`FinalizerSpares` hold whatever operators remove, when `IInv` does not: they rest on what
is left of it then (`SparingInv`), that a reclaimer may move another lock than the one it
has read, but onto the fence of a token no run works under.

`LiveLockIsCaredForAlways` (`LiveLockIsCaredFor`) assumes `MaxFaults <= 1` as well: a
second failing call may hit the roll-back of the first, which is best effort and can
leave the lock of a live process with nobody.  It rests on `IInv` and on `OwnLockInv`
(while a process reclaims or releases, no other run of it publishes, so that the only
lock of its own it can meet is the one it has read), on `RollbackInv` (an acquisition
is rolled back only after a failed call: the unpublished directory does not vanish
under its run) and on `DrawnInv` (a process that has not started has drawn no token).

**`OutputDirectoryProofs`** proves, for any number of runs, writers, files, names for
staging directories and failing calls, `WorkIsProtected`, `DebrisIsExplained`,
`IndexIsExact`, `AtomicUnlessFormatted` and the action property
`UsersFilesAreSpared`.  Its invariant distinguishes the run that has the lock
(`Holding`: what may be under way in each phase, `PhaseInv`; which staging directory a
replacement has and how far it is filled, `JobInv`; what the tracker, the index and
the disk know of one another, `IndexInv`) from all others, which rest.  `StagingInv`
strengthens `DebrisIsExplained` by the user's look-alike, which no run ever marks; `RemovingInv`
adds that a sweep never has that look-alike in hand.
The assumption on names says that the bundle, its declaration, the library copy, the
index and the user's file are five different files and none of the plugins'.

**`PluginLifecycleProofs`** proves `WritesAreReported` for any number of generations,
plugins and files, and `Sorting` (the action property `SortIsExact`), `NoForeignDefect`
and `FinalizersMirrorInitialization` besides.  `ScopesAreClosed` needs
`~YieldsOnLeaving`; `lifecycle_yield` shows the failure without it.

`Sorting` is about the depth-first walk, for any finite alphabet of names, any
dependencies and any registrations.  A visit is right (`VisitsRight`) if, from a walk
whose entered names each wait for another entered one or for the one now visited
(`AllWait`), and with a depth left for every name not yet entered, it ends either
with a failure and nothing sortable, or with the same names entered and the name
emitted after all it depends on (`InProgress`).  A name met again while it is entered
then makes the entered names a set without an order.  `VisitPluginRight` carries this
from one depth to the next, through the loop over the dependencies (`EachHolds`), and
`SortRight` through the loop over the registrations.

The invariant of the lifecycle says that what is initialized is a beginning of the
order and what is finalized the end of it, backwards (`SequenceInv`), that a plugin's
Scope is open exactly while it is current or being built (`ScopeInv`), and where a
defect may come from (`DefectInv`).

**`WorkspaceProofs`**: `ScaffoldIsExclusiveAlways` holds for any number of scaffolds,
templates and failing calls on one target.  It rests on `PlaceInv` (what is in the
target is its maker's or its user's) and on `Holds`: who made the target and has
not ended badly is its owner, though a `mkdir` of an interrupted scaffold may land
after the directory has been taken by another one.

`OriginalsSurviveAlways` and `FailureRestoresAlways` hold for any plan, directory
structure and number of failing calls, and for a death at any point, if `Inits = {one}`:
of two that are forced on one target at the same time, one may rename its file over an
original that the other has just put back.  (`init_concurrent` shows another
disagreement of concurrent inits.)
`UnforcedOriginalsSurviveAlways` has no such condition: as long as nobody says
`--force`, any number of inits loses nothing, because a file of the user's keeps all of
them out.  `ProjectIInv` says of each file whether it is committed, planned or
displaced and where its original is meanwhile (`CommitInv`, `FileInv`, `TurnInv`); that
nothing is planned or committed twice (`PlanInv`); that exactly the directories to
be removed were made (`DirsInv`); and what a reported outcome says about all of these
(`OutcomeInv`).

`CleanSpares` (`CleanSparesTheWorkspace`) holds on every file system, with any number
of links, and wherever the working directory, the output and the specification are.
That the clean empties the very directory that was found safe under the lock is not
enough: the clean spares what is *named* by other paths, and between the check and
the clean directories are made.  So the proof has a theory of paths: what a path leads to
is decided name by name (`PathInduction`, by well-foundedness of the numbers); where it
leads is a place that leads to itself; a canonical path is a place with names that do
not exist appended; and once the directories on the way to the output are made, a
path leads where it led before or into one of those new, empty directories
(`PathsGrow`).  Hence a target found safe stays safe (`SafeStays`), if there is a
specification at all, and emptying it removes nothing from the way to whatever is not
below it (`SafeSpares`, `ApartIsSafe`).  The invariant `CleanInv` says of the stages what
has been found safe in which file system.

**`ServerProofs`** proves, for any number of middlewares, limits, body sizes and every
choice of error handlers, `HandlerRunsOnce`, `StateFlowsDown`, `OnlyDeclaredResponses`,
`ErrorsAreAccountedFor`, `BodiesAreWholeAndCapped` and `AnswerPrecedesDestruction`.  The
invariant has the onion (`OnionInv`: all middlewares that have started, except the
innermost, have called `next`), the settling of promises (`PromiseInv`), the error
in hand (`HandlerInv`, `ErrorInv`), who listens to the stream at each phase and what it
has counted (`ReaderInv`, `CollectedInv`), and, for the composition, what the
application is entered with (`EntryInv`).  `ErrorsAreAccountedFor` speaks of the
outermost component that carries an error, which exists by well-foundedness of the
order of the middlewares.  A first version of `ReaderInv` was true of all reachable
states and not inductive: TLC agreed with it and the proof did not.

**`EffectRuntimeProofs`** proves, for every set of requests and disposers, `Shutdown`
(`ShutdownWaitsForRelease`) and `Mapping` (`MapperSeesOnlyFailures`).  The invariant adds
to the types that the scope is closing or closed exactly when somebody has disposed
(`DisposalInv`), what the history of acquisitions and releases says about the layer
(`LayerInv`: acquired at most once, released only in a closed scope), and where a
request may be with which cause (`RequestInv`).

**`ApiClientProofs`** proves `Attribution` (`ErrorNamesItsCause`) for every call, code,
abort reason and answer.  The invariant adds that the signal of a request is aborted
by nobody but the timer and the caller, and by the caller at once (`SignalInv`).  It
rests on `CallsAssumption`, `CodesAssumption` (no network error code is called ABORT or
TIMEOUT), `ReasonsAssumption` and `AnswersAssumption`; a custom `fetchFn` that throws an
`AbortError` of its own accord is outside them.

**`ContractLifeProofs`** (which extends `ApiClientProofs`) proves, for any contracts,
requests, invocations, credentials and answers:

- `BestDispatch` (`DispatchIsBest`): the router's answer is the best match among the
  routes mounted.  The tree is related to the routes that made it: every route is at the
  end of its path's nodes, every node belongs to a route, and the parameter of a node
  is the first one registered (`AddFacts`, `AddAllFacts`).  The walk (`WalkRight`) is
  right from the leaves upwards: what is found below a node is the best of the routes
  that pass through it, which by the order of the branches tried makes the best of all.
  `RoutesInv` ties the router in hand to a beginning of the mounting order, the failed
  mount half-way included.
- `RoutesServed` (`RoutesAreServed`): a normalized contract mounts in any order unless it
  names a parameter in two ways, the client's URL reaches the client's operation, and
  Hono and the guards of middleware agree with the router, within what 2.6 says
  the properties leave out.  A URL fills the holes of the path, one to a segment
  (`FillFacts`, `UrlFacts`).  Two routes of a contract differ (`RoutesApart`), so of two that match a request the one with the
  first more special segment is best (`FirstDifference`).
- `ExactNormalization` (`NormalizationIsExact`): responses are accepted exactly when
  names are unique and every derived response continues the lineage of a canonical one.
  Of linked responses the depth is the length of the lineage, there is a response at
  every depth up to it (`Layers`), no chain is longer than the list (`LayersFit`), and
  after n turns the walk stands n layers up (`StandsHigher`), so no check fails.
  Conversely a walk without an error repeats no name and so ends at a root
  (`FreeWalk`), and the walk of a derived response is that of its parent one turn ahead
  (`WalksTogether`), so its lineage is its parent's and its own name (`CleanLinks`).
  `AuthoringInv` ties the verdict to the objects listed.
- `ExitCodes` (`ExitCodeTellsTheOutcome`) and `CommandAttribution` (`ErrorNamesItsCause`
  in whole commands), from `CommandInv` and the invariant of `ApiClientProofs`.
- `CredentialsAsAsked` (`CredentialsMeetTheContract`): what a command sends are the
  credentials of one of the alternatives its operation's requirement, inherited or
  overridden, allows, and of no other, wherever tokens are given, split and merged.
- `MessageFidelity` (`MessagesAreReadAsSent`), for any schemas, media types, headers and
  responses of a status: a body's kind is told again from its content type, a joined list
  is split into what it was joined from (`Joined`, `HeaderReads`), and since the entry the
  server chose fits what the client sees, the client chooses it or an earlier one
  (`AnswerReads`, `EntryIs`).
- `MessageDocumentation` (`MessagesAreDocumented`), for any contract: whatever gets a
  component is registered (`AllRegister`); fewer names are taken than there are suffixes,
  so the next name is new (`NextIsNew`, by the pigeonhole principle) and a component's
  name stands for one schema (`NewNames`, `ComponentIs`); where the author was not warned
  the media type documented is the one on the wire (`TypeIsDocumented`); every header
  of every response appears in the merged one with its schema (`AppearancesAre`,
  `DistinctAre`), so what is on the wire is accepted and what is missing is not required
  (`HeadersAreDocumented`), and pointers stay with their schema (`HeaderPoints`).

  Both rest on `ExchangeInv`: what has been sent is what the types allow, validated, and
  the wire is its serialization, until the exchange ends.  The invariant is needed because
  the properties compare what arrives with what was sent two steps ago, and hold only
  of messages that one validator has already let pass.

Assumed are what the parts of the model are made of: `RoutersAssumption` (segments of
known kinds, none of them empty), `RequestsAssumption`,
`EscapedAssumption` (escaping and decoding a segment are inverse), `ContractsAssumption`,
`InvocationsAssumption` and `HandwrittenAssumption` (a handwritten lineage is an array and
undefined is no name).  Of messages: `SchemasAssumption`, `OperationsAssumption` (a part
has one spelling per header, statuses are not 0), `SuffixesAssumption` (different numbers
make different names), `BodiesAssumption` (JSON texts are not empty; a wrapper of a schema
accepts no more than the schema itself and nothing, so what a `catch` puts in
place of a value must be valid), `HeadersAssumption` (as `HttpHeader.ts` has it, a
header's schema is of strings or of arrays of strings), `BlanksAssumption` (trimming twice
is trimming once, and undoes the blank that joining adds) and `MediaTypesAssumption` (what
the server reads as JSON or text the client does; the types the adapters add are known).

Failing proofs found definitions that TLC could not tell were wrong: `ParseToken`,
`ParseResponseBody` and `ParseRequestBody` had arms of a CASE that overlap, of which TLC
takes the first and TLA+ any; `Carried` let a string travel under a type that only the
client takes for JSON (`application/json-seq`); and `CredentialsMeetTheContract` said of a
request that no command had made what holds only of commands.

**Only model-checked** is liveness (`StaleLockIsReclaimed`, `SlowClientsAreBounded`,
`WaitsEnd`), which is out of the prover's reach.  Every invariant and action property of
a passing run is the statement of a theorem, under the conditions given above.

## 5. Disagreements that no run shows

Met while modelling; each is a sentence of the documentation or a comment against the
code, or a surprise that the models carry faithfully.

- A derived response whose parent no operation uses is rejected
  (`MissingDerivedResponseParentError`); ADR 0001's example uses it so, MIGRATION.md
  documents the rejection.
- `command/README.md` says exit code 4 for statuses from 400; an undeclared response
  ends with 6, and so does a network that breaks while the body is read (not 5).
- A cookie credential is dropped silently when the operation has a Cookie header
  input of its own and it is given; flags of two security schemes that collide are
  not refused.
- A segment of a path may have parameters inside, as a test of the OpenAPI generator has
  it (`buildOpenApiDocument.test.ts:357`, `/files/:name.:ext`): normalization, the client
  and the document find `name` and `ext`, the router takes the segment for one
  parameter called `name.:ext`, and `todos:archive` for text (`Router.ts:158`).  So
  the server's validator misses the parameters, or the request ends elsewhere.
- `pathParametersMatch` (`normalizeSpec.ts:108`) counts occurrences, so `/:id/items/:id` is
  accepted with the request parameters `id` and `foo`, which no call can satisfy;
  MIGRATION.md:999 has that as `PathParameterMismatchError`.  With `id` alone, which
  would be right, it is refused.
- A removal of a staging directory that is killed or fails after the marker leaves content
  without one; `generatorIO.ts:691` takes what has no marker for the user's, and no later
  sweep removes it.
- An interrupted `init` may have published everything: the interruption waits for the
  publication to end and then takes the place of its success.
- A contract that names one path parameter in two ways passes normalization and fails
  at mount; a contract's own HEAD operation is served by the generated server and
  skipped by the Hono generator.
- `dispose` of the Effect runtime does not wait for running handlers.
- The comment at `generatorPreflight.ts:66` says that a swapped target cannot redirect
  the mutation; a swap after the second check can.  A failing scaffold removes
  files its user has put into the new target meanwhile.
- A merged header keeps a reference to itself that belongs to another spelling of its
  name (`responseHeaderMerge.ts`, `mergedHeaderSchema`), though warnings are rebased.
- What `Carried` excludes does not arrive as it was sent: a string under a JSON type is
  sent unquoted; empty strings and `null` arrive as nothing; the server sends a typed array
  as the JSON of its indices; the client takes every type that contains `text/` for text;
  blanks before a header's value are gone; the server decodes binary
  request bodies as text; a list header with commas in its strings arrives split, an
  empty one not at all; the Node adapter refuses an absent body under a declared JSON
  type; an optional `text/plain` literal that is left out becomes
  `text/plain;charset=UTF-8` and is refused; a type such as `application/json-seq` is
  parsed as JSON by the client and raw to everybody else.
- The validator takes the first entry of a status that accepts a response, whatever
  type the handler named, so a looser earlier response strips data of a later one.

## 6. Not modelled

`PROJECT.json` `components` gives the reason for each.  Zod conversions, type
generators, templates and CDK turn data into text; the doctor, `validate`, the loading
of configuration and the command line keep no state.  Of modelled components:
tags, metadata and checks of schemas (normalization), help text and output
(commands), base URLs (client), the error handling of `TypeweaverHono` (a smaller
variant of `AppPipeline`'s), the built-in middleware (`AppPipeline` has middleware as
arbitrary user code), OpenAPI's parameters, security, paths and schema conversion,
`Blob`, form and multipart bodies.

## 7. State of the development

Everything in section 2 is modelled and checked, and section 4 lists what is proved of it:
every invariant and action property of a passing run.  Not begun, in the order in which
they would be worth having: parameters and security of the OpenAPI document, the
serialization of queries and path parameters in messages, a late `open` in the
scaffold, the traversal of cyclic schemas in the Zod conversions.
