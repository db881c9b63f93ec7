# A TLA+ model of nestjs-commons

This directory holds TLA+ specifications of the packages of `nestjs-commons` that
have behaviour worth a model: `healthz`, `toolkit`'s `withRetry`, `flydrive`,
`hatchet`, `configx` and `exceptions`. TLC checks them on small instances; TLAPS
proves every invariant, both refinements and the action properties for every value of
the constants. `PROJECT.json` lists components, runs, the source lines
each definition models, hazards and theorems.

The packages are libraries of a single-threaded runtime. Two things interleave in
them: the synchronous stretches between `await`s of concurrent requests, calls and
tasks, and the outside world (subsystems, the Hatchet server, other deployments, the
Nest container, tests, user callbacks). So **one action is one synchronous stretch**,
with every state change it makes, and the outside world is a set of actions of its
own, marked external.

## The system

| component | state it keeps | operations | hard behaviour | modelled by |
|---|---|---|---|---|
| healthz: controller, service, cache, runner | one cache entry per attestor *name* | `GET /readyz`, `/healthz` (`respond` → `runAll` → `runOne` → `execute`) | overlapping requests, cache read before an `await` and written after it, timeout race, failures of several attestors | `Healthz` |
| healthz: explorer, module | a list filled at bootstrap | discovery, duplicate warning | providers that are no attestors, duplicate names | `Healthz` (`Attestors`, `DuplicateNames`) |
| toolkit: `withRetry` | the loop variable, a timer, a listener on a shared `AbortSignal` | call, abort | abort between any two steps and out of a callback, listener leaks, delay bounds | `WithRetry` |
| flydrive: module, registry, disks, tester, `DefaultDisk` | a `SwappableDisk` per reference | `forRoot`, `forRootAsync`, provider creation, `onModuleInit`, `fake`, `restore`, a call through an injected disk | lazy creation by whoever comes first, consumers that keep what they were injected with, or a method of it | `Flydrive`, `DiskContract` |
| configx | one instance of the class per module that provides it | construction, `resolveConfig` | copies made at different moments from an environment that changes; failure of the startup | `Configx`, `Application` |
| hatchet: module, client factory | the registered config and features | `forRoot`, `forRootAsync`, `forFeature` | an async factory that waits for other providers; a startup that fails half-way | `WorkerBootstrap`, `Application` |
| hatchet: worker bootstrap | none (a boot sequence) | `onApplicationBootstrap`, `initWorker`, `buildDeclarations`, `detectOrphanWorkflows` | hosts of several features, one by one at the server; fire-and-forget paging over a list that changes | `WorkerBootstrap` |
| hatchet: decorators, accessor, references, declarations | metadata of a class and the memo of its methods; the SDK declarations | decorators, `taskRef`, `createDeclaration`, `ctx.parent` | what compiles against what boots; a memo filled too early; dependency graph: cycles, unknown parents, order of declaration | `HostDeclaration` |
| hatchet: task execution, events, exceptions | none across runs | `fn` of a declaration, `emit`, `isCtx`, `cast`, `isEvent`, `normalizeIssues` | forwarded inputs that carry a marker, validation by inferred trigger, interceptors that misuse `next`, strict and asynchronous schemas | `TaskExecution` |
| hatchet: host runs | promises of a call | `client.run`, `ctx.run` | fan-out, partial failure, arrival order, nested runs | `HostRun` |
| exceptions: filter, application exceptions | the cached GraphQLError constructor | construct, `catch` | status and headers of several errors, merged by insertion order | `ExceptionFilter` |
| exceptions: entity-focused exceptions | the global display names | `configureEntityNameRenderer`, `resetEntityNameRenderer`, construct | a table reconfigured between the construction of an exception and its reply | `ExceptionFilter` |
| toolkit: string, uuid, equality, assert helpers; documentation site and examples | none | pure functions | (none a model checker reaches) | not modelled |

How they interact: within `hatchet`, `WorkerBootstrap` builds the declarations of
`HostDeclaration`, whose `fn` is `TaskExecution`, whose method calls `HostRun`. The
packages do not call each other, but an application puts them together: like
`examples/hatchet-integration`, `Application` composes `Configx` with
`WorkerBootstrap`, the config of the one being made from an instance of the other.

## Modules

### `HealthContract`, `Healthz`, `HealthzProperties`, `HealthzProofs`

`HealthContract` is the abstract promise: a request gets one verdict per attestor,
which is the last completed check's outcome while that is younger than
`minIntervalMs` and otherwise that of a check of its own, and is answered with the
status its verdicts call for. It knows no cache, no timer and no race.

`Healthz` is the code. `Attestors` is what the explorer keeps of the `Providers` at
bootstrap, `DuplicateNames` what it warns of; the proofs assume `UniqueNames` where they
need it. `RunAll` is the request handler up to its first `await`: all
cache lookups (`get` evicts what has expired) and all `check()` calls, a synchronous
throw included. `CheckSettles` and `TimerFires` are the two sides of the
`Promise.race` in `withTimeout`, `Resume` is `runOne` after its `await` (the cache
write), `Respond` is what follows `Promise.all`. `entries` is
`AttestorCache.entries`, `timer` and `result` the race, `verdict` what `runOne`
returned. `last` is a history variable: each attestor's last completed check, which
the properties and the contract speak of. The clock is `Date.now()`; it and the
timers share `now`. A continuation (`Resume`) may be delayed past a clock tick: a
busy event loop does that.

| property | why it could fail |
|---|---|
| `CacheHoldsLastCheck` | requests delete, write and overwrite entries around each other's awaits |
| `ReuseExactlyWhileYoung` | the boundary of the expiry; an outcome reused too long or not at all |
| `OwnVerdict` | a request reporting what another attestor, or an older check, said |
| `RefinesContract` | anything of the above, and a wrong aggregate status |
| `EveryRequestAnswered` | a check that never settles |
| `RateCapped` (violated) | the docs promise a cap on the *call rate*; overlapping requests all miss the cache |
| `UncappedAlwaysChecked` (violated) | two attestors of one name share an entry |

### `WithRetry`, `WithRetryProofs`

Calls of `withRetry` that share one `AbortSignal`. `Attempt` is the loop's next turn
(`throwIfAborted`, then `fn()`); what follows a rejection of `fn` is one of
`GiveUpAborted`, `GiveUpFailed` and `ShouldRetry`, which accepts the error, refuses it
or throws; after it, `OnRetry` tells the callback, computes the delay and enters
`sleep`. The last two are one synchronous stretch: `Undisturbed` keeps every other step
from coming between them. They are told apart because either callback may abort the
signal, its own call's or others', and the code does not look at it in between.
`TimerFires`, `Wake` and `Interrupt` are the ends of `sleep`; the abort may come
between the timer's callback and the continuation. `Delays` is the
set of delays the formula can give: exponential base, jitter, `Math.round`, clamp, in
percent instead of `Math.random()`. `calls` and `notified` are history.

Properties: `DelayBounded`, `AtMostRetriesPlusOne`, `OnRetryAnnouncesEachRetry` (each
retry announced, with its number, before it is made; at most one announced and not
made, in a call that ends with the signal's reason or a callback's exception),
`NoAttemptAfterAbort`, `NoListenerLeak`, `CallsSettle`. After an abort `fn` is not
called again, but `onRetry` may be told of one more retry: the comment at
`retry.ts:148-149`, "instead of firing onRetry for a retry that cannot happen", is true
of an abort while `fn` runs, not of one out of `shouldRetry`. The property says so.

### `DiskContract`, `Flydrive`, `FlydriveProofs`

`DiskContract` is what the package promises of its disks: a driver per disk, built at
most once; a call through an injected disk reaches the driver the disk has at that
moment; a method taken from a disk keeps to the driver it was taken with. It knows no
registry, no proxy and no life cycle.

In `Flydrive`, `ForRoot` and `ForRootAsync` validate a registration
(`internal/validation.ts`), `UserFactoryReturns` and `UserFactoryRejects` are the
asynchronous configuration. Nest creates the providers in any order (`Instantiate`,
`DefaultDiskAlias`), then calls `OnModuleInit`; these, like `Fake` and `Restore`, go
through `DiskRegistry.ensure`, which builds a `SwappableDisk` on first use
(`EnsureThrows` where it has no entry for it). A disk object is named by its number
among those made for its reference, each by one call of the driver factory, so that
"one object" and "called once" can be said; a driver is named by its entry.
`Overridden` references have their provider replaced by a test. `Take` is `const { put
} = disk`.

Properties: `RunningHasEveryDisk`; `ConsumersFollowTester` (what a consumer's proxy
reaches is what the tester last installed, whoever came first, and `DefaultDisk` is
the default reference's disk); `RefinesDisks`, the contract. `OneDriverPerRef` is
violated: entries are compared as sets.

### `WorkerBootstrap`, `Configx`, `Application`, `ApplicationProofs`

`WorkerBootstrap` is the boot of an application with or without a worker, over the
hosts of every `forFeature()` call (`AllHosts`). `Configure` is `forRoot`, or the
factory of `forRootAsync`; `StartupFails` what else may end the startup.
`RegisterWorker` and `DeclarationThrows` are `initWorker` up to its `await`;
`DeclarationRegistered` is one registration at the server, so that a refusal
(`WorkerRefused`) may leave some of them there. `client.worker()` is awaited,
`worker.start()` is not, and the detection is neither awaited nor allowed to fail.
`PageArrives` is one turn of `fetchAllServerWorkflows`; `RemoteRegisters` and
`RemoteDeletes` change the server's list in between (external). The server lists the
newest first; that choice is the model's, since nothing in the code depends on the
order. `serves` is the host whose declaration the server has last seen under a name.

`Configx` is a class made by `configx(schema)`: each module that provides it
constructs a copy (`Construct`, `ConstructorThrows`), and `process.env` may change
between two copies and afterwards (`SetEnv`). Schemas are external: they refuse
fields, or an environment as a whole, or validate asynchronously, which is an error
whatever the promise resolves to. `Application` lets both move side by side, joined in
`ForRootAsync` (the worker's config is read from `HatchetModule`'s own copy) and in
`ProviderThrows` (a constructor that throws ends the startup); the hooks wait for all
providers.

| property | why it could fail |
|---|---|
| `RegisteredHostsServed` | a feature overlooked; one host, two features; two hosts of one name: the last one wins, on the whole list |
| `DetectionFollowsRegistration` | detection started before the last declaration is registered warns of the application's own workflows |
| `WarningsJustified` | a name reported that is local, or was never on the server |
| `NoOrphanOverlooked` | off by one at a page's edge or at `MaxPages`; a foreign name dropped, added or out of order among the warnings; a page that other deployments' registrations have shifted under the reader |
| `ConfigFailsFast` | a hook run on a refused copy, a config from another copy, an error that names other variables |
| `FetchesAllWorkflows` (violated) | a deletion between two pages |

### `HostDeclaration`, `HostDeclarationProofs`

`createDeclaration`, for every host class of a few methods: how each is decorated, what
type its first parameter has, how many parameters there are, which parents it names,
whether it is public, and which methods are inherited. `RefCompiles` and `ParentsCompile` are what the
mapped types of `references/shared.ts` let the compiler accept: `keyof` sees the public
members, inherited ones included. The boot goes by the decorators, on private methods
too. `Accessed` is the accessor's memo: `TaskRef` in the class's own static
initializer fills it before `Define` has decorated anything. `CreateTaskWorkflow`,
`CreateWorkflow` and their refusals are the synchronous checks; the loop over the
topological order (`DeclareTask`, `RefuseParent`) is shown turn by turn because each
turn may throw. The graph library's `topologicalSort` is external: any topological
order, none if there is a cycle. `Start`, `Finish` and `Parent` are one run of the
declared workflow on the server (external) and the reads of `ctx.parent()`, so that a
dropped or a circular dependency has a consequence.

Properties: `DeclaredExactlyIfSound` (declared if and only if the author wrote a sound
host, "sound" being said with a ranking instead of a sort), `CompiledHostsDeclared`
(for hosts whose signatures and decorators agree: what compiles also boots unless the
parents form a cycle or a TaskHost has a private task, and what boots compiles unless a
task is private), `ParentsSucceedFirst` (also of what `ctx.parent()` gives),
`DeclaredWorkflowsFinish`. The second half of the first and all of the second are said
of hosts whose memo is complete: a reference taken by a static initializer is modelled,
and it does make a sound host fail, but that is no property.

### `TaskExecution`, `TaskExecutionProofs`

From the trigger to the method. `Emit` (`client.emit`: one or several payloads, each
marked), `Push` (a foreign event, unmarked), `Run` (a direct run, whose input may be
another run's, marker included) and `Cron` start runs. The sender's
`additionalMetadata` travel with the run beside the keys the server adds, and may be
another run's, the server's keys included (`UserKeys`). `PreProcess`, `Accept`,
`Reject` and `SchemaThrows` are `preProcessContext`. A schema (external) answers with a
`Verdict`: a value, which may be undefined and may have issues beside it, or issues
alone; like the code, `Accept` asks for the value and `Reject` for its absence.
`CallNext` and `Return` are the chain built by `executeWithInterceptors`. What
interceptors do is theirs: `next` may be called never, once or again, awaited or not,
and even after the run has settled; `called` lists what has been called, in order. A payload is a model value; an input
is a payload, its marker and whether a schema has transformed it. `NormalizeIssues`
flattens the paths of validation issues, whose keys are sequences of words so that a
key may contain a dot. `Cast`, `IsCtx` and `IsEvent` are the guards; a strict schema
refuses the marker, an asynchronous one is not supported.

Properties: `NothingRunsUnvalidated` (`isRun()` is true of exactly the direct runs whose
sender set none of the server's keys, and the code of these sees what the host's schema
answered, however late it runs); `IssuesLocateFields` (issues of different fields keep
different paths, unless a key is spelled like a path); `EmittedEventsRecognised`.
`Misled` names the runs in which the sender's metadata fool the detection, which the
code calls best-effort; the last property leaves them out. That every interceptor
stands before the method is how closures are built, and no property.

### `HostRun`, `HostRunProofs`

`client.run` and `ctx.run` over several inputs: requests go out together, runs are
accepted, refused and end in any order (external), and the microtasks that see it
(`Fulfil`, `Reject`) come later and in any order. A run's method may call `ctx.run`
itself (`Caller`) and wait for it or not: a run ends when its method does, so what a
nested call comes to is the method's business and no promise of this code. A single
input behaves like an array of one. Properties: `ResultsMatchInputs`,
`FailuresReported` (of the call's own runs), `CallsSettle`.

### `ExceptionFilter`, `ExceptionFilterProofs`

What an application throws and `GenericExceptionFilter.catch` makes of it, one request
after the other. `Configure` replaces the global display names
(`configureEntityNameRenderer` and its reset) at any time. `Create` constructs an
`AppException`; `CreateAboutEntity` one of the two about an entity, whose message is
rendered there and then. `ThrowAppException` throws one of them, `ThrowMultiAppException`
all of them in a `MultiAppException`; `ThrowHttpException` and `ThrowOther` stand for
what else a handler may throw.

`Convert` makes the intermediate errors, `StatusCode` is `resolveStatusCodeForHttp`,
`AggregatedHeaders` is `Object.assign` over a record whose keys keep the place of their
first insertion, and `SetHeaders` is `response.setHeader`, which ignores the case of
names. The values of an error's headers are told apart by the error's position.
`Resolved` is the cached `require("graphql")`, and `Told` what a reply says of each
error. A detail is the display name rendered into it, or `Text`.

Properties: `StatusReflectsErrors`; `LaterErrorsWin` (of one spelling the last error's
value; with two spellings, the one whose *first* occurrence is the later is set last,
with its own last value); `RepliesComplete` (every error is told, in order, with the
detail it had when it was created; a GraphQL client without the package is told the
first detail only).

## Runs

| run | instance and bounds | distinct states | result |
|---|---|---|---|
| `healthz` | 2 requests, a capped critical attestor (interval 2, timeout 1) and an uncapped non-critical one with the default timeout 2; arrivals up to 2, clock to 4; four more providers, each failing one condition of the explorer | 134,947 | holds |
| `healthz_rate_cap`, `healthz_shared_name` | 2 requests | | violated, see *Divergences* |
| `with_retry` | 4 calls: `retries` 2, 1 and invalid on the signal, 1 without it; delays 2·2ⁿ ± 25 % up to 3 | 59,528 | holds |
| `flydrive` | 3 disks, one overridden, lists of up to 3 entries, 2 fakes, as drivers or factories; symmetric in the fakes and in the disks without an override | 105,707 | holds |
| `flydrive_drivers` | the same | | violated |
| `worker_bootstrap` | 4 workflows, pages of 2, at most 2 pages, 3 remote changes; 4 applications (no feature; a host in two features and an empty feature; two hosts of one name; an unsound host); 2 copies of a class with a required and a defaulted variable, every initial environment of interest, 1 change of it | 1,648,068 | holds |
| `worker_bootstrap_shift` | the same with 3 pages, 2 remote changes and a fixed environment | | violated |
| `host_declaration` | 3 methods, one unknown or inherited parent, one method whose signature may disagree with its decorator, one that may be private: every graph of three tasks | 189,006 | holds |
| `task_execution` | 2 runs (symmetric), 4 event definitions of 2 names, one strict and one asynchronous, 2 payloads, 2 interceptors, 3 calls in all; a schema that answers a value, a value with issues, one of 3 lists of issues, or undefined; either of the server's keys among the sender's metadata | 218,845 | holds |
| `exception_filter` | up to 3 errors of three application classes (409, 503, no status) with up to 2 headers, one name in 2 spellings, and of the two entity exceptions, one entity, one display name | 319,176 | holds |
| `host_run` | a call over at most 2 inputs, whose second run calls over at most 2 more | 16,394 | holds |

Why these are enough. Two requests are all the cache's races take: one writes while
the other stands between its lookup and its own write (with three requests, the clock
stopped at 3, TLC finds nothing new, and the safety properties are proved for any
number). The clock reaches past every interval and timeout after the last arrival.
With `retries` 2 a call has a first, a middle and a last attempt, the base exceeds
`maxDelayMs` at the last and jitter pushes a delay above the clamp. Three disks give a
default, another and an overridden one; three entries leave room for a duplicate, a
missing and an extra one. Lists of zero to four names end inside a page, on its edge
and on that of the last page; two copies of the config can be made before and after
the one change of the environment. Three methods have every kind of graph that
matters: chains, forks, joins, cycles of length one to three. Three calls through two
interceptors are one full chain, or a `next()` called twice or late. Two runs per call suffice
for arrival order and for a failure after a failure. Three errors can disagree in
every way that the counting and the merging tell apart.

`MaxCalls`, `MaxChanges`, `MaxSets`, `LastArrival`, `Horizon`, `MaxEntries`,
`MaxInputs`, `MaxErrors`, `MaxHeaders`, `UserKeys`, `Mistyped` and `Hidden` bound the models
and correspond to nothing in the code; `MaxPages`, like `PageSize`, is a constant of
the code made small. `CHECK_DEADLOCK FALSE` is set everywhere because every model may
come to rest: all requests answered, all calls settled, all changes used up.

Each component has one type invariant, proved as `TypeCorrect`, except `Configx`, of
whose state `ConfigFailsFast` speaks. Those of `WorkerBootstrap`, `HostDeclaration`,
`TaskExecution` and `ExceptionFilter` are no properties of the runs, which ask harder
questions of these modules. For every property `PROJECT.json` names a plausible mistake
in the code (defined next to the original as `<Name>_<Mistake>`) that makes TLC report
it.

### Fairness

* `Healthz`: time passes (up to `Horizon`), due timers fire, continuations and the
  response run. The event loop guarantees that. No check is assumed to settle.
* `WithRetry`: timers, continuations and the abort listener; `CallsSettle` also assumes
  that `fn` settles, which is the caller's business and stated as `FnFairness`.
* `HostDeclaration`: the server starts what may start, methods return or throw. The
  declaration loop is synchronous code; `DeclaredWorkflowsFinish` begins where it has
  ended.
* `HostRun`: microtasks run and the server answers requests. No run is assumed to end:
  a call without `wait` must settle all the same, one that waits only when its runs
  have ended.

All of it is weak fairness: each of these steps stays enabled until it is taken.

## Divergences

What the documentation says and the code does not do. Found by a run of its own:

* **`healthz_rate_cap`** `minIntervalMs` "caps the actual call rate"; in fact it limits
  the reuse of completed checks. Requests that overlap a running check start their own.
* **`healthz_shared_name`** an attestor without `minIntervalMs` "runs on every request"
  and of duplicates "each will be invoked"; two attestors of one name share a cache
  entry, so the uncapped one is served the other's outcome.
* **`flydrive_drivers`** "exactly one entry per ref class"; a reference returned twice
  is accepted and the second driver dropped. (`flydrive.module-config.ts:18` also speaks
  of `lazy: true`, an option that does not exist.)
* **`worker_bootstrap_shift`** "fetches all workflows registered"; a deletion between
  two pages shifts the rest and one is missed. (Registrations shift it the other way,
  and nothing is missed: `NoOrphanOverlooked`.)

Others have no run of their own; the property that is checked and proved says exactly
how far the code goes:

* `generic-exception-filter.ts:237-238` promises, for several errors, "400 if most are
  4xx errors, otherwise 500". The code compares 4xx with 5xx only: a 409 beside two
  errors without a status, each of which would be a 500 alone, is answered with 400
  (`StatusReflectsErrors`).
* `references/helpers.ts:16` says that the compiler "ensures the host has exactly one
  task method". It counts public methods: a TaskHost with a public and a private `@Task`
  compiles in `taskRef()` and fails at boot; one whose only task is private boots, but
  no reference to it compiles (`CompiledHostsDeclared`).
* `execution/context/types.ts:70-71` says that where `isRun()` is true, "`ctx.input` is
  the validated host schema type". A schema's result with a value *and* issues is taken
  for valid, while `event-definition.ts:79` refuses one with issues; and a direct run
  that forwards another run's metadata, `hatchet__event_key` or `hatchet__cron_name`
  included, passes for an event or a cron and is not validated at all
  (`NothingRunsUnvalidated`).
* `retry.ts:148-149`, see `WithRetry` above (`NoAttemptAfterAbort`).

## Proofs

Assumptions are those named in the modules (`HealthzAssumption`, `WithRetryAssumption`,
`FlydriveAssumption`, `WorkerBootstrapAssumption`, `ApplicationAssumption` with
`ConfigxAssumption`, `HostDeclarationAssumption`, `TaskExecutionAssumption`,
`ExceptionFilterAssumption`, `HostRunAssumption`): what the types of the options say,
that methods are finitely many, and that `Unset`, `Method` and `NotAnInteger` are no
ordinary values. TLC evaluates them in every run.

`HealthzProofs`, for any attestors, requests, options and bounds:

* `TypeCorrect`: `TypeOK` is inductive by itself, shared names included.
* `CacheCorrect`: `CacheHoldsLastCheck`, if names are unique (`UniqueNames`; the run
  `healthz_shared_name` shows what happens otherwise). It is inductive together with
  `TypeOK`: `CacheStep` goes through the actions. A lookup only removes entries that
  are no longer young, a write replaces the entry and `last` in the same stretch, and
  the tick needs the entry's expiry to be exactly `last.at + minIntervalMs`.
* `ReuseCorrect` and `OwnVerdictCorrect` follow: given the cache invariant, a live
  entry is the same thing as a young last check (`LookupIsYoung`).
* `Implementation`: `Spec => RefinesContract`, with the mapping that forgets the cache
  and the race. It needs `PhasesAgree` (a verdict is there exactly when `runOne` has
  returned), proved as `PhasesCorrect`, and `StatusAgrees`: the two definitions of the
  aggregate status are the same function.

`WithRetryProofs`, for any number of calls and any options: `IInv` strengthens the
properties by `LoopInv`, which ties `attempt`, `calls` and `notified` to where a call
stands; `AtMostRetriesPlusOne` is not inductive without it, since it does not say how
many attempts a *sleeping* call has made. `TypeOK` is part of it because a listener
count may only be decremented when it is known to be one. `TypeCorrect`,
`CallsBounded`, `AnnouncementsCorrect` and `NoLeak` follow, and `AbortFinal`
(`NoAttemptAfterAbort`) because only `Call` and `Wake` invoke `fn`, and both look at the
signal in the same stretch, and because only `OnRetry` announces. `DelaysCorrect` (`DelayBounded`) needs no invariant about
the power in the formula: `DelaysClamped` shows that what it gives is clamped.

`HostRunProofs`, for any calls, nested in any way, and any number of inputs: the
inductive invariant adds to `TypeOK` what the properties leave open. `SeenInv` says
that a promise seen fulfilled or rejected tells the truth about its run and that the
values so far are in their places; without it nothing is known of a call that is still
waiting. `Tables` says that the variables are functions of the calls. A step concerns
one call, so `OneRow` reduces the invariant to that call's row; `CallStep`, `RunStep`,
`FulfilStep` and `RejectStep` are the actions. `TypeCorrect`, `ResultsCorrect` and
`FailuresCorrect` follow.

`FlydriveProofs`, for any disks, registrations, fakes and overrides: the inductive
invariant `IInv` adds to `TypeOK` that a disk the registry has is the one object made
for its reference (`DisksInv`: with the driver of its first entry, built once, and
current the fake or that driver), that a consumer's proxy is such a disk
(`ProxiesInv`), and what each phase of the startup has established (`PhasesInv`).
Without `DisksInv`, nothing would exclude a second disk object that a later fake
misses. `TypeCorrect`, `RunningCorrect` and `ConsumersCorrect` follow, and
`Implementation`: `Spec => RefinesDisks`, where the registration stutters, a
provider's creation is `Resolve`, and `OnModuleInit`, also one that throws half-way,
is `BuildAll`.

`ApplicationProofs`, for any schema, application and changes by others: `ConfigInv`
says of each copy that it is valid for what it was read from (`ConfigxInv`) and how
far the boot can be with that (`BootInv`); it gives `ConfigCorrect`. `DetectionInv`
counts: of the declarations of `AllHosts`, the first `registered` are on the server or
were deleted by others; a detection that has begun has registered all of them. It gives
`DetectionCorrect`. `ServesInv` says of the first `registered` hosts of the list what
the property says of all: a workflow runs the last host of its name, and only a
deletion leaves a name without one; with `Flattened` (the list holds the hosts of
every feature, and no others) it gives `HostsCorrect`. `PagesInv` places the offset,
always at the edge of a page, and says that on a quiet server the collected names are
the list up to there;
`NextPage` is the arithmetic of one more page, of a short last page and of `MaxPages`.
`OrphansListed` says what the filter for foreign names returns: they, in the order of
the list, repetitions included. `KeptInv` is about a server that only grows: what stands
before the offset stood before it earlier, too, and has been collected unless it is
new. `WarningsCorrect` and `CompletenessCorrect` follow. `Embedded` is `AppSpec => Spec`:
the factory, the providers and their errors lead the bootstrap only to steps that it
takes on its own. `TypeCorrect` adds to these invariants what they do not speak of
(`TypesInv`); the page of a pending request is below the limit only because `PagesInv`
says so.

`HostDeclarationProofs`, for any methods: `IInv` (`TypeInv`, `BootInv`, `RunInv`)
says that a declaration has the very parents its task names and that what runs was
declared, and gives `ParentsFirst`. `VerdictInv` is about the verdict: the memo is
either complete or empty, and while the loop goes on every task is declared or
queued, with its parents declared or queued before it (`QueueInv`). That the
order exists at all is a fact about finite graphs: `Sortable` proves that ranked
tasks can be listed by rank, by taking a smallest set that cannot (well-founded
inclusion, so no induction theorem with an operator parameter is needed), and
`RankedIfSorted` is the converse. `DeclaredIfSound` and `CompiledDeclared` follow, and
`TypeCorrect`: that only methods are queued (`LoopInv`) needs the memo to hold methods,
and that the queue is not empty while the loop goes on.

`TaskExecutionProofs`, for any runs, events, payloads, schemas and interceptors:
`RunOK` keeps for each run what the metadata and the marker say of its trigger
(`Traced`), that what was entered was validated (`Validated`), and that a run which was
refused was entered by nobody and has the issues of a verdict without a value
(`Refused`). `Detection` is what `inferTriggerSource` makes of the metadata: the truth,
except where the sender has `Misled` it. `ValidatedFirst` and `EventsRecognised`
follow. `IssuesCorrect` is a fact about `FormatPath`: `ExtendedApart` shows that a path's text
tells its last key and the text before it, as long as no key is spelled like
punctuation, and `PathsApart` goes back through two paths of the same text from their
ends until both are empty.

`ExceptionFilterProofs`, for any exceptions and display names: `IInv` says that what is
thrown keeps its details as they were rendered (`ThrownInv`) and that the remembered
lookup of `graphql` is right (`CacheInv`); `RepliesCorrect` follows. `ResponseInv` says
that what was sent is the response to what was thrown. With `SameClasses` (the counts
over the converted errors are those over the exceptions) it gives `StatusCorrect`, and
with the account of the merge `HeadersCorrect`: after `m` errors the entries of the
record are, for every key that one of them carries, the value of the last of them
(`AggregatedEntries`, from `AssignedEntries` for one error and `PutEntries` for one
key), and they stand in the order in which their spellings first came up (`PutOrder`,
`KeysReplaced`, `NewAhead`; `SameUses` says that of the converted errors what the
property says of the exceptions). `TypeCorrect` says that every response has a status HTTP knows and headers whose
values come from one of the errors (`ResponseTyped`, `HeaderValues`), of which there are
no more than were created (`BoundInv`).

Three modules compute over lists of any length: the flattening and the filter of
`WorkerBootstrap`, the path of an issue, the merged headers. Those are recursive
*functions*, and what they compute is proved for every length without an induction
theorem over a predicate: `Ascend` is induction said of a *set* of numbers, from the
well-foundedness of `<`; `Recursion` shows that a function with the recursive
definition's equations exists, so that `CHOOSE` finds one; the rest is a set of the
lengths at which the claim holds. Each of the modules has them, since a module of
proofs stands by itself. The prover does not know that a string literal is a member of
`STRING`, hence `Punctuation` in `TaskExecution`'s `Text`.

Only model-checked is what needs fairness, since the prover knows no `ENABLED`:
`EveryRequestAnswered`, `CallsSettle` of `WithRetry` and of `HostRun`, and
`DeclaredWorkflowsFinish`. No module uses a `RECURSIVE` operator.

## Not modelled

* Formatting: report details, the text of exception messages around a display name,
  durations, log lines, issue messages, generated names and UUIDs, `slugify`,
  `sanitize`; the order of the issues in a configx error.
* The explorer of `healthz` runs once at bootstrap, and its list never changes: it is
  the definition `Attestors`. Decorators and module classes are modelled by what they
  leave behind.
* The client factory of `hatchet` hands the config to the SDK and keeps nothing.
* Timed-out checks that keep running, and runs that go on after their call over several
  inputs has failed: the code forgets them, and so do the models. A check's
  synchronous part, which no timeout bounds: synchronous stretches take no time here.
* The unhandled rejection of `worker.start()`: what it does to the process is Node's
  setting.
* The order in which Nest instantiates interceptors relative to
  `DeclarationBuilderService`; a host whose input type is itself an array, which
  `run` would take for several inputs.
* A wall clock set back, option values that are not numbers.
* The worker slots of the Hatchet server: a task that waits for a child holds its own.
* `toolkit`'s string, uuid and equality helpers, the documentation site and the
  examples: character-level work, and no logic of the packages.

## Plan

1. *Composition*: `HostRun` over `TaskExecution` (an input forwarded down a tree of
   runs); `WorkerBootstrap` over `HostDeclaration` (`usable` derived from what a host
   describes instead of given).
2. *Abstract specifications*: of the event guards, refined by `TaskExecution`; of the
   detection (a set of names and a snapshot), refined by `WorkerBootstrap` on a quiet
   server.
