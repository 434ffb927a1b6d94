# SharpGenTools in TLA+

SharpGenTools turns C++ headers into C# bindings. An MSBuild task reads mapping
files, writes C++ headers from them, lets castxml parse those, transforms the
C++ model into a C# model, has it documented by plug-ins and writes one C# file.
The generated code then runs on `SharpGen.Runtime`: native objects that managed
code calls, and managed objects that native code calls.

This directory holds TLA+ modules for the parts of that program whose state is
shared between processes, threads or builds, or whose steps depend on one
another over a long way, the TLC configurations that check
them, and proofs for TLAPS. `PROJECT.json` maps every definition to the lines of
source it stands for.

    tlc -config SharpGenTaskCrash.cfg MCSharpGenTask.tla
    tlapm SharpGenTaskProofs.tla

| part | module | model checking | proofs |
| --- | --- | --- | --- |
| the MSBuild task and its caches | `SharpGenTask`, an implementation of `IncrementalBuild` | `MCSharpGenTask`, `SharpGenTask*.cfg` | `SharpGenTaskProofs`, extended by `SharpGenTaskRefinement` |
| mapping files and their rules | `ConfigFile`, extended by `TypeRegistry` | `MCTypeRegistry`, `Mapping*.cfg` | `TypeRegistryProofs` |
| extensions | `Extensions` | `MCExtensions`, `Extensions*.cfg` | `ExtensionsProofs` |
| generated calls | `GeneratedCall` | `Call*.cfg` (`Callback*.cfg` are the next row's) | `GeneratedCallProofs` |
| managed callbacks | `CallbackBase` | `MCCallbackBase`, `Callback*.cfg` | `CallbackBaseProofs` |
| documentation providers | `DocProviders` | `MCDocProviders`, `Doc*.cfg` | `DocProvidersProofs` |
| native objects and their tracker | `CppObjects` | `MCCppObjects`, `Cpp*.cfg` | `CppObjectsProofs` |

Definitions commented "Seeded fault" are mutated forms of the action below them.
No specification uses them; `PROJECT.json` says which property each one breaks.

## Inventory

Paths are relative to `src/`. "Hard" names what tests hardly reach, and
"correct" what makes the part correct.

### Build

**SharpGenTask** (`SharpGenTools.Sdk/SharpGenTask*.cs`, `Internal/CacheFile.cs`).
State: the profile directory (dirty marker, property cache, inputs cache, C++
headers, extension headers, bind mapping, bindings), the named mutex of the
profile, and the fields of each task. Operations: `Execute` (wait for the
mutex, compare the caches, regenerate, write the caches, remove the marker,
release), `Cancel`. Hard: several MSBuild workers build one profile; a worker
is killed at any step, the mutex is abandoned or vanishes; the wait is given up
on `Cancel`; a step fails; inputs are edited. Correct: one worker generates at a
time; half-made outputs are never trusted; a successful build leaves bindings of
the inputs as they are; every build ends.

**Documentation** (`SharpGenTools.Sdk/Documentation`,
`SharpGen.Platform/Documentation`). State: the cache of documentation items, one
query per element with its retries and back-off delays, the failures collected.
Operations: query, answer, retry, report, attach, read and write the cache.
Hard: queries end on pool threads in any order; providers throw, ask to be
called again or keep items between builds; the build is killed while the cache
is written. Correct: retries are bounded, failures are reported, what was learnt
is saved, the first provider wins.

**Extensibility** (`SharpGenTools.Sdk/Extensibility`). State: one driver per
process with the set of extension references, each with the type names and the
assembly it read, and a loader with two dictionaries, from path to identity and
from identity to assembly. Operations: load references, load assemblies, resolve
dependencies, discover providers. Hard: driver and loader outlive the build while
files are replaced, and providers' threads resolve dependencies during a load.
Correct: an identity has one assembly, and no extension a project lists is left
out without an error. DocProviders starts where this ends, with a sequence of
providers.

**ConfigFile** (`SharpGen/Config`). State: the tree of mapping files, the
dictionary from Id to file, variables. Operations: `Load`, `PostLoad`, expand,
`Verify`. Hard: files that include each other in a diamond or a cycle, and files
that cannot be read half-way. Correct: loading ends, a load without errors has
everything the files include and depend on, under distinct identifiers. To
SharpGenTask the configs are one versioned input.

**C++ parsing** (`SharpGen/Parser`, `SharpGen.Platform`). State: the generated
headers, the macros met while preprocessing, the model being built. Operations:
generate headers, preprocess, parse, resolve SDKs. Hard: output handlers of the
castxml process run on other threads. Its steps are actions of SharpGenTask
(`GenerateCppHeaders`, `Preprocess`, `GenerateExtensionHeaders`, `Parse`).

**Transform pipeline** (`SharpGen/Transform`). State: the C# model, the registry
of bindings, constants, naming rules, layout of structs. Operations: `Init`,
`MapModule`, `Prepare`, `Process` of each transform. Hard: the order of defines,
bindings and overrides; bit fields, unions and packing; properties made of pairs
of methods. Correct: a C++ name stands for the C# type
the files say, the first binding first; the layout has the native offsets.

**Generated calls and code generation** (`SharpGen/Generator`). Functions from
the model to C# syntax; the state is that of the generated code at run time:
locals, native memory, pins, arguments. Hard: native code replaces what it is
given and calls back, steps throw, the collector runs in between. Correct: what
native code was given stays usable, whatever a call allocates it frees once, and
a failure reaches the caller.

**Models, logging, path utilities** (`SharpGen/CppModel`, `SharpGen/Model`,
`SharpGen/Logging`). Trees of data and wording; only `Logger.HasErrors` steers
the program, and it is a field of the models that need it.

### Runtime

**CallbackBase** (`SharpGen.Runtime/CallbackBase*.cs`,
`CppObjectCallableWrapper.cs`, `CppObjectShadow.cs`, `COM/ComObjectVtbl.cs`,
`COM/InspectableVtbl.cs`). State: a reference count, the dictionary from GUID to
callable wrapper, the wrappers' GCHandles, the handle to itself, the array of
GUIDs. Operations: `Find`, `AddRef`, `Release`, `QueryInterface`, `GetIids`,
`Dispose`, the finalizer. Hard: native threads call at any time while managed
code disposes. Correct: the count is exact, what native code holds is usable,
everything is freed once.

**CppObject and ObjectTracker** (`CppObject.cs`, `COM/ComObject.cs`,
`DisposeBase*.cs`, `Diagnostics/ObjectTracker.cs`). State: the native pointer of
every object, the tracker's dictionaries of weak references. Operations:
construct, assign `NativePointer`, dispose, finalize, report. Hard: handlers run
in the middle of a call; the finalizer's thread; dictionaries per thread.
Correct: a reference is released once, and the tracker reports the objects alive
under their own pointers.

**Values and memory** (`Result`, `PointerSize`, `InterfaceArray`,
`MemoryHelpers`, `WinRTString`) and **type registration** (`TypeDataStorage`):
immutable values, copying loops, and static data every thread sets to the same
value.

**SharpGen.Generator**, a source generator with one pass over a compilation;
**the vendored CastXML**, **setup interop**, **tests and samples**: not part of
what is modelled.

### How they interact

The task calls parser, transforms, documentation and generator in turn, in one
process, through files and object trees; processes meet in the profile directory
and the mutex only. Documentation shares its cache and its set of failures
between threads and, through providers that keep their items, between builds.
The extensions' driver is shared by all builds of an MSBuild process. Mapping
files feed the type registry in the order of their registration. Generated code
calls the runtime: an interface method passes a callback to native code with
`MarshallingHelpers.ToCallbackPtr` (which enters `CallbackBase.Find`), and wraps
what it gets in a `ComObject`.

## The models

### SharpGenTask

`input` is the version of the configs and of the native headers on disk, `disk`
the profile directory, `mutex` the named mutex, `pc` and `task` the workers. An
action is a step of `Execute` between two points where another process could
see a difference: `AcquireLock`, `WaitTimesOut` and `WaitOrAbort` are the loop
around `WaitOne`, `CheckInputsCache` the comparison, `MarkDirty` to
`WriteBindings` are `ExecuteImpl`, `GenerateInputsCache`, `RemoveDirtyMarker`
and `ReleaseLock` the finally block. `Throw`, `Cancel` and `Crash` may happen at
every step and leave the file being written truncated (`InterruptedWrites`).
`DeleteMarkerFails` is the step of the finally block that is in no try: when the
marker cannot be deleted (SharpGenTask.cs:183), the release of the mutex is
skipped, and the thread keeps it (`mutex.kept`). A later build on that thread
acquires it once more, builds of other workers wait until the thread or its
process ends (`KeptLockEnds`).

A file is abstracted to the versions of the inputs it was made from, its
metadata to a number that changes with every write. One config, one native
header and one extension header stand for the sets of them; extension
assemblies and external documentation are further inputs that are listed in the
same way. The profile directory carries the hash of the settings in its name, so
all workers of the model have the same settings, and the property cache is
absent, torn or current.

`IncrementalBuild` is what all this is for, without any of it: a build begins,
withdraws the bindings, succeeds with bindings of the inputs as they are in one
step, or ends. `TrustedOutput` maps the profile directory to the abstract
bindings (those behind which no marker stands, when bindings and bind mapping
are one pair), `Progress` a worker to an abstract build, and
`ImplementsIncrementalBuild` says that every behaviour of SharpGenTask is one of
IncrementalBuild. Its point is in `Withdraw`: bindings are not taken away under
the hands of a build that has reported success and not returned.

### ConfigFile and TypeRegistry

`configs` are the loads of files, numbered in their order, `stack` the recursion
of `Load`, `registered` the dictionary from Id to file, in the order of
insertion. `LoadInclude` enters a file, `LoadFails` logs and goes on,
`Register` and `RegisterTwice` are the end of `PostLoad` with a new and a used
Id, `Overflow` the end of the process's stack, `Verify` and `RecordInputs` what
the task does with the result. A file without an Id gets a new one at each load.
What files contain (includes, Ids, dependencies, definitions, bindings) is
chosen in the initial state from `Projects`.

`TypeRegistry` extends this by what the transform manager does next:
`Define` registers the types of every file, `Bind` the bindings, `Prepare` gives
a C++ name that is not bound a type of its own; `Defines` and `Bindings` pass
from one to the next. One C++ name is followed, with the C# types it may be
bound to: some are primitive types, found before anything that is defined, and
some are types of the runtime, found after it (`Imported`). An include is spelled
with a relative path, an absolute one, or a variable, whose path is kept
unexpanded (`PathFound`). Preprocessor conditions, include
directories and the other rules are left out.

### Extensions

`references` is the driver's set, `identityAt` and `assemblyOf` the loader's two
dictionaries, `call` what each thread is doing in the loader, `build` the build
in progress, `file` the contents on disk, which anybody may replace, damage or
remove (`Replace`). Contents are builds of assemblies with an identity and the
names of their providers. The lock of the loader makes `LoadFromPath`,
`CachePath` and `Register` single steps; `LoadFile` stands between the first two,
outside the lock. Main
goes through the references (`ReadTypeNames`, `NothingDeclared`, `GetAssembly`,
`KeepAssembly`, `CreateProviders`, `LoadFails`), resolvers are the threads for
which the runtime asks for a dependency (`Request`). Cultures, display names and
the reading of metadata are left out.

### GeneratedCall

The generated method is the stages of `caller` (`ManagedToNative`, `Invoke`,
`Back`, `NativeToManaged`, `BeginCleanup`, `NativeCleanup`, `CheckError`), the
function generated for callbacks those of `callback` (`ToCallback`,
`CallbackToManaged`, `Implementation`, `CallbackToNative`, `CallbackReturns`,
`Catch`). `signature` gives each parameter a kind and a direction, one per
marshaller that treats memory differently; `location` is what the native
function reads and writes, `memory` the blocks each side may allocate, by owner,
`object` and `pinned` what the collector may take (`Lose`). Native code reads,
writes and frees as the generated code expects of it, and returns what code it
likes. `rule` is what the mapping rules make of that code (CsCallable.cs:26 and
104-109): thrown when it is a failure, returned, dropped for a parameter that is
returned in its place, or none. `LoseReceiver` is the collector taking the object
whose method is called: nothing after NativeInvocationCodeGenerator.cs:20 uses it.
`Permitted` names what may go wrong besides: conversions that throw, an argument disposed of by another
thread, a callback kept without a reference, exceptions whose HResult is no
failure, pointers left behind by a function that failed, a `RaiseException` that
throws. Arrays, relations between parameters, returned values other than codes
and the syntax are left out. A text that is ref is passed by value, so that the
function cannot replace it, while a method generated for callbacks takes it for
the address of a pointer: it is not passed on to callbacks (`Forwarded`), and a
wide one that is ref does not compile. What `ToCallback` finds is CallbackBase's matter:
the target is alive or gone.

### CallbackBase

`refCount`, `isDisposed`, `ccw`, `thisHandle`, `guidPtr` and `guids` are the
fields; `tables`, `wrappers`, `handles` and `blocks` are the heap, where nothing
disappears: what was freed is marked as freed, so that a use after it shows.
`holder` and `owned` are the references that are out. `Find` is split at every
access to `_ccw` and `_thisHandle` (`Find`, `Publish`, `PassTable`,
`CheckThisHandle`, `AllocThisHandle`, `CreateShadows`, `WrapLeaf`, `Lookup`),
disposal at every free. A slot of the handle table that was freed is handed out
again, also to other code of the process (`ForeignAlloc`).

Assumed of the environment: native code is legal COM code; managed code calls
`Dispose` from one thread at a time and does not pass the object on while or
after it disposes of it; with `OutlivesNative`, it does not drop the object
while native code holds a reference (the handle is weak, CallbackBase.cs:151).

### DocProviders

`file` is the cache file of each project, `cache` the items in memory, `task`
the query of each element with `retry`, `backoffIndex` and `nextDelay` of
`QueryDocumentationProvider`, `failures` the set in the context. Queries start
in order on the build's thread (`StartUnnamed`, `StartCached`, `StartQuery`) and
then proceed in any order (`FindsItem`, `Never`, `Fail`, `Throw`, `Retry`,
`BeginReport`, `EndReport`, `Attach`). The set of failures has no lock, so an
addition is two steps and may overwrite another. Builds follow one another in
one process until it is killed.

An item is the set of names it is listed under, the provider it came from and
its dirty flag; descriptions, also those of an element's members
(`DocumentInnerElements`), and the JSON layout are left out. Names differ in
more than their case. `DocumentationFailuresAsErrors` has its default, and a delay
that a provider asks for is one `Task.Delay` accepts (DocProviderExecutor.cs:140
is in no inner try).

### CppObjects

`pointer` is `_nativePointer` of every object, `references` the native counts,
`dictionary` and `global` the tracker, `stack` the calls in progress of each
thread: a frame stops where a handler runs or where a field is read that another
thread may change, so that `Dispose` can be entered again from a handler
(`DisposeInHandler`). A frame's `nested` is history: a handler of Disposing has
disposed of the object in the meantime. `NewTable` is the second half of `??=`
(ObjectTracker.cs:50). The finalizer is a thread of its own, and a dropped
object has no target any more.

Assumed: object tracking is enabled, managed code uses an object from one thread
at a time and gives it a reference with every pointer.

## What is checked

The runs of `PROJECT.json`. Those marked V end in a counterexample that shows
code and documentation to disagree.

| run | question | bounds |
| --- | --- | --- |
| `SharpGenTaskCrash` | Do mutex, marker and caches keep builds from trusting outputs that are half-made or out of date, and do they implement the abstract builds? | 2 workers killed or failing at any step, the config edited twice and the headers once, between builds |
| `SharpGenTaskInterrupted` | Does one worker at a time write outputs that are whole, and does every build end, when waits are cancelled, steps throw, and caches cannot be written nor the marker deleted? | 2 workers, cancelled, throwing and killed without end; no edits |
| `SharpGenTaskCancelledWait` V | A cancelled waiter overwrites the inputs cache of the owner. | 2 workers |
| `CallbackLifetime` | Is what native code holds usable, and is everything freed, once? | 2 threads, 2 references, classes of 1 or 2 interfaces, 0 or 1 shadow |
| `CallbackRacingFind` | Is what native code got usable when two threads make the wrappers and making them fails? | 2 threads, 1 reference, 1 interface |
| `DocOneProvider` | Are retries bounded, failures reported, the file kept, and does every build end? | 3 elements, one unnamed, a provider with every answer, builds killed |
| `DocTwoProviders` | Does the first provider win, does no build fail without reason, and is what was learnt saved? | 3 elements, two of one name, 2 providers |
| `CppShared` | Is each reference released once, which call finds its object disposed of, and does the tracker list exactly the objects alive, under their pointers? | 2 threads and the finalizer, 2 objects, 2 pointers, handlers of Tracked, Disposing and Disposed that dispose |
| `ExtensionsProcess` | Has an identity one assembly in memory, and is no listed extension left out without an error? | 2 paths, 4 contents, 2 resolving threads besides the build's, 2 builds, 2 replaced files |
| `CallOrder` | Is every block freed once and used before, is what the function was given usable, and does a failure arrive? | every signature of 3 parameters and every rule for the code, conversions that throw, any HResult, a collector that runs at any time |
| `MappingFiles` | Is a load without errors whole, does loading end, and does the meaning of a name follow from where its files stand? | 3 files; 2 of them include any two, themselves also; every binding over 4 shapes |
| `MappingVariable` V | A file included through a variable fails the build. | as `MappingFiles` |

**What the properties say.** `SuccessMeansUpToDate`: a build that reports
success leaves outputs of the inputs as they are. `InputsCacheListsLoaded`: a
clean profile at rest lists what its bindings were made from.
`CleanMeansConsistent`: without the marker, bindings and bind mapping are whole
and from one parse. `RefCountExact`, `ReferencesExact`: the counts are the
references that are out. `FindAnswers`, `OneIdentity`: `Find` never answers null
for an interface the class has, and always the same pointer. `FreedOnce`:
nothing is freed twice, and in the end nothing is left. `ForeignHandleSurvives`:
freeing wrappers never frees a handle that was reused by others.
`BoundedRetries`: a query asks a provider at most six times, and the delays
suffice.
`NothingForgotten`: a cache file lists every name it ever listed, unless a build
was killed in the middle of writing it.
`TrackerExact`: the tracker lists exactly the objects alive, while only one
dictionary was made. `DisposedByItsHandler`: the assertion of
`CppObject`'s indexer fails for an object disposed of in a handler of Disposing
of the same call, and for no other. `ServedOrReported`: a build without errors has every provider
of every extension it lists. `ArgumentsUsable`, `CallLeavesNothing`,
`FailureArrives`: see the comments in `GeneratedCall`. `CleanLoadIsWhole`: what
verification reaches and what the transforms use is the same, complete and
without two files of one Id. `PriorityFollowsIncludes`: a file's binding stands
against those of the files that include it, an override against any without.
`NothingDefinedIsUndefined`: a type some file defines is never replaced by an
undefined one.

**Why the bounds are enough.** The mutex, the marker and the caches tell apart
"mine", "another's" and "nobody's": a third worker adds no new relation to the
two that matter, the owner and one waiter. Version 1 to 2 of the config changes
the text of the C++ header, 2 to 3 only mapping rules, which are the two cases
`GenerateCppHeaders` distinguishes. Two threads meet at every pair of steps of
the lock-free code, which keeps no more than one value between steps; four
handle slots hold the object's own handle, a shadow's, another callback's and
one to be reused, lowest first as an allocator would. Of the queries, two
interact when they ask for the same name or add failures at the same time. In
CppObjects an object is made once (`Objects`), used without bound, and calls
nest to depth two (`Nesting`). Two paths and two builds of one assembly are what
the loader's dictionaries can confuse; a second build meets everything the first
has left in the process, and the number of builds (`MaxBuilds`) and of replaced
files (`MaxChanges`) is bounded there, and only there. Parameters of a call meet
in the order of the stages only: three give one before, one that fails and one
after. Three files make chains, diamonds and cycles; the stack is one deeper
(`MaxDepth`) than a chain of them all under the root.

**Fairness.** `EveryBuildEnds` assumes weak fairness of the steps of each
worker: the operating system goes on running a process that can run. Nothing is
assumed of users, of the kernel's choice among waiters, or of crashes; the
property holds once no new builds are started, because a waiter polls
(`WaitOne(5 s)`) and may miss the mutex again and again while others come. It
excepts the one case in which the code does not release what it holds
(`mutex.kept`, see `DeleteMarkerFails`): nothing makes that thread end. In its run
`AllowErrors` is FALSE and costs nothing: a worker that logged an error takes
the branches of one that was cancelled (`AbortExecution`), which the run has at
every step.
`BuildsEnd` assumes weak fairness of each query and of the build's own thread:
providers complete their tasks, and timers fire. `LoadingEnds` assumes weak
fairness of the one thread that loads; it is about files that do not include one
another in a cycle, since with a cycle the process ends (`MappingCycle`).

**Deadlock** is checked in all runs but `ExtensionsProcess`, where an MSBuild
process that has done its `MaxBuilds` builds may stop. GeneratedCall and
TypeRegistry end in a state that repeats itself.

## What is proved

For any number of workers, versions, elements, names, providers, threads, files,
parameters and so on. The assumptions are the named ASSUMEs of the modules,
which TLC evaluates on the runs, and the hypotheses named here.

* `SharpGenTaskProofs!TypeCorrect`, `DocProvidersProofs!TypeCorrect`: types. The
  second needs `ActiveInv` (while a build documents, `provider` is one of the
  providers; elsewhere no query is under way; a query that is has a name, and
  one that attaches has an item).
* `LockFlag`, `SingleGenerator`: `LockInv` says worker by worker that the flag
  implies owning the mutex, and is implied by it unless the mutex was kept, that
  one that generates has the flag, and that a worker at `mark` without it has
  given up. `OneGenerator` alone is not inductive, since it says nothing of
  the steps before `loadConfig`: what makes it true is that `MarkDirty` leaves a
  worker whose wait was given up, because it is cancelled.
* `CleanProfile`: `OutputInv` adds that the marker is on disk while a worker
  regenerates, that the bind mapping is that of the parse in memory once it is
  written, and that the outputs agree for a worker that compares the caches or
  has succeeded. Only the owner of the mutex relies on it (`LockInv`), so the
  steps of the others cannot disturb it. It holds with every kind of
  interruption and failure.
* `SharpGenTaskRefinement!SuccessUpToDate`, `CacheListsLoaded` and `Refinement`,
  under `Undisturbed` (nobody cancels, caches can be written, inputs are edited
  between builds only), with workers that are killed and steps that fail. Each
  part is needed: see `SharpGenTaskCancelledWait`, `SharpGenTaskWriteFailure`
  and `SharpGenTaskEditDuringRun`. `BuildInv` follows one worker: `WaiterInv`
  says that without the mutex it has done nothing, `ReadInv` that what it has
  read is what is on disk, `MarkerInv` that the marker is there exactly when it
  has put it there, `SuccessInv` that bindings and lists are in place before it
  says so; `CacheInv` ties lists and bindings together while nobody is at work.
  Neither property is inductive alone: what a killed worker leaves is excused by
  the marker, and that has to be said of every step. `Refinement` maps each step
  to one of IncrementalBuild or to none: while the marker stands nothing is
  trusted, so all writes are stutters but the first, which withdraws the
  bindings, and the removal of the marker, which is the success. IncrementalBuild
  promises no liveness, so the steps are all there is to show.
* `CallbackBaseProofs!CountsReferences` and `FreedAtMostOnce` hold without any
  hypothesis. `UseInv` says who may be in which call, `CountInv` that whoever
  disposes came to it with a count of zero, or is the finalizer, and is alone;
  `ReachInv` that what `_ccw` names is live and that nobody is about to free it.
* `TypeCorrect` and `ReferencedUsable` need `OutlivesNative`, and without it are
  false: a `Find` under the finalizer's hands makes a wrapper without a handle.
  `HeapInv` says what is allocated as long as nobody has begun to free
  (`Intact`), `HandleInv` that a wrapper always had a handle. Any number of
  threads may be in `Find`, and it may fail.
* `ForeignHandles` (an action property): when besides no shadow is shared, since
  a shared handle is freed with each wrapper (`CallbackSharedShadow`).
  `SeparateInv` says that no two wrappers have one handle of a shadow, and that
  those still to be freed lead where they always did. TLC finds the property
  true without `OutlivesNative` too; the proof does not show that.
* `OnePointer` and `FindIsAnswered`: when one thread passes the object to native
  code for the first time (`OneMarshaller`; `CallbackConcurrentFind` shows the
  other case), and for the second when nothing throws. `TableInv` says that
  there is one dictionary and that nobody looks into it while it is being
  filled, `IdentityInv` that what was returned is what it says, `AnswerInv` that
  each leaf done is entered under all its interfaces.
* `EverythingFreedOnce`: when besides one thread asks for the GUIDs
  (`OneGuidReader`), leaf interfaces differ and no class has a multi-shadow.
  `ListedInv` finds every wrapper in the dictionary or among those to be freed;
  `WrapperLeakInv`, `HandleLeakInv` and `BlockInv` name for each wrapper, handle
  and block the one who will free it. TLC has a leak for every hypothesis but
  that on leaf interfaces left out: two interfaces of one GUID do not occur.
* `CppObjectsProofs!TypeCorrect` (no count falls below zero) and `CountsExact`,
  when no handler of UnTracked disposes of its object, for it would be released
  twice. `PointerInv` relates what a call in progress remembers to the pointer
  of its object, at any depth of handlers; `CountInv` counts the objects that
  stand for a native object and have not released it. `CountsExact` keeps apart
  the objects that still answer for their reference and those that lost it
  (`Lost`): `FinalInv` says that whatever was collected with a pointer had been
  disposed of before, which suppressed its finalizer, or is in it.
* `IndexerAssertion`, without a hypothesis: `SettledInv` says what a Dispose
  finds and leaves behind, `BelowInv` that one interrupted by its handler's
  Dispose is marked, so that the assertion fails for these and no others.
* `TrackerFollows`: `TrackerExact` when moreover each object is disposed of where
  it was made, if dictionaries are per thread (`CppThreadStatic`). `ListInv` says
  under which pointer an object is listed at each step of the call that works on
  it, `OldTableInv` and `PlaceInv` which dictionary that is, and
  `UnlistedInv` that an object to be made is in none. Handlers of UnTracked are
  excluded by the proof, which relies on `PointerInv`; TLC needs no such thing.
* `RetriesAreBounded`: `RetryInv` relates the loop counter, the questions asked
  and the exceptions thrown, and bounds `backoffIndex` by the number of requests
  since the last new array.
* `ThrowingFailsTheBuild`: with one provider and nothing silenced
  (`OneProvider`). `ReportInv` says that as long as a strict exception is not
  among the failures, a query is still on its way to report one: an addition
  that overwrites another leaves its own, so the set does not become empty. It
  then follows the flag into `errors` and `outcome`.
* `FailuresHaveReasons` is the converse and needs no hypothesis: `ReasonInv` says
  that a failure to be treated as an error, in the set or in what a query saw of
  it, has a strict provider's exception behind it, and that a query on its way to
  report has thrown at the provider asked now.
* `FirstProviderDocuments` (an action property): `DocumentedIsFound` says that a
  documented element's name is found in the cache, with its provider;
  `QueriedIsNew` that an element whose query is under way has no documentation
  yet, and that all that is listed under its name by then comes from queries of
  the same provider, those of its overloads for instance. It needs `NamesDiffer`:
  an item that lists a name in another case is not found under the element's, so
  the next provider is asked as well.
* `LearntIsKept`: `SavedInv` relates what is documented to the items in the cache
  (`LearntIsCached`) and the items that are not dirty to the names in the file
  (`CleanIsSaved`, `FoundIsSaved`), so that a file that is only touched has them
  already. It needs `NamesDiffer`, and `RemembersHere`: an item that a provider
  remembers from another project's build is not dirty and would not be written.
  TLC has a counterexample without either.
* `FileForgetsNothing`: `listed` remembers what every file has listed. A build
  that is under way has all of it in its cache (`Remembered`), or its project's
  file was once being written when the process was killed. No hypothesis.
* `ExtensionsProofs!OneAssembly`: `CallerInv` says what a thread in the loader
  knows at each step: from the lookup on the path has an identity in
  `identityAt`, and it never changes once it is one; `ReferenceInv` that an
  assembly kept by a reference is the one registered. The property alone does not
  say that a registered assembly stays.
* `ExtensionsProofs!Served`: when every provider a file declares can be cast.
  `MainInv` says that the build's thread loads for a reference it has read the
  names of, `ProgressInv` that what is no longer to be done has its providers or
  an error. Without the hypothesis it fails (`ExtensionsNotCast`).
* `GeneratedCallProofs`: one inductive invariant, `CallInv`. `OwnBlocks` and
  `HeldIsLive` say which blocks a location can hold at each stage and which of
  them are live, `LiveIsHeld` that every live block is still held somewhere,
  `CleanedUp` what is left while the cleanup goes on, `PinnedInv`, `Conversions`
  and `KeptAlive` when characters, conversions and objects are in place,
  `CodeInv` which code answers an exception and which was thrown, `CrossInv` that
  none unwinds native frames. The theorems say how far mishaps matter:
  `NothingIsLeft` holds with all of them, `MemoryIsSafe` unless failing functions
  leave freed pointers, `ArgumentsStayUsable` unless arguments are disposed of,
  `FailuresArrive` unless callbacks are kept or disposed of or `RaiseException`
  throws, whatever the function makes of a callback's code and whatever the rules
  make of its own. The scenarios `CallStaleOut` and `CallLateCallback` show what
  happens otherwise.
* `TypeRegistryProofs!DefinedFirst`: `LoadInv` keeps the numbers in stack,
  dictionary and references within the loaded files, parents before what they
  include; `DefinedInv` adds that while types are defined those of the files
  before `turn` are, and afterwards all, and that what is defined stays. It needs
  the two passes: with one, the property fails (the mutant `DefineAndBind`).
* `TypeRegistryProofs!IncludesGivePriority`: for any files, including one another
  in any way, with no hypothesis. `ChainInv` says that the stack of the recursion
  is a chain of parents that starts at the root, `StackedAreNew` that what is on
  it is not registered yet, so `AboveAreLater`: what includes a registered file,
  at any depth, was registered after it. `WinnerInv` says which rule holds among
  the rules met so far; the order of registration turns it into the property.
* `LoadedIsWhole`: `CleanLoadIsWhole`, with no hypothesis. `WholeInv` holds while
  no error was logged: nothing that was loaded is dropped (`AllKept`), everything
  registered is listed by its parent (`AllReferenced`) and has all it includes in
  their order (`AllIncluded`), and what is on the stack has as much of it as it
  has got through (`FramesInclude`). `KeysDiffer` says that the dictionary has a
  key for each, `VerifiedInv` that a task that goes on has no error and an empty
  stack.
* `IdentifiedCountOnce`: `RulesApplyOnce` when every file has an Id
  (`AllIdentified`), which follows from the same invariants. Without it the
  scenario `MappingDiamond` is a counterexample.
* `OnlyVariablesFailSilently`: a task that failed without an error has registered
  a file whose path has a variable in it. The counterexample of `MappingVariable`
  is of the only kind there is.
* `OnlyCyclesOverflow`: the safety half of `LoadingEnds`. A stack deeper than
  there are files holds one of them twice, and what lies between is a cycle of
  includes (`IncludedInv`); `DepthAssumption` makes the stack that deep.

`Above`, `Linked` and `PathFound` are recursive functions over the numbers of
the loaded files. The proofs need no induction over an operator: that such a
function exists is shown with sets of numbers closed under parents (`AboveStep`,
`LinkedStep`, `PathStep`), and what holds of all its values by taking the least
number for which it does not (`Smallest`).

Every invariant and every action or refinement property of the passing runs is
stated by a theorem, some under the hypotheses named above. Only model-checked is
liveness (`EveryBuildEnds`, `BuildsEnd`, `LoadingEnds`), as the prover does not
handle fairness.

## Findings

The two violations among the runs are in `PROJECT.json` with the lines they
contradict: `SharpGenTaskCancelledWait` (a cancelled wait for the mutex counts as
a successful one, SharpGenTask.PropertyCache.cs:78, against Sdk.targets:151) and
`MappingVariable` (ConfigFile.cs:349 replaces the path a file was loaded from by
its unexpanded text, against docs/config-features.rst:29). The following
configurations are scenarios to run by hand and not among the runs; each ends in
a counterexample.

| configuration | code | what it contradicts, or shows |
| --- | --- | --- |
| `SharpGenTaskEditDuringRun` | SharpGenTask.cs:225 takes a config's metadata after it was parsed (218), so an edit in between is never noticed | Sdk.targets:151 "loaded by SharpGenTask during the last run" |
| `SharpGenTaskWriteFailure` | SharpGenTask.cs:173: a failed write truncates the inputs cache and the marker is removed; the rest is a valid cache | InputsCache.cs:175 "invalidate the cache" |
| `SharpGenTaskListedTwice` | SharpGenTask.cs:253 lists an extension header again after it was rewritten | assertion in InputsCache.cs:94 |
| `SharpGenTaskMacroEnums` | CppExtensionHeaderGenerator.cs:26 keeps macro values until the config's header changes | docs/custom-mapping.rst:127 |
| `SharpGenTaskStaleExtension` | a full regeneration keeps a truncated extension header | SharpGenTask.PropertyCache.cs:86 |
| `SharpGenTaskInterrupted` with `EveryBuildEnds` without `\/ mutex.kept` | SharpGenTask.cs:183: a marker that cannot be deleted skips the release of the mutex | all other builds of the profile wait as long as the thread lives |
| `CallbackConcurrentFind` | CallbackBase.cs:138: a second `Find` meets the dictionary before it is filled, and answers null for an interface the class has | docs/release-notes.rst:65 |
| `CallbackSharedShadow` | CppObjectCallableWrapper.cs:42 frees the one handle of a shadow with each wrapper | comment in line 38 |
| `CallbackTwoShadows` | CppObjectCallableWrapper.cs:33 never frees the handles of a multi-shadow | CallbackBase.cs:99 "Dispose native resources" |
| `DocLostFailure` | DocProviderExecutor.cs:221 adds to a set without a lock | IDocProvider.cs:49 |
| `DocLoggedError` | SharpGenTask.cs:357: a provider's errors become warnings | IDocProvider.cs:49 |
| `DocSharedQuery` | a strict provider's exception is taken for a lenient one's of the same query | IDocProvider.cs:49 |
| `CppThreadStatic` | ObjectTracker.cs:49: disposed of on another thread, an object stays listed | ObjectTracker.cs:168 "not yet disposed" |
| `CppFirstDictionary` | ObjectTracker.cs:50: the first two dictionaries of the process; one is lost with its objects | ObjectTracker.cs:168 |
| `CppDisposeInHandler` | DisposeBase.cs:52: a handler of Disposing that disposes | assertion in CppObject.cs:131 |
| `CppShared` with `NothingIsLost` | DisposeBase.cs:57 suppresses the finalizer for good: what an object is given after Dispose is lost when it is dropped | a leak |
| `DocOneProvider` with `NothingForgotten` without its last disjunct | DocItemCache.cs:52 truncates the file before the new text is there | a kill loses what was listed |
| `ExtensionsForeign` | ExtensibilityDriver.cs:42 never removes a reference: a build is documented by another project's extensions | that a build depends on its own project |
| `ExtensionsTwoContents` | names and assembly of a reference are read at different times | ExtensionFileReference.cs:29 |
| `ExtensionsNotCast` | a provider that is no IDocProvider is skipped when another was made | comment in ExtensionFileReference.cs:438 |
| `CallAborted` | CallableCodeGenerator.cs:109 and 133: no try, so a conversion that throws, to native or back, leaves what was allocated | a leak |
| `CallOutStruct` | what a function returns in an out struct is not freed | a leak; MarshalledElementFactory.cs:266 says why for pointers |
| `CallStaleOut` | CallableCodeGenerator.cs:145 converts results before the code is checked | reads what a failed function freed |
| `CallStaleOut` with `Permitted = {"dispose"}` and `ArgumentsUsable` | InterfaceMarshaller.cs:80 keeps an argument from the collector, not from `Dispose` | the caller must |
| `CallLateCallback` | `ToCallback` stands before the try: with the target gone, its exception enters native code | the catch that follows |
| `CallLateCallback` with `Permitted = {"raise"}` | `RaiseException` is called in the catch: what it throws enters native code | the catch itself |
| `CallLateCallback` with `Permitted = {"hresult"}` and `ExceptionIsFailure` | Result.cs:176: an exception's HResult may be no failure, and native code is told of none | Result.cs:176 |
| `CallOutStruct` with `FailureIsTold` | CallableCodeGenerator.cs:149 and 160: with check=false and a parameter used as return, a failing code is neither thrown nor returned | a failure the caller cannot see |
| `CallOutStruct` with `ReceiverUsable` | NativeInvocationCodeGenerator.cs:20 has no GC.KeepAlive(this): the object whose method is called may be collected in the call | the caller must keep it |
| `MappingCycle` | ConfigFile.cs:346: files that include each other end the process | that every load ends |
| `MappingDiamond` | a file without an Id that is included twice is loaded twice, and so are its rules | that a file counts once |

## What is not modelled, and the plan

The part left out of each modelled component is in its note in `PROJECT.json`.

All the modelled code is C#, with the build logic around it. The C and C++ files
of the repository are the headers castxml brings along (`src/CastXML`), compiler
intrinsics mostly, and small native libraries for tests: nothing in them has
behaviour of SharpGenTools, and no definition stands for them. Any measure that
counts only C and C++ lines will find none of them mapped.

Not modelled at all so far:

1. `Layout`: alignment, packing, unions, bit fields and vtable offsets, against
   definitions over bounded inputs; `Naming` (uniqueness of parameters and
   members) and `Properties` (pairs of methods) beside it.
2. `CppParsing`: the reading of castxml's elements, with references resolved
   before or after what they refer to.
3. In GeneratedCall, arrays and the relation of a length to its array; in
   ConfigFile, variables and the preprocessor.
4. The composition of Extensions with DocProviders, through the providers a
   build ends up with, and of GeneratedCall with CallbackBase.

Not proved for want of a module: `Served` and `LearntIsKept` speak of one
component each; with the composition in 4 it would follow that what a reference's
providers know ends up in the file.

Left out for good: the vendored CastXML and the setup interop (other products),
the syntax trees of code generation apart from the order of the calls in them,
the source generator, formatting, wording and logging, path utilities, tests and
samples.
