----------------------------- MODULE SharpGenTask -----------------------------
(***************************************************************************)
(* The MSBuild task that regenerates the C# bindings of one profile.       *)
(* Several MSBuild workers may execute the task for the same profile       *)
(* directory.  They are serialised by a named mutex; whether a worker has  *)
(* to regenerate is decided by three files kept beside the bindings: the   *)
(* dirty marker, the property cache and the inputs cache.                  *)
(*                                                                         *)
(* The profile directory is named by the hash of the task's settings, so   *)
(* every worker modelled here has the same settings.  A file is abstracted *)
(* to the versions of the inputs it was made from; its metadata (creation  *)
(* time, write time, length) to a number that changes with every write.    *)
(***************************************************************************)
EXTENDS Naturals

CONSTANTS
  Workers,            \* MSBuild processes that build the project
  NoWorker,           \* owner of a free mutex
  MaxVersion,         \* bound: the versions of an input
  LastVersion(_),     \* bound: the version an input is edited up to
  HeaderText(_),      \* text of the C++ header generated from a config version
  AllowCancel,        \* MSBuild may call Cancel
  AllowCrash,         \* a worker process may be killed
  AllowErrors,        \* a step may log an error
  AllowThrow,         \* a step may throw
  AllowWriteFailure,  \* writing the inputs cache may fail
  AllowDeleteFailure, \* deleting the dirty marker may fail
  EditsDuringRun      \* the user may edit inputs while a worker is running

ASSUME NoWorkerAssumption == NoWorker \notin Workers
ASSUME VersionAssumption == MaxVersion \in Nat \ {0}
ASSUME HeaderTextAssumption ==
  \A v \in 0..MaxVersion : HeaderText(v) \in Nat \ {0}
ASSUME FlagAssumption ==
  /\ AllowCancel \in BOOLEAN
  /\ AllowCrash \in BOOLEAN
  /\ AllowErrors \in BOOLEAN
  /\ AllowThrow \in BOOLEAN
  /\ AllowWriteFailure \in BOOLEAN
  /\ AllowDeleteFailure \in BOOLEAN
  /\ EditsDuringRun \in BOOLEAN

VARIABLES
  input,  \* version on disk of the config files and of the native headers
  disk,   \* the profile directory
  mutex,  \* the named mutex Global\<profile>
  pc,     \* the next step of every worker
  task    \* the fields and locals of every worker's SharpGenTask

vars == <<input, disk, mutex, pc, task>>

-----------------------------------------------------------------------------
(* Files.  Zero stands for an absent file and for an unlisted input.       *)

Sources == {"config", "native"}      \* edited by the user
Inputs == Sources \cup {"ext"}       \* what the inputs cache may list
Listing == [Inputs -> Nat]
Unlisted == [f \in Inputs |-> 0]

Versions == 0..MaxVersion
ASSUME LastVersionAssumption == \A f \in Sources : LastVersion(f) \in 1..MaxVersion

Extension == [stamp : Nat, text : Nat, native : Versions, complete : BOOLEAN]
TornExtension(n) == [stamp |-> n, text |-> 0, native |-> 0, complete |-> FALSE]
NoExtension == TornExtension(0)

Snapshot == [config : Versions, native : Versions, ext : Extension]
NoSnapshot == [config |-> 0, native |-> 0, ext |-> NoExtension]
Output == [from : Snapshot, complete : BOOLEAN]
NoOutput == [from |-> NoSnapshot, complete |-> FALSE]
Generated(s) == [from |-> s, complete |-> TRUE]
TornOutput == NoOutput

EmptyDisk ==
  [ dirty         |-> FALSE,
    propertyCache |-> "absent",
    inputsCache   |-> [exists |-> FALSE, list |-> Unlisted],
    configHeader  |-> 0,            \* 0: absent or truncated, equal to no text
    extHeader     |-> NoExtension,
    bindMapping   |-> NoOutput,
    bindings      |-> NoOutput ]

(* FileInfo of every input as it is now.                                   *)
Metadata(f) == IF f = "ext" THEN disk.extHeader.stamp ELSE input[f]

(* Seeded fault: a listed file only has to exist.                          *)
ListedFilesExist ==
  /\ disk.inputsCache.exists
  /\ \A f \in Inputs : disk.inputsCache.list[f] # 0 => Metadata(f) # 0

(* The entries of the inputs cache are compared with the files they name;  *)
(* a cache without entries is valid.                                       *)
IsInputsCacheValid ==
  /\ disk.inputsCache.exists
  /\ \A f \in Inputs : disk.inputsCache.list[f] # 0
                       => disk.inputsCache.list[f] = Metadata(f)

-----------------------------------------------------------------------------
(* Workers.                                                                *)

NewTask ==
  [ cancelled           |-> FALSE,      \* isCancellationRequested
    hasErrors           |-> FALSE,      \* Logger.HasErrors
    workerLockAcquired  |-> FALSE,
    cacheInvalid        |-> FALSE,
    regenerationStarted |-> FALSE,
    success             |-> FALSE,
    loaded              |-> 0,          \* version of the configs in memory
    preprocessed        |-> 0,          \* version the macro values come from
    included            |-> FALSE,      \* preprocessing met the extension header
    updated             |-> FALSE,      \* the config is one of UpdatedConfigs
    parsed              |-> NoSnapshot, \* what the C++ model was read from
    metadata            |-> Unlisted ]  \* inputsCacheList/MetadataFiles

Regenerating == {"loadConfig", "recordConfig", "headers", "preprocess",
                 "recordIncludes", "extension", "recordExtension", "parse",
                 "transform", "document", "write"}
Finishing == {"finallyInputs", "finallyDirty", "release"}
Labels == {"idle", "waiting", "timedOut", "checkCaches", "checkInputs", "mark"}
          \cup Regenerating \cup Finishing

AbortExecution(w) == task[w].hasErrors \/ task[w].cancelled

(* Whether a step that may log errors leaves HasErrors set.                *)
ErrorOutcomes(w) == {task[w].hasErrors} \cup (IF AllowErrors THEN {TRUE} ELSE {})

At(w, label) == pc[w] = label
Goto(w, label) == pc' = [pc EXCEPT ![w] = label]
GotoUnlessAborted(w, label) ==
  Goto(w, IF AbortExecution(w) THEN "finallyInputs" ELSE label)

(* A named mutex exists while somebody has it open; every worker that is   *)
(* not idle has.  With the last handle goes the abandoned state too.  The  *)
(* mutex is kept when a build of its owner ended and did not release it.   *)
OpenedByOthers(w) == \E v \in Workers \ {w} : pc[v] # "idle"
Relinquish(w, abandoned) ==
  mutex' = [owner     |-> IF mutex.owner = w THEN NoWorker ELSE mutex.owner,
            abandoned |-> /\ OpenedByOthers(w)
                          /\ \/ mutex.abandoned
                             \/ abandoned /\ mutex.owner = w,
            kept      |-> mutex.kept /\ mutex.owner # w]

Init ==
  /\ input = [f \in Sources |-> 1]
  /\ disk = EmptyDisk
  /\ mutex = [owner |-> NoWorker, abandoned |-> FALSE, kept |-> FALSE]
  /\ pc = [w \in Workers |-> "idle"]
  /\ task = [w \in Workers |-> NewTask]

-----------------------------------------------------------------------------
(* Execute, up to the decision whether to regenerate.                      *)

Start(w) ==
  /\ At(w, "idle")
  /\ Goto(w, "waiting")
  /\ UNCHANGED <<input, disk, mutex, task>>

(* WaitOne returns, or throws AbandonedMutexException and owns the mutex.  *)
(* The thread that kept the mutex acquires it once more.                   *)
AcquireLock(w) ==
  /\ At(w, "waiting")
  /\ mutex.owner \in {w, NoWorker}
  /\ mutex' = [mutex EXCEPT !.owner = w, !.abandoned = FALSE]
  /\ task' = [task EXCEPT ![w].workerLockAcquired = TRUE,
                          ![w].cacheInvalid = mutex.abandoned]
  /\ Goto(w, "checkCaches")
  /\ UNCHANGED <<input, disk>>

(* WaitOne returns false after five seconds; also in the process that kept *)
(* the mutex, when the build runs on another of its threads.               *)
WaitTimesOut(w) ==
  /\ At(w, "waiting")
  /\ mutex.owner # NoWorker
  /\ Goto(w, "timedOut")
  /\ UNCHANGED <<input, disk, mutex, task>>

(* The wait goes on unless the build was cancelled: then                   *)
(* GeneratePropertyCache returns true, and Execute goes on to ExecuteImpl. *)
WaitOrAbort(w) ==
  /\ At(w, "timedOut")
  /\ Goto(w, IF AbortExecution(w) THEN "mark" ELSE "waiting")
  /\ UNCHANGED <<input, disk, mutex, task>>

(* Seeded fault: the file written is not the text it was compared with.    *)
WriteOtherText(w) ==
  /\ At(w, "checkCaches")
  /\ Goto(w, "mark")
  /\ disk' = [disk EXCEPT !.propertyCache = "other"]
  /\ UNCHANGED <<input, mutex, task>>

(* The rest of GeneratePropertyCache.  The property cache holds what the   *)
(* profile directory is named after: if it is there it matches.            *)
GeneratePropertyCache(w) ==
  /\ At(w, "checkCaches")
  /\ LET invalid == \/ disk.dirty
                    \/ task[w].cacheInvalid
                    \/ disk.propertyCache # "current"
     IN  /\ task' = [task EXCEPT ![w].cacheInvalid = invalid]
         /\ Goto(w, IF invalid THEN "mark" ELSE "checkInputs")
  /\ disk' = [disk EXCEPT !.propertyCache = "current"]
  /\ UNCHANGED <<input, mutex>>

CheckInputsCache(w) ==
  /\ At(w, "checkInputs")
  /\ IF AbortExecution(w) \/ IsInputsCacheValid
     THEN /\ task' = [task EXCEPT ![w].success = ~AbortExecution(w)]
          /\ Goto(w, "finallyInputs")
     ELSE Goto(w, "mark") /\ UNCHANGED task
  /\ UNCHANGED <<input, disk, mutex>>

-----------------------------------------------------------------------------
(* ExecuteImpl.                                                            *)

(* Seeded fault: no check for an abort after the marker is written.        *)
MarkAndGoOn(w) ==
  /\ At(w, "mark")
  /\ disk' = [disk EXCEPT !.dirty = TRUE]
  /\ task' = [task EXCEPT ![w].regenerationStarted = TRUE]
  /\ Goto(w, "loadConfig")
  /\ UNCHANGED <<input, mutex>>

(* Seeded fault: an abandoned mutex is taken for a marker already there.   *)
MarkUnlessInvalid(w) ==
  /\ At(w, "mark")
  /\ disk' = [disk EXCEPT !.dirty = @ \/ ~task[w].cacheInvalid]
  /\ task' = [task EXCEPT ![w].regenerationStarted = TRUE]
  /\ GotoUnlessAborted(w, "loadConfig")
  /\ UNCHANGED <<input, mutex>>

MarkDirty(w) ==
  /\ At(w, "mark")
  /\ disk' = [disk EXCEPT !.dirty = TRUE]
  /\ task' = [task EXCEPT ![w].regenerationStarted = TRUE]
  /\ GotoUnlessAborted(w, "loadConfig")
  /\ UNCHANGED <<input, mutex>>

LoadConfig(w) ==
  /\ At(w, "loadConfig")
  /\ \E e \in ErrorOutcomes(w) :
       task' = [task EXCEPT ![w].loaded = input["config"], ![w].hasErrors = e]
  /\ Goto(w, "recordConfig")
  /\ UNCHANGED <<input, disk, mutex>>

(* AddInputsCacheFiles(config.ConfigFilesLoaded): the metadata is taken    *)
(* after the files were read.                                              *)
RecordConfig(w) ==
  /\ At(w, "recordConfig")
  /\ task' = [task EXCEPT ![w].metadata["config"] = Metadata("config")]
  /\ Goto(w, "headers")
  /\ UNCHANGED <<input, disk, mutex>>

GenerateCppHeaders(w) ==
  /\ At(w, "headers")
  /\ LET text == HeaderText(task[w].loaded)
     IN  /\ task' = [task EXCEPT ![w].updated = (disk.configHeader # text)]
         /\ disk' = [disk EXCEPT !.configHeader = text]
  /\ GotoUnlessAborted(w, "preprocess")
  /\ UNCHANGED <<input, mutex>>

(* MacroManager.Parse: castxml expands the config header, which includes   *)
(* the extension header when there is one.  When castxml fails the macros  *)
(* are incomplete, and the task goes on with what it has.                  *)
Preprocess(w) ==
  /\ At(w, "preprocess")
  /\ \E e \in ErrorOutcomes(w) :
       task' = [task EXCEPT ![w].preprocessed = IF e THEN 0 ELSE input["native"],
                            ![w].included = (disk.extHeader.stamp # 0),
                            ![w].hasErrors = e]
  /\ Goto(w, "recordIncludes")
  /\ UNCHANGED <<input, disk, mutex>>

RecordIncludes(w) ==
  /\ At(w, "recordIncludes")
  /\ task' = [task EXCEPT
                ![w].metadata["native"] = Metadata("native"),
                ![w].metadata["ext"] = IF task[w].included THEN Metadata("ext")
                                                           ELSE 0]
  /\ Goto(w, "extension")
  /\ UNCHANGED <<input, disk, mutex>>

(* Only the configs whose header was rewritten get a new extension header; *)
(* the values of the macros are written into it.                           *)
GenerateExtensionHeaders(w) ==
  /\ At(w, "extension")
  /\ disk' = IF task[w].updated
             THEN [disk EXCEPT !.extHeader =
                     [stamp    |-> disk.extHeader.stamp + 1,
                      text     |-> HeaderText(task[w].loaded),
                      native   |-> task[w].preprocessed,
                      complete |-> TRUE]]
             ELSE disk
  /\ Goto(w, "recordExtension")
  /\ UNCHANGED <<input, mutex, task>>

(* AddInputsCacheFiles(extension headers): a file that is not there makes  *)
(* FileInfo.Length throw; one already listed keeps its first metadata.     *)
RecordExtension(w) ==
  /\ At(w, "recordExtension")
  /\ IF disk.extHeader.stamp = 0
     THEN Goto(w, "finallyInputs") /\ UNCHANGED task
     ELSE /\ task' = [task EXCEPT ![w].metadata["ext"] =
                        IF @ = 0 THEN Metadata("ext") ELSE @]
          /\ GotoUnlessAborted(w, "parse")
  /\ UNCHANGED <<input, disk, mutex>>

(* The outcome of a step followed by "if (AbortExecution) return false".   *)
LogThenGoto(w, new, label) ==
  \E e \in ErrorOutcomes(w) :
    /\ task' = [task EXCEPT ![w] = [new EXCEPT !.hasErrors = e]]
    /\ Goto(w, IF e \/ task[w].cancelled THEN "finallyInputs" ELSE label)

Parse(w) ==
  /\ At(w, "parse")
  /\ LogThenGoto(w, [task[w] EXCEPT !.parsed = [config |-> task[w].loaded,
                                                native |-> input["native"],
                                                ext    |-> disk.extHeader]],
                 "transform")
  /\ UNCHANGED <<input, disk, mutex>>

(* The mapping of the model; the bind mapping for consumers is written     *)
(* whether or not errors were logged.                                      *)
Transform(w) ==
  /\ At(w, "transform")
  /\ disk' = [disk EXCEPT !.bindMapping = Generated(task[w].parsed)]
  /\ LogThenGoto(w, task[w], "document")
  /\ UNCHANGED <<input, mutex>>

Document(w) ==
  /\ At(w, "document")
  /\ LogThenGoto(w, task[w], "write")
  /\ UNCHANGED <<input, disk, mutex>>

WriteBindings(w) ==
  /\ At(w, "write")
  /\ disk' = [disk EXCEPT !.bindings = Generated(task[w].parsed)]
  /\ \E e \in ErrorOutcomes(w) :
       task' = [task EXCEPT ![w].hasErrors = e, ![w].success = ~e]
  /\ Goto(w, "finallyInputs")
  /\ UNCHANGED <<input, mutex>>

-----------------------------------------------------------------------------
(* The finally block of Execute.                                           *)

(* The files a list of inputs may name when its tail was not written.      *)
Prefixes == {{}, {"config"}, Sources}
Truncated(list, p) == [f \in Inputs |-> IF f \in p THEN list[f] ELSE 0]

(* Seeded fault: an inputs cache that exists is not written again.         *)
KeepInputsCache(w) ==
  /\ At(w, "finallyInputs")
  /\ disk' = IF task[w].regenerationStarted /\ ~disk.inputsCache.exists
             THEN [disk EXCEPT !.inputsCache =
                     [exists |-> TRUE, list |-> task[w].metadata]]
             ELSE disk
  /\ Goto(w, "finallyDirty")
  /\ UNCHANGED <<input, mutex, task>>

GenerateInputsCache(w) ==
  /\ At(w, "finallyInputs")
  /\ disk' = IF task[w].regenerationStarted
             THEN [disk EXCEPT !.inputsCache =
                     [exists |-> TRUE, list |-> task[w].metadata]]
             ELSE disk
  /\ Goto(w, "finallyDirty")
  /\ UNCHANGED <<input, mutex, task>>

(* Opening the file fails, or copying the text to it: only a warning.      *)
InputsCacheWriteFails(w) ==
  /\ AllowWriteFailure
  /\ At(w, "finallyInputs")
  /\ task[w].regenerationStarted
  /\ \/ UNCHANGED disk
     \/ \E p \in Prefixes :
          disk' = [disk EXCEPT !.inputsCache =
                     [exists |-> TRUE, list |-> Truncated(task[w].metadata, p)]]
  /\ Goto(w, "finallyDirty")
  /\ UNCHANGED <<input, mutex, task>>

(* Seeded fault: the marker is removed whatever the outcome.               *)
AlwaysRemoveMarker(w) ==
  /\ At(w, "finallyDirty")
  /\ disk' = [disk EXCEPT !.dirty = FALSE]
  /\ Goto(w, "release")
  /\ UNCHANGED <<input, mutex, task>>

RemoveDirtyMarker(w) ==
  /\ At(w, "finallyDirty")
  /\ disk' = [disk EXCEPT !.dirty =
                @ /\ ~(task[w].success /\ ~AbortExecution(w))]
  /\ Goto(w, "release")
  /\ UNCHANGED <<input, mutex, task>>

(* File.Delete throws, out of the finally block and of Execute: the mutex  *)
(* is neither released nor disposed of, and the thread lives on.           *)
DeleteMarkerFails(w) ==
  /\ AllowDeleteFailure
  /\ At(w, "finallyDirty")
  /\ task[w].success /\ ~AbortExecution(w) /\ disk.dirty
  /\ mutex' = [mutex EXCEPT !.kept = TRUE]
  /\ task' = [task EXCEPT ![w] = NewTask]
  /\ Goto(w, "idle")
  /\ UNCHANGED <<input, disk>>

(* Seeded fault: the mutex is disposed of without being released.          *)
KeepLock(w) ==
  /\ At(w, "release")
  /\ task' = [task EXCEPT ![w] = NewTask]
  /\ Goto(w, "idle")
  /\ UNCHANGED <<input, disk, mutex>>

(* A thread that acquired the mutex twice releases it once.                *)
ReleaseLock(w) ==
  /\ At(w, "release")
  /\ IF mutex.kept /\ mutex.owner = w THEN UNCHANGED mutex ELSE Relinquish(w, FALSE)
  /\ task' = [task EXCEPT ![w] = NewTask]   \* the next build is a new task
  /\ Goto(w, "idle")
  /\ UNCHANGED <<input, disk>>

-----------------------------------------------------------------------------
(* What may happen at any time.                                            *)

(* The profile directory when a worker stops in the middle of its step:    *)
(* a file is truncated when it is opened and written afterwards.           *)
InterruptedWrites(w) ==
  CASE At(w, "checkCaches") /\ disk.propertyCache # "current" ->
         {disk, [disk EXCEPT !.propertyCache = "torn"]}
    [] At(w, "headers") /\ disk.configHeader # HeaderText(task[w].loaded) ->
         {disk, [disk EXCEPT !.configHeader = 0]}
    [] At(w, "extension") /\ task[w].updated ->
         {disk, [disk EXCEPT !.extHeader =
                   TornExtension(disk.extHeader.stamp + 1)]}
    [] At(w, "transform") -> {disk, [disk EXCEPT !.bindMapping = TornOutput]}
    [] At(w, "write") -> {disk, [disk EXCEPT !.bindings = TornOutput]}
    [] At(w, "finallyInputs") /\ task[w].regenerationStarted ->
         {disk} \cup
         {[disk EXCEPT !.inputsCache =
             [exists |-> TRUE, list |-> Truncated(task[w].metadata, p)]]
            : p \in Prefixes}
    [] OTHER -> {disk}

(* An exception leaves the try block: Execute fails through finally.       *)
Throw(w) ==
  /\ AllowThrow
  /\ pc[w] \in Regenerating \cup {"checkCaches", "checkInputs", "mark"}
  /\ disk' \in InterruptedWrites(w)
  /\ Goto(w, "finallyInputs")
  /\ UNCHANGED <<input, mutex, task>>

Cancel(w) ==
  /\ AllowCancel
  /\ ~At(w, "idle")
  /\ ~task[w].cancelled
  /\ task' = [task EXCEPT ![w].cancelled = TRUE]
  /\ UNCHANGED <<input, disk, mutex, pc>>

(* The process of the worker is killed; the system abandons its mutex.     *)
Crash(w) ==
  /\ AllowCrash
  /\ ~At(w, "idle")
  /\ disk' \in InterruptedWrites(w)
  /\ Relinquish(w, TRUE)
  /\ task' = [task EXCEPT ![w] = NewTask]
  /\ Goto(w, "idle")
  /\ UNCHANGED input

(* The thread that kept the mutex ends, or its process does, and the mutex *)
(* is abandoned; or the handle it left is collected and was the last one.  *)
KeptLockEnds(w) ==
  /\ At(w, "idle")
  /\ mutex.owner = w
  /\ Relinquish(w, TRUE)
  /\ UNCHANGED <<input, disk, pc, task>>

Edit(f) ==
  /\ input[f] < LastVersion(f)
  /\ EditsDuringRun \/ \A w \in Workers : At(w, "idle")
  /\ input' = [input EXCEPT ![f] = @ + 1]
  /\ UNCHANGED <<disk, mutex, pc, task>>

Decide(w) == \/ AcquireLock(w) \/ WaitTimesOut(w) \/ WaitOrAbort(w)
             \/ GeneratePropertyCache(w) \/ CheckInputsCache(w)
ExecuteImpl(w) ==
  \/ MarkDirty(w) \/ LoadConfig(w) \/ RecordConfig(w) \/ GenerateCppHeaders(w)
  \/ Preprocess(w) \/ RecordIncludes(w) \/ GenerateExtensionHeaders(w)
  \/ RecordExtension(w) \/ Parse(w) \/ Transform(w) \/ Document(w)
  \/ WriteBindings(w)
Finally(w) == GenerateInputsCache(w) \/ InputsCacheWriteFails(w)
              \/ RemoveDirtyMarker(w) \/ DeleteMarkerFails(w) \/ ReleaseLock(w)
Interruption(w) == Throw(w) \/ Cancel(w) \/ Crash(w) \/ KeptLockEnds(w)

Next ==
  \/ \E w \in Workers : Start(w) \/ Decide(w) \/ ExecuteImpl(w) \/ Finally(w)
                        \/ Interruption(w)
  \/ \E f \in Sources : Edit(f)

Spec == Init /\ [][Next]_vars

(* A worker that can take its next step takes it.  Nothing makes a user    *)
(* edit, cancel, kill or start; nothing makes the kernel prefer a waiter.  *)
Fairness == \A w \in Workers : WF_vars(Decide(w) \/ ExecuteImpl(w) \/ Finally(w))
FairSpec == Spec /\ Fairness

-----------------------------------------------------------------------------
(* Properties.                                                             *)

Task ==
  [ cancelled : BOOLEAN, hasErrors : BOOLEAN, workerLockAcquired : BOOLEAN,
    cacheInvalid : BOOLEAN, regenerationStarted : BOOLEAN, success : BOOLEAN,
    loaded : Versions, preprocessed : Versions, included : BOOLEAN, updated : BOOLEAN,
    parsed : Snapshot, metadata : Listing ]
Disk ==
  [ dirty : BOOLEAN, propertyCache : {"absent", "torn", "current"},
    inputsCache : [exists : BOOLEAN, list : Listing], configHeader : Nat,
    extHeader : Extension, bindMapping : Output, bindings : Output ]
Mutex == [owner : Workers \cup {NoWorker}, abandoned : BOOLEAN, kept : BOOLEAN]

(* Every variable holds a value the program's fields and files can hold.   *)
TypeOK ==
  /\ input \in [Sources -> Versions]
  /\ disk \in Disk
  /\ mutex \in Mutex
  /\ pc \in [Workers -> Labels]
  /\ task \in [Workers -> Task]

(* A worker believes it acquired the mutex only when it owns it, so that   *)
(* ReleaseMutex never throws; and a worker that owns it believes so, also  *)
(* after crashes and after a wait given up, unless a marker that could not *)
(* be deleted made an earlier build of its keep it (Execute's finally).    *)
LockMatchesFlag ==
  \A w \in Workers : /\ task[w].workerLockAcquired => mutex.owner = w
                     /\ mutex.owner = w => \/ task[w].workerLockAcquired
                                           \/ mutex.kept

(* Whatever is cancelled or killed, at most one worker is between the      *)
(* first read and the last write of generated files, and it owns the       *)
(* mutex: a wait that was given up ends before LoadConfig.                 *)
OneGenerator ==
  \A w \in Workers : pc[w] \in Regenerating => mutex.owner = w

(* Without the dirty marker the bindings and the consumers' bind mapping   *)
(* are whole and come from one and the same parse: no crash, exception or  *)
(* cancellation leaves a half-made pair that the next build would trust.   *)
CleanMeansConsistent ==
  ~disk.dirty => disk.bindings = disk.bindMapping

(* What the bindings are generated from is what the inputs are now.        *)
UpToDate(out) ==
  /\ out.complete
  /\ out.from.config = input["config"]
  /\ out.from.native = input["native"]

(* A build that reports success leaves bindings and bind mapping made from *)
(* the inputs as they are, whether it regenerated or trusted the caches.   *)
SuccessMeansUpToDate ==
  \A w \in Workers :
    At(w, "release") /\ task[w].success
      => UpToDate(disk.bindings) /\ UpToDate(disk.bindMapping)

(* No interleaving of waiting, working, failing, cancelled and dying       *)
(* workers leaves a worker waiting for ever: once no new builds are        *)
(* started, every build in progress ends, unless the mutex is kept by the  *)
(* living thread of a build whose marker could not be deleted.  (While     *)
(* others keep starting, a waiter may time out just when the mutex is      *)
(* free.)                                                                  *)
EveryBuildEnds ==
  <>[][\A w \in Workers : ~Start(w)]_vars
    => \A w \in Workers : ~At(w, "idle") ~> At(w, "idle") \/ mutex.kept

(* Refinement.  Only bindings behind which no marker stands are trusted,   *)
(* and a pair of bindings and bind mapping counts when it is one pair.     *)
TrustedOutput ==
  IF /\ ~disk.dirty
     /\ disk.bindings.complete
     /\ disk.bindings = disk.bindMapping
  THEN [f \in Sources |-> disk.bindings.from[f]]
  ELSE [f \in Sources |-> 0]

Progress(w) ==
  CASE At(w, "idle") -> "none"
    [] At(w, "release") /\ task[w].success -> "succeeded"
    [] OTHER -> "running"

Abstract == INSTANCE IncrementalBuild WITH
  Builders <- Workers,
  Files    <- Sources,
  MaxEdits <- LastVersion,
  sources  <- input,
  bindings <- TrustedOutput,
  build    <- [w \in Workers |-> Progress(w)]

(* The mutex, the marker and the two caches together make a build of       *)
(* several workers, some of which fail or are killed, look like one step   *)
(* that makes the bindings those of the inputs: no success is reported on  *)
(* anything else, and nobody touches them before the report is returned.   *)
ImplementsIncrementalBuild == Abstract!AbsSpec

(* Sdk.targets, line 151: the inputs cache is the list of headers and      *)
(* configs loaded during the last run.  Stated for a profile that is clean *)
(* and at rest.                                                            *)
InputsCacheListsLoaded ==
  (~disk.dirty /\ disk.bindings.complete /\ \A w \in Workers : At(w, "idle"))
    => \A f \in Sources : disk.inputsCache.list[f] = disk.bindings.from[f]

(* SharpGenTask.InputsCache.cs, line 175: a corrupt cache is invalidated.  *)
(* A cache whose tail is missing is not taken for a valid one.             *)
CorruptCacheIsInvalid ==
  (~disk.dirty /\ disk.bindings.complete /\ \A w \in Workers : At(w, "idle"))
    => (IsInputsCacheValid => \A f \in Sources : disk.inputsCache.list[f] # 0)

(* SharpGenTask.InputsCache.cs, line 94: a file listed twice has the same  *)
(* metadata both times.                                                    *)
ListedTwiceAgrees ==
  \A w \in Workers :
    At(w, "recordExtension") /\ task[w].metadata["ext"] # 0
      => task[w].metadata["ext"] = Metadata("ext")

(* SharpGenTask.PropertyCache.cs, line 86: a dirty marker requests a full  *)
(* regeneration.  A build that succeeds after it used an extension header  *)
(* that is whole and made from the loaded rules.                           *)
DirtyRegeneratesFully ==
  \A w \in Workers :
    At(w, "release") /\ task[w].success
      => /\ disk.bindings.from.ext.complete
         /\ disk.bindings.from.ext.text = HeaderText(disk.bindings.from.config)

(* docs/custom-mapping.rst, line 127: the enumeration made of macros is    *)
(* created during the parsing process.  A build that succeeds has the      *)
(* enumeration's values from the headers it parsed.                        *)
MacroEnumsAreParsed ==
  \A w \in Workers :
    At(w, "release") /\ task[w].success
      => disk.bindings.from.ext.native = disk.bindings.from.native
=============================================================================
