------------------------ MODULE SharpGenTaskRefinement ------------------------
(***************************************************************************)
(* SharpGenTask implements IncrementalBuild, for every set of workers and  *)
(* every bound: whoever trusts the caches finds bindings of the inputs as  *)
(* they are, whatever was killed and whatever failed before.               *)
(***************************************************************************)
EXTENDS SharpGenTaskProofs

(* What the theorems of this module need of the environment.  A cancelled  *)
(* wait, an inputs cache that cannot be written and an edit under the      *)
(* hands of a build each break the promise: the runs that expect a         *)
(* violation and the README's scenarios show how.                          *)
Undisturbed == ~AllowCancel /\ ~AllowWriteFailure /\ ~EditsDuringRun

(* The steps of ExecuteImpl from a label on.                               *)
FromWrite == {"write"}
FromDocument == {"document"} \cup FromWrite
FromTransform == {"transform"} \cup FromDocument
FromExtension == {"extension", "recordExtension", "parse"} \cup FromTransform
FromHeaders == {"headers", "preprocess", "recordIncludes"} \cup FromExtension
FromRecordConfig == {"recordConfig"} \cup FromHeaders

(* A worker without the mutex has done nothing yet.                        *)
WaiterInv(w) ==
  IF pc[w] \in Unlocked THEN task[w] = NewTask ELSE mutex.owner = w

(* What a worker has read so far is what is on disk: nobody edits.         *)
ReadInv(w) ==
  /\ pc[w] \in FromRecordConfig => task[w].loaded = input["config"]
  /\ pc[w] \in FromHeaders => task[w].metadata["config"] = input["config"]
  /\ pc[w] \in FromExtension => task[w].metadata["native"] = input["native"]
  /\ pc[w] \in FromTransform
       => /\ task[w].parsed.config = input["config"]
          /\ task[w].parsed.native = input["native"]

(* The marker, and whether this worker has put it there.                   *)
MarkerInv(w) ==
  /\ pc[w] \in {"checkCaches", "checkInputs", "mark"} => ~task[w].regenerationStarted
  /\ pc[w] \in Regenerating => task[w].regenerationStarted
  /\ pc[w] = "checkInputs" => ~disk.dirty
  /\ pc[w] = "finallyInputs" /\ task[w].regenerationStarted => disk.dirty
  /\ pc[w] = "finallyDirty" /\ task[w].regenerationStarted => disk.dirty
  /\ task[w].success /\ ~task[w].regenerationStarted => ~disk.dirty
  /\ task[w].success /\ pc[w] = "release" => ~disk.dirty

ListedSources(list) == \A f \in Sources : list[f] = input[f]

(* What a worker that is going to report success leaves behind.            *)
SuccessInv(w) ==
  task[w].success
    => /\ ~AbortExecution(w)
       /\ UpToDate(disk.bindings)
       /\ task[w].regenerationStarted /\ pc[w] = "finallyInputs"
            => ListedSources(task[w].metadata)
       /\ ~(task[w].regenerationStarted /\ pc[w] = "finallyInputs")
            => disk.inputsCache.exists /\ ListedSources(disk.inputsCache.list)

BuildInvOf(w) ==
  /\ ~task[w].cancelled
  /\ WaiterInv(w)
  /\ ReadInv(w)
  /\ MarkerInv(w)
  /\ SuccessInv(w)

(* Without the marker the inputs cache lists what whole bindings were made *)
(* from, and there is no inputs cache without whole bindings.              *)
CacheInv ==
  ~disk.dirty
    => /\ disk.inputsCache.exists => disk.bindings.complete
       /\ disk.bindings.complete
            => \A f \in Sources : /\ disk.inputsCache.list[f] = disk.bindings.from[f]
                                  /\ disk.inputsCache.list[f] # 0

BuildInv ==
  /\ \A f \in Sources : input[f] # 0
  /\ \A w \in Workers : BuildInvOf(w)
  /\ CacheInv

-----------------------------------------------------------------------------
(* The steps of the other workers.                                         *)

LEMMA OthersWait ==
  ASSUME BuildInv, NEW u \in Workers, mutex.owner \in {u, NoWorker}
  PROVE  \A w \in Workers : w # u => pc[w] \in Unlocked
BY NoWorkerAssumption DEF BuildInv, BuildInvOf, WaiterInv

LEMMA BuildOther ==
  ASSUME NEW w \in Workers, BuildInvOf(w), task'[w] = task[w], pc'[w] = pc[w],
         pc[w] \in Unlocked \/ UNCHANGED <<input, disk, mutex>>
  PROVE  BuildInvOf(w)'
<1>1. CASE pc[w] \in Unlocked
  <2>1. task'[w] = NewTask /\ pc'[w] \in Unlocked
    BY <1>1 DEF BuildInvOf, WaiterInv
  <2>2. /\ pc'[w] \notin Regenerating
        /\ pc'[w] \notin FromRecordConfig \cup FromHeaders \cup FromExtension \cup FromTransform
        /\ pc'[w] \notin {"checkCaches", "checkInputs", "mark"} \cup Finishing
    BY <2>1 DEF Unlocked, Regenerating, Finishing, FromRecordConfig, FromHeaders,
                FromExtension, FromTransform, FromDocument, FromWrite
  <2>3. ~NewTask.success /\ ~NewTask.cancelled
    BY DEF NewTask
  <2>4. QED
    BY <2>1, <2>2, <2>3
       DEF BuildInvOf, WaiterInv, ReadInv, MarkerInv, SuccessInv, Finishing
<1>2. CASE UNCHANGED <<input, disk, mutex>>
  BY <1>2 DEF BuildInvOf, WaiterInv, ReadInv, MarkerInv, SuccessInv, AbortExecution,
              UpToDate, ListedSources
<1>3. QED
  BY <1>1, <1>2

(* A step of the owner, or one that takes the free mutex: only what it     *)
(* does to its own worker and to the caches has to be looked at.           *)
Touches(u) == \A w \in Workers : w # u => task'[w] = task[w] /\ pc'[w] = pc[w]

LEMMA OwnerStep ==
  ASSUME BuildInv, NEW u \in Workers, mutex.owner \in {u, NoWorker}, Touches(u),
         UNCHANGED input, BuildInvOf(u)', CacheInv'
  PROVE  BuildInv'
<1>1. \A w \in Workers : w # u => BuildInvOf(w)'
  BY OthersWait, BuildOther DEF BuildInv, Touches
<1>2. QED
  BY <1>1 DEF BuildInv

LEMMA DecideBuild ==
  ASSUME Undisturbed, TypeOK, LockInv, OutputInv, BuildInv, NEW u \in Workers, Decide(u)
  PROVE  BuildInv'
<1> USE DEF Unlocked, Regenerating, Finishing, FromRecordConfig, FromHeaders,
            FromExtension, FromTransform, FromDocument, FromWrite
<1>0. /\ pc \in [Workers -> Labels]
      /\ task \in [Workers -> Task]
      /\ task[u] \in Task
      /\ disk \in Disk
  BY DEF TypeOK
<1>1. Touches(u) /\ UNCHANGED input
  BY <1>0 DEF Decide, AcquireLock, WaitTimesOut, WaitOrAbort,
              GeneratePropertyCache, CheckInputsCache, Goto, Touches
<1>2. /\ disk'.dirty = disk.dirty
      /\ disk'.inputsCache = disk.inputsCache
      /\ disk'.bindings = disk.bindings
  BY <1>0 DEF Decide, AcquireLock, WaitTimesOut, WaitOrAbort,
              GeneratePropertyCache, CheckInputsCache, Disk
<1>3. CacheInv'
  BY <1>2 DEF BuildInv, CacheInv
<1>4. BuildInvOf(u)
  BY DEF BuildInv
<1>5. CASE AcquireLock(u)
  <2>1. task[u] = NewTask /\ mutex.owner \in {u, NoWorker} /\ mutex'.owner = u
    BY <1>4, <1>5 DEF AcquireLock, At, BuildInvOf, WaiterInv, TypeOK, Mutex
  <2>2. pc'[u] = "checkCaches"
    BY <1>0, <1>5 DEF AcquireLock, Goto
  <2>3. ~task'[u].cancelled /\ ~task'[u].regenerationStarted /\ ~task'[u].success
    BY <1>0, <1>5, <2>1 DEF AcquireLock, NewTask
  <2>4. BuildInvOf(u)'
    BY <2>1, <2>2, <2>3 DEF BuildInvOf, WaiterInv, ReadInv, MarkerInv, SuccessInv
  <2>5. QED
    BY <1>1, <1>3, <2>1, <2>4, OwnerStep
<1>6. CASE WaitTimesOut(u) \/ WaitOrAbort(u)
  <2>1. task' = task /\ UNCHANGED <<input, disk, mutex>> /\ pc[u] \in {"waiting", "timedOut"}
    BY <1>6 DEF WaitTimesOut, WaitOrAbort, At
  <2>2. task[u] = NewTask
    BY <1>4, <2>1 DEF BuildInvOf, WaiterInv
  <2>3. pc'[u] \in {"waiting", "timedOut"}
    BY <1>0, <1>6, <2>2
       DEF WaitTimesOut, WaitOrAbort, Goto, AbortExecution, NewTask
  <2>4. BuildInvOf(u)'
    BY <1>4, <2>1, <2>2, <2>3
       DEF BuildInvOf, WaiterInv, ReadInv, MarkerInv, SuccessInv, NewTask
  <2>5. \A w \in Workers : w # u => BuildInvOf(w)'
    BY <1>1, <2>1, BuildOther DEF BuildInv, Touches
  <2>6. QED
    BY <1>1, <1>3, <2>4, <2>5 DEF BuildInv
<1>7. CASE GeneratePropertyCache(u)
  <2>1. mutex.owner = u /\ mutex'.owner = u /\ pc[u] = "checkCaches"
    BY <1>4, <1>7 DEF GeneratePropertyCache, At, BuildInvOf, WaiterInv
  <2>2. /\ pc'[u] \in {"mark", "checkInputs"}
        /\ pc'[u] = "checkInputs" => ~disk.dirty
    BY <1>0, <1>7 DEF GeneratePropertyCache, Goto
  <2>3. /\ task'[u].cancelled = task[u].cancelled
        /\ task'[u].regenerationStarted = task[u].regenerationStarted
        /\ task'[u].success = task[u].success
    BY <1>0, <1>7 DEF GeneratePropertyCache, Task
  <2>4. ~task[u].success
    BY <2>1 DEF LockInv, LockInvOf
  <2>5. BuildInvOf(u)'
    BY <1>2, <1>4, <2>1, <2>2, <2>3, <2>4
       DEF BuildInvOf, WaiterInv, ReadInv, MarkerInv, SuccessInv
  <2>6. QED
    BY <1>1, <1>3, <2>1, <2>5, OwnerStep
<1>8. CASE CheckInputsCache(u)
  <2>1. /\ mutex.owner = u /\ mutex'.owner = u /\ pc[u] = "checkInputs"
        /\ ~task[u].regenerationStarted /\ ~disk.dirty /\ ~task[u].cancelled
    BY <1>4, <1>8 DEF CheckInputsCache, At, BuildInvOf, WaiterInv, MarkerInv
  <2>2. ~task[u].success
    BY <2>1 DEF LockInv, LockInvOf
  <2>3. CASE AbortExecution(u) \/ IsInputsCacheValid
    <3>1. /\ task'[u].cancelled = task[u].cancelled
          /\ task'[u].hasErrors = task[u].hasErrors
          /\ task'[u].regenerationStarted = task[u].regenerationStarted
          /\ task'[u].success = ~AbortExecution(u)
          /\ pc'[u] = "finallyInputs"
          /\ disk' = disk
      BY <1>0, <1>8, <2>3 DEF CheckInputsCache, Goto, Task
    <3>2. ASSUME ~AbortExecution(u)
          PROVE  UpToDate(disk.bindings) /\ disk.inputsCache.exists
                 /\ ListedSources(disk.inputsCache.list)
      <4>1. disk.inputsCache.exists /\ disk.bindings.complete
        BY <2>1, <2>3, <3>2 DEF IsInputsCacheValid, BuildInv, CacheInv
      <4>2. \A f \in Sources : disk.inputsCache.list[f] = disk.bindings.from[f]
                               /\ disk.inputsCache.list[f] # 0
        BY <2>1, <4>1 DEF BuildInv, CacheInv
      <4>3. \A f \in Sources : f \in Inputs /\ Metadata(f) = input[f]
        BY DEF Sources, Inputs, Metadata
      <4>4. ListedSources(disk.inputsCache.list)
        BY <2>3, <3>2, <4>2, <4>3 DEF IsInputsCacheValid, ListedSources
      <4>5. disk.bindings.from \in Snapshot
        BY <1>0 DEF Disk, Output
      <4>6. QED
        BY <4>1, <4>2, <4>4, <4>5 DEF ListedSources, UpToDate, Sources, Snapshot
    <3>3. BuildInvOf(u)'
      BY <1>1, <2>1, <3>1, <3>2
         DEF BuildInvOf, WaiterInv, ReadInv, MarkerInv, SuccessInv, AbortExecution,
             UpToDate, ListedSources
    <3>4. QED
      BY <1>1, <1>3, <2>1, <3>3, OwnerStep
  <2>4. CASE ~(AbortExecution(u) \/ IsInputsCacheValid)
    <3>1. task' = task /\ pc'[u] = "mark"
      BY <1>0, <1>8, <2>4 DEF CheckInputsCache, Goto
    <3>2. BuildInvOf(u)'
      BY <2>1, <2>2, <3>1 DEF BuildInvOf, WaiterInv, ReadInv, MarkerInv, SuccessInv
    <3>3. QED
      BY <1>1, <1>3, <2>1, <3>2, OwnerStep
  <2>5. QED
    BY <2>3, <2>4
<1>9. QED
  BY <1>5, <1>6, <1>7, <1>8 DEF Decide

(* The steps of ExecuteImpl: the worker owns the mutex, the marker is      *)
(* there, and what it reads stays what is on disk.                         *)
LEMMA ExecuteImplBuild ==
  ASSUME Undisturbed, TypeOK, LockInv, OutputInv, BuildInv, NEW u \in Workers, ExecuteImpl(u)
  PROVE  BuildInv'
<1> USE DEF Unlocked, Regenerating, Finishing, FromRecordConfig, FromHeaders,
            FromExtension, FromTransform, FromDocument, FromWrite
<1>0. /\ pc \in [Workers -> Labels]
      /\ task \in [Workers -> Task]
      /\ task[u] \in Task
      /\ disk \in Disk
      /\ \A f \in Sources : f \in Inputs /\ Metadata(f) = input[f]
  BY DEF TypeOK, Sources, Inputs, Metadata
<1>1. Touches(u) /\ UNCHANGED <<input, mutex>>
  BY <1>0
     DEF ExecuteImpl, MarkDirty, LoadConfig, RecordConfig, GenerateCppHeaders,
         Preprocess, RecordIncludes, GenerateExtensionHeaders, RecordExtension,
         Parse, Transform, Document, WriteBindings, Goto, GotoUnlessAborted,
         LogThenGoto, Touches
<1>2. BuildInvOf(u) /\ mutex.owner = u
  BY DEF BuildInv, BuildInvOf, WaiterInv, ExecuteImpl, MarkDirty, LoadConfig,
         RecordConfig, GenerateCppHeaders, Preprocess, RecordIncludes,
         GenerateExtensionHeaders, RecordExtension, Parse, Transform, Document,
         WriteBindings, At
<1>3. ~task[u].success /\ (pc[u] # "mark" => disk.dirty /\ task[u].regenerationStarted)
  BY <1>2
     DEF LockInv, LockInvOf, OutputInv, OutputInvOf, BuildInvOf, MarkerInv,
         ExecuteImpl, MarkDirty, LoadConfig, RecordConfig, GenerateCppHeaders,
         Preprocess, RecordIncludes, GenerateExtensionHeaders, RecordExtension,
         Parse, Transform, Document, WriteBindings, At
<1>4. disk'.dirty
  BY <1>0, <1>3
     DEF ExecuteImpl, MarkDirty, LoadConfig, RecordConfig, GenerateCppHeaders,
         Preprocess, RecordIncludes, GenerateExtensionHeaders, RecordExtension,
         Parse, Transform, Document, WriteBindings, At, Disk
<1>5. SUFFICES BuildInvOf(u)'
  BY <1>1, <1>2, <1>4, OwnerStep DEF CacheInv
<1>6. WaiterInv(u)' /\ ~task[u].cancelled
  <2>1. pc'[u] \notin Unlocked
    BY <1>0
       DEF ExecuteImpl, MarkDirty, LoadConfig, RecordConfig, GenerateCppHeaders,
         Preprocess, RecordIncludes, GenerateExtensionHeaders, RecordExtension,
         Parse, Transform, Document, WriteBindings, Goto, GotoUnlessAborted,
         LogThenGoto
  <2>2. QED
    BY <1>1, <1>2, <2>1 DEF WaiterInv, BuildInvOf
<1> USE DEF BuildInvOf, ReadInv, MarkerInv, SuccessInv
<1>7. CASE MarkDirty(u)
  <2>1. /\ task'[u].cancelled = task[u].cancelled
        /\ task'[u].success = task[u].success
        /\ task'[u].regenerationStarted
        /\ pc'[u] \in {"loadConfig", "finallyInputs"}
    BY <1>0, <1>7 DEF MarkDirty, Goto, GotoUnlessAborted, Task
  <2>2. QED
    BY <1>3, <1>4, <1>6, <2>1
<1>8. CASE LoadConfig(u)
  <2>1. PICK e : task' = [task EXCEPT ![u].loaded = input["config"], ![u].hasErrors = e]
    BY <1>8 DEF LoadConfig
  <2> DEFINE new == [task[u] EXCEPT !.loaded = input["config"], !.hasErrors = e]
  <2>2. task'[u] = new
    BY <1>0, <2>1
  <2>3. /\ task'[u].cancelled = task[u].cancelled
        /\ task'[u].success = task[u].success
        /\ task'[u].regenerationStarted = task[u].regenerationStarted
        /\ task'[u].loaded = input["config"]
        /\ pc'[u] = "recordConfig" /\ pc[u] = "loadConfig"
    BY <1>0, <1>8, <2>2 DEF LoadConfig, At, Goto, Task
  <2>4. QED
    BY <1>1, <1>3, <1>4, <1>6, <2>3
<1>9. CASE RecordConfig(u)
  <2>1. /\ task'[u].cancelled = task[u].cancelled
        /\ task'[u].success = task[u].success
        /\ task'[u].regenerationStarted = task[u].regenerationStarted
        /\ task'[u].loaded = task[u].loaded
        /\ task'[u].metadata["config"] = input["config"]
        /\ pc'[u] = "headers" /\ pc[u] = "recordConfig"
    BY <1>0, <1>9 DEF RecordConfig, At, Goto, Task, Listing, Inputs, Sources
  <2>2. QED
    BY <1>1, <1>2, <1>3, <1>4, <1>6, <2>1
<1>10. CASE GenerateCppHeaders(u) \/ GenerateExtensionHeaders(u)
  <2>1. /\ task'[u].cancelled = task[u].cancelled
        /\ task'[u].success = task[u].success
        /\ task'[u].regenerationStarted = task[u].regenerationStarted
        /\ task'[u].loaded = task[u].loaded
        /\ task'[u].metadata = task[u].metadata
        /\ \/ pc[u] = "headers" /\ pc'[u] \in {"preprocess", "finallyInputs"}
           \/ pc[u] = "extension" /\ pc'[u] = "recordExtension"
    BY <1>0, <1>10 DEF GenerateCppHeaders, GenerateExtensionHeaders, At, Goto,
                       GotoUnlessAborted, Task
  <2>2. QED
    BY <1>1, <1>2, <1>3, <1>4, <1>6, <2>1
<1>11. CASE Preprocess(u)
  <2>1. PICK e :
          task' = [task EXCEPT ![u].preprocessed = IF e THEN 0 ELSE input["native"],
                               ![u].included = (disk.extHeader.stamp # 0),
                               ![u].hasErrors = e]
    BY <1>11 DEF Preprocess
  <2> DEFINE new == [task[u] EXCEPT
                       !.preprocessed = IF e THEN 0 ELSE input["native"],
                       !.included = (disk.extHeader.stamp # 0),
                       !.hasErrors = e]
  <2>2. task'[u] = new
    BY <1>0, <2>1
  <2>3. /\ task'[u].cancelled = task[u].cancelled
        /\ task'[u].success = task[u].success
        /\ task'[u].regenerationStarted = task[u].regenerationStarted
        /\ task'[u].loaded = task[u].loaded
        /\ task'[u].metadata = task[u].metadata
    BY <1>0, <2>2 DEF Task
  <2>4. pc[u] = "preprocess" /\ pc'[u] = "recordIncludes"
    BY <1>0, <1>11 DEF Preprocess, At, Goto
  <2>5. QED
    BY <1>1, <1>2, <1>3, <1>4, <1>6, <2>3, <2>4
<1>12. CASE RecordIncludes(u)
  <2>1. PICK ext : task' = [task EXCEPT ![u].metadata["native"] = Metadata("native"),
                                        ![u].metadata["ext"] = ext]
    BY <1>12 DEF RecordIncludes
  <2> DEFINE list == [task[u].metadata EXCEPT !["native"] = Metadata("native"),
                                              !["ext"] = ext]
             new == [task[u] EXCEPT !.metadata = list]
  <2>2. task'[u] = new
    BY <1>0, <2>1 DEF Task
  <2>3. list["native"] = input["native"] /\ list["config"] = task[u].metadata["config"]
    BY <1>0 DEF Task, Listing, Inputs, Sources
  <2>4. /\ task'[u].cancelled = task[u].cancelled
        /\ task'[u].success = task[u].success
        /\ task'[u].regenerationStarted = task[u].regenerationStarted
        /\ task'[u].loaded = task[u].loaded
        /\ task'[u].metadata = list
    BY <1>0, <2>2 DEF Task
  <2>5. pc[u] = "recordIncludes" /\ pc'[u] = "extension"
    BY <1>0, <1>12 DEF RecordIncludes, At, Goto
  <2>6. QED
    BY <1>1, <1>2, <1>3, <1>4, <1>6, <2>3, <2>4, <2>5
<1>13. CASE RecordExtension(u)
  <2>1. /\ task'[u].cancelled = task[u].cancelled
        /\ task'[u].success = task[u].success
        /\ task'[u].regenerationStarted = task[u].regenerationStarted
        /\ task'[u].loaded = task[u].loaded
        /\ \A f \in Sources : task'[u].metadata[f] = task[u].metadata[f]
    BY <1>0, <1>13 DEF RecordExtension, Task, Listing, Sources, Inputs
  <2>2. pc[u] = "recordExtension" /\ pc'[u] \in {"parse", "finallyInputs"}
    BY <1>0, <1>13 DEF RecordExtension, At, Goto, GotoUnlessAborted
  <2>3. QED
    BY <1>1, <1>2, <1>3, <1>4, <1>6, <2>1, <2>2 DEF Sources
<1>14. CASE Parse(u)
  <2> DEFINE model == [config |-> task[u].loaded, native |-> input["native"],
                       ext |-> disk.extHeader]
  <2>1. PICK e : task' = [task EXCEPT ![u] =
                            [[task[u] EXCEPT !.parsed = model] EXCEPT !.hasErrors = e]]
    BY <1>14 DEF Parse, LogThenGoto
  <2>2. /\ task'[u].cancelled = task[u].cancelled
        /\ task'[u].success = task[u].success
        /\ task'[u].regenerationStarted = task[u].regenerationStarted
        /\ task'[u].loaded = task[u].loaded
        /\ task'[u].metadata = task[u].metadata
        /\ task'[u].parsed = model
    BY <1>0, <2>1 DEF Task
  <2>3. pc[u] = "parse" /\ pc'[u] \in {"transform", "finallyInputs"}
    BY <1>0, <1>14 DEF Parse, LogThenGoto, At, Goto
  <2>4. QED
    BY <1>1, <1>2, <1>3, <1>4, <1>6, <2>2, <2>3
<1>15. CASE Transform(u) \/ Document(u)
  <2>1. /\ task'[u].cancelled = task[u].cancelled
        /\ task'[u].success = task[u].success
        /\ task'[u].regenerationStarted = task[u].regenerationStarted
        /\ task'[u].loaded = task[u].loaded
        /\ task'[u].metadata = task[u].metadata
        /\ task'[u].parsed = task[u].parsed
    BY <1>0, <1>15 DEF Transform, Document, LogThenGoto, Task
  <2>2. \/ pc[u] = "transform" /\ pc'[u] \in {"document", "finallyInputs"}
        \/ pc[u] = "document" /\ pc'[u] \in {"write", "finallyInputs"}
    BY <1>0, <1>15 DEF Transform, Document, LogThenGoto, At, Goto
  <2>3. QED
    BY <1>1, <1>2, <1>3, <1>4, <1>6, <2>1, <2>2
<1>16. CASE WriteBindings(u)
  <2>1. PICK e \in BOOLEAN :
          task' = [task EXCEPT ![u].hasErrors = e, ![u].success = ~e]
    BY <1>16, ErrorOutcomesType DEF WriteBindings
  <2> DEFINE new == [task[u] EXCEPT !.hasErrors = e, !.success = ~e]
  <2>2. task'[u] = new
    BY <1>0, <2>1
  <2>3. /\ task'[u].cancelled = task[u].cancelled
        /\ task'[u].hasErrors = e
        /\ task'[u].success = ~e
        /\ task'[u].regenerationStarted = task[u].regenerationStarted
        /\ task'[u].metadata = task[u].metadata
    BY <1>0, <2>2 DEF Task
  <2>4. pc[u] = "write" /\ pc'[u] = "finallyInputs"
    BY <1>0, <1>16 DEF WriteBindings, At, Goto
  <2>5. disk'.bindings = Generated(task[u].parsed)
    BY <1>0, <1>16 DEF WriteBindings, Disk
  <2>6. UpToDate(disk.bindings)'
    BY <1>1, <1>2, <2>4, <2>5 DEF UpToDate, Generated
  <2>7. QED
    BY <1>1, <1>2, <1>3, <1>4, <1>6, <2>3, <2>4, <2>6
       DEF ListedSources, Sources, AbortExecution
<1>17. QED
  BY <1>7, <1>8, <1>9, <1>10, <1>11, <1>12, <1>13, <1>14, <1>15, <1>16 DEF ExecuteImpl

LEMMA FinallyBuild ==
  ASSUME Undisturbed, TypeOK, LockInv, OutputInv, BuildInv, NEW u \in Workers, Finally(u)
  PROVE  BuildInv'
<1> USE DEF Unlocked, Regenerating, Finishing, FromRecordConfig, FromHeaders,
            FromExtension, FromTransform, FromDocument, FromWrite
<1>0. /\ pc \in [Workers -> Labels]
      /\ task \in [Workers -> Task]
      /\ disk \in Disk
  BY DEF TypeOK
<1>1. Touches(u) /\ UNCHANGED input
  BY <1>0 DEF Finally, GenerateInputsCache, InputsCacheWriteFails,
              RemoveDirtyMarker, DeleteMarkerFails, ReleaseLock, Goto, Touches
<1>2. BuildInvOf(u) /\ mutex.owner = u
  BY DEF BuildInv, BuildInvOf, WaiterInv, Finally, GenerateInputsCache,
         InputsCacheWriteFails, RemoveDirtyMarker, DeleteMarkerFails, ReleaseLock, At
<1> USE DEF BuildInvOf, WaiterInv, ReadInv, MarkerInv, SuccessInv
<1>3. CASE GenerateInputsCache(u)
  <2>1. /\ task' = task /\ mutex' = mutex
        /\ pc[u] = "finallyInputs" /\ pc'[u] = "finallyDirty"
        /\ disk'.dirty = disk.dirty
        /\ disk'.bindings = disk.bindings
    BY <1>0, <1>3 DEF GenerateInputsCache, At, Goto, Disk
  <2>2. CASE task[u].regenerationStarted
    <3>1. /\ disk.dirty
          /\ disk'.inputsCache = [exists |-> TRUE, list |-> task[u].metadata]
      BY <1>0, <1>2, <1>3, <2>1, <2>2 DEF GenerateInputsCache, Disk
    <3>2. BuildInvOf(u)'
      BY <1>1, <1>2, <2>1, <2>2, <3>1 DEF AbortExecution, UpToDate, ListedSources
    <3>3. QED
      BY <1>1, <1>2, <2>1, <3>1, <3>2, OwnerStep DEF CacheInv
  <2>3. CASE ~task[u].regenerationStarted
    <3>1. disk' = disk
      BY <1>3, <2>3 DEF GenerateInputsCache
    <3>2. BuildInvOf(u)'
      BY <1>1, <1>2, <2>1, <2>3, <3>1 DEF AbortExecution, UpToDate, ListedSources
    <3>3. QED
      BY <1>1, <1>2, <3>1, <3>2, OwnerStep DEF BuildInv, CacheInv
  <2>4. QED
    BY <2>2, <2>3
<1>4. CASE InputsCacheWriteFails(u)
  BY <1>4 DEF Undisturbed, InputsCacheWriteFails
<1>5. CASE RemoveDirtyMarker(u)
  <2>1. /\ task' = task /\ mutex' = mutex
        /\ pc[u] = "finallyDirty" /\ pc'[u] = "release"
        /\ disk'.inputsCache = disk.inputsCache
        /\ disk'.bindings = disk.bindings
        /\ disk'.dirty <=> (disk.dirty /\ ~(task[u].success /\ ~AbortExecution(u)))
    BY <1>0, <1>5 DEF RemoveDirtyMarker, At, Goto, Disk
  <2>2. BuildInvOf(u)'
    BY <1>1, <1>2, <2>1 DEF AbortExecution, UpToDate, ListedSources
  <2>3. CacheInv'
    <3>1. CASE task[u].success
      <4>1. /\ UpToDate(disk.bindings)
            /\ disk.inputsCache.exists /\ ListedSources(disk.inputsCache.list)
        BY <1>2, <2>1, <3>1
      <4>2. \A f \in Sources : disk.bindings.from[f] = input[f] /\ input[f] # 0
        BY <4>1 DEF UpToDate, Sources, BuildInv
      <4>3. QED
        BY <2>1, <4>1, <4>2 DEF CacheInv, UpToDate, ListedSources
    <3>2. CASE ~task[u].success
      <4>1. disk'.dirty <=> disk.dirty
        BY <2>1, <3>2
      <4>2. QED
        BY <2>1, <4>1 DEF BuildInv, CacheInv
    <3>3. QED
      BY <3>1, <3>2
  <2>4. QED
    BY <1>1, <1>2, <2>2, <2>3, OwnerStep
<1>6. CASE ReleaseLock(u) \/ DeleteMarkerFails(u)
  <2>1. task'[u] = NewTask /\ pc'[u] = "idle" /\ disk' = disk
    BY <1>0, <1>6 DEF ReleaseLock, DeleteMarkerFails, Goto
  <2>2. BuildInvOf(u)'
    BY <2>1 DEF NewTask
  <2>3. QED
    BY <1>1, <1>2, <2>1, <2>2, OwnerStep DEF BuildInv, CacheInv
<1>7. QED
  BY <1>3, <1>4, <1>5, <1>6 DEF Finally

(* A torn file is either behind the marker or not one of those trusted.    *)
LEMMA TornBehindMarker ==
  ASSUME TypeOK, LockInv, OutputInv, NEW u \in Workers, BuildInvOf(u),
         disk' \in InterruptedWrites(u)
  PROVE  /\ disk'.dirty = disk.dirty
         /\ \/ disk.dirty
            \/ /\ disk'.inputsCache = disk.inputsCache
               /\ disk'.bindings = disk.bindings
               /\ disk'.bindMapping = disk.bindMapping
<1>1. disk \in Disk
  BY DEF TypeOK
<1>2. CASE pc[u] \in {"transform", "write"}
           \/ (pc[u] = "finallyInputs" /\ task[u].regenerationStarted)
  <2>1. disk.dirty
    BY <1>2 DEF OutputInv, OutputInvOf, Regenerating, BuildInvOf, MarkerInv
  <2>2. disk'.dirty
    BY <1>1, <1>2, <2>1 DEF InterruptedWrites, At, Disk
  <2>3. QED
    BY <2>1, <2>2, <1>1 DEF Disk
<1>3. CASE ~(pc[u] \in {"transform", "write"}
             \/ (pc[u] = "finallyInputs" /\ task[u].regenerationStarted))
  BY <1>1, <1>3 DEF InterruptedWrites, At, Disk
<1>4. QED
  BY <1>2, <1>3

LEMMA InterruptionBuild ==
  ASSUME Undisturbed, TypeOK, LockInv, OutputInv, BuildInv, NEW u \in Workers, Interruption(u)
  PROVE  BuildInv'
<1> USE DEF Unlocked, Regenerating, Finishing, FromRecordConfig, FromHeaders,
            FromExtension, FromTransform, FromDocument, FromWrite
<1>0. /\ pc \in [Workers -> Labels]
      /\ task \in [Workers -> Task]
  BY DEF TypeOK
<1>1. BuildInvOf(u)
  BY DEF BuildInv
<1>2. CASE Throw(u)
  <2>1. /\ Touches(u) /\ UNCHANGED <<input, task, mutex>>
        /\ disk' \in InterruptedWrites(u)
        /\ pc[u] \in Regenerating \cup {"checkCaches", "checkInputs", "mark"}
        /\ pc'[u] = "finallyInputs"
    BY <1>0, <1>2 DEF Throw, Goto, Touches
  <2>2. mutex.owner = u /\ ~task[u].success
    BY <1>1, <2>1 DEF BuildInvOf, WaiterInv, LockInv, LockInvOf
  <2>3. /\ disk'.dirty = disk.dirty
        /\ \/ disk.dirty
           \/ disk'.inputsCache = disk.inputsCache /\ disk'.bindings = disk.bindings
    BY <1>1, <2>1, TornBehindMarker
  <2>4. CacheInv'
    BY <2>3 DEF BuildInv, CacheInv
  <2>5. task[u].regenerationStarted => disk.dirty
    BY <1>1, <2>1 DEF BuildInvOf, MarkerInv, OutputInv, OutputInvOf
  <2>6. BuildInvOf(u)'
    BY <1>1, <2>1, <2>2, <2>3, <2>5
       DEF BuildInvOf, WaiterInv, ReadInv, MarkerInv, SuccessInv
  <2>7. QED
    BY <2>1, <2>2, <2>4, <2>6, OwnerStep
<1>3. CASE Cancel(u)
  BY <1>3 DEF Undisturbed, Cancel
<1>4. CASE Crash(u)
  <2>1. /\ Touches(u) /\ UNCHANGED input
        /\ disk' \in InterruptedWrites(u)
        /\ pc'[u] = "idle" /\ task'[u] = NewTask
        /\ mutex'.owner = IF mutex.owner = u THEN NoWorker ELSE mutex.owner
    BY <1>0, <1>4 DEF Crash, Goto, Touches, Relinquish
  <2>2. BuildInvOf(u)'
    BY <2>1 DEF BuildInvOf, WaiterInv, ReadInv, MarkerInv, SuccessInv, NewTask
  <2>3. CacheInv'
    BY <1>1, <2>1, TornBehindMarker DEF BuildInv, CacheInv
  <2>4. CASE mutex.owner = u
    BY <2>1, <2>2, <2>3, <2>4, OwnerStep
  <2>5. CASE mutex.owner # u
    <3>1. pc[u] \in Unlocked
      BY <1>1, <2>5 DEF BuildInvOf, WaiterInv
    <3>2. disk' = disk
      BY <2>1, <3>1 DEF InterruptedWrites, At
    <3>3. ASSUME NEW w \in Workers, w # u
          PROVE  BuildInvOf(w)'
      <4>1. /\ BuildInvOf(w) /\ task'[w] = task[w] /\ pc'[w] = pc[w]
            /\ mutex'.owner = mutex.owner
        BY <2>1, <2>5, <3>3 DEF BuildInv, Touches
      <4>2. QED
        BY <2>1, <3>2, <4>1
           DEF BuildInvOf, WaiterInv, ReadInv, MarkerInv, SuccessInv, AbortExecution,
               UpToDate, ListedSources
    <3>4. QED
      BY <2>1, <2>2, <2>3, <3>3 DEF BuildInv
  <2>6. QED
    BY <2>4, <2>5
<1>5. CASE KeptLockEnds(u)
  <2>1. /\ Touches(u) /\ UNCHANGED <<input, disk, pc, task>>
        /\ pc[u] = "idle" /\ mutex.owner = u
    BY <1>5 DEF KeptLockEnds, At, Touches
  <2>2. BuildInvOf(u)'
    BY <1>1, <2>1, BuildOther
  <2>3. CacheInv'
    BY <2>1 DEF BuildInv, CacheInv
  <2>4. QED
    BY <2>1, <2>2, <2>3, OwnerStep
<1>6. QED
  BY <1>2, <1>3, <1>4, <1>5 DEF Interruption

LEMMA NextBuild ==
  Undisturbed => (TypeOK /\ LockInv /\ OutputInv /\ BuildInv /\ [Next]_vars => BuildInv')
<1> SUFFICES ASSUME Undisturbed, TypeOK, LockInv, OutputInv, BuildInv, [Next]_vars
             PROVE  BuildInv'
  OBVIOUS
<1>0. /\ pc \in [Workers -> Labels]
      /\ task \in [Workers -> Task]
      /\ input \in [Sources -> Versions]
  BY DEF TypeOK
<1>1. ASSUME NEW u \in Workers, Start(u)
      PROVE  BuildInv'
  <2>1. /\ UNCHANGED <<input, disk, mutex, task>>
        /\ pc[u] = "idle" /\ pc'[u] = "waiting"
        /\ \A w \in Workers : w # u => pc'[w] = pc[w]
    BY <1>0, <1>1 DEF Start, At, Goto
  <2>2. \A w \in Workers : w # u => BuildInvOf(w)'
    BY <2>1, BuildOther DEF BuildInv
  <2>3. task'[u] = NewTask
    BY <2>1 DEF BuildInv, BuildInvOf, WaiterInv, Unlocked
  <2>4. BuildInvOf(u)'
    BY <2>1, <2>3
       DEF BuildInvOf, WaiterInv, ReadInv, MarkerInv, SuccessInv, NewTask, Unlocked,
           Regenerating, FromRecordConfig, FromHeaders, FromExtension, FromTransform,
           FromDocument, FromWrite
  <2>5. QED
    BY <2>1, <2>2, <2>4 DEF BuildInv, CacheInv
<1>2. ASSUME NEW f \in Sources, Edit(f)
      PROVE  BuildInv'
  <2>1. /\ UNCHANGED <<disk, mutex, pc, task>>
        /\ \A w \in Workers : pc[w] = "idle"
        /\ input' = [input EXCEPT ![f] = input[f] + 1]
    BY <1>2 DEF Edit, Undisturbed, At
  <2>2. \A g \in Sources : input'[g] # 0
    BY <1>0, <2>1 DEF BuildInv, Versions
  <2>3. \A w \in Workers : BuildInvOf(w)'
    BY <2>1, BuildOther DEF BuildInv, Unlocked
  <2>4. QED
    BY <2>1, <2>2, <2>3 DEF BuildInv, CacheInv
<1>3. CASE UNCHANGED vars
  BY <1>3 DEF vars, BuildInv, CacheInv, BuildInvOf, WaiterInv, ReadInv, MarkerInv,
              SuccessInv, AbortExecution, UpToDate, ListedSources
<1>4. QED
  BY <1>1, <1>2, <1>3, DecideBuild, ExecuteImplBuild, FinallyBuild, InterruptionBuild
     DEF Next

LEMMA InitBuild == Init => BuildInv
<1> SUFFICES ASSUME Init
             PROVE  BuildInv
  OBVIOUS
<1>1. ~disk.bindings.complete /\ ~disk.inputsCache.exists
  BY DEF Init, EmptyDisk, NoOutput
<1>2. ASSUME NEW w \in Workers
      PROVE  BuildInvOf(w)
  <2>1. pc[w] = "idle" /\ task[w] = NewTask
    BY DEF Init
  <2>2. QED
    BY <2>1
       DEF BuildInvOf, WaiterInv, ReadInv, MarkerInv, SuccessInv, NewTask, Unlocked,
           Regenerating, FromRecordConfig, FromHeaders, FromExtension, FromTransform,
           FromDocument, FromWrite
<1>3. QED
  BY <1>1, <1>2 DEF Init, BuildInv, CacheInv

LEMMA OutputInvariant == Spec => []OutputInv
BY TypeCorrect, LockInvariant, InitOutput, NextOutput, PTL DEF Spec

LEMMA BuildInvariant == Undisturbed => (Spec => []BuildInv)
<1> SUFFICES ASSUME Undisturbed
             PROVE  Spec => []BuildInv
  OBVIOUS
<1>1. TypeOK /\ LockInv /\ OutputInv /\ BuildInv /\ [Next]_vars => BuildInv'
  BY NextBuild
<1>2. QED
  BY <1>1, TypeCorrect, LockInvariant, OutputInvariant, InitBuild, PTL DEF Spec

-----------------------------------------------------------------------------
(* A build that reports success leaves bindings and bind mapping of the    *)
(* inputs as they are, whether it generated them or trusted the caches     *)
(* that an earlier build left, and however the builds between them ended.  *)
THEOREM SuccessUpToDate == Undisturbed => (Spec => []SuccessMeansUpToDate)
<1>1. OutputInv /\ BuildInv => SuccessMeansUpToDate
  BY DEF OutputInv, OutputInvOf, BuildInv, BuildInvOf, SuccessInv, SuccessMeansUpToDate,
         UpToDate
<1>2. QED
  BY <1>1, OutputInvariant, BuildInvariant, PTL

(* The inputs cache of a clean profile lists the versions of the inputs    *)
(* that the bindings were made from: GenerateInputsCache runs while the    *)
(* marker is there, so a build that fails or dies cannot replace the list  *)
(* of one that succeeded.                                                  *)
THEOREM CacheListsLoaded == Undisturbed => (Spec => []InputsCacheListsLoaded)
<1>1. BuildInv => InputsCacheListsLoaded
  BY DEF BuildInv, CacheInv, InputsCacheListsLoaded
<1>2. QED
  BY <1>1, BuildInvariant, PTL

-----------------------------------------------------------------------------
(* The refinement, step by step.                                           *)

Builds == [w \in Workers |-> Progress(w)]

LEMMA TrustedKept ==
  ASSUME disk'.dirty = disk.dirty,
         \/ disk.dirty
         \/ disk'.bindings = disk.bindings /\ disk'.bindMapping = disk.bindMapping
  PROVE  TrustedOutput' = TrustedOutput
BY DEF TrustedOutput

LEMMA BuildsStep ==
  ASSUME TypeOK, NEW u \in Workers, Touches(u)
  PROVE  Builds' = [Builds EXCEPT ![u] = Progress(u)']
<1>1. \A w \in Workers : w # u => Progress(w)' = Progress(w)
  BY DEF Touches, Progress, At
<1>2. QED
  BY <1>1 DEF Builds

LEMMA BuildsKept ==
  ASSUME TypeOK, NEW u \in Workers, Touches(u), Progress(u)' = Progress(u)
  PROVE  Builds' = Builds
BY BuildsStep DEF Builds

LEMMA InitRefines == Init => Abstract!AbsInit
<1> SUFFICES ASSUME Init
             PROVE  Abstract!AbsInit
  OBVIOUS
<1>1. TrustedOutput = Abstract!Nothing
  BY DEF Init, EmptyDisk, NoOutput, TrustedOutput, Abstract!Nothing
<1>2. \A w \in Workers : Progress(w) = "none"
  BY DEF Init, Progress, At
<1>3. QED
  BY <1>1, <1>2 DEF Init, Abstract!AbsInit

LEMMA DecideRefines ==
  ASSUME TypeOK, LockInv, BuildInv, NEW u \in Workers, Decide(u)
  PROVE  UNCHANGED <<input, TrustedOutput, Builds>>
<1>0. pc \in [Workers -> Labels] /\ task \in [Workers -> Task] /\ disk \in Disk
  BY DEF TypeOK
<1>1. Touches(u) /\ UNCHANGED input
  BY <1>0 DEF Decide, AcquireLock, WaitTimesOut, WaitOrAbort,
              GeneratePropertyCache, CheckInputsCache, Goto, Touches
<1>2. /\ disk'.dirty = disk.dirty
      /\ disk'.bindings = disk.bindings
      /\ disk'.bindMapping = disk.bindMapping
  BY <1>0 DEF Decide, AcquireLock, WaitTimesOut, WaitOrAbort,
              GeneratePropertyCache, CheckInputsCache, Disk
<1>3. pc[u] \notin {"idle", "release"} /\ pc'[u] \notin {"idle", "release"}
  BY <1>0 DEF Decide, AcquireLock, WaitTimesOut, WaitOrAbort, At,
              GeneratePropertyCache, CheckInputsCache, Goto
<1>4. Progress(u)' = Progress(u)
  BY <1>3 DEF Progress, At
<1>5. QED
  BY <1>1, <1>2, <1>4, TrustedKept, BuildsKept

LEMMA ExecuteImplRefines ==
  ASSUME TypeOK, LockInv, OutputInv, BuildInv, NEW u \in Workers, ExecuteImpl(u)
  PROVE  UNCHANGED <<input, TrustedOutput, Builds>> \/ Abstract!Withdraw(u)
<1>0. pc \in [Workers -> Labels] /\ task \in [Workers -> Task] /\ disk \in Disk
  BY DEF TypeOK
<1>1. Touches(u) /\ UNCHANGED input
  BY <1>0
     DEF ExecuteImpl, MarkDirty, LoadConfig, RecordConfig, GenerateCppHeaders,
         Preprocess, RecordIncludes, GenerateExtensionHeaders, RecordExtension,
         Parse, Transform, Document, WriteBindings, Goto, GotoUnlessAborted,
         LogThenGoto, Touches
<1>2. pc[u] \notin {"idle", "release"} /\ pc'[u] \notin {"idle", "release"}
  BY <1>0
     DEF ExecuteImpl, MarkDirty, LoadConfig, RecordConfig, GenerateCppHeaders,
         Preprocess, RecordIncludes, GenerateExtensionHeaders, RecordExtension,
         Parse, Transform, Document, WriteBindings, Goto, GotoUnlessAborted,
         LogThenGoto, At
<1>3. Progress(u)' = "running" /\ Progress(u) = "running"
  BY <1>2 DEF Progress, At
<1>4. Builds' = Builds
  BY <1>1, <1>3, BuildsKept
<1>5. CASE MarkDirty(u)
  <2>1. disk'.dirty /\ pc[u] = "mark"
    BY <1>0, <1>5 DEF MarkDirty, At, Disk
  <2>2. TrustedOutput' = Abstract!Nothing
    BY <2>1 DEF TrustedOutput, Abstract!Nothing
  <2>3. mutex.owner = u
    BY <2>1 DEF BuildInv, BuildInvOf, WaiterInv, Unlocked
  <2>4. \A w \in Workers : w # u => pc[w] \in Unlocked
    BY <2>3, OthersWait
  <2>5. \A w \in Workers : Builds[w] # "succeeded"
    BY <2>1, <2>4 DEF Builds, Progress, At, Unlocked
  <2>6. Builds[u] = "running"
    BY <1>3 DEF Builds
  <2>7. QED
    BY <1>1, <1>4, <2>2, <2>5, <2>6 DEF Abstract!Withdraw, Builds
<1>6. CASE ~MarkDirty(u)
  <2>1. pc[u] \in Regenerating
    BY <1>6
       DEF ExecuteImpl, LoadConfig, RecordConfig, GenerateCppHeaders,
         Preprocess, RecordIncludes, GenerateExtensionHeaders, RecordExtension,
         Parse, Transform, Document, WriteBindings, At, Regenerating
  <2>2. disk.dirty
    BY <2>1 DEF OutputInv, OutputInvOf
  <2>3. disk'.dirty = disk.dirty
    BY <1>0, <1>6
       DEF ExecuteImpl, LoadConfig, RecordConfig, GenerateCppHeaders,
         Preprocess, RecordIncludes, GenerateExtensionHeaders, RecordExtension,
         Parse, Transform, Document, WriteBindings, Disk
  <2>4. QED
    BY <1>1, <1>4, <2>2, <2>3, TrustedKept
<1>7. QED
  BY <1>5, <1>6

LEMMA FinallyRefines ==
  ASSUME Undisturbed, TypeOK, LockInv, OutputInv, BuildInv, NEW u \in Workers, Finally(u)
  PROVE  \/ UNCHANGED <<input, TrustedOutput, Builds>>
         \/ Abstract!Succeed(u)
         \/ Abstract!End(u)
<1>0. pc \in [Workers -> Labels] /\ task \in [Workers -> Task] /\ disk \in Disk
  BY DEF TypeOK
<1>1. Touches(u) /\ UNCHANGED input
  BY <1>0 DEF Finally, GenerateInputsCache, InputsCacheWriteFails,
              RemoveDirtyMarker, DeleteMarkerFails, ReleaseLock, Goto, Touches
<1>2. BuildInvOf(u) /\ OutputInvOf(u)
  BY DEF BuildInv, OutputInv
<1>3. CASE GenerateInputsCache(u)
  <2>1. /\ disk'.dirty = disk.dirty
        /\ disk'.bindings = disk.bindings
        /\ disk'.bindMapping = disk.bindMapping
    BY <1>0, <1>3 DEF GenerateInputsCache, Disk
  <2>2. pc[u] = "finallyInputs" /\ pc'[u] = "finallyDirty"
    BY <1>0, <1>3 DEF GenerateInputsCache, At, Goto
  <2>3. Progress(u)' = Progress(u)
    BY <2>2 DEF Progress, At
  <2>4. QED
    BY <1>1, <2>1, <2>3, TrustedKept, BuildsKept
<1>4. CASE InputsCacheWriteFails(u)
  BY <1>4 DEF Undisturbed, InputsCacheWriteFails
<1>5. CASE RemoveDirtyMarker(u)
  <2>1. /\ task' = task /\ pc[u] = "finallyDirty" /\ pc'[u] = "release"
        /\ disk'.bindings = disk.bindings
        /\ disk'.bindMapping = disk.bindMapping
        /\ disk'.dirty = (disk.dirty /\ ~(task[u].success /\ ~AbortExecution(u)))
    BY <1>0, <1>5 DEF RemoveDirtyMarker, At, Goto, Disk
  <2>2. Progress(u) = "running"
    BY <2>1 DEF Progress, At
  <2>3. CASE task[u].success
    <3>1. UpToDate(disk.bindings) /\ disk.bindings = disk.bindMapping /\ ~disk'.dirty
      BY <1>2, <2>1, <2>3 DEF BuildInvOf, SuccessInv, OutputInvOf
    <3>2. TrustedOutput' = [f \in Sources |-> disk.bindings.from[f]]
      BY <2>1, <3>1 DEF TrustedOutput, UpToDate
    <3>3. \A f \in Sources : disk.bindings.from[f] = input[f]
      BY <3>1 DEF UpToDate, Sources
    <3>4. TrustedOutput' = input
      BY <3>2, <3>3 DEF TypeOK
    <3>5. Progress(u)' = "succeeded"
      BY <2>1, <2>3 DEF Progress, At
    <3>6. Builds' = [Builds EXCEPT ![u] = "succeeded"] /\ Builds[u] = "running"
      BY <1>1, <2>2, <3>5, BuildsStep DEF Builds
    <3>7. QED
      BY <1>1, <3>4, <3>6 DEF Abstract!Succeed, Builds
  <2>4. CASE ~task[u].success
    <3>1. disk'.dirty = disk.dirty
      BY <1>0, <1>5, <2>4 DEF RemoveDirtyMarker, Disk
    <3>2. Progress(u)' = Progress(u)
      BY <2>1, <2>2, <2>4 DEF Progress, At
    <3>3. QED
      BY <1>1, <2>1, <3>1, <3>2, TrustedKept, BuildsKept
  <2>5. QED
    BY <2>3, <2>4
<1>6. CASE ReleaseLock(u) \/ DeleteMarkerFails(u)
  <2>1. disk' = disk /\ pc[u] \in {"release", "finallyDirty"} /\ pc'[u] = "idle"
    BY <1>0, <1>6 DEF ReleaseLock, DeleteMarkerFails, At, Goto
  <2>2. TrustedOutput' = TrustedOutput
    BY <2>1, TrustedKept
  <2>3. Progress(u)' = "none" /\ Progress(u) # "none"
    BY <2>1 DEF Progress, At
  <2>4. Builds' = [Builds EXCEPT ![u] = "none"] /\ Builds[u] # "none"
    BY <1>1, <2>3, BuildsStep DEF Builds
  <2>5. QED
    BY <1>1, <2>2, <2>4 DEF Abstract!End, Builds
<1>7. QED
  BY <1>3, <1>4, <1>5, <1>6 DEF Finally

LEMMA InterruptionRefines ==
  ASSUME Undisturbed, TypeOK, LockInv, OutputInv, BuildInv, NEW u \in Workers,
         Interruption(u)
  PROVE  UNCHANGED <<input, TrustedOutput, Builds>> \/ Abstract!End(u)
<1>0. pc \in [Workers -> Labels] /\ task \in [Workers -> Task]
  BY DEF TypeOK
<1>1. CASE Throw(u)
  <2>1. /\ Touches(u) /\ UNCHANGED input
        /\ disk' \in InterruptedWrites(u)
        /\ pc[u] \notin {"idle", "release"} /\ pc'[u] = "finallyInputs"
    BY <1>0, <1>1 DEF Throw, Goto, Touches, Regenerating
  <2>2. TrustedOutput' = TrustedOutput
    BY <2>1, TornBehindMarker, TrustedKept DEF BuildInv
  <2>3. Progress(u)' = Progress(u)
    BY <2>1 DEF Progress, At
  <2>4. QED
    BY <2>1, <2>2, <2>3, BuildsKept
<1>2. CASE Cancel(u)
  BY <1>2 DEF Undisturbed, Cancel
<1>3. CASE Crash(u)
  <2>1. /\ Touches(u) /\ UNCHANGED input
        /\ disk' \in InterruptedWrites(u)
        /\ pc[u] # "idle" /\ pc'[u] = "idle"
    BY <1>0, <1>3 DEF Crash, At, Goto, Touches
  <2>2. TrustedOutput' = TrustedOutput
    BY <2>1, TornBehindMarker, TrustedKept DEF BuildInv
  <2>3. Progress(u)' = "none" /\ Progress(u) # "none"
    BY <2>1 DEF Progress, At
  <2>4. Builds' = [Builds EXCEPT ![u] = "none"] /\ Builds[u] # "none"
    BY <2>1, <2>3, BuildsStep DEF Builds
  <2>5. QED
    BY <2>1, <2>2, <2>4 DEF Abstract!End, Builds
<1>4. CASE KeptLockEnds(u)
  <2>1. UNCHANGED <<input, disk, pc, task>>
    BY <1>4 DEF KeptLockEnds
  <2>2. QED
    BY <2>1, TrustedKept DEF Builds, Progress, At
<1>5. QED
  BY <1>1, <1>2, <1>3, <1>4 DEF Interruption

(* A step is a step of the abstract builds or leaves them alone.           *)
LEMMA NextRefines ==
  Undisturbed => (TypeOK /\ LockInv /\ OutputInv /\ BuildInv /\ [Next]_vars
                    => [Abstract!AbsNext]_(Abstract!absVars))
<1> SUFFICES ASSUME Undisturbed, TypeOK, LockInv, OutputInv, BuildInv, [Next]_vars
             PROVE  Abstract!AbsNext \/ UNCHANGED <<input, TrustedOutput, Builds>>
  BY DEF Abstract!absVars, Builds
<1>1. ASSUME NEW u \in Workers, Start(u)
      PROVE  Abstract!Begin(u)
  <2>1. /\ Touches(u) /\ UNCHANGED <<input, disk>>
        /\ pc[u] = "idle" /\ pc'[u] = "waiting"
    BY <1>1 DEF Start, At, Goto, Touches, TypeOK
  <2>2. TrustedOutput' = TrustedOutput
    BY <2>1, TrustedKept
  <2>3. Progress(u)' = "running" /\ Progress(u) = "none"
    BY <2>1 DEF Progress, At
  <2>4. Builds' = [Builds EXCEPT ![u] = "running"] /\ Builds[u] = "none"
    BY <2>1, <2>3, BuildsStep DEF Builds
  <2>5. QED
    BY <2>1, <2>2, <2>4 DEF Abstract!Begin, Builds
<1>2. ASSUME NEW f \in Sources, Edit(f)
      PROVE  Abstract!Change(f)
  <2>1. /\ UNCHANGED <<disk, pc, task>>
        /\ \A w \in Workers : pc[w] = "idle"
        /\ input[f] < LastVersion(f)
        /\ input' = [input EXCEPT ![f] = input[f] + 1]
    BY <1>2 DEF Edit, Undisturbed, At
  <2>2. TrustedOutput' = TrustedOutput /\ Builds' = Builds
    BY <2>1, TrustedKept DEF Builds, Progress, At
  <2>3. \A w \in Workers : Builds[w] = "none"
    BY <2>1 DEF Builds, Progress, At
  <2>4. QED
    BY <2>1, <2>2, <2>3 DEF Abstract!Change, Builds
<1>3. CASE UNCHANGED vars
  BY <1>3, TrustedKept DEF vars, Builds, Progress, At
<1>4. QED
  BY <1>1, <1>2, <1>3, DecideRefines, ExecuteImplRefines, FinallyRefines,
     InterruptionRefines DEF Next, Abstract!AbsNext

(* The mutex, the marker and the two caches together implement one atomic  *)
(* build: ImplementsIncrementalBuild for any number of workers.            *)
THEOREM Refinement == Undisturbed => (Spec => ImplementsIncrementalBuild)
<1> SUFFICES ASSUME Undisturbed
             PROVE  Spec => ImplementsIncrementalBuild
  OBVIOUS
<1>1. TypeOK /\ LockInv /\ OutputInv /\ BuildInv /\ [Next]_vars
        => [Abstract!AbsNext]_(Abstract!absVars)
  BY NextRefines
<1>2. QED
  BY <1>1, InitRefines, TypeCorrect, LockInvariant, OutputInvariant, BuildInvariant, PTL
     DEF Spec, ImplementsIncrementalBuild, Abstract!AbsSpec
=============================================================================
