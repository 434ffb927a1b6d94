-------------------------- MODULE SharpGenTaskProofs --------------------------
(***************************************************************************)
(* What holds of SharpGenTask for every set of workers, every bound and    *)
(* every combination of interruptions and failures.                        *)
(***************************************************************************)
EXTENDS SharpGenTask, TLAPS

(* Typing of the helpers the actions are built from.                       *)
LEMMA MetadataType ==
  ASSUME TypeOK, NEW f \in Inputs
  PROVE  Metadata(f) \in Nat
BY VersionAssumption
   DEF TypeOK, Metadata, Inputs, Sources, Disk, Extension, Versions

LEMMA ErrorOutcomesType ==
  ASSUME TypeOK, NEW w \in Workers
  PROVE  ErrorOutcomes(w) \subseteq BOOLEAN
BY FlagAssumption DEF TypeOK, ErrorOutcomes, Task

LEMMA NewTaskType == NewTask \in Task
BY VersionAssumption
   DEF NewTask, Task, NoSnapshot, Snapshot, NoExtension, TornExtension, Extension, Unlisted,
       Listing, Versions

LEMMA NoOutputType == NoOutput \in Output
BY VersionAssumption
   DEF NoOutput, Output, NoSnapshot, Snapshot, NoExtension, TornExtension, Extension, Versions

LEMMA TruncatedType ==
  ASSUME NEW list \in Listing, NEW p
  PROVE  Truncated(list, p) \in Listing
BY DEF Truncated, Listing

LEMMA GotoType ==
  ASSUME TypeOK, NEW w \in Workers, NEW label \in Labels, Goto(w, label)
  PROVE  pc' \in [Workers -> Labels]
BY DEF TypeOK, Goto

LEMMA RelinquishType ==
  ASSUME TypeOK, NEW w \in Workers, NEW a \in BOOLEAN, Relinquish(w, a)
  PROVE  mutex' \in Mutex
<1>1. OpenedByOthers(w) \in BOOLEAN
  BY DEF OpenedByOthers
<1>2. QED
  BY <1>1 DEF TypeOK, Relinquish, Mutex

LEMMA InterruptedWritesType ==
  ASSUME TypeOK, NEW w \in Workers, NEW d \in InterruptedWrites(w)
  PROVE  d \in Disk
<1>1. disk \in Disk /\ task[w] \in Task
  BY DEF TypeOK
<1>2. \A p \in Prefixes : Truncated(task[w].metadata, p) \in Listing
  BY <1>1, TruncatedType DEF Task
<1>3. TornExtension(disk.extHeader.stamp + 1) \in Extension
  BY <1>1, VersionAssumption DEF Disk, TornExtension, Extension, Versions
<1>4. TornOutput \in Output
  BY NoOutputType DEF TornOutput
<1>5. \/ d = disk
      \/ d = [disk EXCEPT !.propertyCache = "torn"]
      \/ d = [disk EXCEPT !.configHeader = 0]
      \/ d = [disk EXCEPT !.extHeader = TornExtension(disk.extHeader.stamp + 1)]
      \/ d = [disk EXCEPT !.bindMapping = TornOutput]
      \/ d = [disk EXCEPT !.bindings = TornOutput]
      \/ \E p \in Prefixes :
           d = [disk EXCEPT !.inputsCache =
                  [exists |-> TRUE, list |-> Truncated(task[w].metadata, p)]]
  BY DEF InterruptedWrites
<1>6. CASE d = disk
  BY <1>1, <1>6
<1>7. CASE d = [disk EXCEPT !.propertyCache = "torn"]
  BY <1>1, <1>7 DEF Disk
<1>8. CASE d = [disk EXCEPT !.configHeader = 0]
  BY <1>1, <1>8 DEF Disk
<1>9. CASE d = [disk EXCEPT !.extHeader = TornExtension(disk.extHeader.stamp + 1)]
  BY <1>1, <1>3, <1>9 DEF Disk
<1>10. CASE d = [disk EXCEPT !.bindMapping = TornOutput]
  BY <1>1, <1>4, <1>10 DEF Disk
<1>11. CASE d = [disk EXCEPT !.bindings = TornOutput]
  BY <1>1, <1>4, <1>11 DEF Disk
<1>12. ASSUME NEW p \in Prefixes,
              d = [disk EXCEPT !.inputsCache =
                     [exists |-> TRUE, list |-> Truncated(task[w].metadata, p)]]
       PROVE  d \in Disk
  BY <1>1, <1>2, <1>12 DEF Disk
<1>13. QED
  BY <1>5, <1>6, <1>7, <1>8, <1>9, <1>10, <1>11, <1>12

-----------------------------------------------------------------------------
(* Type correctness: each action keeps every field of every worker and of  *)
(* the profile directory in its type.                                      *)

LEMMA LogThenGotoType ==
  ASSUME TypeOK, NEW w \in Workers, NEW new \in Task, NEW label \in Labels,
         LogThenGoto(w, new, label)
  PROVE  pc' \in [Workers -> Labels] /\ task' \in [Workers -> Task]
<1>1. PICK e \in ErrorOutcomes(w) :
        /\ task' = [task EXCEPT ![w] = [new EXCEPT !.hasErrors = e]]
        /\ Goto(w, IF e \/ task[w].cancelled THEN "finallyInputs" ELSE label)
  BY DEF LogThenGoto
<1>2. e \in BOOLEAN
  BY <1>1, ErrorOutcomesType
<1>3. [new EXCEPT !.hasErrors = e] \in Task
  BY <1>2 DEF Task
<1>4. pc' \in [Workers -> Labels]
  BY <1>1 DEF Goto, TypeOK, Labels, Finishing
<1>5. QED
  BY <1>1, <1>3, <1>4 DEF TypeOK

LEMMA DecideType ==
  ASSUME TypeOK, NEW w \in Workers, Decide(w)
  PROVE  TypeOK'
<1>0. /\ task[w] \in Task
      /\ mutex.abandoned \in BOOLEAN
      /\ AbortExecution(w) \in BOOLEAN
  BY DEF TypeOK, AbortExecution, Mutex
<1>1. CASE AcquireLock(w)
  <2> DEFINE new == [task[w] EXCEPT !.workerLockAcquired = TRUE,
                                    !.cacheInvalid = mutex.abandoned]
  <2>1. new \in Task
    BY <1>0 DEF Task
  <2>2. task' = [task EXCEPT ![w] = new]
    BY <1>1 DEF TypeOK, AcquireLock
  <2>3. task' \in [Workers -> Task]
    BY <2>1, <2>2 DEF TypeOK
  <2>4. mutex' \in Mutex
    BY <1>1 DEF TypeOK, AcquireLock, Mutex
  <2>5. QED
    BY <1>1, <2>3, <2>4 DEF TypeOK, AcquireLock, Goto, Labels
<1>2. CASE WaitTimesOut(w)
  BY <1>2 DEF TypeOK, WaitTimesOut, Goto, Labels
<1>3. CASE WaitOrAbort(w)
  BY <1>3 DEF TypeOK, WaitOrAbort, Goto, Labels
<1>4. CASE GeneratePropertyCache(w)
  <2> DEFINE invalid == \/ disk.dirty
                        \/ task[w].cacheInvalid
                        \/ disk.propertyCache # "current"
             new == [task[w] EXCEPT !.cacheInvalid = invalid]
  <2>1. new \in Task
    BY <1>0 DEF Task
  <2>2. task' = [task EXCEPT ![w] = new]
    BY <1>4 DEF TypeOK, GeneratePropertyCache
  <2>3. task' \in [Workers -> Task]
    BY <2>1, <2>2 DEF TypeOK
  <2>4. disk' \in Disk
    BY <1>4 DEF TypeOK, GeneratePropertyCache, Disk
  <2>5. pc' \in [Workers -> Labels]
    BY <1>4 DEF TypeOK, GeneratePropertyCache, Goto, Labels
  <2>6. QED
    BY <1>4, <2>3, <2>4, <2>5 DEF TypeOK, GeneratePropertyCache
<1>5. CASE CheckInputsCache(w)
  <2> DEFINE new == [task[w] EXCEPT !.success = ~AbortExecution(w)]
  <2>1. new \in Task
    BY <1>0 DEF Task
  <2>2. task' \in {task, [task EXCEPT ![w] = new]}
    BY <1>5 DEF TypeOK, CheckInputsCache
  <2>3. task' \in [Workers -> Task]
    BY <2>1, <2>2 DEF TypeOK
  <2>4. QED
    BY <1>5, <2>3 DEF TypeOK, CheckInputsCache, Goto, Labels, Finishing
<1>6. QED
  BY <1>1, <1>2, <1>3, <1>4, <1>5 DEF Decide

LEMMA ExecuteImplType ==
  ASSUME TypeOK, NEW w \in Workers, ExecuteImpl(w)
  PROVE  TypeOK'
<1>0. /\ task[w] \in Task
      /\ disk \in Disk
      /\ input["config"] \in Versions /\ input["native"] \in Versions
      /\ \A f \in Inputs : Metadata(f) \in Nat
      /\ ErrorOutcomes(w) \subseteq BOOLEAN
      /\ 0 \in Versions
  BY MetadataType, ErrorOutcomesType, VersionAssumption
     DEF TypeOK, Sources, Versions
<1>1. CASE MarkDirty(w)
  <2> DEFINE new == [task[w] EXCEPT !.regenerationStarted = TRUE]
  <2>1. new \in Task
    BY <1>0 DEF Task
  <2>2. task' = [task EXCEPT ![w] = new]
    BY <1>1 DEF TypeOK, MarkDirty
  <2>3. task' \in [Workers -> Task]
    BY <2>1, <2>2 DEF TypeOK
  <2>4. disk' \in Disk
    BY <1>1, <1>0 DEF MarkDirty, Disk
  <2>5. pc' \in [Workers -> Labels]
    BY <1>1 DEF TypeOK, MarkDirty, GotoUnlessAborted, Goto, Labels, Regenerating,
                Finishing
  <2>6. QED
    BY <1>1, <2>3, <2>4, <2>5 DEF TypeOK, MarkDirty
<1>2. CASE LoadConfig(w)
  <2>1. PICK e \in BOOLEAN :
          task' = [task EXCEPT ![w].loaded = input["config"], ![w].hasErrors = e]
    BY <1>2, <1>0 DEF LoadConfig
  <2> DEFINE new == [task[w] EXCEPT !.loaded = input["config"], !.hasErrors = e]
  <2>2. new \in Task
    BY <1>0 DEF Task
  <2>3. task' = [task EXCEPT ![w] = new]
    BY <2>1 DEF TypeOK
  <2>4. task' \in [Workers -> Task]
    BY <2>2, <2>3 DEF TypeOK
  <2>5. QED
    BY <1>2, <2>4 DEF TypeOK, LoadConfig, Goto, Labels, Regenerating
<1>3. CASE RecordConfig(w)
  BY <1>3, <1>0 DEF TypeOK, RecordConfig, Goto, Labels, Regenerating, Task,
                    Listing, Inputs, Sources
<1>4. CASE GenerateCppHeaders(w)
  <2>1. HeaderText(task[w].loaded) \in Nat
    BY <1>0, HeaderTextAssumption DEF Task, Versions
  <2> DEFINE new == [task[w] EXCEPT
                       !.updated = (disk.configHeader # HeaderText(task[w].loaded))]
  <2>2. new \in Task
    BY <1>0 DEF Task
  <2>3. task' = [task EXCEPT ![w] = new]
    BY <1>4 DEF TypeOK, GenerateCppHeaders
  <2>4. task' \in [Workers -> Task]
    BY <2>2, <2>3 DEF TypeOK
  <2>5. disk' \in Disk
    BY <1>4, <1>0, <2>1 DEF GenerateCppHeaders, Disk
  <2>6. pc' \in [Workers -> Labels]
    BY <1>4 DEF TypeOK, GenerateCppHeaders, GotoUnlessAborted, Goto, Labels,
                Regenerating, Finishing
  <2>7. QED
    BY <1>4, <2>4, <2>5, <2>6 DEF TypeOK, GenerateCppHeaders
<1>5. CASE Preprocess(w)
  <2>1. PICK e \in BOOLEAN :
          task' = [task EXCEPT ![w].preprocessed = IF e THEN 0 ELSE input["native"],
                               ![w].included = (disk.extHeader.stamp # 0),
                               ![w].hasErrors = e]
    BY <1>5, <1>0 DEF Preprocess
  <2> DEFINE new == [task[w] EXCEPT
                       !.preprocessed = IF e THEN 0 ELSE input["native"],
                       !.included = (disk.extHeader.stamp # 0),
                       !.hasErrors = e]
  <2>2. new \in Task
    BY <1>0 DEF Task
  <2>3. task' = [task EXCEPT ![w] = new]
    BY <2>1 DEF TypeOK
  <2>4. task' \in [Workers -> Task]
    BY <2>2, <2>3 DEF TypeOK
  <2>5. QED
    BY <1>5, <2>4 DEF TypeOK, Preprocess, Goto, Labels, Regenerating
<1>6. CASE RecordIncludes(w)
  BY <1>6, <1>0 DEF TypeOK, RecordIncludes, Goto, Labels, Regenerating, Task,
                    Listing, Inputs, Sources
<1>7. CASE GenerateExtensionHeaders(w)
  <2>1. HeaderText(task[w].loaded) \in Nat
    BY <1>0, HeaderTextAssumption DEF Task, Versions
  <2> DEFINE ext == [stamp    |-> disk.extHeader.stamp + 1,
                     text     |-> HeaderText(task[w].loaded),
                     native   |-> task[w].preprocessed,
                     complete |-> TRUE]
  <2>2. ext \in Extension
    BY <1>0, <2>1 DEF Task, Disk, Extension
  <2>3. disk' \in {disk, [disk EXCEPT !.extHeader = ext]}
    BY <1>7 DEF GenerateExtensionHeaders
  <2>4. disk' \in Disk
    BY <1>0, <2>2, <2>3 DEF Disk
  <2>5. QED
    BY <1>7, <2>4 DEF TypeOK, GenerateExtensionHeaders, Goto, Labels, Regenerating
<1>8. CASE RecordExtension(w)
  <2> DEFINE list == [task[w].metadata EXCEPT
                        !["ext"] = IF @ = 0 THEN Metadata("ext") ELSE @]
             new == [task[w] EXCEPT !.metadata = list]
  <2>1. list \in Listing
    BY <1>0 DEF Task, Listing, Inputs
  <2>2. new \in Task
    BY <1>0, <2>1 DEF Task
  <2>3. task' \in {task, [task EXCEPT ![w] = new]}
    BY <1>8 DEF TypeOK, RecordExtension
  <2>4. task' \in [Workers -> Task]
    BY <2>2, <2>3 DEF TypeOK
  <2>5. pc' \in [Workers -> Labels]
    BY <1>8 DEF TypeOK, RecordExtension, GotoUnlessAborted, Goto, Labels,
                Regenerating, Finishing
  <2>6. QED
    BY <1>8, <2>4, <2>5 DEF TypeOK, RecordExtension
<1>9. CASE Parse(w)
  <2>1. [task[w] EXCEPT !.parsed = [config |-> task[w].loaded,
                                    native |-> input["native"],
                                    ext    |-> disk.extHeader]] \in Task
    BY <1>0 DEF Task, Disk, Snapshot
  <2>2. pc' \in [Workers -> Labels] /\ task' \in [Workers -> Task]
    BY <1>9, <2>1, LogThenGotoType DEF Parse, Labels, Regenerating
  <2>3. QED
    BY <1>9, <2>2 DEF TypeOK, Parse
<1>10. CASE Transform(w)
  <2>1. pc' \in [Workers -> Labels] /\ task' \in [Workers -> Task]
    BY <1>10, <1>0, LogThenGotoType DEF Transform, Labels, Regenerating
  <2>2. disk' \in Disk
    BY <1>10, <1>0 DEF Transform, Generated, Disk, Output, Task
  <2>3. QED
    BY <1>10, <2>1, <2>2 DEF TypeOK, Transform
<1>11. CASE Document(w)
  <2>1. pc' \in [Workers -> Labels] /\ task' \in [Workers -> Task]
    BY <1>11, <1>0, LogThenGotoType DEF Document, Labels, Regenerating
  <2>2. QED
    BY <1>11, <2>1 DEF TypeOK, Document
<1>12. CASE WriteBindings(w)
  <2>1. disk' \in Disk
    BY <1>12, <1>0 DEF WriteBindings, Generated, Disk, Output, Task
  <2>2. task' \in [Workers -> Task]
    <3>1. PICK e \in BOOLEAN :
            task' = [task EXCEPT ![w].hasErrors = e, ![w].success = ~e]
      BY <1>12, <1>0 DEF WriteBindings
    <3> DEFINE new == [task[w] EXCEPT !.hasErrors = e, !.success = ~e]
    <3>2. new \in Task
      BY <1>0 DEF Task
    <3>3. task' = [task EXCEPT ![w] = new]
      BY <3>1 DEF TypeOK
    <3>4. QED
      BY <3>2, <3>3 DEF TypeOK
  <2>3. pc' \in [Workers -> Labels]
    BY <1>12 DEF TypeOK, WriteBindings, Goto, Labels, Finishing
  <2>4. QED
    BY <1>12, <2>1, <2>2, <2>3 DEF TypeOK, WriteBindings
<1>13. QED
  BY <1>1, <1>2, <1>3, <1>4, <1>5, <1>6, <1>7, <1>8, <1>9, <1>10, <1>11, <1>12
     DEF ExecuteImpl

LEMMA FinallyType ==
  ASSUME TypeOK, NEW w \in Workers, Finally(w)
  PROVE  TypeOK'
<1>0. task[w].metadata \in Listing
  BY DEF TypeOK, Task
<1>1. CASE GenerateInputsCache(w)
  BY <1>1, <1>0 DEF TypeOK, GenerateInputsCache, Goto, Labels, Finishing, Disk
<1>2. CASE InputsCacheWriteFails(w)
  <2>1. pc' \in [Workers -> Labels]
    BY <1>2 DEF TypeOK, InputsCacheWriteFails, Goto, Labels, Finishing
  <2>2. \A p \in Prefixes : Truncated(task[w].metadata, p) \in Listing
    BY <1>0, TruncatedType
  <2>3. disk' \in Disk
    <3>1. CASE UNCHANGED disk
      BY <3>1 DEF TypeOK
    <3>2. ASSUME NEW p \in Prefixes,
                 disk' = [disk EXCEPT !.inputsCache =
                   [exists |-> TRUE, list |-> Truncated(task[w].metadata, p)]]
          PROVE  disk' \in Disk
      BY <2>2, <3>2 DEF TypeOK, Disk
    <3>3. QED
      BY <1>2, <3>1, <3>2 DEF InputsCacheWriteFails
  <2>4. QED
    BY <1>2, <2>1, <2>3 DEF TypeOK, InputsCacheWriteFails
<1>3. CASE RemoveDirtyMarker(w)
  BY <1>3 DEF TypeOK, RemoveDirtyMarker, Goto, Labels, Finishing, Disk
<1>4. CASE ReleaseLock(w)
  <2>1. mutex' \in Mutex
    BY <1>4, RelinquishType DEF ReleaseLock, TypeOK
  <2>2. QED
    BY <1>4, <2>1, NewTaskType DEF TypeOK, ReleaseLock, Goto, Labels
<1>5. CASE DeleteMarkerFails(w)
  BY <1>5, NewTaskType DEF TypeOK, DeleteMarkerFails, Mutex, Goto, Labels
<1>6. QED
  BY <1>1, <1>2, <1>3, <1>4, <1>5 DEF Finally

LEMMA InterruptionType ==
  ASSUME TypeOK, NEW w \in Workers, Interruption(w)
  PROVE  TypeOK'
<1>1. CASE Throw(w)
  BY <1>1, InterruptedWritesType DEF TypeOK, Throw, Goto, Labels, Finishing
<1>2. CASE Cancel(w)
  BY <1>2, ZenonT(40) DEF TypeOK, Cancel, Task
<1>3. CASE Crash(w)
  <2>1. mutex' \in Mutex
    BY <1>3, RelinquishType DEF Crash
  <2>2. disk' \in Disk
    BY <1>3, InterruptedWritesType DEF Crash
  <2>3. QED
    BY <1>3, <2>1, <2>2, NewTaskType DEF TypeOK, Crash, Goto, Labels
<1>4. CASE KeptLockEnds(w)
  BY <1>4, RelinquishType DEF TypeOK, KeptLockEnds
<1>5. QED
  BY <1>1, <1>2, <1>3, <1>4 DEF Interruption

LEMMA InitType == Init => TypeOK
<1>1. EmptyDisk \in Disk
  BY NoOutputType, VersionAssumption
     DEF EmptyDisk, Disk, Unlisted, Listing, NoExtension, TornExtension,
         Extension, Versions
<1>2. QED
  BY <1>1, NewTaskType, VersionAssumption
     DEF Init, TypeOK, Mutex, Labels, Versions

LEMMA NextType == TypeOK /\ [Next]_vars => TypeOK'
<1> SUFFICES ASSUME TypeOK, [Next]_vars
             PROVE  TypeOK'
  OBVIOUS
<1>1. ASSUME NEW w \in Workers, Start(w)
      PROVE  TypeOK'
  BY <1>1 DEF TypeOK, Start, Goto, Labels
<1>2. ASSUME NEW f \in Sources, Edit(f)
      PROVE  TypeOK'
  BY <1>2, VersionAssumption, LastVersionAssumption DEF TypeOK, Edit, Versions
<1>3. CASE UNCHANGED vars
  BY <1>3 DEF TypeOK, vars
<1>4. QED
  BY <1>1, <1>2, <1>3, DecideType, ExecuteImplType, FinallyType,
     InterruptionType DEF Next

(* Every variable stays in its type: TypeOK, for any number of workers.    *)
THEOREM TypeCorrect == Spec => []TypeOK
BY InitType, NextType, PTL DEF Spec

-----------------------------------------------------------------------------
(* The mutex.  A worker that gave up its wait goes on without the mutex,   *)
(* but only to mark the profile dirty: it was cancelled, and the check     *)
(* that follows sends it to the finally block.  A worker may own the mutex *)
(* and not know it: an earlier build of its process kept it.               *)

Unlocked == {"idle", "waiting", "timedOut"}
Locked == {"checkCaches", "checkInputs"} \cup Regenerating

LockInvOf(w) ==
  /\ task[w].workerLockAcquired => mutex.owner = w
  /\ mutex.owner = w => task[w].workerLockAcquired \/ mutex.kept
  /\ pc[w] \in Unlocked => ~task[w].workerLockAcquired
  /\ pc[w] \in Locked => task[w].workerLockAcquired
  /\ pc[w] = "mark" /\ ~task[w].workerLockAcquired => AbortExecution(w)
  /\ task[w].success => pc[w] \in Finishing /\ task[w].workerLockAcquired

LockInv == \A w \in Workers : LockInvOf(w)

(* What a step of u leaves to the other workers.                           *)
LEMMA LockInvOther ==
  ASSUME NEW w \in Workers, LockInvOf(w), task'[w] = task[w], pc'[w] = pc[w],
         mutex'.owner = w <=> mutex.owner = w,
         mutex.owner = w /\ mutex.kept => mutex'.kept
  PROVE  LockInvOf(w)'
BY DEF LockInvOf, AbortExecution

LEMMA DecideLock ==
  ASSUME TypeOK, LockInv, NEW u \in Workers, Decide(u)
  PROVE  LockInv'
<1> USE NoWorkerAssumption DEF Unlocked, Locked, Regenerating, Finishing, Labels
<1>0. /\ mutex \in Mutex
      /\ mutex.owner \in Workers \cup {NoWorker}
      /\ task[u] \in Task
      /\ pc \in [Workers -> Labels]
      /\ task \in [Workers -> Task]
  BY DEF TypeOK, Mutex
<1>1. ASSUME NEW w \in Workers, w # u
      PROVE  LockInvOf(w)'
  <2>1. task'[w] = task[w] /\ pc'[w] = pc[w]
    BY <1>0, <1>1 DEF Decide, AcquireLock, WaitTimesOut, WaitOrAbort,
                      GeneratePropertyCache, CheckInputsCache, Goto
  <2>2. (mutex'.owner = w <=> mutex.owner = w) /\ mutex'.kept = mutex.kept
    <3>1. CASE AcquireLock(u)
      <4>1. /\ mutex.owner \in {u, NoWorker}
            /\ mutex' = [mutex EXCEPT !.owner = u, !.abandoned = FALSE]
        BY <3>1 DEF AcquireLock
      <4>2. mutex'.owner = u /\ mutex'.kept = mutex.kept
        BY <1>0, <4>1 DEF Mutex
      <4>3. QED
        BY <1>1, <4>1, <4>2
    <3>2. CASE ~AcquireLock(u)
      BY <3>2 DEF Decide, WaitTimesOut, WaitOrAbort, GeneratePropertyCache,
                  CheckInputsCache
    <3>3. QED
      BY <3>1, <3>2
  <2>3. QED
    BY <2>1, <2>2, LockInvOther DEF LockInv
<1>2. CASE AcquireLock(u)
  <2>1. /\ task'[u].success = task[u].success /\ task'[u].workerLockAcquired
        /\ mutex'.owner = u
    BY <1>0, <1>2 DEF AcquireLock, Task, Mutex
  <2>2. QED
    BY <1>0, <1>1, <1>2, <2>1 DEF AcquireLock, Goto, At, LockInv, LockInvOf
<1>3. CASE WaitTimesOut(u)
  BY <1>0, <1>1, <1>3 DEF WaitTimesOut, Goto, At, LockInv, LockInvOf
<1>4. CASE WaitOrAbort(u)
  BY <1>0, <1>1, <1>4
     DEF WaitOrAbort, Goto, At, LockInv, LockInvOf, AbortExecution
<1>5. CASE GeneratePropertyCache(u)
  <2>1. /\ task'[u].success = task[u].success
        /\ task'[u].workerLockAcquired = task[u].workerLockAcquired
    BY <1>0, <1>5 DEF GeneratePropertyCache, Task
  <2>2. QED
    BY <1>0, <1>1, <1>5, <2>1
       DEF GeneratePropertyCache, Goto, At, LockInv, LockInvOf
<1>6. CASE CheckInputsCache(u)
  <2>1. task'[u].workerLockAcquired = task[u].workerLockAcquired
    BY <1>0, <1>6 DEF CheckInputsCache, Task
  <2>2. task'[u].success => task[u].success \/ pc'[u] = "finallyInputs"
    BY <1>0, <1>6 DEF CheckInputsCache, Task, Goto
  <2>3. QED
    BY <1>0, <1>1, <1>6, <2>1, <2>2
       DEF CheckInputsCache, Goto, At, LockInv, LockInvOf
<1>7. QED
  BY <1>2, <1>3, <1>4, <1>5, <1>6 DEF Decide

(* Inside ExecuteImpl only the marking step may run without the mutex.     *)
LEMMA ExecuteImplLock ==
  ASSUME TypeOK, LockInv, NEW u \in Workers, ExecuteImpl(u)
  PROVE  LockInv'
<1> USE DEF Unlocked, Locked, Regenerating, Finishing
<1>0. /\ task[u] \in Task
      /\ pc \in [Workers -> Labels]
      /\ task \in [Workers -> Task]
  BY DEF TypeOK
<1>1. mutex' = mutex
  BY DEF ExecuteImpl, MarkDirty, LoadConfig, RecordConfig, GenerateCppHeaders,
         Preprocess, RecordIncludes, GenerateExtensionHeaders, RecordExtension,
         Parse, Transform, Document, WriteBindings
<1>2. ASSUME NEW w \in Workers, w # u
      PROVE  LockInvOf(w)'
  <2>1. task'[w] = task[w] /\ pc'[w] = pc[w]
    BY <1>0, <1>2
       DEF ExecuteImpl, MarkDirty, LoadConfig, RecordConfig, GenerateCppHeaders,
           Preprocess, RecordIncludes, GenerateExtensionHeaders, RecordExtension,
           Parse, Transform, Document, WriteBindings, Goto, GotoUnlessAborted,
           LogThenGoto
  <2>2. QED
    BY <1>1, <2>1, LockInvOther DEF LockInv
<1>3. /\ task'[u].workerLockAcquired = task[u].workerLockAcquired
      /\ task'[u].success => task[u].success \/ pc'[u] = "finallyInputs"
  <2>1. CASE MarkDirty(u) \/ LoadConfig(u) \/ RecordConfig(u)
    BY <1>0, <2>1 DEF MarkDirty, LoadConfig, RecordConfig, Task
  <2>2. CASE GenerateCppHeaders(u)
    BY <1>0, <2>2 DEF GenerateCppHeaders, Task
  <2>9. CASE Preprocess(u)
    <3>1. PICK e :
            task' = [task EXCEPT ![u].preprocessed = IF e THEN 0 ELSE input["native"],
                                 ![u].included = (disk.extHeader.stamp # 0),
                                 ![u].hasErrors = e]
      BY <2>9 DEF Preprocess
    <3> DEFINE new == [task[u] EXCEPT
                         !.preprocessed = IF e THEN 0 ELSE input["native"],
                         !.included = (disk.extHeader.stamp # 0),
                         !.hasErrors = e]
    <3>2. task' = [task EXCEPT ![u] = new]
      BY <1>0, <3>1
    <3>3. /\ new.workerLockAcquired = task[u].workerLockAcquired
          /\ new.success = task[u].success
      BY <1>0 DEF Task
    <3>4. QED
      BY <1>0, <3>2, <3>3
  <2>3. CASE RecordIncludes(u)
    BY <1>0, <2>3 DEF RecordIncludes, Task
  <2>4. CASE GenerateExtensionHeaders(u) \/ RecordExtension(u)
    BY <1>0, <2>4 DEF GenerateExtensionHeaders, RecordExtension, Task
  <2>5. CASE Parse(u)
    BY <1>0, <2>5 DEF Parse, LogThenGoto, Task
  <2>6. CASE Transform(u) \/ Document(u)
    BY <1>0, <2>6 DEF Transform, Document, LogThenGoto, Task
  <2>7. CASE WriteBindings(u)
    BY <1>0, <2>7 DEF WriteBindings, Goto, Task
  <2>8. QED
    BY <2>1, <2>2, <2>3, <2>4, <2>5, <2>6, <2>7, <2>9 DEF ExecuteImpl
<1>5. CASE MarkDirty(u)
  <2>1. pc[u] = "mark" /\ ~task[u].success
    BY <1>5 DEF MarkDirty, At, LockInv, LockInvOf
  <2>2. pc'[u] = IF AbortExecution(u) THEN "finallyInputs" ELSE "loadConfig"
    BY <1>0, <1>5 DEF MarkDirty, GotoUnlessAborted, Goto
  <2>3. LockInvOf(u)'
    BY <1>1, <1>3, <1>5, <2>1, <2>2 DEF MarkDirty, LockInv, LockInvOf, Task
  <2>4. QED
    BY <1>2, <2>3 DEF LockInv
<1>6. CASE ~MarkDirty(u)
  <2>1. pc[u] \in Regenerating
    BY <1>6
       DEF ExecuteImpl, LoadConfig, RecordConfig, GenerateCppHeaders,
           Preprocess, RecordIncludes, GenerateExtensionHeaders, RecordExtension,
           Parse, Transform, Document, WriteBindings, At
  <2>2. /\ mutex.owner = u /\ task[u].workerLockAcquired
        /\ ~task[u].success
    BY <2>1 DEF LockInv, LockInvOf
  <2>3. pc'[u] \in Regenerating \cup {"finallyInputs"}
    BY <1>0, <1>6
       DEF ExecuteImpl, LoadConfig, RecordConfig, GenerateCppHeaders,
           Preprocess, RecordIncludes, GenerateExtensionHeaders, RecordExtension,
           Parse, Transform, Document, WriteBindings, Goto, GotoUnlessAborted,
           LogThenGoto
  <2>4. LockInvOf(u)'
    BY <1>1, <1>3, <2>2, <2>3 DEF LockInv, LockInvOf
  <2>5. QED
    BY <1>2, <2>4 DEF LockInv
<1>7. QED
  BY <1>5, <1>6

LEMMA RelinquishLock ==
  ASSUME TypeOK, LockInv, NEW u \in Workers, NEW a, Relinquish(u, a),
         task' = [task EXCEPT ![u] = NewTask], Goto(u, "idle")
  PROVE  LockInv'
<1>0. /\ mutex.owner \in Workers \cup {NoWorker}
      /\ pc \in [Workers -> Labels]
      /\ task \in [Workers -> Task]
      /\ mutex'.owner = IF mutex.owner = u THEN NoWorker ELSE mutex.owner
      /\ mutex'.kept <=> mutex.kept /\ mutex.owner # u
  BY DEF TypeOK, Relinquish, Mutex
<1>1. ASSUME NEW w \in Workers, w # u
      PROVE  LockInvOf(w)'
  <2>1. task'[w] = task[w] /\ pc'[w] = pc[w]
    BY <1>0, <1>1 DEF Goto
  <2>2. mutex'.owner = w <=> mutex.owner = w
    BY <1>0, <1>1, NoWorkerAssumption
  <2>3. mutex.owner = w /\ mutex.kept => mutex'.kept
    BY <1>0, <1>1
  <2>4. QED
    BY <2>1, <2>2, <2>3, LockInvOther DEF LockInv
<1>2. LockInvOf(u)'
  <2>1. task'[u] = NewTask /\ pc'[u] = "idle" /\ mutex'.owner # u
    BY <1>0, NoWorkerAssumption DEF Goto
  <2>2. QED
    BY <2>1 DEF LockInvOf, NewTask, Locked, Regenerating
<1>3. QED
  BY <1>1, <1>2 DEF LockInv

(* A build that ends and leaves the mutex to its thread.                   *)
LEMMA KeepingLock ==
  ASSUME TypeOK, LockInv, NEW u \in Workers,
         mutex'.owner = mutex.owner, mutex'.kept,
         task' = [task EXCEPT ![u] = NewTask], Goto(u, "idle")
  PROVE  LockInv'
<1>0. pc \in [Workers -> Labels] /\ task \in [Workers -> Task]
  BY DEF TypeOK
<1>1. ASSUME NEW w \in Workers, w # u
      PROVE  LockInvOf(w)'
  <2>1. task'[w] = task[w] /\ pc'[w] = pc[w]
    BY <1>0, <1>1 DEF Goto
  <2>2. QED
    BY <2>1, LockInvOther DEF LockInv
<1>2. task'[u] = NewTask /\ pc'[u] = "idle"
  BY <1>0 DEF Goto
<1>3. LockInvOf(u)'
  BY <1>2 DEF LockInvOf, NewTask, Locked, Regenerating
<1>4. QED
  BY <1>1, <1>3 DEF LockInv

LEMMA FinallyLock ==
  ASSUME TypeOK, LockInv, NEW u \in Workers, Finally(u)
  PROVE  LockInv'
<1>0. pc \in [Workers -> Labels] /\ mutex \in Mutex
  BY DEF TypeOK
<1>1. CASE GenerateInputsCache(u) \/ InputsCacheWriteFails(u) \/ RemoveDirtyMarker(u)
  <2>1. /\ task' = task /\ mutex' = mutex
        /\ pc[u] \in Finishing /\ pc'[u] \in Finishing
        /\ \A w \in Workers : w # u => pc'[w] = pc[w]
    BY <1>0, <1>1 DEF GenerateInputsCache, InputsCacheWriteFails,
                      RemoveDirtyMarker, Goto, At, Finishing
  <2>2. QED
    BY <2>1 DEF LockInv, LockInvOf, AbortExecution, Finishing, Unlocked, Locked,
                Regenerating
<1>2. CASE ReleaseLock(u)
  BY <1>2, RelinquishLock, KeepingLock DEF ReleaseLock
<1>3. CASE DeleteMarkerFails(u)
  BY <1>0, <1>3, KeepingLock DEF DeleteMarkerFails, Mutex
<1>4. QED
  BY <1>1, <1>2, <1>3 DEF Finally

LEMMA InterruptionLock ==
  ASSUME TypeOK, LockInv, NEW u \in Workers, Interruption(u)
  PROVE  LockInv'
<1>0. pc \in [Workers -> Labels] /\ task \in [Workers -> Task]
  BY DEF TypeOK
<1>1. CASE Throw(u)
  <2>1. /\ task' = task /\ mutex' = mutex
        /\ pc[u] \notin Unlocked /\ pc'[u] = "finallyInputs"
        /\ \A w \in Workers : w # u => pc'[w] = pc[w]
    BY <1>0, <1>1 DEF Throw, Goto, Unlocked, Regenerating
  <2>2. QED
    BY <2>1 DEF LockInv, LockInvOf, AbortExecution, Finishing, Unlocked, Locked,
                Regenerating
<1>2. CASE Cancel(u)
  <2>1. /\ mutex' = mutex /\ pc' = pc
        /\ task'[u].workerLockAcquired = task[u].workerLockAcquired
        /\ task'[u].success = task[u].success
        /\ task'[u].cancelled
        /\ \A w \in Workers : w # u => task'[w] = task[w]
    BY <1>0, <1>2 DEF Cancel, Task
  <2>2. QED
    BY <2>1 DEF LockInv, LockInvOf, AbortExecution
<1>3. CASE Crash(u)
  BY <1>3, RelinquishLock DEF Crash
<1>4. CASE KeptLockEnds(u)
  <2>1. /\ task' = task /\ pc' = pc /\ pc[u] = "idle"
        /\ mutex.owner = u /\ mutex'.owner = NoWorker
    BY <1>4 DEF KeptLockEnds, At, Relinquish
  <2>2. QED
    BY <2>1, NoWorkerAssumption DEF LockInv, LockInvOf, AbortExecution, Unlocked
<1>5. QED
  BY <1>1, <1>2, <1>3, <1>4 DEF Interruption

LEMMA NextLock == TypeOK /\ LockInv /\ [Next]_vars => LockInv'
<1> SUFFICES ASSUME TypeOK, LockInv, [Next]_vars
             PROVE  LockInv'
  OBVIOUS
<1>1. ASSUME NEW u \in Workers, Start(u)
      PROVE  LockInv'
  BY <1>1 DEF Start, At, Goto, TypeOK, LockInv, LockInvOf, AbortExecution,
              Unlocked, Locked, Regenerating, Finishing
<1>2. ASSUME NEW f \in Sources, Edit(f)
      PROVE  LockInv'
  BY <1>2 DEF Edit, LockInv, LockInvOf, AbortExecution
<1>3. CASE UNCHANGED vars
  BY <1>3 DEF vars, LockInv, LockInvOf, AbortExecution
<1>4. QED
  BY <1>1, <1>2, <1>3, DecideLock, ExecuteImplLock, FinallyLock, InterruptionLock
     DEF Next

LEMMA InitLock == Init => LockInv
<1> SUFFICES ASSUME Init, NEW w \in Workers
             PROVE  LockInvOf(w)
  BY DEF LockInv
<1>1. task[w] = NewTask /\ pc[w] = "idle" /\ mutex.owner # w
  BY NoWorkerAssumption DEF Init
<1>2. QED
  BY <1>1 DEF LockInvOf, NewTask, Locked, Regenerating

LEMMA LockInvariant == Spec => []LockInv
BY TypeCorrect, InitLock, NextLock, PTL DEF Spec

(* The flag workerLockAcquired tells the truth, so ReleaseMutex is called  *)
(* by the owner and by nobody else, after any crash or cancellation; and a *)
(* worker owns the mutex unknowingly only when a marker that could not be  *)
(* deleted made an earlier build keep it.                                  *)
THEOREM LockFlag == Spec => []LockMatchesFlag
<1>1. LockInv => LockMatchesFlag
  BY DEF LockInv, LockInvOf, LockMatchesFlag
<1>2. QED
  BY <1>1, LockInvariant, PTL

(* Only the owner of the mutex reads inputs and writes generated files,    *)
(* even when cancelled waits go on without the mutex.                      *)
THEOREM SingleGenerator == Spec => []OneGenerator
<1>1. LockInv => OneGenerator
  BY DEF LockInv, LockInvOf, OneGenerator, Locked
<1>2. QED
  BY <1>1, LockInvariant, PTL

-----------------------------------------------------------------------------
(* The files.  From the marker on until the last output is written the     *)
(* marker is there; whoever trusts the outputs finds a matching pair.      *)

OutputInvOf(w) ==
  /\ pc[w] \in Regenerating => disk.dirty
  /\ pc[w] \in {"document", "write"}
       => disk.bindMapping = Generated(task[w].parsed)
  /\ pc[w] = "checkInputs" \/ task[w].success
       => disk.bindings = disk.bindMapping

OutputInv == (\A w \in Workers : OutputInvOf(w)) /\ CleanMeansConsistent

(* A step that neither removes the marker nor writes an output.            *)
KeepsOutputs ==
  /\ disk.dirty => disk'.dirty
  /\ disk'.bindings = disk.bindings
  /\ disk'.bindMapping = disk.bindMapping

(* A step of u that keeps the outputs, or of the owner of the mutex, is    *)
(* harmless to the others: without the mutex nobody relies on the files.   *)
LEMMA OutputOther ==
  ASSUME LockInv, NEW u \in Workers, NEW w \in Workers, w # u, OutputInvOf(w),
         task'[w] = task[w], pc'[w] = pc[w],
         KeepsOutputs \/ mutex.owner = u
  PROVE  OutputInvOf(w)'
<1>1. CASE KeepsOutputs
  BY <1>1 DEF OutputInvOf, KeepsOutputs, Generated
<1>2. CASE mutex.owner = u
  <2>1. pc[w] \notin Locked /\ ~task[w].success
    BY <1>2 DEF LockInv, LockInvOf
  <2>2. QED
    BY <2>1 DEF OutputInvOf, Locked, Regenerating
<1>3. QED
  BY <1>1, <1>2

LEMMA DecideOutput ==
  ASSUME TypeOK, LockInv, OutputInv, NEW u \in Workers, Decide(u)
  PROVE  OutputInv'
<1>0. /\ pc \in [Workers -> Labels]
      /\ task \in [Workers -> Task]
      /\ task[u] \in Task
      /\ disk \in Disk
  BY DEF TypeOK
<1>1. KeepsOutputs /\ disk'.dirty = disk.dirty
  BY <1>0 DEF Decide, AcquireLock, WaitTimesOut, WaitOrAbort,
              GeneratePropertyCache, CheckInputsCache, KeepsOutputs, Disk
<1>2. CleanMeansConsistent'
  BY <1>1 DEF OutputInv, CleanMeansConsistent, KeepsOutputs
<1>3. ASSUME NEW w \in Workers, w # u
      PROVE  OutputInvOf(w)'
  <2>1. task'[w] = task[w] /\ pc'[w] = pc[w]
    BY <1>0, <1>3 DEF Decide, AcquireLock, WaitTimesOut, WaitOrAbort,
                      GeneratePropertyCache, CheckInputsCache, Goto
  <2>2. QED
    BY <1>1, <1>3, <2>1, OutputOther DEF OutputInv
<1>4. pc'[u] \notin Regenerating /\ pc'[u] \notin {"document", "write"}
  BY <1>0 DEF Decide, AcquireLock, WaitTimesOut, WaitOrAbort,
              GeneratePropertyCache, CheckInputsCache, Goto, Regenerating
<1>5. pc'[u] = "checkInputs" \/ task'[u].success
        => disk'.bindings = disk'.bindMapping
  <2>1. CASE AcquireLock(u)
    <3>1. task'[u].success = task[u].success /\ pc'[u] = "checkCaches"
      BY <1>0, <2>1 DEF AcquireLock, Goto, Task
    <3>2. QED
      BY <1>1, <3>1 DEF OutputInv, OutputInvOf, KeepsOutputs
  <2>2. CASE WaitTimesOut(u) \/ WaitOrAbort(u)
    <3>1. task' = task /\ pc'[u] # "checkInputs"
      BY <1>0, <2>2 DEF WaitTimesOut, WaitOrAbort, Goto
    <3>2. QED
      BY <1>1, <3>1 DEF OutputInv, OutputInvOf, KeepsOutputs
  <2>3. CASE GeneratePropertyCache(u)
    <3>1. /\ task'[u].success = task[u].success
          /\ pc'[u] = "checkInputs" => ~disk.dirty
      BY <1>0, <2>3 DEF GeneratePropertyCache, Goto, Task
    <3>2. QED
      BY <1>1, <3>1
         DEF OutputInv, OutputInvOf, KeepsOutputs, CleanMeansConsistent
  <2>4. CASE CheckInputsCache(u)
    BY <1>1, <2>4
       DEF CheckInputsCache, At, OutputInv, OutputInvOf, KeepsOutputs
  <2>5. QED
    BY <2>1, <2>2, <2>3, <2>4 DEF Decide
<1>6. OutputInvOf(u)'
  BY <1>4, <1>5 DEF OutputInvOf
<1>7. QED
  BY <1>2, <1>3, <1>6 DEF OutputInv

(* The steps of ExecuteImpl before the model is mapped write no output.    *)
Preparing(u) ==
  \/ LoadConfig(u) \/ RecordConfig(u) \/ GenerateCppHeaders(u) \/ Preprocess(u)
  \/ RecordIncludes(u) \/ GenerateExtensionHeaders(u) \/ RecordExtension(u)
  \/ Parse(u)

LEMMA PreparingOutput ==
  ASSUME TypeOK, LockInv, OutputInv, NEW u \in Workers, Preparing(u)
  PROVE  OutputInv'
<1>0. /\ pc \in [Workers -> Labels]
      /\ task \in [Workers -> Task]
      /\ disk \in Disk
  BY DEF TypeOK
<1>1. KeepsOutputs /\ disk'.dirty = disk.dirty
  BY <1>0 DEF Preparing, LoadConfig, RecordConfig, GenerateCppHeaders,
       Preprocess, RecordIncludes, GenerateExtensionHeaders, RecordExtension,
       Parse, KeepsOutputs, Disk
<1>2. pc[u] \in Regenerating
  BY DEF Preparing, LoadConfig, RecordConfig, GenerateCppHeaders,
       Preprocess, RecordIncludes, GenerateExtensionHeaders, RecordExtension,
       Parse, At, Regenerating
<1>3. disk.dirty /\ mutex.owner = u /\ ~task[u].success
  BY <1>2 DEF OutputInv, OutputInvOf, LockInv, LockInvOf, Locked, Regenerating,
              Finishing
<1>4. CleanMeansConsistent'
  BY <1>1, <1>3 DEF CleanMeansConsistent
<1>5. ASSUME NEW w \in Workers, w # u
      PROVE  OutputInvOf(w)'
  <2>1. task'[w] = task[w] /\ pc'[w] = pc[w]
    BY <1>0, <1>5
       DEF Preparing, LoadConfig, RecordConfig, GenerateCppHeaders,
         Preprocess, RecordIncludes, GenerateExtensionHeaders, RecordExtension,
         Parse, Goto, GotoUnlessAborted, LogThenGoto
  <2>2. QED
    BY <1>3, <1>5, <2>1, OutputOther DEF OutputInv
<1>6. pc'[u] \notin {"document", "write", "checkInputs"}
  BY <1>0 DEF Preparing, LoadConfig, RecordConfig, GenerateCppHeaders,
       Preprocess, RecordIncludes, GenerateExtensionHeaders, RecordExtension,
       Parse, Goto, GotoUnlessAborted, LogThenGoto
<1>7. ~task'[u].success
  <2>1. ExecuteImpl(u)
    BY DEF Preparing, ExecuteImpl
  <2>2. LockInv'
    BY <2>1, ExecuteImplLock
  <2>3. CASE pc'[u] = "finallyInputs"
    <3>1. pc[u] \in {"headers", "recordExtension", "parse"}
      BY <1>0, <2>3
         DEF Preparing, LoadConfig, RecordConfig, GenerateCppHeaders,
           Preprocess, RecordIncludes, GenerateExtensionHeaders,
           RecordExtension, Parse, Goto, At
    <3>2. GenerateCppHeaders(u) \/ RecordExtension(u) \/ Parse(u)
      BY <3>1 DEF Preparing, LoadConfig, RecordConfig, GenerateCppHeaders,
           Preprocess, RecordIncludes, GenerateExtensionHeaders,
           RecordExtension, Parse, At
    <3>3. task[u] \in Task
      BY <1>0
    <3>4. task'[u].success = task[u].success
      BY <1>0, <3>2, <3>3
         DEF GenerateCppHeaders, RecordExtension, Parse, LogThenGoto, Task
    <3>5. QED
      BY <1>3, <3>4
  <2>4. CASE pc'[u] # "finallyInputs"
    <3>1. pc'[u] \in Regenerating
      BY <1>0, <2>4
         DEF Preparing, LoadConfig, RecordConfig, GenerateCppHeaders,
           Preprocess, RecordIncludes, GenerateExtensionHeaders,
           RecordExtension, Parse, Goto, GotoUnlessAborted, LogThenGoto,
           Regenerating
    <3>2. QED
      BY <2>2, <3>1 DEF LockInv, LockInvOf, Regenerating, Finishing
  <2>5. QED
    BY <2>3, <2>4
<1>8. OutputInvOf(u)'
  BY <1>1, <1>3, <1>6, <1>7 DEF OutputInvOf
<1>9. QED
  BY <1>4, <1>5, <1>8 DEF OutputInv

LEMMA ExecuteImplOutput ==
  ASSUME TypeOK, LockInv, OutputInv, NEW u \in Workers, ExecuteImpl(u)
  PROVE  OutputInv'
<1>0. /\ pc \in [Workers -> Labels]
      /\ task \in [Workers -> Task]
      /\ task[u] \in Task
      /\ disk \in Disk
  BY DEF TypeOK
<1>1. CASE MarkDirty(u)
  <2>1. /\ KeepsOutputs /\ disk'.dirty
        /\ pc'[u] \in {"loadConfig", "finallyInputs"}
        /\ task'[u].success = task[u].success
        /\ \A w \in Workers : w # u => task'[w] = task[w] /\ pc'[w] = pc[w]
    BY <1>0, <1>1 DEF MarkDirty, Goto, GotoUnlessAborted, KeepsOutputs, Disk, Task
  <2>2. \A w \in Workers : w # u => OutputInvOf(w)'
    BY <2>1, OutputOther DEF OutputInv
  <2>3. OutputInvOf(u)'
    BY <2>1 DEF OutputInv, OutputInvOf, KeepsOutputs
  <2>4. QED
    BY <2>1, <2>2, <2>3 DEF OutputInv, CleanMeansConsistent
<1>2. CASE Preparing(u)
  BY <1>2, PreparingOutput
<1>3. CASE Transform(u) \/ Document(u) \/ WriteBindings(u)
  <2>1. pc[u] \in Regenerating
    BY <1>3 DEF Transform, Document, WriteBindings, At, Regenerating
  <2>2. disk.dirty /\ mutex.owner = u /\ ~task[u].success
    BY <2>1 DEF OutputInv, OutputInvOf, LockInv, LockInvOf, Locked, Regenerating,
                Finishing
  <2>3. disk'.dirty
    BY <1>0, <1>3, <2>2 DEF Transform, Document, WriteBindings, Disk
  <2>4. \A w \in Workers : w # u => task'[w] = task[w] /\ pc'[w] = pc[w]
    BY <1>0, <1>3 DEF Transform, Document, WriteBindings, LogThenGoto, Goto
  <2>5. \A w \in Workers : w # u => OutputInvOf(w)'
    BY <2>2, <2>4, OutputOther DEF OutputInv
  <2>6. CASE Transform(u)
    <3>1. /\ disk'.bindMapping = Generated(task[u].parsed)
          /\ pc'[u] \in {"document", "finallyInputs"}
          /\ task'[u].parsed = task[u].parsed
          /\ task'[u].success = task[u].success
      BY <1>0, <2>6 DEF Transform, LogThenGoto, Goto, Disk, Task
    <3>2. OutputInvOf(u)'
      BY <2>2, <2>3, <3>1 DEF OutputInvOf, Generated
    <3>3. QED
      BY <2>3, <2>5, <3>2 DEF OutputInv, CleanMeansConsistent
  <2>7. CASE Document(u)
    <3>1. /\ disk' = disk /\ pc[u] = "document"
          /\ pc'[u] \in {"write", "finallyInputs"}
          /\ task'[u].parsed = task[u].parsed
          /\ task'[u].success = task[u].success
      BY <1>0, <2>7 DEF Document, LogThenGoto, Goto, At, Task
    <3>2. OutputInvOf(u)'
      BY <2>2, <2>3, <3>1 DEF OutputInv, OutputInvOf, Generated
    <3>3. QED
      BY <2>3, <2>5, <3>2 DEF OutputInv, CleanMeansConsistent
  <2>8. CASE WriteBindings(u)
    <3>1. /\ disk'.bindings = Generated(task[u].parsed)
          /\ disk'.bindMapping = disk.bindMapping
          /\ pc[u] = "write" /\ pc'[u] = "finallyInputs"
      BY <1>0, <2>8 DEF WriteBindings, Goto, At, Disk
    <3>2. disk.bindMapping = Generated(task[u].parsed)
      BY <3>1 DEF OutputInv, OutputInvOf
    <3>3. OutputInvOf(u)'
      BY <3>1, <3>2 DEF OutputInvOf, Regenerating
    <3>4. QED
      BY <2>3, <2>5, <3>3 DEF OutputInv, CleanMeansConsistent
  <2>9. QED
    BY <1>3, <2>6, <2>7, <2>8
<1>4. QED
  BY <1>1, <1>2, <1>3 DEF ExecuteImpl, Preparing

LEMMA FinallyOutput ==
  ASSUME TypeOK, LockInv, OutputInv, NEW u \in Workers, Finally(u)
  PROVE  OutputInv'
<1>0. /\ pc \in [Workers -> Labels]
      /\ task \in [Workers -> Task]
      /\ disk \in Disk
  BY DEF TypeOK
<1>1. \A w \in Workers : w # u => task'[w] = task[w] /\ pc'[w] = pc[w]
  BY <1>0 DEF Finally, GenerateInputsCache, InputsCacheWriteFails,
              RemoveDirtyMarker, DeleteMarkerFails, ReleaseLock, Goto
<1>2. /\ pc'[u] \notin Regenerating \cup {"checkInputs"}
      /\ task'[u].success => task[u].success
      /\ disk'.bindings = disk.bindings
      /\ disk'.bindMapping = disk.bindMapping
  <2>1. CASE ReleaseLock(u) \/ DeleteMarkerFails(u)
    <3>1. disk' = disk /\ task'[u] = NewTask /\ pc'[u] = "idle"
      BY <1>0, <2>1 DEF ReleaseLock, DeleteMarkerFails, Goto
    <3>2. QED
      BY <3>1 DEF Regenerating, NewTask
  <2>2. CASE GenerateInputsCache(u) \/ InputsCacheWriteFails(u)
    BY <1>0, <2>2 DEF GenerateInputsCache, InputsCacheWriteFails, Goto, Disk,
                      Regenerating
  <2>3. CASE RemoveDirtyMarker(u)
    BY <1>0, <2>3 DEF RemoveDirtyMarker, Goto, Disk, Regenerating
  <2>4. QED
    BY <2>1, <2>2, <2>3 DEF Finally
<1>3. OutputInvOf(u)'
  BY <1>2 DEF OutputInv, OutputInvOf, Regenerating
<1>4. KeepsOutputs \/ task[u].success
  BY <1>0 DEF Finally, GenerateInputsCache, InputsCacheWriteFails,
              RemoveDirtyMarker, DeleteMarkerFails, ReleaseLock, KeepsOutputs, Disk
<1>5. CASE KeepsOutputs
  BY <1>1, <1>3, <1>5, OutputOther
     DEF OutputInv, CleanMeansConsistent, KeepsOutputs
<1>6. CASE task[u].success
  <2>1. mutex.owner = u
    BY <1>6 DEF LockInv, LockInvOf
  <2>2. disk'.bindings = disk'.bindMapping
    BY <1>2, <1>6 DEF OutputInv, OutputInvOf
  <2>3. QED
    BY <1>1, <1>3, <2>1, <2>2, OutputOther DEF OutputInv, CleanMeansConsistent
<1>7. QED
  BY <1>4, <1>5, <1>6

LEMMA InterruptionOutput ==
  ASSUME TypeOK, LockInv, OutputInv, NEW u \in Workers, Interruption(u)
  PROVE  OutputInv'
<1>0. /\ pc \in [Workers -> Labels]
      /\ task \in [Workers -> Task]
      /\ task[u] \in Task
      /\ disk \in Disk
  BY DEF TypeOK
<1>1. CASE Cancel(u)
  <2>1. /\ disk' = disk /\ pc' = pc
        /\ \A w \in Workers : /\ task'[w].success = task[w].success
                              /\ task'[w].parsed = task[w].parsed
    BY <1>0, <1>1 DEF Cancel, Task
  <2>2. QED
    BY <2>1 DEF OutputInv, OutputInvOf, CleanMeansConsistent, Generated
<1>2. CASE Throw(u) \/ Crash(u)
  <2>1. /\ \A w \in Workers : w # u => task'[w] = task[w] /\ pc'[w] = pc[w]
        /\ pc'[u] \in {"idle", "finallyInputs"}
        /\ disk' \in InterruptedWrites(u)
    BY <1>0, <1>2 DEF Throw, Crash, Goto
  <2>2. ~task'[u].success
    <3>1. CASE Throw(u)
      BY <3>1 DEF Throw, LockInv, LockInvOf, Finishing, Regenerating
    <3>2. CASE Crash(u)
      BY <1>0, <3>2 DEF Crash, NewTask
    <3>3. QED
      BY <1>2, <3>1, <3>2
  <2>3. OutputInvOf(u)'
    BY <2>1, <2>2 DEF OutputInvOf, Regenerating
  <2>4. CASE pc[u] \in {"transform", "write"}
    <3>1. disk.dirty /\ mutex.owner = u
      BY <2>4 DEF OutputInv, OutputInvOf, LockInv, LockInvOf, Locked, Regenerating
    <3>2. disk'.dirty
      BY <1>0, <2>1, <2>4, <3>1 DEF InterruptedWrites, At, Disk
    <3>3. QED
      BY <2>1, <2>3, <3>1, <3>2, OutputOther DEF OutputInv, CleanMeansConsistent
  <2>5. CASE pc[u] \notin {"transform", "write"}
    <3>1. KeepsOutputs /\ disk'.dirty = disk.dirty
      BY <1>0, <2>1, <2>5 DEF InterruptedWrites, At, Disk, KeepsOutputs
    <3>2. QED
      BY <2>1, <2>3, <3>1, OutputOther
         DEF OutputInv, CleanMeansConsistent, KeepsOutputs
  <2>6. QED
    BY <2>4, <2>5
<1>3. CASE KeptLockEnds(u)
  BY <1>3 DEF KeptLockEnds, OutputInv, OutputInvOf, CleanMeansConsistent, Generated
<1>4. QED
  BY <1>1, <1>2, <1>3 DEF Interruption

LEMMA NextOutput == TypeOK /\ LockInv /\ OutputInv /\ [Next]_vars => OutputInv'
<1> SUFFICES ASSUME TypeOK, LockInv, OutputInv, [Next]_vars
             PROVE  OutputInv'
  OBVIOUS
<1>1. ASSUME NEW u \in Workers, Start(u)
      PROVE  OutputInv'
  BY <1>1 DEF Start, At, Goto, TypeOK, OutputInv, OutputInvOf,
              CleanMeansConsistent, Generated, Regenerating
<1>2. ASSUME NEW f \in Sources, Edit(f)
      PROVE  OutputInv'
  BY <1>2 DEF Edit, OutputInv, OutputInvOf, CleanMeansConsistent, Generated
<1>3. CASE UNCHANGED vars
  BY <1>3 DEF vars, OutputInv, OutputInvOf, CleanMeansConsistent, Generated
<1>4. QED
  BY <1>1, <1>2, <1>3, DecideOutput, ExecuteImplOutput, FinallyOutput,
     InterruptionOutput DEF Next

LEMMA InitOutput == Init => OutputInv
<1> SUFFICES ASSUME Init
             PROVE  OutputInv
  OBVIOUS
<1>1. disk.bindings = disk.bindMapping
  BY DEF Init, EmptyDisk
<1>2. ASSUME NEW w \in Workers
      PROVE  OutputInvOf(w)
  BY <1>1 DEF Init, OutputInvOf, NewTask, Regenerating
<1>3. QED
  BY <1>1, <1>2 DEF OutputInv, CleanMeansConsistent

(* Without the dirty marker bindings and bind mapping come from the same   *)
(* parse and are whole: whatever was killed, cancelled or thrown, and      *)
(* whoever wrote the marker or the caches without the mutex.               *)
THEOREM CleanProfile == Spec => []CleanMeansConsistent
<1>1. Spec => []OutputInv
  BY TypeCorrect, LockInvariant, InitOutput, NextOutput, PTL DEF Spec
<1>2. OutputInv => CleanMeansConsistent
  BY DEF OutputInv
<1>3. QED
  BY <1>1, <1>2, PTL
=============================================================================
