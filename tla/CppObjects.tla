------------------------------ MODULE CppObjects ------------------------------
(***************************************************************************)
(* Managed objects that stand for native COM objects (ComObject, which is  *)
(* a CppObject, which is a DisposeBase), and the ObjectTracker that lists  *)
(* them under their native pointers.  Threads create objects, assign their *)
(* NativePointer and dispose of them; the finalizer's thread disposes of   *)
(* those that were dropped.                                                *)
(*                                                                         *)
(* A call is a frame on its thread's stack, because the handlers of the    *)
(* events Disposing, Disposed, Tracked and UnTracked run in the middle of  *)
(* it and may dispose of the object themselves.  Managed code uses an      *)
(* object from one thread at a time, and gives an object a reference of    *)
(* its own with every pointer; what it takes out it releases itself.       *)
(* Object tracking is enabled.                                             *)
(***************************************************************************)
EXTENDS Naturals, Sequences, FiniteSets

CONSTANTS
  Threads,
  NoThread,            \* creator of what does not exist
  Finalizer,           \* the finalizer's thread
  Objects,             \* bound: the managed objects
  Pointers,            \* the native objects
  Null,                \* IntPtr.Zero
  ThreadStatic,        \* Configuration.UseThreadStaticObjectTracking
  ReleaseOnFinalizer,  \* Configuration.EnableReleaseOnFinalizer
  Pinned,              \* objects are used by the thread that creates them
  Handlers,            \* the events whose handlers dispose of the object
  Nesting              \* bound: calls on a stack

ASSUME ThreadAssumption == Finalizer \in Threads /\ NoThread \notin Threads
ASSUME ObjectAssumption == IsFiniteSet(Objects) /\ Null \notin Pointers
ASSUME NestingAssumption == Nesting \in Nat \ {0}
ASSUME FlagAssumption ==
  {ThreadStatic, ReleaseOnFinalizer, Pinned} \subseteq BOOLEAN
ASSUME HandlerAssumption ==
  Handlers \subseteq {"tracked", "disposing", "untracked", "disposed"}

VARIABLES
  status,      \* is the object made, dropped, or collected
  creator,     \* the thread that made it
  pointer,     \* _nativePointer of every object
  suppressed,  \* GC.SuppressFinalize was called
  references,  \* the native objects' reference counts
  global,      \* _processGlobalObjectReferences: null or one of the dictionaries
  dictionary,  \* by the threads that made one: pointer to weak references
  stack        \* the calls of every thread, the innermost last

objects == <<status, creator, pointer, suppressed, references>>
tracker == <<global, dictionary>>
vars == <<objects, tracker, stack>>

-----------------------------------------------------------------------------

Maybe == Pointers \cup {Null}
Users == Threads \ {Finalizer}

NoFrame == [call |-> "none", object |-> Null, at |-> "none",
            disposing |-> TRUE, nested |-> FALSE, old |-> Null, new |-> Null,
            table |-> NoThread]

DisposeFrame(o, disposing) ==
  [NoFrame EXCEPT !.call = "dispose", !.object = o, !.disposing = disposing,
                  !.at = "disposing"]

Top(t) == stack[t][Len(stack[t])]
At(t, label) == stack[t] # <<>> /\ Top(t).at = label
Push(t, frame) == stack' = [stack EXCEPT ![t] = Append(@, frame)]
Goto(t, frame, label) ==
  stack' = [stack EXCEPT ![t][Len(stack[t])] = [frame EXCEPT !.at = label]]
Return(t) == stack' = [stack EXCEPT ![t] = SubSeq(@, 1, Len(@) - 1)]

AllIdle == \A t \in Threads : stack[t] = <<>>
Unused(o) == \A t \in Threads : \A i \in DOMAIN stack[t] : stack[t][i].object # o

IsDisposed(o) == pointer[o] = Null

Empty == [p \in Pointers |-> {}]

Init ==
  /\ status = [o \in Objects |-> "none"]
  /\ creator = [o \in Objects |-> NoThread]
  /\ pointer = [o \in Objects |-> Null]
  /\ suppressed = [o \in Objects |-> FALSE]
  /\ references = [p \in Pointers |-> 0]
  /\ global = NoThread
  /\ dictionary = [t \in {} |-> Empty]
  /\ stack = [t \in Threads |-> <<>>]

-----------------------------------------------------------------------------
(* The calls of managed code.                                              *)

MayUse(t, o) ==
  /\ t \in Users /\ stack[t] = <<>>
  /\ status[o] = "live" /\ Unused(o)
  /\ Pinned => creator[o] = t

(* The constructors; without a pointer there is nothing to track.          *)
Create(t, o, p) ==
  /\ t \in Users /\ stack[t] = <<>> /\ status[o] = "none"
  /\ status' = [status EXCEPT ![o] = "live"]
  /\ creator' = [creator EXCEPT ![o] = t]
  /\ pointer' = [pointer EXCEPT ![o] = p]
  /\ references' = [q \in Pointers |-> references[q] + IF q = p THEN 1 ELSE 0]
  /\ IF p = Null THEN UNCHANGED stack
     ELSE Push(t, [NoFrame EXCEPT !.call = "create", !.object = o, !.new = p, !.at = "table"])
  /\ UNCHANGED <<suppressed, tracker>>

(* The setter of NativePointer; one that changes nothing returns early.    *)
SetNativePointer(t, o, p) ==
  /\ MayUse(t, o) /\ p # pointer[o]
  /\ pointer' = [pointer EXCEPT ![o] = p]
  /\ references' = [q \in Pointers |-> references[q] + (IF q = p THEN 1 ELSE 0)
                                                     - (IF q = pointer[o] THEN 1 ELSE 0)]
  /\ Push(t, [NoFrame EXCEPT !.call = "set", !.object = o, !.old = pointer[o], !.new = p,
                             !.at = "table"])
  /\ UNCHANGED <<status, creator, suppressed, tracker>>

(* Seeded fault: an object that is disposed of is disposed of again.       *)
DisposeAgain(t, below, o, disposing) ==
  /\ stack' = [stack EXCEPT ![t] = Append(below, DisposeFrame(o, disposing))]
  /\ UNCHANGED <<objects, tracker>>

(* CheckAndDispose, up to the event Disposing, on the calls below.         *)
CheckAndDispose(t, below, o, disposing) ==
  /\ ~IsDisposed(o)
  /\ stack' = [stack EXCEPT ![t] = Append(below, DisposeFrame(o, disposing))]
  /\ UNCHANGED <<objects, tracker>>

Dispose(t, o) == MayUse(t, o) /\ CheckAndDispose(t, stack[t], o, TRUE)

(* A handler of one of the events disposes of the object it was given; one *)
(* of Disposing, in the middle of another Dispose: history, nested.        *)
DisposeInHandler(t) ==
  /\ stack[t] # <<>> /\ Len(stack[t]) < Nesting
  /\ Top(t).at \in Handlers
  /\ LET below == [Top(t) EXCEPT !.nested = (@ \/ Top(t).at = "disposing")]
     IN  CheckAndDispose(t, [stack[t] EXCEPT ![Len(stack[t])] = below], Top(t).object, TRUE)

(* The last reference in managed code goes away.                           *)
Drop(o) ==
  /\ status[o] = "live" /\ Unused(o)
  /\ status' = [status EXCEPT ![o] = IF suppressed[o] THEN "collected" ELSE "dropped"]
  /\ UNCHANGED <<creator, pointer, suppressed, references, tracker, stack>>

(* Seeded fault: the finalizer disposes of nothing.                        *)
FinalizeNothing(o) ==
  /\ stack[Finalizer] = <<>> /\ status[o] = "dropped"
  /\ status' = [status EXCEPT ![o] = "collected"]
  /\ UNCHANGED <<creator, pointer, suppressed, references, tracker, stack>>

(* ~DisposeBase, of an object that was dropped and not disposed of.        *)
Finalize(o) ==
  /\ stack[Finalizer] = <<>> /\ status[o] = "dropped"
  /\ status' = [status EXCEPT ![o] = "collected"]
  /\ IF IsDisposed(o) THEN UNCHANGED stack
     ELSE Push(Finalizer, DisposeFrame(o, FALSE))
  /\ UNCHANGED <<creator, pointer, suppressed, references, tracker>>

(* FindActiveObjects makes the dictionary, too, when there is none.        *)
FindActiveObjects(t) ==
  /\ t \in Users /\ stack[t] = <<>>
  /\ Push(t, [NoFrame EXCEPT !.call = "find", !.at = "table"])
  /\ UNCHANGED <<objects, tracker>>

-----------------------------------------------------------------------------
(* The tracker's dictionary.                                               *)

(* What follows once the caller has a dictionary.                          *)
Lookup(call) == CASE call = "create" -> "track" [] call = "set" -> "migrate"
                  [] call = "dispose" -> "untrack" [] call = "find" -> "report"

(* ObjectReferences: the thread's own dictionary, or the field's.          *)
GetTable(t) ==
  /\ At(t, "table")
  /\ LET table == IF ThreadStatic THEN t ELSE global
     IN  IF table \notin DOMAIN dictionary
         THEN Goto(t, Top(t), "newTable")
         ELSE Goto(t, [Top(t) EXCEPT !.table = table], Lookup(Top(t).call))
  /\ UNCHANGED <<objects, tracker>>

(* The thread's own dictionary is made, or the other half of ??= is done,  *)
(* which overwrites what another thread assigned.                          *)
NewTable(t) ==
  /\ At(t, "newTable")
  /\ global' = IF ThreadStatic THEN global ELSE t
  /\ dictionary' = [maker \in DOMAIN dictionary \cup {t} |->
                      IF maker = t THEN Empty ELSE dictionary[maker]]
  /\ Goto(t, [Top(t) EXCEPT !.table = t], Lookup(Top(t).call))
  /\ UNCHANGED objects

(* Weak references to an object that is not reachable have no target.      *)
HasTarget(o) == status[o] = "live"

(* UntrackImpl removes what has no target with the object.                 *)
Without(table, o, p) ==
  [table EXCEPT ![p] = {other \in @ : HasTarget(other) /\ other # o}]
With(table, o, p) == [table EXCEPT ![p] = @ \cup {o}]

Track(t) ==
  /\ At(t, "track")
  /\ LET f == Top(t)
     IN  dictionary' = [dictionary EXCEPT ![f.table] = With(@, f.object, f.new)]
  /\ Goto(t, Top(t), "tracked")
  /\ UNCHANGED <<objects, global>>

(* Seeded fault: the object stays listed under its old pointer.            *)
MigrateNew(t) ==
  /\ At(t, "migrate")
  /\ LET f == Top(t)
     IN  dictionary' = [dictionary EXCEPT ![f.table] =
                          IF f.new = Null THEN @ ELSE With(@, f.object, f.new)]
  /\ Return(t)
  /\ UNCHANGED <<objects, global>>

MigrateNativePointer(t) ==
  /\ At(t, "migrate")
  /\ LET f == Top(t)
         table == dictionary[f.table]
         left == IF f.old = Null THEN table ELSE Without(table, f.object, f.old)
     IN  dictionary' = [dictionary EXCEPT ![f.table] =
                          IF f.new = Null THEN left ELSE With(left, f.object, f.new)]
  /\ Return(t)
  /\ UNCHANGED <<objects, global>>

(* UnTracked is raised when the pointer is listed at all.                  *)
Untrack(t) ==
  /\ At(t, "untrack")
  /\ LET f == Top(t)
     IN  /\ dictionary' = [dictionary EXCEPT ![f.table] = Without(@, f.object, f.old)]
         /\ Goto(t, f, IF dictionary[f.table][f.old] # {} THEN "untracked" ELSE "clear")
  /\ UNCHANGED <<objects, global>>

(* The handlers of Tracked are done, and the constructor; or the report.   *)
EndCall(t) ==
  /\ At(t, "tracked") \/ At(t, "report") \/ At(t, "disposed")
  /\ Return(t)
  /\ UNCHANGED <<objects, tracker>>

-----------------------------------------------------------------------------
(* Dispose(bool), once the handlers of Disposing are done.                 *)

ReadPointer(t) ==
  /\ At(t, "disposing")
  /\ Goto(t, [Top(t) EXCEPT !.old = pointer[Top(t).object]], "release")
  /\ UNCHANGED <<objects, tracker>>

Releases(t) == Top(t).disposing \/ ReleaseOnFinalizer

(* DisposeCore of ComObject calls Release through the vtable of the native *)
(* object; with no native object it throws, and all calls are unwound.     *)
Release(t) ==
  /\ At(t, "release")
  /\ LET p == pointer[Top(t).object]
     IN  IF Releases(t) /\ p = Null
         THEN /\ stack' = [stack EXCEPT ![t] = <<>>]
              /\ UNCHANGED references
         ELSE /\ Goto(t, Top(t), IF Top(t).old = Null THEN "clear" ELSE "table")
              /\ references' = IF Releases(t) THEN [references EXCEPT ![p] = @ - 1]
                               ELSE references
  /\ UNCHANGED <<status, creator, pointer, suppressed, tracker>>

HandlersOfUnTracked(t) ==
  /\ At(t, "untracked")
  /\ Goto(t, Top(t), "clear")
  /\ UNCHANGED <<objects, tracker>>

(* Seeded fault: the pointer is not set to null.                           *)
ClearNothing(t) ==
  /\ At(t, "clear")
  /\ suppressed' = [suppressed EXCEPT ![Top(t).object] = TRUE]
  /\ Goto(t, Top(t), "disposed")
  /\ UNCHANGED <<status, creator, pointer, references, tracker>>

(* The pointer is set to null and the finalizer suppressed.                *)
Clear(t) ==
  /\ At(t, "clear")
  /\ pointer' = [pointer EXCEPT ![Top(t).object] = Null]
  /\ suppressed' = [suppressed EXCEPT ![Top(t).object] = TRUE]
  /\ Goto(t, Top(t), "disposed")
  /\ UNCHANGED <<status, creator, references, tracker>>

-----------------------------------------------------------------------------

Begin(t) ==
  \/ \E o \in Objects, p \in Maybe : Create(t, o, p) \/ SetNativePointer(t, o, p)
  \/ \E o \in Objects : Dispose(t, o)
  \/ FindActiveObjects(t)

Continue(t) ==
  \/ GetTable(t) \/ NewTable(t)
  \/ Track(t) \/ MigrateNativePointer(t) \/ Untrack(t) \/ EndCall(t)
  \/ DisposeInHandler(t)
  \/ ReadPointer(t) \/ Release(t) \/ HandlersOfUnTracked(t) \/ Clear(t)

Next ==
  \/ \E t \in Threads : Begin(t) \/ Continue(t)
  \/ \E o \in Objects : Drop(o) \/ Finalize(o)

Spec == Init /\ [][Next]_vars

-----------------------------------------------------------------------------
(* Properties.                                                             *)

Labels == {"table", "newTable", "track", "migrate", "untrack", "report", "tracked",
           "untracked", "disposing", "release", "clear", "disposed"}
Frame == [call : {"create", "set", "dispose", "find"}, object : Objects \cup {Null}, at : Labels,
          disposing : BOOLEAN, nested : BOOLEAN, old : Maybe, new : Maybe,
          table : Threads \cup {NoThread}]

(* Every field has its type; no native object is released more often than  *)
(* references to it were handed out.                                       *)
TypeOK ==
  /\ status \in [Objects -> {"none", "live", "dropped", "collected"}]
  /\ creator \in [Objects -> Threads \cup {NoThread}]
  /\ pointer \in [Objects -> Maybe]
  /\ suppressed \in [Objects -> BOOLEAN]
  /\ references \in [Pointers -> Nat]
  /\ global \in Threads \cup {NoThread}
  /\ DOMAIN dictionary \subseteq Threads
  /\ dictionary \in [DOMAIN dictionary -> [Pointers -> SUBSET Objects]]
  /\ stack \in [Threads -> Seq(Frame)]

(* What FindActiveObjects returns to a thread.                             *)
Table(t) == LET maker == IF ThreadStatic THEN t ELSE global
            IN  IF maker \in DOMAIN dictionary THEN dictionary[maker] ELSE Empty
Reported(t) == {o \in UNION {Table(t)[p] : p \in Pointers} : HasTarget(o)}

(* The objects it is to return.                                            *)
Active(t) == {o \in Objects : /\ status[o] = "live" /\ ~IsDisposed(o)
                              /\ ThreadStatic => creator[o] = t}

(* FindActiveObjects reports all COM objects that are active.              *)
ActiveAreReported == AllIdle => \A t \in Users : Active(t) \subseteq Reported(t)

(* It does so unless two threads asked for the first dictionary at once:   *)
(* no object is lost by an assignment to NativePointer, by a reuse after   *)
(* Dispose or with another object of the same pointer.                     *)
ActiveAreReportedOnce ==
  ThreadStatic \/ Cardinality(DOMAIN dictionary) < 2 => ActiveAreReported

(* FindActiveObjects reports only objects that are not yet disposed.       *)
ReportedAreActive == AllIdle => \A t \in Users : Reported(t) \subseteq Active(t)

(* An object is listed under its own pointer and no other, whatever was    *)
(* assigned to it, also after it was disposed of and used again.           *)
ListedUnderItsPointer ==
  AllIdle => \A t \in Users, p \in Pointers, o \in Objects :
               o \in Table(t)[p] /\ HasTarget(o) => pointer[o] = p

(* The tracker follows the objects through every assignment and disposal.  *)
TrackerExact == ActiveAreReportedOnce /\ ListedUnderItsPointer

Holders(p) == {o \in Objects : pointer[o] = p}

(* Objects that were given a pointer again after Dispose, which suppressed *)
(* their finalizer for good, and were then dropped: nothing releases what  *)
(* they hold.                                                              *)
Lost(p) == {o \in Holders(p) : status[o] = "collected" /\ suppressed[o]}
Reachable(p) == {o \in Holders(p) : status[o] \in {"live", "dropped"}}

(* A native object has one reference for every object that holds it and is *)
(* alive or waits for its finalizer, so that each is released exactly      *)
(* once, in Dispose, by an assignment or by the finalizer; and no other    *)
(* but those lost by objects reused after Dispose.  The finalizer leaves a *)
(* reference alone without EnableReleaseOnFinalizer, and then as well none *)
(* is released that an object still has.                                   *)
ReferencesExact ==
  AllIdle => \A p \in Pointers :
    LET owed == Cardinality(Reachable(p)) + Cardinality(Lost(p))
    IN  IF ReleaseOnFinalizer THEN references[p] = owed ELSE references[p] >= owed

(* No object is collected that holds a reference.                          *)
NothingIsLost == AllIdle => \A p \in Pointers : Lost(p) = {}

(* Debug.Assert(!IsDisposed) in the indexer that Release calls through.    *)
NotDisposedInIndexer ==
  \A t \in Threads : At(t, "release") /\ Releases(t) => ~IsDisposed(Top(t).object)

(* It fails in a Dispose during which a handler of Disposing disposes of   *)
(* the object, and in no other: not for anything another thread, the       *)
(* finalizer or another handler does.                                      *)
DisposedByItsHandler ==
  \A t \in Threads :
    At(t, "release") => (IsDisposed(Top(t).object) <=> Top(t).nested)
=============================================================================
