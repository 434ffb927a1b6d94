----------------------------- MODULE CallbackBase -----------------------------
(***************************************************************************)
(* A managed object that native code calls: its reference count, the       *)
(* callable wrappers native code points to, the GCHandles the wrappers     *)
(* lead back through, and the array of its GUIDs.  Any thread may hold     *)
(* references and call QueryInterface, AddRef, Release and GetIids through *)
(* them; managed code passes the object to native code (ToCallbackPtr) and *)
(* disposes of it, or drops it and leaves it to the finalizer.             *)
(*                                                                         *)
(* Native code is legal COM code: it calls through a pointer only while it *)
(* holds a reference and releases each reference once.  Managed code does  *)
(* not pass the object to native code while it disposes of it or later,    *)
(* and calls Dispose from one thread at a time.                            *)
(***************************************************************************)
EXTENDS Naturals, Sequences, FiniteSets

CONSTANTS
  Threads,
  NoThread,        \* holder of a reference that is not held
  References,      \* bound: the references native code holds at one time
  Interfaces,      \* the GUIDs of the native interfaces
  Shapes,          \* classes: their leaf interfaces and number of shadows
  Slots,           \* bound: the part of the GCHandle table we look at
  Marshallers,     \* threads whose managed code passes the object to native
  GuidReaders,     \* threads whose native code calls GetIids
  OutlivesNative,  \* managed code keeps the object while native code uses it
  AllowFailure     \* creating a shadow or wrapper may throw

ASSUME ThreadAssumption ==
  /\ NoThread \notin Threads
  /\ Marshallers \subseteq Threads
  /\ GuidReaders \subseteq Threads
ASSUME ReferenceAssumption == IsFiniteSet(References)
ASSUME ShapeAssumption ==
  \A s \in Shapes :
    /\ s.shadows \in Nat
    /\ s.leaves \in Seq([guid : Interfaces, inherits : SUBSET Interfaces])
ASSUME SlotAssumption == IsFiniteSet(Slots) /\ Slots \subseteq Nat \ {0}
ASSUME FlagAssumption ==
  /\ OutlivesNative \in BOOLEAN
  /\ AllowFailure \in BOOLEAN

VARIABLES
  shape,       \* what the class implements
  app,         \* what managed code is doing with the object
  owned,       \* the reference the object is created with is not released yet
  holder,      \* the thread that holds each of native code's references
  refCount,
  isDisposed,
  ccw,         \* _ccw: zero for null, else one of the tables
  tables,      \* every dictionary assigned to _ccw, GUID to wrapper or zero
  wrappers,    \* every CppObjectCallableWrapper ever made
  handles,     \* the GCHandle table: what each slot leads to
  thisHandle,  \* _thisHandle: zero or a slot
  guidPtr,     \* _guidPtr: zero or a block
  guids,       \* _guids: zero or the block its pointers lead into
  blocks,      \* every block of GUIDs ever made: is it still allocated
  returned,    \* the pointers Find has returned for each interface
  pc,          \* the next step of every thread
  local        \* the locals of every thread

object == <<refCount, isDisposed, ccw, thisHandle, guidPtr, guids>>
heap == <<tables, wrappers, handles, blocks>>
environment == <<shape, app, owned, holder>>
vars == <<environment, object, heap, returned, pc, local>>

-----------------------------------------------------------------------------

Leaves == shape.leaves
Supported == UNION {{Leaves[l].guid} \cup Leaves[l].inherits : l \in DOMAIN Leaves}

NoEntries == [i \in Interfaces |-> 0]
NoLocals ==
  [ call    |-> "none",  \* the call the thread is in
    want    |-> {},      \* the interface it looks for, a singleton
    table   |-> 0,       \* guidToShadow
    filling |-> 0,       \* the ccw argument of InitializeCallableWrappers
    leaf    |-> 0,       \* leaves done
    handle  |-> 0,       \* ThisHandle, then shadowHandle
    pointer |-> 0,       \* the wrapper found
    block   |-> 0,       \* guidPtr of the Guids getter
    entries |-> NoEntries,  \* the values still to be freed
    freed   |-> {} ]     \* wrappers freed

Held == {r \in References : holder[r] # NoThread}
HeldBy(t) == {r \in References : holder[r] = t}

At(t, label) == pc[t] = label
Goto(t, label) == pc' = [pc EXCEPT ![t] = label]
InCall(t, call) == pc[t] # "idle" /\ local[t].call = call
Return(t) == Goto(t, "idle") /\ local' = [local EXCEPT ![t] = NoLocals]

FreeSlots == {s \in Slots : handles[s] = "free"}
Lowest(S) == CHOOSE s \in S : \A other \in S : s <= other

Init ==
  /\ shape \in Shapes
  /\ app = "using"
  /\ owned = TRUE
  /\ holder = [r \in References |-> NoThread]
  /\ refCount = 1
  /\ isDisposed = FALSE
  /\ ccw = 0 /\ tables = <<>> /\ wrappers = <<>>
  /\ handles = [s \in Slots |-> "free"] /\ thisHandle = 0
  /\ guidPtr = 0 /\ guids = 0 /\ blocks = <<>>
  /\ returned = [i \in Interfaces |-> {}]
  /\ pc = [t \in Threads |-> "idle"]
  /\ local = [t \in Threads |-> NoLocals]

-----------------------------------------------------------------------------
(* The environment.  Native code moves its references between threads, and *)
(* other code in the process uses the slots of the handle table: a foreign *)
(* handle is that of another callback's shadow.                            *)

Give(t, r) ==
  /\ At(t, "idle") /\ holder[r] = t
  /\ \E other \in Threads \ {t} : holder' = [holder EXCEPT ![r] = other]
  /\ UNCHANGED <<shape, app, owned, object, heap, returned, pc, local>>

ForeignAlloc ==
  /\ \A s \in Slots : handles[s] # "foreign"
  /\ FreeSlots # {}
  /\ handles' = [handles EXCEPT ![Lowest(FreeSlots)] = "foreign"]
  /\ UNCHANGED <<environment, object, tables, wrappers, blocks, returned, pc, local>>

ForeignFree ==
  /\ \E s \in Slots : /\ handles[s] = "foreign"
                      /\ handles' = [handles EXCEPT ![s] = "free"]
  /\ UNCHANGED <<environment, object, tables, wrappers, blocks, returned, pc, local>>

-----------------------------------------------------------------------------
(* Find, called by managed code (Marshal) and by QueryInterface.           *)

Enter(t, call, label, i) ==
  /\ At(t, "idle")
  /\ Goto(t, label)
  /\ local' = [local EXCEPT ![t] = [NoLocals EXCEPT !.call = call, !.want = i]]
  /\ UNCHANGED <<owned, holder, shape, object, heap, returned>>

Marshal(t) ==
  /\ t \in Marshallers /\ app = "using"
  /\ \E i \in Supported : Enter(t, "marshal", "find", {i})
  /\ UNCHANGED app

QueryInterface(t) ==
  /\ HeldBy(t) # {}
  /\ \E i \in Supported : Enter(t, "query", "find", {i})
  /\ UNCHANGED app

(* Seeded fault: the wrappers are made anew by every call.                 *)
FindUncached(t) ==
  /\ At(t, "find")
  /\ Goto(t, "publish")
  /\ UNCHANGED <<environment, object, heap, returned, local>>

(* The field is read once, into guidToShadow.                              *)
Find(t) ==
  /\ At(t, "find")
  /\ IF ccw = 0 THEN Goto(t, "publish") /\ UNCHANGED local
                ELSE /\ Goto(t, "lookup")
                     /\ local' = [local EXCEPT ![t].table = ccw]
  /\ UNCHANGED <<environment, object, heap, returned>>

(* The new dictionary is assigned to the field before anything is in it.   *)
Publish(t) ==
  /\ At(t, "publish")
  /\ tables' = Append(tables, NoEntries)
  /\ ccw' = Len(tables')
  /\ local' = [local EXCEPT ![t].table = ccw']
  /\ Goto(t, "assert")
  /\ UNCHANGED <<environment, refCount, isDisposed, thisHandle, guidPtr, guids,
                 wrappers, handles, blocks, returned>>

(* Debug.Assert(!_thisHandle.IsAllocated), then the field is read again    *)
(* for the argument of InitializeCallableWrappers.                         *)
PassTable(t) ==
  /\ At(t, "assert")
  /\ local' = [local EXCEPT ![t].filling = ccw]
  /\ Goto(t, IF Leaves = <<>> THEN "lookup" ELSE "thisHandle")
  /\ UNCHANGED <<environment, object, heap, returned>>

-----------------------------------------------------------------------------
(* InitializeCallableWrappers.                                             *)

(* The ThisHandle getter, called for the wrappers or for the shadows: the  *)
(* field is read, and assigned a new handle if it held none; the answer is *)
(* the handle that was read, or made, whatever the field holds by then.    *)
CheckThisHandle(t) ==
  /\ At(t, "thisHandle")
  /\ local' = [local EXCEPT ![t].handle = thisHandle]
  /\ Goto(t, IF thisHandle = 0 THEN "allocThis" ELSE "shadows")
  /\ UNCHANGED <<environment, object, heap, returned>>

AllocThisHandle(t) ==
  /\ At(t, "allocThis")
  /\ FreeSlots # {}
  /\ thisHandle' = Lowest(FreeSlots)
  /\ handles' = [handles EXCEPT ![thisHandle'] = "callback"]
  /\ local' = [local EXCEPT ![t].handle = thisHandle']
  /\ Goto(t, "shadows")
  /\ UNCHANGED <<environment, refCount, isDisposed, ccw, guidPtr, guids,
                 tables, wrappers, blocks, returned>>

(* No shadow: the wrappers lead to the callback.  One: they all lead to    *)
(* it.  Several: they lead to a CppObjectMultiShadow that leads to them.   *)
CreateShadows(t) ==
  /\ At(t, "shadows")
  /\ \E new \in SUBSET FreeSlots :
       /\ Cardinality(new) = shape.shadows + (IF shape.shadows > 1 THEN 1 ELSE 0)
       /\ \A s \in FreeSlots \ new, n \in new : n < s
       /\ LET handle == IF new = {} THEN local[t].handle ELSE Lowest(new)
          IN /\ handles' = [s \in Slots |->
                              IF s \notin new THEN handles[s]
                              ELSE IF s = handle /\ shape.shadows > 1
                                   THEN "multi" ELSE "shadow"]
             /\ local' = [local EXCEPT ![t].handle = handle]
  /\ Goto(t, "wrap")
  /\ UNCHANGED <<environment, object, tables, wrappers, blocks, returned>>

(* Seeded fault: a leaf's wrapper is not entered for what it inherits.     *)
WrapLeafOnly(t) ==
  /\ At(t, "wrap") /\ local[t].filling # 0
  /\ wrappers' = Append(wrappers, [handle |-> local[t].handle, state |-> "live"])
  /\ tables' = [tables EXCEPT ![local[t].filling][Leaves[local[t].leaf + 1].guid] = Len(wrappers')]
  /\ local' = [local EXCEPT ![t].leaf = @ + 1]
  /\ Goto(t, IF local'[t].leaf = Len(Leaves) THEN "lookup" ELSE "wrap")
  /\ UNCHANGED <<environment, object, handles, blocks, returned>>

(* One wrapper for each leaf interface; those it inherits get the wrapper  *)
(* of the first leaf that inherits them.                                   *)
WrapLeaf(t) ==
  /\ At(t, "wrap") /\ local[t].filling # 0
  /\ wrappers' = Append(wrappers, [handle |-> local[t].handle, state |-> "live"])
  /\ LET leaf == Leaves[local[t].leaf + 1]
     IN tables' = [tables EXCEPT ![local[t].filling] =
          [i \in Interfaces |-> IF i = leaf.guid \/ (i \in leaf.inherits /\ @[i] = 0)
                                THEN Len(wrappers') ELSE @[i]]]
  /\ local' = [local EXCEPT ![t].leaf = @ + 1]
  /\ Goto(t, IF local'[t].leaf = Len(Leaves) THEN "lookup" ELSE "wrap")
  /\ UNCHANGED <<environment, object, handles, blocks, returned>>

(* Reflection or the constructor of a shadow throws, or the dictionary is  *)
(* null; what is done so far stays, _ccw included.                         *)
InitializationThrows(t) ==
  /\ \/ AllowFailure /\ pc[t] \in {"thisHandle", "allocThis", "shadows", "wrap"}
     \/ At(t, "wrap") /\ local[t].filling = 0
  /\ Return(t)
  /\ UNCHANGED <<environment, object, heap, returned>>

Lookup(t) ==
  /\ At(t, "lookup")
  /\ LET i == CHOOSE i \in local[t].want : TRUE
         pointer == tables[local[t].table][i]
     IN /\ local' = [local EXCEPT ![t].pointer = pointer]
        /\ returned' = [returned EXCEPT ![i] = @ \cup ({pointer} \ {0})]
  /\ Goto(t, "found")
  /\ UNCHANGED <<environment, object, heap>>

-----------------------------------------------------------------------------
(* References.                                                             *)

(* Seeded fault: the reference that is handed out is not counted.          *)
KeepUncounted(t) ==
  /\ At(t, "found") /\ local[t].pointer # 0
  /\ \E r \in References \ Held : holder' = [holder EXCEPT ![r] = t]
  /\ Return(t)
  /\ UNCHANGED <<shape, app, owned, refCount, isDisposed, ccw, thisHandle, guidPtr, guids,
                 heap, returned>>

(* QueryInterface counts the reference it returns; native code that was    *)
(* passed the object and keeps it calls AddRef.                            *)
AddRef(t) ==
  /\ At(t, "found") /\ local[t].pointer # 0
  /\ \E r \in References \ Held : holder' = [holder EXCEPT ![r] = t]
  /\ refCount' = refCount + 1
  /\ Return(t)
  /\ UNCHANGED <<shape, app, owned, isDisposed, ccw, thisHandle, guidPtr, guids,
                 heap, returned>>

(* Native code that was passed the object returns without keeping it, or   *)
(* QueryInterface returns E_NOINTERFACE.                                   *)
FindReturns(t) ==
  /\ At(t, "found")
  /\ local[t].pointer = 0 \/ local[t].call = "marshal"
  /\ Return(t)
  /\ UNCHANGED <<environment, object, heap, returned>>

(* Seeded fault: the wrappers are disposed of while one reference is left. *)
DecrementToOne(t, label) ==
  /\ refCount' = refCount - 1
  /\ Goto(t, IF refCount <= 2 THEN "exchange" ELSE label)
  /\ UNCHANGED <<isDisposed, ccw, thisHandle, guidPtr, guids, heap, returned>>

(* Interlocked.Decrement, and what follows when there is no reference.     *)
Decrement(t, label) ==
  /\ refCount' = refCount - 1
  /\ Goto(t, IF refCount = 1 THEN "exchange" ELSE label)
  /\ UNCHANGED <<isDisposed, ccw, thisHandle, guidPtr, guids, heap, returned>>

Release(t, r) ==
  /\ At(t, "idle") /\ holder[r] = t
  /\ holder' = [holder EXCEPT ![r] = NoThread]
  /\ Decrement(t, "idle")
  /\ local' = [local EXCEPT ![t].call = IF refCount = 1 THEN "release" ELSE "none"]
  /\ UNCHANGED <<shape, app, owned>>

-----------------------------------------------------------------------------
(* Dispose and the finalizer.                                              *)

(* Seeded fault: an object that is disposed of is disposed of again.       *)
DisposeAgain(t) ==
  /\ app \in {"using", "disposed"}
  /\ \A other \in Threads : ~InCall(other, "marshal") /\ ~InCall(other, "dispose")
  /\ app' = "disposed"
  /\ Enter(t, "dispose", "releaseOwned", {})

(* CheckAndDispose(true).  Managed code may call Dispose more than once.   *)
Dispose(t) ==
  /\ app \in {"using", "disposed"}
  /\ \A other \in Threads : ~InCall(other, "marshal") /\ ~InCall(other, "dispose")
  /\ app' = "disposed"
  /\ Enter(t, "dispose", IF isDisposed THEN "return" ELSE "releaseOwned", {})

ReleaseOwned(t) ==
  /\ At(t, "releaseOwned")
  /\ owned' = FALSE
  /\ Decrement(t, "setDisposed")
  /\ UNCHANGED <<shape, app, holder, local>>

(* The last reference in managed code goes away without Dispose.           *)
Drop ==
  /\ app = "using"
  /\ \A t \in Threads : At(t, "idle")
  /\ OutlivesNative => Held = {}
  /\ app' = "dropped"
  /\ UNCHANGED <<shape, owned, holder, object, heap, returned, pc, local>>

(* ~DisposeBase: CheckAndDispose(false), on the finalizer's thread.        *)
Finalize(t) ==
  /\ app = "dropped" /\ ~isDisposed
  /\ \A other \in Threads : ~InCall(other, "finalize")
  /\ Enter(t, "finalize", "exchange", {})
  /\ UNCHANGED app

(* _isDisposed is set last; GC.SuppressFinalize keeps the finalizer away.  *)
SetDisposed(t) ==
  /\ At(t, "setDisposed")
  /\ isDisposed' = TRUE
  /\ Return(t)
  /\ UNCHANGED <<environment, refCount, ccw, thisHandle, guidPtr, guids, heap, returned>>

ReturnFrom(t) ==
  /\ At(t, "return")
  /\ Return(t)
  /\ UNCHANGED <<environment, object, heap, returned>>

-----------------------------------------------------------------------------
(* DisposeCallableWrappers.                                                *)

ExchangeTable(t) ==
  /\ At(t, "exchange")
  /\ ccw' = 0
  /\ local' = [local EXCEPT ![t].entries = IF ccw = 0 THEN NoEntries ELSE tables[ccw]]
  /\ Goto(t, "free")
  /\ UNCHANGED <<environment, refCount, isDisposed, thisHandle, guidPtr, guids,
                 heap, returned>>

(* A wrapper freed twice corrupts the native heap.                         *)
FreeMemory(w) ==
  wrappers' = [wrappers EXCEPT ![w].state = IF @ = "live" THEN "freed" ELSE "corrupt"]

(* Seeded fault: the wrapper's handle is freed whatever it leads to.       *)
FreeAnyHandle(w) ==
  /\ FreeMemory(w)
  /\ handles' = [handles EXCEPT ![wrappers[w].handle] = "free"]

(* CppObjectCallableWrapper.Free.  The slot is whatever it is now: it may  *)
(* have been freed through another wrapper and allocated again since.      *)
FreeWrapper(w) ==
  /\ FreeMemory(w)
  /\ LET slot == wrappers[w].handle
     IN handles' = IF handles[slot] \in {"shadow", "foreign"}
                   THEN [handles EXCEPT ![slot] = "free"] ELSE handles

(* Seeded fault: a wrapper is freed once for every interface it serves.    *)
FreeEntryAgain(t) ==
  /\ At(t, "free")
  /\ \E i \in Interfaces :
       /\ local[t].entries[i] # 0
       /\ local' = [local EXCEPT ![t].entries[i] = 0]
       /\ FreeWrapper(local[t].entries[i])
  /\ UNCHANGED <<environment, object, tables, blocks, returned, pc>>

(* The dictionary's values in some order, each distinct one once.          *)
FreeEntry(t) ==
  /\ At(t, "free")
  /\ \E i \in Interfaces :
       LET w == local[t].entries[i]
       IN /\ w # 0
          /\ local' = [local EXCEPT ![t].entries[i] = 0, ![t].freed = @ \cup {w}]
          /\ IF w \in local[t].freed THEN UNCHANGED <<wrappers, handles>>
                                       ELSE FreeWrapper(w)
  /\ UNCHANGED <<environment, object, tables, blocks, returned, pc>>

(* Marshal.FreeHGlobal of the GUIDs; _guids goes on pointing there.        *)
FreeGuids(t) ==
  /\ At(t, "free") /\ local[t].entries = NoEntries
  /\ guidPtr' = 0
  /\ blocks' = IF guidPtr = 0 THEN blocks ELSE [blocks EXCEPT ![guidPtr] = FALSE]
  /\ Goto(t, "freeThis")
  /\ UNCHANGED <<environment, refCount, isDisposed, ccw, thisHandle, guids,
                 tables, wrappers, handles, returned, local>>

FreeThisHandle(t) ==
  /\ At(t, "freeThis")
  /\ thisHandle' = 0
  /\ handles' = IF thisHandle = 0 THEN handles ELSE [handles EXCEPT ![thisHandle] = "free"]
  /\ Goto(t, IF local[t].call = "release" THEN "return" ELSE "setDisposed")
  /\ UNCHANGED <<environment, refCount, isDisposed, ccw, guidPtr, guids,
                 tables, wrappers, blocks, returned, local>>

-----------------------------------------------------------------------------
(* The Guids getter, called by GetIids.                                    *)

GetIids(t) ==
  /\ t \in GuidReaders /\ HeldBy(t) # {}
  /\ Enter(t, "guids", IF guids # 0 THEN "return" ELSE "guids", {})
  /\ UNCHANGED app

BuildGuids(t) ==
  /\ At(t, "guids")
  /\ blocks' = Append(blocks, TRUE)
  /\ guidPtr' = Len(blocks')
  /\ local' = [local EXCEPT ![t].block = guidPtr']
  /\ Goto(t, "publishGuids")
  /\ UNCHANGED <<environment, refCount, isDisposed, ccw, thisHandle, guids,
                 tables, wrappers, handles, returned>>

PublishGuids(t) ==
  /\ At(t, "publishGuids")
  /\ guids' = local[t].block
  /\ Return(t)
  /\ UNCHANGED <<environment, refCount, isDisposed, ccw, thisHandle, guidPtr,
                 heap, returned>>

-----------------------------------------------------------------------------

Next ==
  \/ ForeignAlloc \/ ForeignFree \/ Drop
  \/ \E t \in Threads :
       \/ \E r \in References : Give(t, r) \/ Release(t, r)
       \/ Marshal(t) \/ QueryInterface(t) \/ Find(t) \/ Publish(t) \/ PassTable(t)
       \/ CheckThisHandle(t) \/ AllocThisHandle(t) \/ CreateShadows(t) \/ WrapLeaf(t)
       \/ InitializationThrows(t) \/ Lookup(t) \/ AddRef(t) \/ FindReturns(t)
       \/ Dispose(t) \/ ReleaseOwned(t) \/ Finalize(t) \/ SetDisposed(t) \/ ReturnFrom(t)
       \/ ExchangeTable(t) \/ FreeEntry(t) \/ FreeGuids(t) \/ FreeThisHandle(t)
       \/ GetIids(t) \/ BuildGuids(t) \/ PublishGuids(t)

Spec == Init /\ [][Next]_vars

-----------------------------------------------------------------------------
(* Properties.                                                             *)

Labels ==
  {"idle", "find", "publish", "assert", "thisHandle", "allocThis", "shadows",
   "wrap", "lookup", "found", "releaseOwned", "setDisposed", "return",
   "exchange", "free", "freeThis", "guids", "publishGuids"}
Calls == {"none", "marshal", "query", "release", "dispose", "finalize", "guids"}
Disposing(t) == pc[t] \in {"exchange", "free", "freeThis"}
Referenced == owned \/ Held # {}

(* Every variable of the object, the heap and the threads has its type.    *)
TypeOK ==
  /\ shape \in Shapes
  /\ app \in {"using", "disposed", "dropped"}
  /\ owned \in BOOLEAN
  /\ holder \in [References -> Threads \cup {NoThread}]
  /\ refCount \in Nat
  /\ isDisposed \in BOOLEAN
  /\ ccw \in 0..Len(tables)
  /\ tables \in Seq([Interfaces -> 0..Len(wrappers)])
  /\ wrappers \in Seq([handle : Slots, state : {"live", "freed", "corrupt"}])
  /\ handles \in [Slots -> {"free", "callback", "shadow", "multi", "foreign"}]
  /\ thisHandle \in Slots \cup {0}
  /\ blocks \in Seq(BOOLEAN)
  /\ guidPtr \in 0..Len(blocks)
  /\ guids \in 0..Len(blocks)
  /\ returned \in [Interfaces -> SUBSET (1..Len(wrappers))]
  /\ pc \in [Threads -> Labels]
  /\ local \in [Threads ->
       [call : Calls, want : SUBSET Interfaces, table : 0..Len(tables),
        filling : 0..Len(tables), leaf : Nat, handle : Slots \cup {0},
        pointer : 0..Len(wrappers), block : 0..Len(blocks),
        entries : [Interfaces -> 0..Len(wrappers)], freed : SUBSET (1..Len(wrappers))]]

(* _refCount is the number of references that are out: the object's own    *)
(* and those native code holds (CallbackBase.AddRef, Release, Dispose).    *)
RefCountExact == refCount = Cardinality(Held) + (IF owned THEN 1 ELSE 0)

(* As long as native code holds a reference, every pointer it was ever     *)
(* given is to a wrapper that is allocated and leads back to the callback, *)
(* and the GUIDs GetIids copies are allocated.                             *)
ReferencedMeansUsable ==
  Held # {} =>
    /\ \A i \in Interfaces : \A w \in returned[i] :
         /\ wrappers[w].state = "live"
         /\ handles[wrappers[w].handle] \in {"callback", "shadow", "multi"}
    /\ guids # 0 => blocks[guids]

(* Every call to Find for an interface of the class is answered with a     *)
(* pointer, never with null.                                               *)
FindAnswers == \A t \in Threads : At(t, "found") => local[t].pointer # 0

(* Find gives the same pointer for an interface all the time.              *)
OneIdentity == \A i \in Interfaces : Cardinality(returned[i]) <= 1

(* DisposeCallableWrappers frees each wrapper once, though the dictionary  *)
(* names it once for each interface it serves.                             *)
NoDoubleFree == \A w \in DOMAIN wrappers : wrappers[w].state # "corrupt"

(* Whoever allocated a foreign handle is the one to free it: freeing the   *)
(* wrappers never touches a slot another callback is using.                *)
ForeignHandleSurvives ==
  [][\A s \in Slots : (\E t \in Threads : FreeEntry(t)) /\ handles[s] = "foreign"
                     => handles'[s] = "foreign"]_vars

(* Once the last reference is gone, or the finalizer has run, nothing the  *)
(* object allocated is left: no wrapper, no GCHandle, no block of GUIDs.   *)
NothingLeaks ==
  (/\ \A t \in Threads : At(t, "idle")
   /\ refCount = 0 \/ (isDisposed /\ app = "dropped"))
  => /\ ccw = 0
     /\ \A w \in DOMAIN wrappers : wrappers[w].state # "live"
     /\ \A s \in Slots : handles[s] \in {"free", "foreign"}
     /\ \A b \in DOMAIN blocks : ~blocks[b]

(* Every wrapper, handle and block is freed, and freed once.               *)
FreedOnce == NoDoubleFree /\ NothingLeaks
=============================================================================
