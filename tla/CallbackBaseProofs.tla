-------------------------- MODULE CallbackBaseProofs --------------------------
(***************************************************************************)
(* What holds of CallbackBase for every set of threads, references,        *)
(* interfaces and classes.  What each theorem needs of the environment is  *)
(* named here; the count of the references is exact without any of it.     *)
(***************************************************************************)
EXTENDS CallbackBase, FiniteSetTheorems, WellFoundedInduction, TLAPS

(* One thread passes the object to native code for the first time, and one *)
(* asks for its GUIDs: Find and the Guids getter are not thread-safe.      *)
OneMarshaller == \A t, u \in Marshallers : t = u
OneGuidReader == \A t, u \in GuidReaders : t = u

(* The leaf interfaces of a class are different interfaces.                *)
DistinctLeaves ==
  \A s \in Shapes : \A k, l \in 1..Len(s.leaves) :
    s.leaves[k].guid = s.leaves[l].guid => k = l

(* A shadow is not shared between wrappers, each of which would free it.   *)
SeparateShadows == \A s \in Shapes : s.shadows = 1 => Len(s.leaves) <= 1

(* No class has a multi-shadow, whose handles nobody frees.                *)
NoMultiShadow == \A s \in Shapes : s.shadows <= 1

-----------------------------------------------------------------------------
(* The calls: where each can be, and the types of what they hold.          *)

Finding == {"find", "publish", "assert", "thisHandle", "allocThis", "shadows",
            "wrap", "lookup", "found"}
Freeing == {"exchange", "free", "freeThis"}

LabelsOf(call) ==
  CASE call = "none"                -> {"idle"}
    [] call \in {"marshal", "query"} -> Finding
    [] call = "release"             -> Freeing \cup {"return"}
    [] call = "dispose"             -> Freeing \cup {"releaseOwned", "setDisposed", "return"}
    [] call = "finalize"            -> Freeing \cup {"setDisposed"}
    [] call = "guids"               -> {"guids", "publishGuids", "return"}

Local ==
  [call : Calls, want : SUBSET Interfaces, table : 0..Len(tables),
   filling : 0..Len(tables), leaf : Nat, handle : Slots \cup {0},
   pointer : 0..Len(wrappers), block : 0..Len(blocks),
   entries : [Interfaces -> 0..Len(wrappers)], freed : SUBSET (1..Len(wrappers))]

(* TypeOK but for the reference count and the handles of the wrappers,     *)
(* which a finalizer may take away from a Find that it does not know of.   *)
HeapType ==
  /\ shape \in Shapes
  /\ app \in {"using", "disposed", "dropped"}
  /\ owned \in BOOLEAN
  /\ holder \in [References -> Threads \cup {NoThread}]
  /\ isDisposed \in BOOLEAN
  /\ ccw \in 0..Len(tables)
  /\ tables \in Seq([Interfaces -> 0..Len(wrappers)])
  /\ wrappers \in Seq([handle : Slots \cup {0}, state : {"live", "freed", "corrupt"}])
  /\ handles \in [Slots -> {"free", "callback", "shadow", "multi", "foreign"}]
  /\ thisHandle \in Slots \cup {0}
  /\ blocks \in Seq(BOOLEAN)
  /\ guidPtr \in 0..Len(blocks)
  /\ guids \in 0..Len(blocks)
  /\ returned \in [Interfaces -> SUBSET (1..Len(wrappers))]
  /\ pc \in [Threads -> Labels]
  /\ local \in [Threads -> Local]

(* What a thread knows at each step.                                       *)
CallInvOf(t) ==
  /\ pc[t] \in LabelsOf(local[t].call)
  /\ At(t, "idle") => local[t] = NoLocals
  /\ pc[t] \in Finding => local[t].want \in {{i} : i \in Supported}
  /\ pc[t] \in {"assert", "thisHandle", "allocThis", "shadows", "wrap", "lookup"}
       => local[t].table # 0
  /\ pc[t] \in Finding \ {"wrap", "lookup", "found"} => local[t].leaf = 0
  /\ pc[t] \in {"thisHandle", "allocThis", "shadows"} => Leaves # <<>>
  /\ At(t, "wrap") => local[t].leaf < Len(Leaves)
  /\ pc[t] \in {"releaseOwned", "exchange"} => local[t].freed = {}

CallInv == HeapType /\ \A t \in Threads : CallInvOf(t)

-----------------------------------------------------------------------------
(* The references.                                                         *)

Busy(call) == {t \in Threads : local[t].call = call}

UseInv ==
  /\ \A t \in Threads : local[t].call \in {"query", "guids"} => HeldBy(t) # {}
  /\ Busy("marshal") # {} => app = "using"
  /\ Busy("dispose") # {} => app = "disposed"
  /\ Busy("finalize") # {} => app = "dropped" /\ ~isDisposed
  /\ \A t, u \in Busy("dispose") \cup Busy("finalize") : t = u
  /\ app # "disposed" => owned
  /\ app = "using" => ~isDisposed
  /\ app = "disposed" /\ (isDisposed \/ Busy("dispose") = {}) => isDisposed /\ ~owned
  /\ \A t \in Threads : At(t, "releaseOwned") => owned
  /\ \A t \in Busy("dispose") : pc[t] \in Freeing \cup {"setDisposed"} => ~owned
  /\ \A t \in Busy("dispose") : At(t, "return") <=> isDisposed

(* The reference count is that of the references, and one thread at a time *)
(* frees what the object has, after the last of them or of the object.     *)
CountInv ==
  /\ RefCountExact
  /\ \A t \in Busy("release") : refCount = 0
  /\ \A t \in Busy("dispose") : Disposing(t) => refCount = 0
  /\ \A t, u \in Threads : Disposing(t) /\ Disposing(u) => t = u

(* Native code has no references to an object that was dropped.            *)
DropInv ==
  app = "dropped" => /\ Held = {}
                     /\ \A t \in Threads : local[t].call \in {"none", "finalize"}

-----------------------------------------------------------------------------
(* The heap.                                                               *)

(* Nobody has begun to free what the object has.                           *)
Intact ==
  \/ \E t \in Threads : At(t, "exchange")
  \/ refCount # 0 /\ (app = "dropped" => ~isDisposed /\ Busy("finalize") = {})

(* What every wrapper of the class leads back through.                     *)
Kind == IF shape.shadows = 0 THEN "callback" ELSE IF shape.shadows = 1 THEN "shadow" ELSE "multi"

HeapInv ==
  Intact =>
    /\ \A w \in 1..Len(wrappers) : /\ wrappers[w].state = "live"
                                   /\ wrappers[w].handle \in Slots
                                   /\ handles[wrappers[w].handle] = Kind
    /\ \A b \in 1..Len(blocks) : blocks[b]
    /\ thisHandle # 0 => handles[thisHandle] = "callback"
    /\ \A t \in Threads : At(t, "shadows") => /\ local[t].handle \in Slots
                                              /\ handles[local[t].handle] = "callback"
    /\ \A t \in Threads : At(t, "wrap") => /\ local[t].handle \in Slots
                                           /\ handles[local[t].handle] = Kind

HandleInv == \A w \in 1..Len(wrappers) : wrappers[w].handle \in Slots

(* What _ccw leads to is live; so is what a thread is still to free, and   *)
(* nothing leads to that any more.                                         *)
ReachInv ==
  /\ NoDoubleFree
  /\ ccw # 0 => \A i \in Interfaces :
       tables[ccw][i] # 0 => wrappers[tables[ccw][i]].state = "live"
  /\ \A t \in Threads : At(t, "free") => \A i \in Interfaces : local[t].entries[i] # 0 =>
       /\ \/ local[t].entries[i] \in local[t].freed
          \/ wrappers[local[t].entries[i]].state = "live"
       /\ ccw # 0 => \A j \in Interfaces : tables[ccw][j] # local[t].entries[i]

(* One thread frees the wrappers, each that is not freed yet is live.      *)
FreeInv ==
  /\ NoDoubleFree
  /\ \A t \in Threads : At(t, "free") =>
       \A w \in 1..Len(wrappers) : wrappers[w].state = "live" \/ w \in local[t].freed

(* The handles of shadows that are not shared.                             *)
SeparateInv ==
  /\ shape.shadows = 1 =>
       /\ \A v, w \in 1..Len(wrappers) : wrappers[v].handle = wrappers[w].handle => v = w
       /\ \A t \in Threads : At(t, "wrap") =>
            \A w \in 1..Len(wrappers) : wrappers[w].handle # local[t].handle
       /\ \A t, u \in Threads : At(t, "wrap") /\ At(u, "wrap")
            /\ local[t].handle = local[u].handle => t = u
  /\ \A t \in Threads : At(t, "free") =>
       \A w \in 1..Len(wrappers) \ local[t].freed : handles[wrappers[w].handle] = Kind

-----------------------------------------------------------------------------
(* The dictionary of the wrappers, when one thread makes it.               *)

CallerInv == Busy("marshal") \subseteq Marshallers /\ Busy("guids") \subseteq GuidReaders

Filling(t) == pc[t] \in {"publish", "assert", "thisHandle", "allocThis", "shadows", "wrap"}
Filled == tables # <<>> /\ \A t \in Threads : ~Filling(t)

TableInv ==
  /\ Len(tables) \in {0, 1}
  /\ Intact => ccw = Len(tables)
  /\ \A t \in Threads : Filling(t) =>
       /\ local[t].call = "marshal"
       /\ Held = {}
       /\ At(t, "publish") <=> tables = <<>>
       /\ pc[t] \in {"thisHandle", "allocThis", "shadows", "wrap"} => local[t].filling = 1
  /\ Held # {} => Filled
  /\ \A t \in Threads : pc[t] \in {"lookup", "found"} => Filled

(* What Find has returned is what the dictionary says.                     *)
IdentityInv ==
  \A i \in Interfaces : returned[i] # {} => Filled /\ returned[i] = {tables[1][i]}

Entered(l) == \A i \in {Leaves[l].guid} \cup Leaves[l].inherits : tables[1][i] # 0

(* Each leaf that is done is entered under all its interfaces.             *)
AnswerInv ==
  /\ \A t \in Threads : At(t, "wrap") => \A l \in 1..local[t].leaf : Entered(l)
  /\ Filled => \A l \in DOMAIN Leaves : Entered(l)
  /\ FindAnswers

-----------------------------------------------------------------------------
(* Nothing is left, when besides that every step succeeds.                 *)

(* Every wrapper stands in the dictionary, first in _ccw, then among those *)
(* still to be freed.                                                      *)
ListedInv ==
  /\ \A t \in Threads : At(t, "wrap") =>
       /\ Len(wrappers) = local[t].leaf
       /\ \A w \in 1..Len(wrappers) : tables[1][Leaves[w].guid] = w
  /\ \A t \in Threads : Filling(t) /\ ~At(t, "wrap") => wrappers = <<>>
  /\ tables = <<>> => wrappers = <<>>
  /\ Filled => /\ Len(wrappers) = Len(Leaves)
               /\ \A w \in 1..Len(wrappers) : tables[1][Leaves[w].guid] = w
  /\ \A t \in Threads : At(t, "free") =>
       \A w \in 1..Len(wrappers) : \/ w \in local[t].freed
                                   \/ \E i \in Interfaces : local[t].entries[i] = w

Freed == ~Intact /\ \A t \in Threads : ~At(t, "free")

WrapperLeakInv ==
  /\ \A t \in Threads : At(t, "free") =>
       \A w \in local[t].freed : wrappers[w].state # "live"
  /\ Freed => \A w \in 1..Len(wrappers) : wrappers[w].state # "live"
  /\ ~Intact => ccw = 0

HandleLeakInv ==
  /\ \A s \in Slots : handles[s] # "multi"
  /\ \A s \in Slots : handles[s] = "callback" => thisHandle = s
  /\ \A t \in Threads : At(t, "allocThis") => thisHandle = 0
  /\ \A s \in Slots : handles[s] = "shadow" =>
       \/ \E t \in Threads : At(t, "wrap") /\ local[t].handle = s
       \/ \E w \in 1..Len(wrappers) : wrappers[w].handle = s
  /\ \A t \in Threads : At(t, "free") => \A s \in Slots : handles[s] = "shadow" =>
       \E w \in 1..Len(wrappers) \ local[t].freed : wrappers[w].handle = s
  /\ Freed => /\ \A s \in Slots : handles[s] # "shadow"
              /\ (\A t \in Threads : ~At(t, "freeThis")) => thisHandle = 0

BlockInv ==
  /\ \A b \in 1..Len(blocks) : blocks[b] => b = guidPtr
  /\ \A t \in Threads : At(t, "guids") => blocks = <<>>
  /\ \A t \in Threads : At(t, "publishGuids") => local[t].block # 0
  /\ blocks # <<>> => guids # 0 \/ \E t \in Threads : At(t, "publishGuids")
  /\ Freed => \A b \in 1..Len(blocks) : ~blocks[b]

-----------------------------------------------------------------------------
(* Facts about the operators of the model.                                 *)

LEMMA LowestInSet ==
  ASSUME NEW S \in SUBSET Nat, S # {}
  PROVE  Lowest(S) \in S /\ \A s \in S : Lowest(S) <= s
<1> DEFINE Less == {pair \in Nat \X Nat : pair[1] < pair[2]}
<1>1. IsWellFoundedOn(Less, Nat)
  BY NatLessThanWellFounded DEF OpToRel
<1>2. PICK s \in S : \A other \in S : <<other, s>> \notin Less
  <2> HIDE DEF Less
  <2> QED
    BY <1>1, WFMin
<1>3. ASSUME NEW other \in S
      PROVE  s <= other
  <2>1. ~(other < s)
    BY <1>2
  <2>2. QED
    BY <2>1
<1>4. QED
  BY <1>3 DEF Lowest

LEMMA FreeSlotsAreSlots ==
  /\ FreeSlots \subseteq Slots /\ Slots \subseteq Nat \ {0}
  /\ FreeSlots # {} => Lowest(FreeSlots) \in Slots /\ handles[Lowest(FreeSlots)] = "free"
  /\ \A new \in SUBSET FreeSlots : new # {} => Lowest(new) \in new
<1>1. FreeSlots \subseteq Slots /\ Slots \subseteq Nat \ {0}
  BY SlotAssumption DEF FreeSlots
<1>2. \A new \in SUBSET FreeSlots : new # {} => Lowest(new) \in new
  BY <1>1, LowestInSet
<1>3. FreeSlots # {} => Lowest(FreeSlots) \in Slots /\ handles[Lowest(FreeSlots)] = "free"
  BY <1>1, <1>2 DEF FreeSlots
<1>4. QED
  BY <1>1, <1>2, <1>3

(* What classes are made of.                                               *)
LEMMA ShapeType ==
  ASSUME shape \in Shapes
  PROVE  /\ Leaves \in Seq([guid : Interfaces, inherits : SUBSET Interfaces])
         /\ Len(Leaves) \in Nat
         /\ Leaves # <<>> <=> Len(Leaves) > 0
         /\ shape.shadows \in Nat
         /\ Supported \subseteq Interfaces
         /\ \A l \in 1..Len(Leaves) : /\ Leaves[l].guid \in Supported
                                      /\ Leaves[l].inherits \subseteq Supported
<1>1. Leaves \in Seq([guid : Interfaces, inherits : SUBSET Interfaces]) /\ shape.shadows \in Nat
  BY ShapeAssumption DEF Leaves
<1>2. Len(Leaves) \in Nat /\ DOMAIN Leaves = 1..Len(Leaves) /\ (Leaves # <<>> <=> Len(Leaves) > 0)
  BY <1>1
<1>3. ASSUME NEW l \in 1..Len(Leaves)
      PROVE  Leaves[l].guid \in Interfaces /\ Leaves[l].inherits \subseteq Interfaces
  <2> DEFINE Leaf == [guid : Interfaces, inherits : SUBSET Interfaces]
  <2>1. Leaves[l] \in Leaf
    <3>1. Leaves \in Seq(Leaf)
      BY <1>1
    <3> HIDE DEF Leaf
    <3>2. QED
      BY <3>1
  <2>2. QED
    BY <2>1
<1>4. \A i \in Supported : \E l \in 1..Len(Leaves) : i = Leaves[l].guid \/ i \in Leaves[l].inherits
  BY <1>2 DEF Supported
<1>5. ASSUME NEW l \in 1..Len(Leaves)
      PROVE  Leaves[l].guid \in Supported /\ Leaves[l].inherits \subseteq Supported
  BY <1>2 DEF Supported
<1>6. QED
  BY <1>1, <1>2, <1>3, <1>4, <1>5

LEMMA HeapLengths ==
  ASSUME HeapType
  PROVE  Len(tables) \in Nat /\ Len(wrappers) \in Nat /\ Len(blocks) \in Nat
BY DEF HeapType

LEMMA NoLocalsType ==
  ASSUME HeapType
  PROVE  NoLocals \in Local /\ NoEntries \in [Interfaces -> 0..Len(wrappers)]
<1>1. Len(tables) \in Nat /\ Len(wrappers) \in Nat /\ Len(blocks) \in Nat
  BY HeapLengths
<1>2. QED
  BY <1>1 DEF NoLocals, NoEntries, Local, Calls

-----------------------------------------------------------------------------
(* The calls.                                                              *)

LEMMA SeqMonotonic ==
  ASSUME NEW S, NEW T, S \subseteq T
  PROVE  Seq(S) \subseteq Seq(T)
<1> SUFFICES ASSUME NEW s \in Seq(S)
             PROVE  s \in Seq(T)
  OBVIOUS
<1>1. s \in [1..Len(s) -> T] /\ Len(s) \in Nat
  OBVIOUS
<1>2. QED
  BY <1>1

LEMMA CallLabels ==
  /\ LabelsOf("none") = {"idle"}
  /\ LabelsOf("marshal") = Finding
  /\ LabelsOf("query") = Finding
  /\ LabelsOf("release") = Freeing \cup {"return"}
  /\ LabelsOf("dispose") = Freeing \cup {"releaseOwned", "setDisposed", "return"}
  /\ LabelsOf("finalize") = Freeing \cup {"setDisposed"}
  /\ LabelsOf("guids") = {"guids", "publishGuids", "return"}
BY DEF LabelsOf

LEMMA CallAt ==
  ASSUME CallInv, NEW t \in Threads
  PROVE  /\ pc[t] \in Labels
         /\ local[t].call \in Calls
         /\ local[t].call = "none" <=> At(t, "idle")
         /\ local[t].call \in {"marshal", "query"} <=> pc[t] \in Finding
         /\ At(t, "releaseOwned") => local[t].call = "dispose"
         /\ At(t, "setDisposed") => local[t].call \in {"dispose", "finalize"}
         /\ At(t, "return") => local[t].call \in {"release", "dispose", "guids"}
         /\ pc[t] \in Freeing => local[t].call \in {"release", "dispose", "finalize"}
         /\ pc[t] \in {"guids", "publishGuids"} => local[t].call = "guids"
<1>1. pc[t] \in Labels /\ local[t] \in Local
  BY DEF CallInv, HeapType
<1>2. local[t].call \in Calls
  BY <1>1 DEF Local
<1>3. pc[t] \in LabelsOf(local[t].call)
  BY DEF CallInv, CallInvOf
<1>4. QED
  BY <1>1, <1>2, <1>3, CallLabels DEF Calls, Finding, Freeing, At

(* One thread moves at a time, and a class does not change.                *)
Moves(t) ==
  /\ UNCHANGED shape
  /\ \A u \in Threads \ {t} : pc'[u] = pc[u] /\ local'[u] = local[u]

LEMMA SameClass ==
  ASSUME UNCHANGED shape
  PROVE  Leaves' = Leaves /\ Supported' = Supported /\ Kind' = Kind
BY DEF Leaves, Supported, Kind

LEMMA OthersKeepCallInv ==
  ASSUME CallInv, NEW t \in Threads, NEW u \in Threads \ {t}, Moves(t)
  PROVE  CallInvOf(u)'
BY SameClass DEF CallInv, CallInvOf, Moves, At, NoLocals, NoEntries

LEMMA EnterKeepsCallInv ==
  ASSUME CallInv, NEW t \in Threads, NEW call \in Calls \ {"none"},
         NEW label \in LabelsOf(call), label \notin Finding \ {"find"},
         NEW want \in SUBSET Interfaces,
         label = "find" => want \in {{i} : i \in Supported},
         Enter(t, call, label, want), app' \in {"using", "disposed", "dropped"}
  PROVE  Moves(t) /\ HeapType' /\ CallInvOf(t)'
<1> USE DEF CallInv
<1> DEFINE new == [NoLocals EXCEPT !.call = call, !.want = want]
<1>1. new \in Local /\ new.call = call /\ new.want = want /\ new.freed = {} /\ new.leaf = 0
  BY NoLocalsType DEF Local, Calls, NoLocals
<1>2. label \in Labels
  BY CallLabels DEF Calls, Labels, Finding, Freeing
<1>3. /\ pc' = [pc EXCEPT ![t] = label]
      /\ local' = [local EXCEPT ![t] = new]
      /\ UNCHANGED <<owned, holder, shape, object, heap, returned>>
  BY DEF Enter, Goto
<1> HIDE DEF new
<1>4. HeapType'
  BY <1>1, <1>2, <1>3 DEF HeapType, Local, object, heap
<1>5. Moves(t)
  BY <1>3 DEF Moves, HeapType
<1>6. pc'[t] = label /\ local'[t] = new /\ Supported' = Supported
  BY <1>3, SameClass DEF HeapType
<1>7. CallInvOf(t)'
  <2>1. label # "idle"
    BY CallLabels DEF Calls, Finding, Freeing
  <2>2. QED
    BY <1>1, <1>6, <2>1 DEF CallInvOf, At, Finding
<1>8. QED
  BY <1>4, <1>5, <1>7

LEMMA EntriesKeepCallInv ==
  ASSUME CallInv, NEW t \in Threads,
         Marshal(t) \/ QueryInterface(t) \/ Dispose(t) \/ Finalize(t) \/ GetIids(t)
  PROVE  Moves(t) /\ HeapType' /\ CallInvOf(t)'
<1>1. app \in {"using", "disposed", "dropped"} /\ Supported \subseteq Interfaces
  BY ShapeType DEF CallInv, HeapType
<1>2. CASE Marshal(t)
  <2>1. PICK i \in Supported : Enter(t, "marshal", "find", {i})
    BY <1>2 DEF Marshal
  <2>2. QED
    BY <1>1, <1>2, <2>1, EnterKeepsCallInv, CallLabels DEF Marshal, Calls, Finding
<1>3. CASE QueryInterface(t)
  <2>1. PICK i \in Supported : Enter(t, "query", "find", {i})
    BY <1>3 DEF QueryInterface
  <2>2. QED
    BY <1>1, <1>3, <2>1, EnterKeepsCallInv, CallLabels DEF QueryInterface, Calls, Finding
<1>4. CASE Dispose(t)
  <2>1. PICK label \in {"return", "releaseOwned"} : Enter(t, "dispose", label, {})
    BY <1>4 DEF Dispose
  <2>2. QED
    BY <1>1, <1>4, <2>1, EnterKeepsCallInv, CallLabels DEF Dispose, Calls, Finding
<1>5. CASE Finalize(t)
  BY <1>1, <1>5, EnterKeepsCallInv, CallLabels DEF Finalize, Calls, Finding, Freeing
<1>6. CASE GetIids(t)
  <2>1. PICK label \in {"return", "guids"} : Enter(t, "guids", label, {})
    BY <1>6 DEF GetIids
  <2>2. QED
    BY <1>1, <1>6, <2>1, EnterKeepsCallInv, CallLabels DEF GetIids, Calls, Finding
<1>7. QED
  BY <1>2, <1>3, <1>4, <1>5, <1>6

(* Nothing ever disappears from the heap, so what threads hold stays there. *)
LEMMA LocalGrows ==
  ASSUME HeapType, Len(tables') \in Nat, Len(wrappers') \in Nat, Len(blocks') \in Nat,
         Len(tables) <= Len(tables'), Len(wrappers) <= Len(wrappers'),
         Len(blocks) <= Len(blocks')
  PROVE  \A l \in Local : l \in Local'
<1>1. Len(tables) \in Nat /\ Len(wrappers) \in Nat /\ Len(blocks) \in Nat
  BY HeapLengths
<1>2. /\ 0..Len(tables) \subseteq 0..Len(tables')
      /\ 0..Len(wrappers) \subseteq 0..Len(wrappers')
      /\ 1..Len(wrappers) \subseteq 1..Len(wrappers')
      /\ 0..Len(blocks) \subseteq 0..Len(blocks')
  BY <1>1
<1>3. [Interfaces -> 0..Len(wrappers)] \subseteq [Interfaces -> 0..Len(wrappers')]
  BY <1>2
<1>4. QED
  BY <1>2, <1>3 DEF Local

LEMMA FindKeepsCallInv ==
  ASSUME CallInv, NEW t \in Threads,
         \/ Find(t) \/ Publish(t) \/ PassTable(t) \/ CheckThisHandle(t) \/ AllocThisHandle(t)
         \/ CreateShadows(t) \/ WrapLeaf(t) \/ InitializationThrows(t) \/ Lookup(t)
  PROVE  Moves(t) /\ HeapType' /\ CallInvOf(t)'
<1> USE DEF CallInv
<1>1. pc[t] \in Finding => local[t].call \in {"marshal", "query"}
  BY CallAt
<1>2. HeapType /\ local[t] \in Local /\ CallInvOf(t)
  BY DEF HeapType
<1>3. /\ LabelsOf("marshal") = Finding /\ LabelsOf("query") = Finding
      /\ LabelsOf("none") = {"idle"}
  BY CallLabels
<1>4. shape' = shape => Leaves' = Leaves /\ Supported' = Supported
  BY SameClass
<1>5. CASE Find(t)
  <2>1. /\ pc' = [pc EXCEPT ![t] = pc'[t]] /\ pc'[t] \in {"publish", "lookup"}
        /\ local' = [local EXCEPT ![t] = local'[t]]
        /\ local'[t] = local[t] \/ local'[t] = [local[t] EXCEPT !.table = ccw]
        /\ pc'[t] = "lookup" => local'[t] = [local[t] EXCEPT !.table = ccw] /\ ccw # 0
        /\ pc[t] = "find"
    BY <1>5 DEF Find, HeapType, Goto, At
  <2>2. local'[t] \in Local
    BY <2>1, <1>2 DEF HeapType, Local
  <2>3. HeapType'
    <3>1. local' \in [Threads -> Local]
      BY <2>1, <2>2 DEF HeapType
    <3> DEFINE next == pc'[t]
    <3>2. next \in Labels /\ pc' = [pc EXCEPT ![t] = next]
      BY <2>1 DEF Labels
    <3> HIDE DEF next
    <3>3. pc' \in [Threads -> Labels]
      BY <3>2 DEF HeapType
    <3>4. UNCHANGED <<environment, object, heap, returned>>
      BY <1>5 DEF Find
    <3>5. QED
      BY <3>1, <3>3, <3>4 DEF HeapType, Local, object, heap, environment
  <2>4. CallInvOf(t)'
    BY <1>1, <1>2, <1>3, <1>4, <1>5, <2>1, SMTT(20)
       DEF Find, CallInvOf, At, Finding, Local, environment
  <2>5. QED
    BY <1>5, <2>1, <2>3, <2>4 DEF Find, Moves, HeapType, environment
<1>6. CASE Publish(t)
  <2>1. /\ Len(tables') = Len(tables) + 1 /\ Len(tables) \in Nat
        /\ tables' \in Seq([Interfaces -> 0..Len(wrappers)]) /\ ccw' = Len(tables')
    BY <1>6, HeapLengths, NoLocalsType DEF Publish, HeapType
  <2>2. local'[t] = [local[t] EXCEPT !.table = ccw'] /\ pc'[t] = "assert"
    BY <1>6 DEF Publish, HeapType, Goto
  <2>3. \A l \in Local : l \in Local'
    BY <2>1, <1>6, HeapLengths, LocalGrows DEF Publish
  <2>4. local'[t] \in Local'
    <3>1. local[t] \in Local' /\ ccw' \in 0..Len(tables')
      BY <2>1, <2>3, <1>2
    <3>2. QED
      BY <2>2, <3>1 DEF Local
  <2>5. local' \in [Threads -> Local']
    BY <2>3, <2>4, <1>6 DEF Publish, HeapType
  <2>6. pc' \in [Threads -> Labels]
    BY <1>6 DEF Publish, HeapType, Goto, Labels
  <2>7. HeapType'
    BY <2>1, <2>5, <2>6, <1>6 DEF Publish, HeapType, environment
  <2>8. CallInvOf(t)'
    <3>1. pc[t] = "publish" /\ UNCHANGED shape
      BY <1>6 DEF Publish, At, environment
    <3>2. /\ local'[t].table # 0 /\ local'[t].call = local[t].call
          /\ local'[t].want = local[t].want /\ local'[t].leaf = local[t].leaf
      BY <1>2, <2>1, <2>2 DEF Local
    <3>3. QED
      BY <1>1, <1>2, <1>3, <1>4, <2>2, <3>1, <3>2 DEF CallInvOf, At, Finding
  <2>9. QED
    BY <1>6, <2>7, <2>8 DEF Publish, Moves, HeapType, Goto, environment
<1>7. CASE PassTable(t)
  <2>1. /\ local' = [local EXCEPT ![t] = local'[t]]
        /\ local'[t] = [local[t] EXCEPT !.filling = ccw]
        /\ pc'[t] = (IF Leaves = <<>> THEN "lookup" ELSE "thisHandle")
    BY <1>7 DEF PassTable, HeapType, Goto
  <2>2. local'[t] \in Local
    BY <2>1, <1>2 DEF HeapType, Local
  <2>3. HeapType'
    BY <2>1, <2>2, <1>7 DEF PassTable, HeapType, Labels, Goto, Local, object, heap, environment
  <2>4. CallInvOf(t)'
    BY <1>1, <1>2, <1>3, <1>4, <1>7, <2>1 DEF PassTable, CallInvOf, At, Finding, Local, environment
  <2>5. QED
    BY <1>7, <2>3, <2>4 DEF PassTable, Moves, HeapType, Goto, environment
<1>8. CASE CheckThisHandle(t)
  <2>1. /\ local' = [local EXCEPT ![t].handle = thisHandle] /\ thisHandle \in Slots \cup {0}
        /\ pc' = [pc EXCEPT ![t] = IF thisHandle = 0 THEN "allocThis" ELSE "shadows"]
        /\ pc[t] = "thisHandle" /\ UNCHANGED <<environment, object, heap, returned>>
    BY <1>8 DEF CheckThisHandle, HeapType, Goto, At
  <2>2. local' = [local EXCEPT ![t] = local'[t]] /\ local'[t] = [local[t] EXCEPT !.handle = thisHandle]
    BY <2>1 DEF HeapType
  <2>3. local'[t] \in Local
    <3> DEFINE h == thisHandle
    <3>1. h \in Slots \cup {0} /\ local'[t] = [local[t] EXCEPT !.handle = h]
      BY <2>1, <2>2
    <3> HIDE DEF h
    <3>2. QED
      BY <1>2, <3>1 DEF Local
  <2>4. HeapType'
    BY <2>1, <2>2, <2>3 DEF HeapType, Labels, Local, object, heap, environment
  <2>5. CallInvOf(t)'
    <3>1. pc'[t] \in {"allocThis", "shadows"} /\ UNCHANGED shape
      BY <2>1 DEF HeapType, environment
    <3>2. /\ local'[t].call = local[t].call /\ local'[t].want = local[t].want
          /\ local'[t].table = local[t].table /\ local'[t].leaf = local[t].leaf
      BY <1>2, <2>2 DEF Local
    <3>3. /\ pc[t] \in LabelsOf(local[t].call) /\ local[t].want \in {{i} : i \in Supported}
          /\ local[t].table # 0 /\ local[t].leaf = 0 /\ Leaves # <<>>
      BY <2>1 DEF CallInv, CallInvOf, At, Finding
    <3>4. pc'[t] \in LabelsOf(local'[t].call)
      BY <1>3, <2>1, <3>1, <3>2, <3>3, CallAt DEF Finding
    <3>5. QED
      BY <1>4, <3>1, <3>2, <3>3, <3>4 DEF CallInvOf, At, Finding
  <2>6. QED
    BY <2>1, <2>2, <2>4, <2>5 DEF Moves, HeapType, environment
<1>9. CASE AllocThisHandle(t)
  <2>1. /\ thisHandle' \in Slots /\ handles' = [handles EXCEPT ![thisHandle'] = "callback"]
        /\ local' = [local EXCEPT ![t].handle = thisHandle']
        /\ pc' = [pc EXCEPT ![t] = "shadows"] /\ pc[t] = "allocThis"
        /\ UNCHANGED <<environment, refCount, isDisposed, ccw, guidPtr, guids,
                       tables, wrappers, blocks, returned>>
    BY <1>9, FreeSlotsAreSlots DEF AllocThisHandle, Goto, At
  <2>2. local' = [local EXCEPT ![t] = local'[t]] /\ local'[t] = [local[t] EXCEPT !.handle = thisHandle']
    BY <2>1 DEF HeapType
  <2>3. local'[t] \in Local
    <3> DEFINE h == thisHandle'
    <3>1. h \in Slots \cup {0} /\ local'[t] = [local[t] EXCEPT !.handle = h]
      BY <2>1, <2>2
    <3> HIDE DEF h
    <3>2. QED
      BY <1>2, <3>1 DEF Local
  <2>4. HeapType'
    BY <2>1, <2>2, <2>3 DEF HeapType, Labels, Local, environment
  <2>5. CallInvOf(t)'
    <3>1. pc'[t] = "shadows" /\ UNCHANGED shape
      BY <2>1 DEF HeapType, environment
    <3>2. /\ local'[t].call = local[t].call /\ local'[t].want = local[t].want
          /\ local'[t].table = local[t].table /\ local'[t].leaf = local[t].leaf
      BY <1>2, <2>2 DEF Local
    <3>3. /\ pc[t] \in LabelsOf(local[t].call) /\ local[t].want \in {{i} : i \in Supported}
          /\ local[t].table # 0 /\ local[t].leaf = 0 /\ Leaves # <<>>
      BY <2>1 DEF CallInv, CallInvOf, At, Finding
    <3>4. pc'[t] \in LabelsOf(local'[t].call)
      BY <1>3, <2>1, <3>1, <3>2, <3>3, CallAt DEF Finding
    <3>5. QED
      BY <1>4, <3>1, <3>2, <3>3, <3>4 DEF CallInvOf, At, Finding
  <2>6. QED
    BY <2>1, <2>2, <2>4, <2>5 DEF Moves, HeapType, environment
<1>10. CASE CreateShadows(t)
  <2>1. PICK new \in SUBSET FreeSlots :
          LET handle == IF new = {} THEN local[t].handle ELSE Lowest(new)
          IN /\ handles' = [s \in Slots |->
                              IF s \notin new THEN handles[s]
                              ELSE IF s = handle /\ shape.shadows > 1
                                   THEN "multi" ELSE "shadow"]
             /\ local' = [local EXCEPT ![t].handle = handle]
    BY <1>10 DEF CreateShadows
  <2> DEFINE handle == IF new = {} THEN local[t].handle ELSE Lowest(new)
  <2>2. handle \in Slots \cup {0}
    BY <1>2, FreeSlotsAreSlots DEF Local
  <2>3. /\ handles' \in [Slots -> {"free", "callback", "shadow", "multi", "foreign"}]
        /\ local' = [local EXCEPT ![t] = local'[t]]
        /\ local'[t] = [local[t] EXCEPT !.handle = handle]
    BY <2>1 DEF HeapType
  <2> HIDE DEF handle
  <2>4. local'[t] \in Local
    BY <2>2, <2>3, <1>2 DEF Local
  <2>5. HeapType'
    BY <2>3, <2>4, <1>10 DEF CreateShadows, HeapType, Labels, Goto, Local, object, environment
  <2>6. pc' = [pc EXCEPT ![t] = "wrap"] /\ At(t, "shadows") /\ UNCHANGED shape
    BY <1>10 DEF CreateShadows, Goto, environment
  <2>7. CallInvOf(t)'
    BY <1>1, <1>2, <1>3, <1>4, <2>3, <2>6, ShapeType DEF CallInvOf, At, Finding, Local, HeapType
  <2>8. QED
    BY <2>3, <2>5, <2>6, <2>7 DEF Moves, HeapType
<1>11. CASE WrapLeaf(t)
  <2> DEFINE leaf == Leaves[local[t].leaf + 1]
             new == [handle |-> local[t].handle, state |-> "live"]
             filled == [i \in Interfaces |->
                          IF \/ i = leaf.guid
                             \/ i \in leaf.inherits /\ tables[local[t].filling][i] = 0
                          THEN Len(wrappers') ELSE tables[local[t].filling][i]]
  <2>1. /\ wrappers' = Append(wrappers, new)
        /\ tables' = [tables EXCEPT ![local[t].filling] = filled]
        /\ local' = [local EXCEPT ![t].leaf = local[t].leaf + 1]
        /\ pc[t] = "wrap" /\ local[t].filling # 0
        /\ UNCHANGED <<shape, blocks>>
    BY <1>11 DEF WrapLeaf, HeapType, At, environment
  <2>2. /\ wrappers' \in Seq([handle : Slots \cup {0}, state : {"live", "freed", "corrupt"}])
        /\ Len(wrappers') = Len(wrappers) + 1 /\ Len(wrappers) \in Nat
    <3>1. new \in [handle : Slots \cup {0}, state : {"live", "freed", "corrupt"}]
      BY <1>2 DEF Local
    <3> HIDE DEF new
    <3>2. QED
      BY <2>1, <3>1 DEF HeapType
  <2>3. /\ tables' \in Seq([Interfaces -> 0..Len(wrappers')]) /\ Len(tables') = Len(tables)
        /\ Len(tables) \in Nat
    <3>1. tables \in Seq([Interfaces -> 0..Len(wrappers')])
      <4>1. [Interfaces -> 0..Len(wrappers)] \subseteq [Interfaces -> 0..Len(wrappers')]
        BY <2>2
      <4>2. Seq([Interfaces -> 0..Len(wrappers)]) \subseteq Seq([Interfaces -> 0..Len(wrappers')])
        BY <4>1, SeqMonotonic
      <4>3. QED
        BY <4>2 DEF HeapType
    <3>2. local[t].filling \in 1..Len(tables)
      BY <1>2, <2>1, HeapLengths DEF Local
    <3>3. tables[local[t].filling] \in [Interfaces -> 0..Len(wrappers')]
      BY <3>1, <3>2
    <3>4. filled \in [Interfaces -> 0..Len(wrappers')]
      BY <2>2, <3>3
    <3> DEFINE T == [Interfaces -> 0..Len(wrappers')]
               g == filled
    <3>5. tables \in Seq(T) /\ g \in T /\ tables' = [tables EXCEPT ![local[t].filling] = g]
      BY <2>1, <3>1, <3>4
    <3> HIDE DEF filled, T, g
    <3>6. tables' \in Seq(T) /\ Len(tables') = Len(tables)
      BY <3>2, <3>5
    <3>7. QED
      BY <3>6, HeapLengths DEF T
  <2> HIDE DEF filled, new
  <2>4. \A l \in Local : l \in Local'
    BY <2>1, <2>2, <2>3, HeapLengths, LocalGrows
  <2>5. /\ local' = [local EXCEPT ![t] = local'[t]]
        /\ local'[t] = [local[t] EXCEPT !.leaf = local[t].leaf + 1]
    BY <2>1 DEF HeapType
  <2>6. local'[t] \in Local'
    <3>1. local'[t] \in Local
      <4>1. local[t].leaf + 1 \in Nat
        BY <1>2 DEF Local
      <4> DEFINE next == local[t].leaf + 1
      <4>2. next \in Nat /\ local'[t] = [local[t] EXCEPT !.leaf = next]
        BY <2>5, <4>1
      <4> HIDE DEF next
      <4>3. QED
        BY <1>2, <4>2 DEF Local
    <3>2. QED
      BY <3>1, <2>4
  <2>7. local' \in [Threads -> Local']
    BY <2>4, <2>5, <2>6 DEF HeapType
  <2>8. /\ pc' = [pc EXCEPT ![t] = pc'[t]]
        /\ pc'[t] = IF local[t].leaf + 1 = Len(Leaves) THEN "lookup" ELSE "wrap"
    BY <1>11, <2>5 DEF WrapLeaf, HeapType, Goto, Local
  <2>9. returned' \in [Interfaces -> SUBSET (1..Len(wrappers'))]
    <3>1. 1..Len(wrappers) \subseteq 1..Len(wrappers')
      BY <2>2
    <3>2. QED
      BY <1>11, <3>1 DEF WrapLeaf, HeapType
  <2>10. HeapType'
    BY <1>11, <2>2, <2>3, <2>7, <2>8, <2>9 DEF WrapLeaf, HeapType, Labels, object, environment
  <2>11. CallInvOf(t)'
    <3>1. /\ local'[t].table = local[t].table /\ local'[t].call = local[t].call
          /\ local'[t].want = local[t].want /\ local'[t].leaf = local[t].leaf + 1
          /\ local[t].leaf \in Nat
      BY <1>2, <2>5 DEF Local
    <3>2. local[t].leaf < Len(Leaves) /\ Len(Leaves) \in Nat
      BY <1>2, <2>1, ShapeType DEF CallInvOf, At, HeapType
    <3>3. QED
      BY <1>1, <1>2, <1>3, <1>4, <2>1, <2>8, <3>1, <3>2 DEF CallInvOf, At, Finding
  <2>12. QED
    BY <2>1, <2>5, <2>8, <2>10, <2>11 DEF Moves, HeapType
<1>12. CASE InitializationThrows(t)
  <2>1. HeapType'
    BY <1>12, NoLocalsType DEF InitializationThrows, Return, HeapType, Goto, Labels, Local,
       object, heap, environment
  <2>2. CallInvOf(t)'
    BY <1>3, <1>12 DEF InitializationThrows, Return, HeapType, Goto, CallInvOf, At, Finding,
       NoLocals
  <2>3. QED
    BY <1>12, <2>1, <2>2 DEF InitializationThrows, Return, Moves, HeapType, Goto, environment
<1>13. CASE Lookup(t)
  <2>1. PICK i \in Supported : local[t].want = {i}
    BY <1>13 DEF Lookup, At, CallInvOf, Finding
  <2> DEFINE pointer == tables[local[t].table][i]
  <2>2. /\ local' = [local EXCEPT ![t].pointer = pointer]
        /\ returned' = [returned EXCEPT ![i] = @ \cup ({pointer} \ {0})]
    BY <1>13, <2>1 DEF Lookup
  <2>3. pointer \in 0..Len(wrappers)
    <3>1. local[t].table \in 1..Len(tables)
      BY <1>2, <1>13, HeapLengths DEF Lookup, CallInvOf, At, Local
    <3>2. tables[local[t].table] \in [Interfaces -> 0..Len(wrappers)]
      BY <3>1 DEF HeapType
    <3>3. QED
      BY <2>1, <3>2, ShapeType DEF HeapType
  <2> HIDE DEF pointer
  <2>4. /\ local' = [local EXCEPT ![t] = local'[t]]
        /\ local'[t] = [local[t] EXCEPT !.pointer = pointer]
        /\ pc' = [pc EXCEPT ![t] = "found"]
    BY <1>13, <2>2 DEF Lookup, HeapType, Goto
  <2>5. local'[t] \in Local
    BY <1>2, <2>3, <2>4 DEF Local
  <2>6. returned' \in [Interfaces -> SUBSET (1..Len(wrappers))]
    <3>1. i \in Interfaces /\ returned[i] \cup ({pointer} \ {0}) \subseteq 1..Len(wrappers)
      BY <2>3, HeapLengths, ShapeType DEF HeapType
    <3> DEFINE new == returned[i] \cup ({pointer} \ {0})
    <3>2. new \in SUBSET (1..Len(wrappers)) /\ returned' = [returned EXCEPT ![i] = new]
      BY <2>2, <3>1
    <3> HIDE DEF new
    <3>3. QED
      BY <3>2 DEF HeapType
  <2>7. HeapType'
    BY <1>13, <2>4, <2>5, <2>6 DEF Lookup, HeapType, Labels, Local, object, heap, environment
  <2>8. CallInvOf(t)'
    BY <1>1, <1>2, <1>3, <1>4, <1>13, <2>4, SMTT(20)
       DEF Lookup, CallInvOf, At, Finding, Local, HeapType, environment
  <2>9. QED
    BY <1>13, <2>4, <2>7, <2>8 DEF Lookup, Moves, HeapType, environment
<1>14. QED
  BY <1>5, <1>6, <1>7, <1>8, <1>9, <1>10, <1>11, <1>12, <1>13

LEMMA ReferencesKeepCallInv ==
  ASSUME CallInv, NEW t \in Threads,
         \/ AddRef(t) \/ FindReturns(t) \/ ReleaseOwned(t) \/ \E r \in References : Release(t, r)
  PROVE  Moves(t) /\ HeapType' /\ CallInvOf(t)'
<1> USE DEF CallInv
<1>1. HeapType /\ local[t] \in Local /\ CallInvOf(t)
  BY DEF HeapType
<1>2. CASE AddRef(t)
  <2>1. PICK r \in References : holder' = [holder EXCEPT ![r] = t]
    BY <1>2 DEF AddRef
  <2>2. holder' \in [References -> Threads \cup {NoThread}]
    BY <2>1 DEF HeapType
  <2>3. local' \in [Threads -> Local] /\ pc' \in [Threads -> Labels]
    BY <1>2, NoLocalsType DEF AddRef, Return, Goto, HeapType, Labels
  <2>4. HeapType'
    BY <1>2, <2>2, <2>3 DEF AddRef, HeapType, Local, heap
  <2>5. CallInvOf(t)'
    BY <1>2, CallLabels DEF AddRef, Return, HeapType, Goto, CallInvOf, At, Finding, NoLocals
  <2>6. QED
    BY <1>2, <2>4, <2>5 DEF AddRef, Return, Moves, HeapType, Goto
<1>3. CASE FindReturns(t)
  <2>1. HeapType'
    BY <1>3, NoLocalsType DEF FindReturns, Return, HeapType, Goto, Labels, Local,
       object, heap, environment
  <2>2. CallInvOf(t)'
    BY <1>3, CallLabels DEF FindReturns, Return, HeapType, Goto, CallInvOf, At, Finding, NoLocals
  <2>3. QED
    BY <1>3, <2>1, <2>2 DEF FindReturns, Return, Moves, HeapType, Goto, environment
<1>4. CASE ReleaseOwned(t)
  <2>1. HeapType'
    BY <1>4 DEF ReleaseOwned, Decrement, HeapType, Goto, Labels, Local, heap
  <2>2. local[t].call = "dispose" /\ local' = local
    BY <1>4, CallAt DEF ReleaseOwned
  <2>3. local[t].freed = {}
    BY <1>1, <1>4 DEF CallInvOf, ReleaseOwned, At
  <2>4. CallInvOf(t)'
    BY <1>1, <1>4, <2>2, <2>3, CallLabels
       DEF ReleaseOwned, Decrement, HeapType, Goto, CallInvOf, At, Finding, Freeing
  <2>5. QED
    BY <1>4, <2>1, <2>4 DEF ReleaseOwned, Decrement, Moves, HeapType, Goto
<1>5. CASE \E r \in References : Release(t, r)
  <2>1. PICK r \in References : Release(t, r)
    BY <1>5
  <2> DEFINE call == IF refCount = 1 THEN "release" ELSE "none"
  <2>2. local[t] = NoLocals /\ pc[t] = "idle"
    BY <1>1, <2>1 DEF Release, CallInvOf, At
  <2>3. /\ local' = [local EXCEPT ![t] = [NoLocals EXCEPT !.call = call]]
        /\ holder' = [holder EXCEPT ![r] = NoThread]
        /\ pc' = [pc EXCEPT ![t] = IF refCount = 1 THEN "exchange" ELSE "idle"]
    BY <2>1, <2>2 DEF Release, Decrement, HeapType, Goto
  <2>4. [NoLocals EXCEPT !.call = call] \in Local /\ call \in {"release", "none"}
    BY NoLocalsType DEF Local, Calls
  <2>5. local' \in [Threads -> Local] /\ holder' \in [References -> Threads \cup {NoThread}]
    BY <2>3, <2>4 DEF HeapType
  <2>6. pc' \in [Threads -> Labels]
    BY <2>3 DEF HeapType, Labels
  <2>7. HeapType'
    BY <2>1, <2>5, <2>6 DEF Release, Decrement, HeapType, Local, heap
  <2>8. /\ refCount = 1 => local'[t].call = "release" /\ pc'[t] = "exchange"
        /\ refCount # 1 => local'[t] = NoLocals /\ pc'[t] = "idle"
        /\ local'[t].freed = {}
    BY <2>3 DEF HeapType, NoLocals
  <2>9. CallInvOf(t)'
    <3>1. CASE refCount = 1
      BY <2>8, <3>1, CallLabels DEF CallInvOf, At, Finding, Freeing
    <3>2. CASE refCount # 1
      BY <2>8, <3>2, CallLabels DEF CallInvOf, At, Finding, Freeing, NoLocals, NoEntries
    <3>3. QED
      BY <3>1, <3>2
  <2>10. QED
    BY <2>1, <2>3, <2>7, <2>9 DEF Release, Moves, HeapType
<1>6. QED
  BY <1>2, <1>3, <1>4, <1>5

LEMMA DisposalKeepsCallInv ==
  ASSUME CallInv, NEW t \in Threads,
         \/ SetDisposed(t) \/ ReturnFrom(t) \/ ExchangeTable(t)
         \/ FreeEntry(t) \/ FreeGuids(t) \/ FreeThisHandle(t)
  PROVE  Moves(t) /\ HeapType' /\ CallInvOf(t)'
<1> USE DEF CallInv
<1>1. HeapType /\ local[t] \in Local /\ CallInvOf(t)
  BY DEF HeapType
<1>2. CASE SetDisposed(t)
  <2>1. HeapType'
    BY <1>2, NoLocalsType DEF SetDisposed, Return, HeapType, Goto, Labels, Local, heap, environment
  <2>2. CallInvOf(t)'
    BY <1>2, CallLabels DEF SetDisposed, Return, HeapType, Goto, CallInvOf, At, Finding, NoLocals
  <2>3. QED
    BY <1>2, <2>1, <2>2 DEF SetDisposed, Return, Moves, HeapType, Goto, environment
<1>3. CASE ReturnFrom(t)
  <2>1. HeapType'
    BY <1>3, NoLocalsType DEF ReturnFrom, Return, HeapType, Goto, Labels, Local,
       object, heap, environment
  <2>2. CallInvOf(t)'
    BY <1>3, CallLabels DEF ReturnFrom, Return, HeapType, Goto, CallInvOf, At, Finding, NoLocals
  <2>3. QED
    BY <1>3, <2>1, <2>2 DEF ReturnFrom, Return, Moves, HeapType, Goto, environment
<1>4. CASE ExchangeTable(t)
  <2> DEFINE entries == IF ccw = 0 THEN NoEntries ELSE tables[ccw]
  <2>1. entries \in [Interfaces -> 0..Len(wrappers)]
    BY NoLocalsType, HeapLengths DEF HeapType
  <2>2. /\ local' = [local EXCEPT ![t] = local'[t]]
        /\ local'[t] = [local[t] EXCEPT !.entries = entries]
        /\ pc' = [pc EXCEPT ![t] = "free"]
    BY <1>4 DEF ExchangeTable, HeapType, Goto
  <2> HIDE DEF entries
  <2>3. local'[t] \in Local
    BY <1>1, <2>1, <2>2 DEF Local
  <2>4. local' \in [Threads -> Local] /\ pc' \in [Threads -> Labels] /\ ccw' = 0
    BY <1>4, <2>2, <2>3 DEF ExchangeTable, HeapType, Labels
  <2>5. HeapType'
    <3>1. UNCHANGED <<environment, isDisposed, thisHandle, guidPtr, guids, heap, returned>>
      BY <1>4 DEF ExchangeTable
    <3>2. ccw' \in 0..Len(tables')
      BY <2>4, <3>1, HeapLengths DEF heap
    <3>3. QED
      BY <2>4, <3>1, <3>2 DEF HeapType, Local, heap, environment
  <2>6. local'[t].call = local[t].call /\ local[t].call \in {"release", "dispose", "finalize"}
    BY <1>1, <1>4, <2>2, CallAt DEF ExchangeTable, Local, At, Freeing
  <2>7. CallInvOf(t)'
    BY <2>2, <2>6, CallLabels DEF HeapType, CallInvOf, At, Finding, Freeing
  <2>8. QED
    BY <1>4, <2>2, <2>5, <2>7 DEF ExchangeTable, Moves, HeapType, environment
<1>5. CASE FreeEntry(t)
  <2>1. PICK i \in Interfaces :
          LET w == local[t].entries[i]
          IN /\ w # 0
             /\ local' = [local EXCEPT ![t].entries[i] = 0, ![t].freed = @ \cup {w}]
             /\ IF w \in local[t].freed THEN UNCHANGED <<wrappers, handles>>
                                          ELSE FreeWrapper(w)
    BY <1>5 DEF FreeEntry
  <2> DEFINE w == local[t].entries[i]
             entries == [local[t].entries EXCEPT ![i] = 0]
             freed == local[t].freed \cup {w}
  <2>2. /\ w \in 1..Len(wrappers)
        /\ entries \in [Interfaces -> 0..Len(wrappers)]
        /\ freed \in SUBSET (1..Len(wrappers))
    BY <1>1, <2>1, HeapLengths DEF Local
  <2>3. /\ local' = [local EXCEPT ![t] = local'[t]]
        /\ local'[t] = [local[t] EXCEPT !.entries = entries, !.freed = freed]
        /\ pc[t] = "free" /\ UNCHANGED <<pc, environment, object, tables, blocks, returned>>
    BY <1>1, <1>5, <2>1 DEF FreeEntry, HeapType, At, Local
  <2>4. /\ wrappers' \in Seq([handle : Slots \cup {0}, state : {"live", "freed", "corrupt"}])
        /\ Len(wrappers') = Len(wrappers)
        /\ handles' \in [Slots -> {"free", "callback", "shadow", "multi", "foreign"}]
    <3>1. CASE w \in local[t].freed
      BY <2>1, <3>1 DEF HeapType
    <3>2. CASE w \notin local[t].freed
      <4>1. FreeWrapper(w)
        BY <2>1, <3>2
      <4> DEFINE W == [handle : Slots \cup {0}, state : {"live", "freed", "corrupt"}]
                 freedW == [wrappers[w] EXCEPT !.state = IF @ = "live" THEN "freed" ELSE "corrupt"]
      <4>2. wrappers \in Seq(W)
        BY DEF HeapType
      <4>3. wrappers[w] \in W
        <5> HIDE DEF W
        <5>1. QED
          BY <2>2, <4>2
      <4>4. freedW \in W /\ wrappers' = [wrappers EXCEPT ![w] = freedW]
        BY <4>1, <4>3 DEF FreeWrapper, FreeMemory
      <4>5. wrappers' \in Seq(W) /\ Len(wrappers') = Len(wrappers)
        <5> HIDE DEF W, freedW, w
        <5>1. QED
          BY <2>2, <4>2, <4>4
      <4>6. handles' \in [Slots -> {"free", "callback", "shadow", "multi", "foreign"}]
        BY <4>1 DEF FreeWrapper, HeapType
      <4>7. QED
        BY <4>5, <4>6
    <3>3. QED
      BY <3>1, <3>2
  <2> HIDE DEF w, entries, freed
  <2>5. local'[t] \in Local
    BY <1>1, <2>2, <2>3 DEF Local
  <2>6. local' \in [Threads -> Local]
    BY <2>3, <2>5 DEF HeapType
  <2>7. HeapType'
    BY <2>3, <2>4, <2>6 DEF HeapType, Local, object, environment
  <2>8. local'[t].call = local[t].call
    BY <1>1, <2>3 DEF Local
  <2>9. CallInvOf(t)'
    BY <1>1, <2>3, <2>8 DEF CallInvOf, At, Finding
  <2>10. QED
    BY <2>3, <2>7, <2>9 DEF Moves, HeapType, environment
<1>6. CASE FreeGuids(t)
  <2>1. blocks' \in Seq(BOOLEAN) /\ Len(blocks') = Len(blocks)
    <3>1. CASE guidPtr = 0
      BY <1>6, <3>1 DEF FreeGuids, HeapType
    <3>2. CASE guidPtr # 0
      <4> DEFINE B == BOOLEAN
                 no == FALSE
      <4>1. blocks' = [blocks EXCEPT ![guidPtr] = no] /\ blocks \in Seq(B) /\ no \in B
        BY <1>6, <3>2 DEF FreeGuids, HeapType
      <4>2. guidPtr \in 1..Len(blocks)
        BY <3>2, HeapLengths DEF HeapType
      <4> HIDE DEF B, no
      <4>3. blocks' \in Seq(B) /\ Len(blocks') = Len(blocks)
        BY <4>1, <4>2
      <4>4. QED
        BY <4>3 DEF B
    <3>3. QED
      BY <3>1, <3>2
  <2>2. pc' \in [Threads -> Labels] /\ guidPtr' = 0 /\ local' = local
    BY <1>6 DEF FreeGuids, Goto, HeapType, Labels
  <2>3. HeapType'
    <3>1. UNCHANGED <<environment, isDisposed, ccw, thisHandle, guids,
                      tables, wrappers, handles, returned, local>>
      BY <1>6 DEF FreeGuids
    <3>2. guidPtr' \in 0..Len(blocks') /\ Local' = Local
      BY <2>1, <2>2, <3>1, HeapLengths DEF Local
    <3>3. QED
      BY <2>1, <2>2, <3>1, <3>2 DEF HeapType, environment
  <2>4. CallInvOf(t)'
    BY <1>1, <1>6, CallLabels, CallAt, ZenonT(40)
       DEF FreeGuids, Goto, HeapType, CallInvOf, At, Finding, Freeing
  <2>5. QED
    BY <1>6, <2>3, <2>4 DEF FreeGuids, Moves, HeapType, Goto, environment
<1>7. CASE FreeThisHandle(t)
  <2>1. HeapType'
    BY <1>7 DEF FreeThisHandle, HeapType, Goto, Labels, Local, environment
  <2>2. local' = local /\ local[t].call \in {"release", "dispose", "finalize"}
    BY <1>7, CallAt DEF FreeThisHandle, At, Freeing
  <2>3. CallInvOf(t)'
    BY <1>7, <2>2, CallLabels DEF FreeThisHandle, Goto, HeapType, CallInvOf, At, Finding, Freeing
  <2>4. QED
    BY <1>7, <2>1, <2>3 DEF FreeThisHandle, Moves, HeapType, Goto, environment
<1>8. QED
  BY <1>2, <1>3, <1>4, <1>5, <1>6, <1>7

LEMMA GuidsKeepCallInv ==
  ASSUME CallInv, NEW t \in Threads, BuildGuids(t) \/ PublishGuids(t)
  PROVE  Moves(t) /\ HeapType' /\ CallInvOf(t)'
<1> USE DEF CallInv
<1>1. HeapType /\ local[t] \in Local /\ CallInvOf(t)
  BY DEF HeapType
<1>2. CASE BuildGuids(t)
  <2>1. blocks' \in Seq(BOOLEAN) /\ Len(blocks') = Len(blocks) + 1 /\ Len(blocks) \in Nat
    <3> DEFINE B == BOOLEAN
               yes == TRUE
    <3>1. blocks' = Append(blocks, yes) /\ blocks \in Seq(B) /\ yes \in B
      BY <1>2 DEF BuildGuids, HeapType
    <3> HIDE DEF B, yes
    <3>2. blocks' \in Seq(B) /\ Len(blocks') = Len(blocks) + 1 /\ Len(blocks) \in Nat
      BY <3>1
    <3>3. QED
      BY <3>2 DEF B
  <2>2. /\ local' = [local EXCEPT ![t] = local'[t]]
        /\ local'[t] = [local[t] EXCEPT !.block = guidPtr'] /\ guidPtr' = Len(blocks')
        /\ pc' = [pc EXCEPT ![t] = "publishGuids"] /\ pc[t] = "guids"
    BY <1>2 DEF BuildGuids, HeapType, Goto, At
  <2>3. \A l \in Local : l \in Local'
    BY <1>2, <2>1, HeapLengths, LocalGrows DEF BuildGuids
  <2>4. local'[t] \in Local'
    <3>1. local[t] \in Local' /\ guidPtr' \in 0..Len(blocks')
      BY <1>1, <2>1, <2>2, <2>3
    <3>2. QED
      BY <2>2, <3>1 DEF Local
  <2>5. local' \in [Threads -> Local'] /\ pc' \in [Threads -> Labels]
    BY <2>2, <2>3, <2>4 DEF HeapType, Labels
  <2>6. HeapType'
    <3>1. guidPtr' \in 0..Len(blocks') /\ guids \in 0..Len(blocks')
      BY <2>1, <2>2 DEF HeapType
    <3>2. UNCHANGED <<environment, isDisposed, ccw, thisHandle, guids,
                      tables, wrappers, handles, returned>>
      BY <1>2 DEF BuildGuids
    <3>3. QED
      BY <2>1, <2>5, <3>1, <3>2 DEF HeapType, environment
  <2>7. local'[t].call = "guids"
    BY <1>1, <2>2, CallAt DEF Local
  <2>8. CallInvOf(t)'
    BY <2>2, <2>7, CallLabels DEF HeapType, CallInvOf, At, Finding
  <2>9. QED
    BY <1>2, <2>2, <2>6, <2>8 DEF BuildGuids, Moves, HeapType, environment
<1>3. CASE PublishGuids(t)
  <2>1. local[t].block \in 0..Len(blocks)
    BY <1>1 DEF Local
  <2>2. HeapType'
    BY <1>3, <2>1, NoLocalsType DEF PublishGuids, Return, HeapType, Goto, Labels, Local,
       heap, environment
  <2>3. CallInvOf(t)'
    BY <1>3, CallLabels DEF PublishGuids, Return, HeapType, Goto, CallInvOf, At, Finding, NoLocals
  <2>4. QED
    BY <1>3, <2>2, <2>3 DEF PublishGuids, Return, Moves, HeapType, Goto, environment
<1>4. QED
  BY <1>2, <1>3

LEMMA EnvironmentKeepsCallInv ==
  ASSUME CallInv,
         \/ ForeignAlloc \/ ForeignFree \/ Drop
         \/ \E t \in Threads, r \in References : Give(t, r)
  PROVE  HeapType' /\ UNCHANGED <<shape, pc, local>>
<1> USE DEF CallInv
<1>1. CASE ForeignAlloc
  BY <1>1, FreeSlotsAreSlots DEF ForeignAlloc, HeapType, Local, object, environment
<1>2. CASE ForeignFree
  BY <1>2 DEF ForeignFree, HeapType, Local, object, environment
<1>3. CASE Drop
  BY <1>3 DEF Drop, HeapType, Local, object, heap
<1>4. CASE \E t \in Threads, r \in References : Give(t, r)
  <2>1. PICK t \in Threads, r \in References : Give(t, r)
    BY <1>4
  <2>2. PICK other \in Threads : holder' = [holder EXCEPT ![r] = other]
    BY <2>1 DEF Give
  <2>3. holder' \in [References -> Threads \cup {NoThread}]
    BY <2>2 DEF HeapType
  <2>4. QED
    BY <2>1, <2>3 DEF Give, HeapType, Local, object, heap
<1>5. QED
  BY <1>1, <1>2, <1>3, <1>4

(* A step of the code is a step of one thread.                             *)
LEMMA NextMoves ==
  ASSUME CallInv, [Next]_vars
  PROVE  /\ HeapType'
         /\ UNCHANGED <<shape, pc, local>> \/ \E t \in Threads : Moves(t) /\ CallInvOf(t)'
<1> USE DEF CallInv
<1>1. CASE UNCHANGED vars
  BY <1>1 DEF vars, environment, object, heap, HeapType, Local
<1>2. ASSUME NEW t \in Threads,
             \/ Marshal(t) \/ QueryInterface(t) \/ Dispose(t) \/ Finalize(t) \/ GetIids(t)
      PROVE  HeapType' /\ Moves(t) /\ CallInvOf(t)'
  BY <1>2, EntriesKeepCallInv
<1>3. ASSUME NEW t \in Threads,
             \/ Find(t) \/ Publish(t) \/ PassTable(t) \/ CheckThisHandle(t) \/ AllocThisHandle(t)
             \/ CreateShadows(t) \/ WrapLeaf(t) \/ InitializationThrows(t) \/ Lookup(t)
      PROVE  HeapType' /\ Moves(t) /\ CallInvOf(t)'
  BY <1>3, FindKeepsCallInv
<1>4. ASSUME NEW t \in Threads,
             AddRef(t) \/ FindReturns(t) \/ ReleaseOwned(t) \/ \E r \in References : Release(t, r)
      PROVE  HeapType' /\ Moves(t) /\ CallInvOf(t)'
  BY <1>4, ReferencesKeepCallInv
<1>5. ASSUME NEW t \in Threads,
             \/ SetDisposed(t) \/ ReturnFrom(t) \/ ExchangeTable(t)
             \/ FreeEntry(t) \/ FreeGuids(t) \/ FreeThisHandle(t)
      PROVE  HeapType' /\ Moves(t) /\ CallInvOf(t)'
  BY <1>5, DisposalKeepsCallInv
<1>6. ASSUME NEW t \in Threads, BuildGuids(t) \/ PublishGuids(t)
      PROVE  HeapType' /\ Moves(t) /\ CallInvOf(t)'
  BY <1>6, GuidsKeepCallInv
<1>7. ASSUME ForeignAlloc \/ ForeignFree \/ Drop
             \/ \E t \in Threads, r \in References : Give(t, r)
      PROVE  HeapType' /\ UNCHANGED <<shape, pc, local>>
  BY <1>7, EnvironmentKeepsCallInv
<1>8. QED
  BY <1>1, <1>2, <1>3, <1>4, <1>5, <1>6, <1>7 DEF Next

LEMMA InitCallInv ==
  ASSUME Init
  PROVE  CallInv
<1>1. HeapType
  <2>1. tables = <<>> /\ wrappers = <<>> /\ blocks = <<>>
    BY DEF Init
  <2>2. Len(tables) = 0 /\ Len(wrappers) = 0 /\ Len(blocks) = 0
    BY <2>1
  <2>3. NoLocals \in Local
    BY <2>2 DEF NoLocals, NoEntries, Local, Calls
  <2>4. local \in [Threads -> Local] /\ pc \in [Threads -> Labels]
    BY <2>3 DEF Init, Labels
  <2>5. ccw \in 0..Len(tables) /\ guidPtr \in 0..Len(blocks) /\ guids \in 0..Len(blocks)
    BY <2>2 DEF Init
  <2>6. /\ tables \in Seq([Interfaces -> 0..Len(wrappers)]) /\ blocks \in Seq(BOOLEAN)
        /\ wrappers \in Seq([handle : Slots \cup {0}, state : {"live", "freed", "corrupt"}])
    BY <2>1
  <2>7. QED
    BY <2>4, <2>5, <2>6 DEF Init, HeapType
<1>2. ASSUME NEW t \in Threads
      PROVE  CallInvOf(t)
  BY <1>2, CallLabels DEF Init, CallInvOf, At, Finding, NoLocals
<1>3. QED
  BY <1>1, <1>2 DEF CallInv

LEMMA NextCallInv ==
  ASSUME CallInv, [Next]_vars
  PROVE  CallInv'
<1>1. HeapType'
  BY NextMoves
<1>2. CASE UNCHANGED <<shape, pc, local>>
  <2>1. ASSUME NEW t \in Threads
        PROVE  CallInvOf(t)'
    BY <1>2, SameClass DEF CallInv, CallInvOf, At, NoLocals, NoEntries
  <2>2. QED
    BY <1>1, <2>1 DEF CallInv
<1>3. CASE \E t \in Threads : Moves(t) /\ CallInvOf(t)'
  BY <1>1, <1>3, OthersKeepCallInv DEF CallInv
<1>4. QED
  BY <1>2, <1>3, NextMoves

LEMMA CallInvariant == Spec => []CallInv
BY InitCallInv, NextCallInv, PTL DEF Spec

-----------------------------------------------------------------------------
(* The references.                                                         *)

(* Steps that neither begin nor end a call, nor touch a reference.         *)
Quiet(t) ==
  \/ Find(t) \/ Publish(t) \/ PassTable(t) \/ CheckThisHandle(t) \/ AllocThisHandle(t)
  \/ CreateShadows(t) \/ WrapLeaf(t) \/ Lookup(t) \/ BuildGuids(t)
  \/ ExchangeTable(t) \/ FreeEntry(t) \/ FreeGuids(t) \/ FreeThisHandle(t)

LEMMA QuietSteps ==
  ASSUME CallInv, NEW t \in Threads, Quiet(t)
  PROVE  /\ Moves(t)
         /\ UNCHANGED <<app, owned, holder, refCount, isDisposed>>
         /\ local'[t].call = local[t].call /\ pc'[t] # "exchange"
         /\ \/ pc[t] \in Finding /\ pc'[t] \in Finding
            \/ pc[t] = "guids" /\ pc'[t] = "publishGuids"
            \/ pc[t] \in Freeing /\ pc'[t] \in Freeing
            \/ /\ pc[t] = "freeThis"
               /\ pc'[t] = IF local[t].call = "release" THEN "return" ELSE "setDisposed"
<1> USE DEF CallInv
<1>1. Moves(t)
  BY FindKeepsCallInv, GuidsKeepCallInv, DisposalKeepsCallInv DEF Quiet
<1>2. local \in [Threads -> Local] /\ pc \in [Threads -> Labels]
  BY DEF HeapType
<1>3. CASE Find(t) \/ Publish(t) \/ PassTable(t) \/ CheckThisHandle(t) \/ AllocThisHandle(t)
           \/ CreateShadows(t) \/ WrapLeaf(t) \/ Lookup(t)
  BY <1>1, <1>2, <1>3 DEF Find, Publish, PassTable, CheckThisHandle, AllocThisHandle,
     CreateShadows, WrapLeaf, Lookup, Goto, At, Finding, Local, environment, object
<1>4. CASE BuildGuids(t)
  BY <1>1, <1>2, <1>4 DEF BuildGuids, Goto, At, Local, environment
<1>5. CASE ExchangeTable(t) \/ FreeGuids(t) \/ FreeThisHandle(t)
  BY <1>1, <1>2, <1>5 DEF ExchangeTable, FreeGuids, FreeThisHandle, Goto, At, Freeing, Local,
     environment, object
<1>6. CASE FreeEntry(t)
  BY <1>1, <1>2, <1>6 DEF FreeEntry, At, Freeing, Local, environment, object
<1>7. QED
  BY <1>3, <1>4, <1>5, <1>6 DEF Quiet

(* Steps that end a call.                                                  *)
Returns(t) ==
  \/ InitializationThrows(t) \/ AddRef(t) \/ FindReturns(t)
  \/ SetDisposed(t) \/ ReturnFrom(t) \/ PublishGuids(t)

LEMMA ReturnSteps ==
  ASSUME CallInv, NEW t \in Threads, Returns(t)
  PROVE  /\ Moves(t) /\ UNCHANGED <<app, owned>>
         /\ pc'[t] = "idle" /\ local'[t] = NoLocals /\ local'[t].call = "none"
         /\ ~AddRef(t) => UNCHANGED <<holder, refCount>>
         /\ ~SetDisposed(t) => UNCHANGED isDisposed
         /\ SetDisposed(t) => At(t, "setDisposed") /\ isDisposed' = TRUE
<1> USE DEF CallInv
<1>1. Moves(t)
  BY FindKeepsCallInv, GuidsKeepCallInv, DisposalKeepsCallInv, ReferencesKeepCallInv DEF Returns
<1>2. local \in [Threads -> Local] /\ pc \in [Threads -> Labels]
  BY DEF HeapType
<1>3. Return(t) /\ UNCHANGED <<app, owned>>
  BY DEF Returns, InitializationThrows, AddRef, FindReturns, SetDisposed, ReturnFrom,
     PublishGuids, environment
<1>4. pc'[t] = "idle" /\ local'[t] = NoLocals
  BY <1>2, <1>3 DEF Return, Goto
<1>5. NoLocals.call = "none"
  BY DEF NoLocals
<1>6. ~AddRef(t) => UNCHANGED <<holder, refCount>>
  BY DEF Returns, InitializationThrows, FindReturns, SetDisposed, ReturnFrom, PublishGuids,
     environment, object
<1>7. ~SetDisposed(t) => UNCHANGED isDisposed
  BY DEF Returns, InitializationThrows, AddRef, FindReturns, ReturnFrom, PublishGuids, object
<1>8. QED
  BY <1>1, <1>3, <1>4, <1>5, <1>6, <1>7 DEF SetDisposed

Entries(t) == Marshal(t) \/ QueryInterface(t) \/ Dispose(t) \/ Finalize(t) \/ GetIids(t)

LEMMA EntrySteps ==
  ASSUME CallInv, NEW t \in Threads, Entries(t)
  PROVE  /\ Moves(t) /\ UNCHANGED <<owned, holder, object>>
         /\ At(t, "idle") /\ local[t].call = "none"
         /\ Marshal(t) => /\ local'[t].call = "marshal" /\ pc'[t] = "find"
                          /\ app = "using" /\ UNCHANGED app
         /\ QueryInterface(t) => /\ local'[t].call = "query" /\ pc'[t] = "find"
                                 /\ HeldBy(t) # {} /\ UNCHANGED app
         /\ Dispose(t) => /\ local'[t].call = "dispose"
                          /\ pc'[t] = IF isDisposed THEN "return" ELSE "releaseOwned"
                          /\ app \in {"using", "disposed"} /\ app' = "disposed"
         /\ Finalize(t) => /\ local'[t].call = "finalize" /\ pc'[t] = "exchange"
                           /\ app = "dropped" /\ ~isDisposed /\ UNCHANGED app
         /\ GetIids(t) => /\ local'[t].call = "guids" /\ pc'[t] \in {"return", "guids"}
                          /\ HeldBy(t) # {} /\ UNCHANGED app
<1> USE DEF CallInv
<1>1. Moves(t)
  BY EntriesKeepCallInv DEF Entries
<1>2. local \in [Threads -> Local] /\ pc \in [Threads -> Labels]
  BY DEF HeapType
<1>3. ASSUME NEW call, NEW label, NEW want, Enter(t, call, label, want)
      PROVE  /\ UNCHANGED <<owned, holder, object>> /\ At(t, "idle")
             /\ local'[t].call = call /\ pc'[t] = label
  BY <1>2, <1>3 DEF Enter, Goto, NoLocals
<1>4. UNCHANGED <<owned, holder, object>> /\ At(t, "idle")
  BY <1>3 DEF Entries, Marshal, QueryInterface, Dispose, Finalize, GetIids
<1>5. local[t].call = "none"
  BY <1>4, CallAt
<1>6. Marshal(t) => /\ local'[t].call = "marshal" /\ pc'[t] = "find"
                    /\ app = "using" /\ UNCHANGED app
  BY <1>3 DEF Marshal
<1>7. QueryInterface(t) => /\ local'[t].call = "query" /\ pc'[t] = "find"
                           /\ HeldBy(t) # {} /\ UNCHANGED app
  BY <1>3 DEF QueryInterface
<1>8. Dispose(t) => /\ local'[t].call = "dispose"
                    /\ pc'[t] = IF isDisposed THEN "return" ELSE "releaseOwned"
                    /\ app \in {"using", "disposed"} /\ app' = "disposed"
  BY <1>3 DEF Dispose
<1>9. Finalize(t) => /\ local'[t].call = "finalize" /\ pc'[t] = "exchange"
                     /\ app = "dropped" /\ ~isDisposed /\ UNCHANGED app
  BY <1>3 DEF Finalize
<1>10. GetIids(t) => /\ local'[t].call = "guids" /\ pc'[t] \in {"return", "guids"}
                     /\ HeldBy(t) # {} /\ UNCHANGED app
  BY <1>3 DEF GetIids
<1>11. QED
  BY <1>1, <1>4, <1>5, <1>6, <1>7, <1>8, <1>9, <1>10

LEMMA QuietKeepsUse ==
  ASSUME CallInv, CallInv', UseInv, NEW t \in Threads, Quiet(t)
  PROVE  UseInv'
<1>1. /\ Moves(t) /\ UNCHANGED <<app, owned, holder, refCount, isDisposed>>
      /\ local'[t].call = local[t].call
  BY QuietSteps
<1>2. \A u \in Threads : local'[u].call = local[u].call
  BY <1>1 DEF Moves
<1>3. Busy("marshal")' = Busy("marshal") /\ Busy("dispose")' = Busy("dispose")
      /\ Busy("finalize")' = Busy("finalize")
  BY <1>2 DEF Busy
<1>4. \A u \in Threads : HeldBy(u)' = HeldBy(u)
  BY <1>1 DEF HeldBy
<1>5. \A u \in Threads : At(u, "releaseOwned")' => At(u, "releaseOwned")
  BY <1>1, QuietSteps DEF Moves, At, Finding, Freeing
<1>6. \A u \in Busy("dispose") :
        /\ pc'[u] \in Freeing \cup {"setDisposed"} => pc[u] \in Freeing \cup {"setDisposed"}
        /\ At(u, "return")' <=> At(u, "return")
  <2> SUFFICES ASSUME NEW u \in Busy("dispose")
               PROVE  /\ pc'[u] \in Freeing \cup {"setDisposed"}
                           => pc[u] \in Freeing \cup {"setDisposed"}
                      /\ At(u, "return")' <=> At(u, "return")
    OBVIOUS
  <2>1. CASE u # t
    BY <1>1, <2>1 DEF Busy, Moves, At
  <2>2. CASE u = t
    BY <2>2, QuietSteps, CallAt DEF Busy, At, Finding, Freeing
  <2>3. QED
    BY <2>1, <2>2
<1>7. QED
  BY <1>1, <1>2, <1>3, <1>4, <1>5, <1>6 DEF UseInv

LEMMA ReturnKeepsUse ==
  ASSUME CallInv, CallInv', UseInv, NEW t \in Threads, Returns(t)
  PROVE  UseInv'
<1>1. /\ Moves(t) /\ UNCHANGED <<app, owned>> /\ pc'[t] = "idle" /\ local'[t].call = "none"
      /\ ~SetDisposed(t) => UNCHANGED isDisposed
      /\ SetDisposed(t) => At(t, "setDisposed") /\ isDisposed' = TRUE
  BY ReturnSteps
<1>2. \A call \in Calls \ {"none"} : Busy(call)' = Busy(call) \ {t}
  BY <1>1 DEF Busy, Moves
<1>3. \A u \in Threads : HeldBy(u) # {} => HeldBy(u)' # {}
  <2>1. CASE AddRef(t)
    <3>1. PICK r \in References \ Held : holder' = [holder EXCEPT ![r] = t]
      BY <2>1 DEF AddRef
    <3>2. ASSUME NEW u \in Threads, NEW q \in HeldBy(u)
          PROVE  q \in HeldBy(u)'
      BY <3>1, ThreadAssumption DEF HeldBy, Held, CallInv, HeapType
    <3>3. QED
      BY <3>2
  <2>2. CASE ~AddRef(t)
    BY <2>2, ReturnSteps DEF HeldBy
  <2>3. QED
    BY <2>1, <2>2
<1>4. t \in Busy("dispose") /\ ~SetDisposed(t) => At(t, "return")
  BY CallAt DEF Busy, Returns, InitializationThrows, AddRef, FindReturns, ReturnFrom,
     PublishGuids, At, Finding
<1>5. SetDisposed(t) => local[t].call \in {"dispose", "finalize"}
  BY <1>1, CallAt
<1>6. \A u \in Threads : u # t => pc'[u] = pc[u] /\ local'[u] = local[u]
  BY <1>1 DEF Moves
<1>7. /\ Busy("marshal")' = Busy("marshal") \ {t} /\ Busy("dispose")' = Busy("dispose") \ {t}
      /\ Busy("finalize")' = Busy("finalize") \ {t}
  BY <1>2 DEF Calls
<1>8. CASE SetDisposed(t)
  <2>1. t \in Busy("dispose") \cup Busy("finalize")
    BY <1>5, <1>8 DEF Busy
  <2>2. Busy("dispose")' = {} /\ Busy("finalize")' = {}
    BY <1>7, <2>1 DEF UseInv
  <2>3. app # "using"
    BY <2>1 DEF UseInv
  <2>4. app = "disposed" => ~owned
    <3>1. app = "disposed" => t \in Busy("dispose")
      BY <2>1 DEF UseInv
    <3>2. QED
      BY <1>1, <1>8, <3>1 DEF UseInv, At
  <2>5. QED
    BY <1>1, <1>3, <1>6, <1>7, <1>8, <2>2, <2>3, <2>4 DEF UseInv, At, Busy
<1>9. CASE ~SetDisposed(t)
  <2>1. app = "disposed" /\ (isDisposed \/ Busy("dispose")' = {}) => isDisposed /\ ~owned
    BY <1>4, <1>7, <1>9 DEF UseInv
  <2>2. QED
    BY <1>1, <1>3, <1>6, <1>7, <1>9, <2>1 DEF UseInv, At, Busy
<1>10. QED
  BY <1>8, <1>9

LEMMA EntryKeepsUse ==
  ASSUME CallInv, CallInv', UseInv, NEW t \in Threads, Entries(t)
  PROVE  UseInv'
<1>1. /\ Moves(t) /\ UNCHANGED <<owned, holder, isDisposed>>
      /\ At(t, "idle") /\ local[t].call = "none"
  BY EntrySteps DEF object
<1>2. \A u \in Threads : u # t => pc'[u] = pc[u] /\ local'[u] = local[u]
  BY <1>1 DEF Moves
<1>3. \A u \in Threads : HeldBy(u)' = HeldBy(u)
  BY <1>1 DEF HeldBy
<1>4. \A u \in Threads : \A call \in Calls \ {"none"} : u \in Busy(call) => InCall(u, call)
  BY CallAt DEF Busy, InCall, At
<1>5. CASE Marshal(t) \/ QueryInterface(t) \/ GetIids(t)
  <2>1. /\ local'[t].call \in {"marshal", "query", "guids"} /\ UNCHANGED app
        /\ local'[t].call = "marshal" => app = "using"
        /\ local'[t].call \in {"query", "guids"} => HeldBy(t) # {}
        /\ pc'[t] # "releaseOwned"
    BY <1>5, EntrySteps DEF Entries
  <2>2. Busy("dispose")' = Busy("dispose") /\ Busy("finalize")' = Busy("finalize")
    BY <1>1, <1>2, <2>1 DEF Busy
  <2>3. Busy("marshal")' # {} => app = "using"
    BY <1>2, <2>1 DEF Busy, UseInv
  <2>4. \A u \in Busy("dispose") : u # t
    BY <1>1 DEF Busy
  <2>5. QED
    BY <1>1, <1>2, <1>3, <2>1, <2>2, <2>3, <2>4 DEF UseInv, At, Busy
<1>6. CASE Finalize(t)
  <2>1. /\ local'[t].call = "finalize" /\ pc'[t] = "exchange" /\ UNCHANGED app
        /\ app = "dropped" /\ ~isDisposed
    BY <1>6, EntrySteps DEF Entries
  <2>2. Busy("dispose") = {} /\ Busy("marshal") = {}
    BY <2>1 DEF UseInv
  <2>3. Busy("finalize") = {}
    BY <1>4, <1>6 DEF Finalize, Calls, Busy
  <2>4. Busy("dispose")' = {} /\ Busy("marshal")' = {} /\ Busy("finalize")' = {t}
    BY <1>1, <1>2, <2>1, <2>2, <2>3 DEF Busy
  <2>5. QED
    BY <1>1, <1>2, <1>3, <2>1, <2>4 DEF UseInv, At, Busy
<1>7. CASE Dispose(t)
  <2>1. /\ local'[t].call = "dispose" /\ app' = "disposed" /\ app \in {"using", "disposed"}
        /\ pc'[t] = IF isDisposed THEN "return" ELSE "releaseOwned"
    BY <1>7, EntrySteps DEF Entries
  <2>2. Busy("dispose") = {} /\ Busy("marshal") = {}
    BY <1>4, <1>7 DEF Dispose, Calls, Busy
  <2>3. Busy("finalize") = {}
    BY <2>1 DEF UseInv
  <2>4. Busy("dispose")' = {t} /\ Busy("marshal")' = {} /\ Busy("finalize")' = {}
    BY <1>1, <1>2, <2>1, <2>2, <2>3 DEF Busy
  <2>5. ~isDisposed => owned
    BY <2>1, <2>2 DEF UseInv
  <2>6. isDisposed => ~owned
    BY <2>1 DEF UseInv
  <2>7. pc'[t] \notin Freeing \cup {"setDisposed"}
    BY <2>1 DEF Freeing
  <2>8. QED
    BY <1>1, <1>2, <1>3, <2>1, <2>4, <2>5, <2>6, <2>7 DEF UseInv, At, Busy
<1>8. QED
  BY <1>5, <1>6, <1>7 DEF Entries

LEMMA ReleaseKeepsUse ==
  ASSUME CallInv, CallInv', UseInv, NEW t \in Threads, NEW r \in References, Release(t, r)
  PROVE  /\ UseInv'
         /\ Moves(t) /\ UNCHANGED <<app, owned, isDisposed>> /\ pc[t] = "idle"
         /\ pc'[t] = IF refCount = 1 THEN "exchange" ELSE "idle"
         /\ local'[t].call = IF refCount = 1 THEN "release" ELSE "none"
<1>1. Moves(t)
  BY ReferencesKeepCallInv
<1>2. /\ pc[t] = "idle" /\ UNCHANGED <<app, owned, isDisposed>>
      /\ holder' = [holder EXCEPT ![r] = NoThread] /\ holder[r] = t
      /\ pc' = [pc EXCEPT ![t] = IF refCount = 1 THEN "exchange" ELSE "idle"]
      /\ local' = [local EXCEPT ![t].call = IF refCount = 1 THEN "release" ELSE "none"]
  BY DEF Release, Decrement, Goto, At
<1>3. /\ pc'[t] = IF refCount = 1 THEN "exchange" ELSE "idle"
      /\ local'[t].call = IF refCount = 1 THEN "release" ELSE "none"
      /\ local[t].call = "none"
  <2>1. local[t].call = "none"
    BY <1>2, CallAt DEF At
  <2>2. local \in [Threads -> Local] /\ pc \in [Threads -> Labels]
    BY DEF CallInv, HeapType
  <2>3. QED
    BY <1>2, <2>1, <2>2 DEF Local
<1>4. \A u \in Threads : u # t => pc'[u] = pc[u] /\ local'[u] = local[u]
  BY <1>1 DEF Moves
<1>5. \A u \in Threads : u # t => HeldBy(u)' = HeldBy(u)
  BY <1>2, ThreadAssumption DEF HeldBy, CallInv, HeapType
<1>6. Busy("marshal")' = Busy("marshal") /\ Busy("dispose")' = Busy("dispose")
      /\ Busy("finalize")' = Busy("finalize") /\ t \notin Busy("dispose")
  BY <1>3, <1>4 DEF Busy
<1>7. UseInv'
  BY <1>2, <1>3, <1>4, <1>5, <1>6 DEF UseInv, At, Busy
<1>8. QED
  BY <1>1, <1>2, <1>3, <1>7

LEMMA ReleaseOwnedKeepsUse ==
  ASSUME CallInv, CallInv', UseInv, NEW t \in Threads, ReleaseOwned(t)
  PROVE  /\ UseInv'
         /\ Moves(t) /\ UNCHANGED <<app, holder, isDisposed, local>> /\ owned /\ ~owned'
         /\ pc'[t] = IF refCount = 1 THEN "exchange" ELSE "setDisposed"
         /\ t \in Busy("dispose") /\ pc[t] = "releaseOwned"
<1>1. Moves(t)
  BY ReferencesKeepCallInv
<1>2. /\ pc[t] = "releaseOwned" /\ UNCHANGED <<app, holder, isDisposed, local>> /\ ~owned'
      /\ pc' = [pc EXCEPT ![t] = IF refCount = 1 THEN "exchange" ELSE "setDisposed"]
  BY DEF ReleaseOwned, Decrement, Goto, At
<1>3. pc'[t] = IF refCount = 1 THEN "exchange" ELSE "setDisposed"
  BY <1>2 DEF CallInv, HeapType
<1>4. local[t].call = "dispose"
  BY <1>2, CallAt DEF At
<1>5. owned /\ t \in Busy("dispose") /\ app = "disposed"
  BY <1>2, <1>4 DEF UseInv, At, Busy
<1>6. Busy("marshal")' = Busy("marshal") /\ Busy("dispose")' = Busy("dispose")
      /\ Busy("finalize")' = Busy("finalize") /\ \A u \in Threads : HeldBy(u)' = HeldBy(u)
  BY <1>2 DEF Busy, HeldBy
<1>7. Busy("dispose") = {t} /\ Busy("finalize") = {}
  BY <1>5 DEF UseInv
<1>8. \A u \in Threads : u # t => pc'[u] = pc[u]
  BY <1>1 DEF Moves
<1>9. ~isDisposed
  BY <1>2, <1>5 DEF UseInv, At
<1>10. UseInv'
  <2>1. \A u \in Threads : At(u, "releaseOwned")' => FALSE
    <3> SUFFICES ASSUME NEW u \in Threads, pc'[u] = "releaseOwned"
                 PROVE  FALSE
      BY DEF At
    <3>1. u # t
      BY <1>3
    <3>2. local[u].call = "dispose"
      BY <1>8, <3>1, CallAt DEF At
    <3>3. QED
      BY <1>7, <3>1, <3>2 DEF Busy
  <2>2. QED
    BY <1>2, <1>3, <1>5, <1>6, <1>7, <1>8, <1>9, <2>1 DEF UseInv, At
<1>11. QED
  BY <1>1, <1>2, <1>3, <1>5, <1>10

Elsewhere == ForeignAlloc \/ ForeignFree \/ Drop \/ \E t \in Threads, r \in References : Give(t, r)

LEMMA ElsewhereKeepsUse ==
  ASSUME CallInv, CallInv', UseInv, Elsewhere
  PROVE  UseInv' /\ Held' = Held /\ UNCHANGED <<shape, owned, object, pc, local>>
<1>1. UNCHANGED <<shape, owned, object, pc, local>>
  BY DEF Elsewhere, ForeignAlloc, ForeignFree, Drop, Give, environment
<1>2. \A call : Busy(call)' = Busy(call)
  BY <1>1 DEF Busy
<1>3. CASE ForeignAlloc \/ ForeignFree
  <2>1. UNCHANGED <<app, holder>>
    BY <1>3 DEF ForeignAlloc, ForeignFree, environment
  <2>2. Held' = Held /\ \A u \in Threads : HeldBy(u)' = HeldBy(u)
    BY <2>1 DEF Held, HeldBy
  <2>3. UNCHANGED isDisposed
    BY <1>1 DEF object
  <2>4. QED
    BY <1>1, <1>2, <2>1, <2>2, <2>3 DEF UseInv, At
<1>4. CASE Drop
  <2>1. app = "using" /\ app' = "dropped" /\ UNCHANGED <<holder, isDisposed>>
        /\ \A u \in Threads : At(u, "idle")
    BY <1>4 DEF Drop, object
  <2>2. Held' = Held /\ \A u \in Threads : HeldBy(u)' = HeldBy(u)
    BY <2>1 DEF Held, HeldBy
  <2>3. \A u \in Threads : local[u].call = "none" /\ pc[u] = "idle"
    BY <2>1, CallAt DEF At
  <2>4. Busy("marshal") = {} /\ Busy("dispose") = {} /\ Busy("finalize") = {}
    BY <2>3 DEF Busy
  <2>5. QED
    BY <1>1, <1>2, <2>1, <2>2, <2>3, <2>4 DEF UseInv, At
<1>5. CASE \E t \in Threads, r \in References : Give(t, r)
  <2>1. PICK t \in Threads, r \in References : Give(t, r)
    BY <1>5
  <2>2. PICK other \in Threads : holder' = [holder EXCEPT ![r] = other]
    BY <2>1 DEF Give
  <2>3. pc[t] = "idle" /\ holder[r] = t /\ UNCHANGED <<app, isDisposed>>
    BY <2>1 DEF Give, At, object
  <2>4. local[t].call = "none"
    BY <2>3, CallAt DEF At
  <2>5. ASSUME NEW u \in Threads, u # t, HeldBy(u) # {}
        PROVE  HeldBy(u)' # {}
    <3>1. PICK q \in HeldBy(u) : TRUE
      BY <2>5
    <3>2. q # r /\ holder'[q] = u
      BY <2>2, <2>3, <2>5, <3>1 DEF HeldBy, CallInv, HeapType
    <3>3. QED
      BY <3>1, <3>2 DEF HeldBy
  <2>6. Held' = Held
    BY <2>2, <2>3, ThreadAssumption DEF Held, CallInv, HeapType
  <2>7. QED
    BY <1>1, <1>2, <2>3, <2>4, <2>5, <2>6 DEF UseInv, At
<1>6. QED
  BY <1>3, <1>4, <1>5 DEF Elsewhere

LEMMA Counting ==
  ASSUME CallInv, RefCountExact
  PROVE  /\ IsFiniteSet(Held) /\ Held \subseteq References /\ refCount \in Nat
         /\ owned => refCount >= 1
         /\ Held # {} => refCount >= 1
         /\ owned /\ Held # {} => refCount >= 2
         /\ refCount = 0 <=> ~owned /\ Held = {}
<1>1. IsFiniteSet(Held) /\ Held \subseteq References
  BY ReferenceAssumption, FS_Subset DEF Held
<1>2. Cardinality(Held) \in Nat /\ (Cardinality(Held) = 0 <=> Held = {})
  BY <1>1, FS_CardinalityType, FS_EmptySet
<1>3. QED
  BY <1>1, <1>2 DEF RefCountExact

LEMMA HeldByAreHeld ==
  ASSUME CallInv, NEW t \in Threads
  PROVE  HeldBy(t) \subseteq Held
BY ThreadAssumption DEF HeldBy, Held

(* A call that uses the object has a reference to use it through.          *)
LEMMA CallersCount ==
  ASSUME CallInv, UseInv, RefCountExact, NEW t \in Threads,
         local[t].call \in {"marshal", "query", "guids"}
  PROVE  /\ refCount >= 1 /\ refCount \in Nat
         /\ Held # {} \/ app = "using"
<1>1. CASE local[t].call = "marshal"
  BY <1>1, Counting DEF UseInv, Busy
<1>2. CASE local[t].call # "marshal"
  BY <1>2, Counting, HeldByAreHeld DEF UseInv
<1>3. QED
  BY <1>1, <1>2

(* While there are references only the finalizer frees anything.           *)
LEMMA CountedIsKept ==
  ASSUME CallInv, UseInv, CountInv, refCount # 0
  PROVE  /\ Busy("release") = {}
         /\ \A u \in Threads : Disposing(u) => u \in Busy("finalize")
<1>1. Busy("release") = {}
  BY DEF CountInv
<1>2. ASSUME NEW u \in Threads, Disposing(u)
      PROVE  u \in Busy("finalize")
  <2>1. local[u].call \in {"release", "dispose", "finalize"}
    BY <1>2, CallAt DEF Disposing, Freeing
  <2>2. QED
    BY <1>1, <1>2, <2>1 DEF CountInv, Busy
<1>3. QED
  BY <1>1, <1>2

LEMMA QuietKeepsCount ==
  ASSUME CallInv, UseInv, CountInv, NEW t \in Threads, Quiet(t)
  PROVE  CountInv'
<1>1. /\ Moves(t) /\ UNCHANGED <<app, owned, holder, refCount, isDisposed>>
      /\ local'[t].call = local[t].call /\ (pc'[t] \in Freeing => pc[t] \in Freeing)
  BY QuietSteps DEF Finding, Freeing
<1>2. \A u \in Threads : local'[u].call = local[u].call /\ (Disposing(u)' => Disposing(u))
  BY <1>1 DEF Moves, Disposing, Freeing
<1>3. Held' = Held /\ Busy("release")' = Busy("release") /\ Busy("dispose")' = Busy("dispose")
  BY <1>1, <1>2 DEF Held, Busy
<1>4. Busy("dispose") \subseteq Threads
  BY DEF Busy
<1>5. QED
  BY <1>1, <1>2, <1>3, <1>4 DEF CountInv, RefCountExact

LEMMA ReturnKeepsCount ==
  ASSUME CallInv, UseInv, CountInv, NEW t \in Threads, Returns(t)
  PROVE  CountInv'
<1>1. /\ Moves(t) /\ UNCHANGED <<app, owned>> /\ pc'[t] = "idle" /\ local'[t].call = "none"
      /\ ~AddRef(t) => UNCHANGED <<holder, refCount>>
  BY ReturnSteps
<1>2. Busy("release")' \subseteq Busy("release") /\ Busy("dispose")' \subseteq Busy("dispose")
  BY <1>1 DEF Busy, Moves
<1>3. \A u \in Threads : Disposing(u)' => Disposing(u)
  BY <1>1 DEF Moves, Disposing
<1>4. Busy("dispose") \subseteq Threads /\ Busy("release") \subseteq Threads
  BY DEF Busy
<1>5. CASE ~AddRef(t)
  <2>1. Held' = Held
    BY <1>1, <1>5 DEF Held
  <2>2. QED
    BY <1>1, <1>2, <1>3, <1>4, <1>5, <2>1 DEF CountInv, RefCountExact
<1>6. CASE AddRef(t)
  <2>1. PICK r \in References \ Held : holder' = [holder EXCEPT ![r] = t]
    BY <1>6 DEF AddRef
  <2>2. Held' = Held \cup {r}
    BY <2>1, ThreadAssumption DEF Held, CallInv, HeapType
  <2>3. Cardinality(Held') = Cardinality(Held) + 1 /\ Cardinality(Held) \in Nat
    BY <2>1, <2>2, Counting, FS_AddElement, FS_CardinalityType DEF CountInv
  <2>4. RefCountExact'
    BY <1>1, <1>6, <2>3 DEF AddRef, CountInv, RefCountExact
  <2>5. refCount # 0
    <3>1. local[t].call \in {"marshal", "query"}
      BY <1>6, CallAt DEF AddRef, At, Finding
    <3>2. QED
      BY <3>1, CallersCount DEF CountInv
  <2>6. Busy("release")' = {} /\ \A u \in Threads : Disposing(u) => u \in Busy("finalize")
    BY <1>2, <2>5, CountedIsKept
  <2>7. \A u \in Busy("dispose") : ~Disposing(u)
    BY <1>4, <2>6 DEF Busy
  <2>8. QED
    BY <1>2, <1>3, <1>4, <2>4, <2>6, <2>7 DEF CountInv
<1>7. QED
  BY <1>5, <1>6

LEMMA EntryKeepsCount ==
  ASSUME CallInv, UseInv, CountInv, NEW t \in Threads, Entries(t)
  PROVE  CountInv'
<1>1. /\ Moves(t) /\ UNCHANGED <<owned, holder, refCount>>
      /\ local[t].call = "none" /\ local'[t].call # "release"
      /\ Finalize(t) => app = "dropped" /\ local'[t].call = "finalize"
      /\ ~Finalize(t) => pc'[t] \notin Freeing
  BY EntrySteps DEF Entries, Freeing, object
<1>2. Held' = Held
  BY <1>1 DEF Held
<1>3. \A u \in Threads : u # t => pc'[u] = pc[u] /\ local'[u] = local[u]
  BY <1>1 DEF Moves
<1>4. /\ Busy("release")' = Busy("release")
      /\ \A u \in Busy("dispose")' : u # t => u \in Busy("dispose")
  BY <1>1, <1>3 DEF Busy
<1>5. CASE ~Finalize(t)
  <2>1. \A u \in Threads : Disposing(u)' => u # t /\ Disposing(u)
    BY <1>1, <1>3, <1>5 DEF Disposing, Freeing
  <2>2. QED
    BY <1>1, <1>2, <1>4, <2>1 DEF CountInv, RefCountExact, Busy
<1>6. CASE Finalize(t)
  <2>1. app = "dropped" /\ owned /\ Busy("finalize") = {}
    <3>1. \A u \in Threads : u \in Busy("finalize") => InCall(u, "finalize")
      BY CallAt DEF Busy, InCall, At
    <3>2. Busy("finalize") = {}
      BY <1>6, <3>1 DEF Finalize, Busy
    <3>3. QED
      BY <1>1, <1>6, <3>2 DEF UseInv
  <2>2. refCount # 0
    BY <2>1, Counting DEF CountInv
  <2>3. Busy("release") = {} /\ \A u \in Threads : ~Disposing(u)
    BY <2>1, <2>2, CountedIsKept
  <2>4. \A u \in Threads : Disposing(u)' => u = t
    BY <1>3, <2>3 DEF Disposing
  <2>5. t \notin Busy("dispose")'
    BY <1>1, <1>6 DEF Busy
  <2>6. QED
    BY <1>1, <1>2, <1>4, <2>3, <2>4, <2>5 DEF CountInv, RefCountExact, Busy
<1>7. QED
  BY <1>5, <1>6

LEMMA ReleaseKeepsCount ==
  ASSUME CallInv, CallInv', UseInv, CountInv, NEW t \in Threads, NEW r \in References, Release(t, r)
  PROVE  CountInv'
<1>1. /\ Moves(t) /\ UNCHANGED <<app, owned, isDisposed>> /\ pc[t] = "idle"
      /\ pc'[t] = IF refCount = 1 THEN "exchange" ELSE "idle"
      /\ local'[t].call = IF refCount = 1 THEN "release" ELSE "none"
  BY ReleaseKeepsUse
<1>2. /\ holder' = [holder EXCEPT ![r] = NoThread] /\ holder[r] = t /\ refCount' = refCount - 1
  BY DEF Release, Decrement
<1>3. Held' = Held \ {r} /\ r \in Held
  BY <1>2, ThreadAssumption DEF Held, CallInv, HeapType
<1>4. Cardinality(Held') = Cardinality(Held) - 1 /\ Cardinality(Held) \in Nat
  BY <1>3, Counting, FS_RemoveElement, FS_CardinalityType DEF CountInv
<1>5. RefCountExact'
  BY <1>1, <1>2, <1>4 DEF CountInv, RefCountExact
<1>6. refCount >= 1 /\ refCount \in Nat
  BY <1>3, Counting DEF CountInv
<1>7. Busy("release") = {} /\ \A u \in Threads : Disposing(u) => u \in Busy("finalize")
  BY <1>6, CountedIsKept
<1>8. \A u \in Threads : u # t => pc'[u] = pc[u] /\ local'[u] = local[u]
  BY <1>1 DEF Moves
<1>9. refCount = 1 => Busy("finalize") = {}
  <2> SUFFICES ASSUME refCount = 1, Busy("finalize") # {}
               PROVE  FALSE
    OBVIOUS
  <2>1. owned
    BY DEF UseInv
  <2>2. QED
    BY <1>3, <2>1, Counting DEF CountInv
<1>10. \A u \in Busy("dispose")' : ~Disposing(u)'
  BY <1>1, <1>7, <1>8 DEF Busy, Disposing
<1>11. \A u, v \in Threads : Disposing(u)' /\ Disposing(v)' => u = v
  <2>1. CASE refCount = 1
    BY <1>7, <1>8, <1>9, <2>1 DEF Disposing
  <2>2. CASE refCount # 1
    BY <1>1, <1>8, <2>2 DEF Disposing, CountInv
  <2>3. QED
    BY <2>1, <2>2
<1>12. \A u \in Busy("release")' : refCount' = 0
  BY <1>1, <1>2, <1>7, <1>8 DEF Busy
<1>13. QED
  BY <1>5, <1>10, <1>11, <1>12 DEF CountInv

LEMMA ReleaseOwnedKeepsCount ==
  ASSUME CallInv, CallInv', UseInv, CountInv, NEW t \in Threads, ReleaseOwned(t)
  PROVE  CountInv'
<1>1. /\ Moves(t) /\ UNCHANGED <<app, holder, isDisposed, local>> /\ owned /\ ~owned'
      /\ pc'[t] = IF refCount = 1 THEN "exchange" ELSE "setDisposed"
      /\ t \in Busy("dispose") /\ refCount' = refCount - 1
  BY ReleaseOwnedKeepsUse DEF ReleaseOwned, Decrement
<1>2. Held' = Held
  BY <1>1 DEF Held
<1>3. Cardinality(Held) \in Nat /\ refCount >= 1 /\ refCount \in Nat
  BY <1>1, Counting, FS_CardinalityType DEF CountInv
<1>4. RefCountExact'
  BY <1>1, <1>2, <1>3 DEF CountInv, RefCountExact
<1>5. Busy("release") = {} /\ Busy("finalize") = {} /\ Busy("dispose") = {t}
  BY <1>1, <1>3, CountedIsKept DEF UseInv
<1>6. \A u \in Threads : ~Disposing(u)
  BY <1>3, <1>5, CountedIsKept
<1>7. Busy("release")' = {} /\ Busy("dispose")' = {t}
  BY <1>1, <1>5 DEF Busy
<1>8. \A u \in Threads : u # t => ~Disposing(u)'
  BY <1>1, <1>6 DEF Moves, Disposing
<1>9. Disposing(t)' => refCount' = 0
  BY <1>1, <1>3 DEF Disposing
<1>10. QED
  BY <1>4, <1>7, <1>8, <1>9 DEF CountInv

LEMMA NextCountInv ==
  ASSUME CallInv, UseInv, CountInv, [Next]_vars
  PROVE  UseInv' /\ CountInv'
<1>1. CallInv'
  BY NextCallInv
<1>2. ASSUME NEW t \in Threads, Quiet(t)
      PROVE  UseInv' /\ CountInv'
  BY <1>1, <1>2, QuietKeepsUse, QuietKeepsCount
<1>3. ASSUME NEW t \in Threads, Returns(t)
      PROVE  UseInv' /\ CountInv'
  BY <1>1, <1>3, ReturnKeepsUse, ReturnKeepsCount
<1>4. ASSUME NEW t \in Threads, Entries(t)
      PROVE  UseInv' /\ CountInv'
  BY <1>1, <1>4, EntryKeepsUse, EntryKeepsCount
<1>5. ASSUME NEW t \in Threads, NEW r \in References, Release(t, r)
      PROVE  UseInv' /\ CountInv'
  BY <1>1, <1>5, ReleaseKeepsUse, ReleaseKeepsCount
<1>6. ASSUME NEW t \in Threads, ReleaseOwned(t)
      PROVE  UseInv' /\ CountInv'
  BY <1>1, <1>6, ReleaseOwnedKeepsUse, ReleaseOwnedKeepsCount
<1>7. CASE Elsewhere
  <2>1. UseInv' /\ Held' = Held /\ UNCHANGED <<owned, object, pc, local>>
    BY <1>1, <1>7, ElsewhereKeepsUse
  <2>2. QED
    BY <2>1 DEF CountInv, RefCountExact, Busy, Disposing, object
<1>8. CASE UNCHANGED vars
  BY <1>8 DEF vars, environment, object, UseInv, CountInv, RefCountExact, Busy, Disposing,
     Held, HeldBy, At
<1>9. QED
  BY <1>2, <1>3, <1>4, <1>5, <1>6, <1>7, <1>8
     DEF Next, Quiet, Returns, Entries, Elsewhere

LEMMA InitCountInv ==
  ASSUME Init
  PROVE  UseInv /\ CountInv
<1>1. Held = {} /\ \A t \in Threads : local[t].call = "none" /\ pc[t] = "idle"
  BY DEF Init, Held, NoLocals
<1>2. \A call : call # "none" => Busy(call) = {}
  BY <1>1 DEF Busy
<1>3. UseInv
  BY <1>1, <1>2 DEF Init, UseInv, At
<1>4. Cardinality(Held) = 0
  BY <1>1, FS_EmptySet
<1>5. QED
  BY <1>1, <1>2, <1>3, <1>4 DEF Init, CountInv, RefCountExact, Disposing

LEMMA CountInvariant == Spec => [](UseInv /\ CountInv)
<1>1. CallInv /\ UseInv /\ CountInv /\ [Next]_vars => (UseInv /\ CountInv)'
  BY NextCountInv
<1>2. QED
  BY <1>1, InitCountInv, CallInvariant, PTL DEF Spec

(* RefCountExact: however threads call AddRef and Release, dispose of the  *)
(* object, drop it and have it finalized, _refCount is the number of the   *)
(* references that are out.                                                *)
THEOREM CountsReferences == Spec => []RefCountExact
<1>1. CountInv => RefCountExact
  BY DEF CountInv
<1>2. QED
  BY <1>1, CountInvariant, PTL

-----------------------------------------------------------------------------
(* The heap, when managed code keeps the object as long as native code.    *)

LifeInv == CallInv /\ UseInv /\ CountInv /\ DropInv

LEMMA NextDropInv ==
  ASSUME OutlivesNative, LifeInv, [Next]_vars
  PROVE  LifeInv'
<1> USE DEF LifeInv
<1>1. CallInv' /\ UseInv' /\ CountInv'
  BY NextCallInv, NextCountInv
<1>2. ASSUME NEW t \in Threads, Quiet(t)
      PROVE  DropInv'
  <2>1. Moves(t) /\ UNCHANGED <<app, holder>> /\ local'[t].call = local[t].call
    BY <1>2, QuietSteps
  <2>2. Held' = Held /\ \A u \in Threads : local'[u].call = local[u].call
    BY <2>1 DEF Held, Moves
  <2>3. QED
    BY <2>1, <2>2 DEF DropInv
<1>3. ASSUME NEW t \in Threads, Returns(t)
      PROVE  DropInv'
  <2>1. Moves(t) /\ UNCHANGED app /\ local'[t].call = "none" /\ (~AddRef(t) => UNCHANGED holder)
    BY <1>3, ReturnSteps
  <2>2. AddRef(t) => app # "dropped"
    BY CallAt DEF AddRef, At, Finding, DropInv
  <2>3. QED
    BY <2>1, <2>2 DEF DropInv, Held, Moves
<1>4. ASSUME NEW t \in Threads, Entries(t)
      PROVE  DropInv'
  <2>1. /\ Moves(t) /\ UNCHANGED holder
        /\ app' = "dropped" => app = "dropped" /\ (local'[t].call = "finalize" \/ HeldBy(t) # {})
    BY <1>4, EntrySteps DEF Entries
  <2>2. Held' = Held /\ HeldBy(t) \subseteq Held
    BY <2>1, HeldByAreHeld DEF Held
  <2>3. QED
    BY <2>1, <2>2 DEF DropInv, Moves
<1>5. ASSUME NEW t \in Threads, NEW r \in References, Release(t, r)
      PROVE  DropInv'
  <2>1. UNCHANGED app
    BY <1>1, <1>5, ReleaseKeepsUse
  <2>2. r \in Held
    BY <1>5, ThreadAssumption DEF Release, Held
  <2>3. QED
    BY <2>1, <2>2 DEF DropInv
<1>6. ASSUME NEW t \in Threads, ReleaseOwned(t)
      PROVE  DropInv'
  <2>1. UNCHANGED <<app, holder, local>>
    BY <1>1, <1>6, ReleaseOwnedKeepsUse
  <2>2. QED
    BY <2>1 DEF DropInv, Held
<1>7. CASE Elsewhere
  <2>1. Held' = Held /\ UNCHANGED local
    BY <1>1, <1>7, ElsewhereKeepsUse
  <2>2. CASE Drop
    <3>1. Held = {} /\ \A u \in Threads : At(u, "idle")
      BY <2>2 DEF Drop
    <3>2. \A u \in Threads : local[u].call = "none"
      BY <3>1, CallAt
    <3>3. QED
      BY <1>1, <2>1, <3>1, <3>2 DEF DropInv
  <2>3. CASE ~Drop
    <3>1. UNCHANGED app
      BY <1>7, <2>3 DEF Elsewhere, ForeignAlloc, ForeignFree, Give, environment
    <3>2. QED
      BY <1>1, <2>1, <3>1 DEF DropInv
  <2>4. QED
    BY <2>2, <2>3
<1>8. CASE UNCHANGED vars
  <2>1. UNCHANGED <<app, holder, local>>
    BY <1>8 DEF vars, environment
  <2>2. QED
    BY <1>1, <2>1 DEF DropInv, Held
<1>9. QED
  BY <1>1, <1>2, <1>3, <1>4, <1>5, <1>6, <1>7, <1>8
     DEF Next, Quiet, Returns, Entries, Elsewhere

LEMMA LifeInvariant == OutlivesNative => (Spec => []LifeInv)
<1> SUFFICES ASSUME OutlivesNative
             PROVE  Spec => []LifeInv
  OBVIOUS
<1>1. Init => LifeInv
  BY InitCallInv, InitCountInv DEF LifeInv, DropInv, Init
<1>2. LifeInv /\ [Next]_vars => LifeInv'
  BY NextDropInv
<1>3. QED
  BY <1>1, <1>2, PTL DEF Spec

(* Nobody frees anything under the hands of a call that uses the object.   *)
LEMMA CallersIntact ==
  ASSUME LifeInv, NEW t \in Threads, local[t].call \in {"marshal", "query", "guids"}
  PROVE  Intact /\ \A u \in Threads : ~Disposing(u)
<1> USE DEF LifeInv
<1>1. refCount # 0 /\ app # "dropped"
  BY CallersCount DEF CountInv, DropInv
<1>2. \A u \in Threads : ~Disposing(u)
  BY <1>1, CountedIsKept DEF UseInv
<1>3. QED
  BY <1>1, <1>2 DEF Intact

LEMMA FreeingNotIntact ==
  ASSUME LifeInv, NEW t \in Threads, pc[t] \in {"free", "freeThis"}
  PROVE  ~Intact
<1> USE DEF LifeInv
<1>1. Disposing(t)
  BY DEF Disposing
<1>2. \A u \in Threads : ~At(u, "exchange")
  BY <1>1 DEF CountInv, Disposing, At
<1>3. refCount # 0 => t \in Busy("finalize")
  BY <1>1, CountedIsKept
<1>4. QED
  BY <1>2, <1>3 DEF Intact, UseInv

(* Once somebody has begun to free, the object is not intact again.        *)
LEMMA IntactBefore ==
  ASSUME OutlivesNative, LifeInv, [Next]_vars, Intact'
  PROVE  Intact
<1> USE DEF LifeInv
<1>1. CallInv' /\ UseInv' /\ CountInv'
  BY NextCallInv, NextCountInv
<1>2. ASSUME NEW t \in Threads, Quiet(t)
      PROVE  Intact
  <2>1. /\ Moves(t) /\ UNCHANGED <<app, refCount, isDisposed>>
        /\ local'[t].call = local[t].call /\ pc'[t] # "exchange"
    BY <1>2, QuietSteps
  <2>2. Busy("finalize")' = Busy("finalize")
    BY <2>1 DEF Busy, Moves
  <2>3. QED
    BY <2>1, <2>2 DEF Intact, At, Moves
<1>3. ASSUME NEW t \in Threads, Returns(t)
      PROVE  Intact
  <2>1. /\ Moves(t) /\ UNCHANGED app /\ local'[t].call = "none" /\ pc'[t] = "idle"
        /\ ~AddRef(t) => UNCHANGED refCount
        /\ ~SetDisposed(t) => UNCHANGED isDisposed
        /\ SetDisposed(t) => isDisposed' = TRUE
    BY <1>3, ReturnSteps
  <2>2. CASE AddRef(t)
    BY <2>2, CallersIntact, CallAt DEF AddRef, At, Finding
  <2>3. CASE SetDisposed(t)
    BY <2>1, <2>3 DEF Intact, At, Moves, SetDisposed, AddRef
  <2>4. CASE ~AddRef(t) /\ ~SetDisposed(t)
    <3>1. local[t].call # "finalize"
      BY <1>3, <2>4, CallAt, CallLabels DEF Returns, InitializationThrows, FindReturns, ReturnFrom,
         PublishGuids, At, Finding
    <3>2. Busy("finalize")' = Busy("finalize")
      BY <2>1, <3>1 DEF Busy, Moves
    <3>3. QED
      BY <2>1, <2>4, <3>2 DEF Intact, At, Moves
  <2>5. QED
    BY <2>2, <2>3, <2>4
<1>4. ASSUME NEW t \in Threads, Entries(t)
      PROVE  Intact
  <2>1. /\ Moves(t) /\ UNCHANGED object /\ local[t].call = "none"
        /\ \/ Finalize(t) /\ app = "dropped" /\ ~isDisposed
           \/ /\ app' = "dropped" <=> app = "dropped"
              /\ pc'[t] # "exchange" /\ local'[t].call # "finalize"
    BY <1>4, EntrySteps DEF Entries
  <2>2. CASE Finalize(t) /\ app = "dropped" /\ ~isDisposed
    <3>1. \A u \in Threads : u \in Busy("finalize") => InCall(u, "finalize")
      BY CallAt DEF Busy, InCall, At
    <3>2. Busy("finalize") = {}
      BY <2>2, <3>1 DEF Finalize, Busy
    <3>3. refCount # 0
      BY <2>2, Counting DEF UseInv, CountInv
    <3>4. QED
      BY <2>2, <3>2, <3>3 DEF Intact
  <2>3. CASE /\ app' = "dropped" <=> app = "dropped"
             /\ pc'[t] # "exchange" /\ local'[t].call # "finalize"
    <3>1. Busy("finalize")' = Busy("finalize")
      BY <2>1, <2>3 DEF Busy, Moves
    <3>2. QED
      BY <2>1, <2>3, <3>1 DEF Intact, At, Moves, object
  <2>4. QED
    BY <2>1, <2>2, <2>3
<1>5. ASSUME NEW t \in Threads, NEW r \in References, Release(t, r)
      PROVE  Intact
  <2>1. r \in Held
    BY <1>5, ThreadAssumption DEF Release, Held
  <2>2. refCount # 0 /\ app # "dropped"
    BY <2>1, Counting DEF DropInv, CountInv
  <2>3. QED
    BY <2>2 DEF Intact
<1>6. ASSUME NEW t \in Threads, ReleaseOwned(t)
      PROVE  Intact
  <2>1. owned /\ t \in Busy("dispose")
    BY <1>1, <1>6, ReleaseOwnedKeepsUse
  <2>2. refCount # 0 /\ app # "dropped"
    BY <2>1, Counting DEF UseInv, CountInv
  <2>3. QED
    BY <2>2 DEF Intact
<1>7. CASE Elsewhere
  <2>1. UNCHANGED <<object, pc, local>> /\ (app' # app => app = "using")
    BY <1>1, <1>7, ElsewhereKeepsUse
       DEF Elsewhere, ForeignAlloc, ForeignFree, Drop, Give, environment
  <2>2. QED
    BY <2>1 DEF Intact, Busy, At, object
<1>8. CASE UNCHANGED vars
  BY <1>8 DEF vars, environment, object, Intact, Busy, At
<1>9. QED
  BY <1>2, <1>3, <1>4, <1>5, <1>6, <1>7, <1>8
     DEF Next, Quiet, Returns, Entries, Elsewhere

(* What the object's slots, wrappers and blocks are stays so, as long as   *)
(* nobody has begun to free them.                                          *)
Ours(s) == handles[s] \in {"callback", "shadow", "multi"}

LEMMA KindIsOurs ==
  Kind \in {"callback", "shadow", "multi"} /\ Kind # "free" /\ Kind # "foreign"
BY DEF Kind

LEMMA HeapFrame ==
  ASSUME HeapInv, Intact, UNCHANGED <<shape, wrappers, blocks>>,
         \A s \in Slots : Ours(s) => handles'[s] = handles[s],
         thisHandle' # 0 => handles'[thisHandle'] = "callback",
         \A u \in Threads : pc'[u] = "shadows" =>
           \/ pc[u] = "shadows" /\ local'[u].handle = local[u].handle
           \/ local'[u].handle \in Slots /\ handles'[local'[u].handle] = "callback",
         \A u \in Threads : pc'[u] = "wrap" =>
           \/ pc[u] = "wrap" /\ local'[u].handle = local[u].handle
           \/ local'[u].handle \in Slots /\ handles'[local'[u].handle] = Kind
  PROVE  HeapInv'
<1>1. Kind' = Kind
  BY SameClass
<1>2. \A s \in Slots : handles[s] = Kind => handles'[s] = Kind
  BY KindIsOurs DEF Ours
<1>3. \A w \in 1..Len(wrappers') : /\ wrappers'[w].state = "live"
                                   /\ wrappers'[w].handle \in Slots
                                   /\ handles'[wrappers'[w].handle] = Kind
  BY <1>2 DEF HeapInv
<1>4. \A b \in 1..Len(blocks') : blocks'[b]
  BY DEF HeapInv
<1>5. \A u \in Threads : pc'[u] = "wrap" => /\ local'[u].handle \in Slots
                                            /\ handles'[local'[u].handle] = Kind
  BY <1>2 DEF HeapInv, At
<1>6. \A u \in Threads : pc'[u] = "shadows" => /\ local'[u].handle \in Slots
                                               /\ handles'[local'[u].handle] = "callback"
  BY DEF HeapInv, At, Ours
<1>7. QED
  BY <1>1, <1>3, <1>4, <1>5, <1>6 DEF HeapInv, At

(* Steps that leave the heap and the handle of the object alone.           *)
Aside(t) ==
  \/ Find(t) \/ Publish(t) \/ PassTable(t) \/ Lookup(t) \/ ExchangeTable(t)
  \/ Returns(t) \/ Entries(t) \/ ReleaseOwned(t) \/ \E r \in References : Release(t, r)

LEMMA AsideSteps ==
  ASSUME CallInv, NEW t \in Threads, Aside(t)
  PROVE  /\ Moves(t) /\ pc'[t] \notin {"shadows", "wrap", "freeThis"}
         /\ UNCHANGED <<shape, wrappers, blocks, handles, thisHandle>>
<1> USE DEF CallInv
<1>1. Moves(t)
  BY FindKeepsCallInv, GuidsKeepCallInv, DisposalKeepsCallInv, ReferencesKeepCallInv,
     EntriesKeepCallInv, ReturnSteps, EntrySteps DEF Aside
<1>2. pc \in [Threads -> Labels]
  BY DEF HeapType
<1>3. CASE Find(t) \/ Publish(t) \/ PassTable(t) \/ Lookup(t) \/ ExchangeTable(t)
  BY <1>1, <1>2, <1>3 DEF Find, Publish, PassTable, Lookup, ExchangeTable, Goto, Moves,
     environment, object, heap
<1>4. CASE Returns(t)
  <2>1. pc'[t] = "idle"
    BY <1>4, ReturnSteps
  <2>2. QED
    BY <1>1, <1>4, <2>1 DEF Returns, InitializationThrows, AddRef, FindReturns, SetDisposed,
       ReturnFrom, PublishGuids, Moves, object, heap
<1>5. CASE Entries(t)
  <2>1. pc'[t] \in {"find", "return", "releaseOwned", "exchange", "guids"}
    BY <1>5, EntrySteps DEF Entries
  <2>2. UNCHANGED <<object, heap>>
    BY <1>5 DEF Entries, Marshal, QueryInterface, Dispose, Finalize, GetIids, Enter
  <2>3. QED
    BY <1>1, <2>1, <2>2 DEF Moves, object, heap
<1>6. CASE ReleaseOwned(t) \/ \E r \in References : Release(t, r)
  BY <1>1, <1>2, <1>6 DEF ReleaseOwned, Release, Decrement, Goto, Moves, heap
<1>7. QED
  BY <1>3, <1>4, <1>5, <1>6 DEF Aside

LEMMA AsideKeepsHeap ==
  ASSUME CallInv, HeapInv, Intact, NEW t \in Threads, Aside(t)
  PROVE  HeapInv'
<1>1. /\ Moves(t) /\ pc'[t] \notin {"shadows", "wrap", "freeThis"}
      /\ UNCHANGED <<shape, wrappers, blocks, handles, thisHandle>>
  BY AsideSteps
<1>2. \A u \in Threads : pc'[u] \in {"shadows", "wrap"} => pc'[u] = pc[u] /\ local'[u] = local[u]
  BY <1>1 DEF Moves
<1>3. thisHandle # 0 => handles[thisHandle] = "callback"
  BY DEF HeapInv
<1>4. QED
  BY <1>1, <1>2, <1>3, HeapFrame

LEMMA ThisHandleKeepsHeap ==
  ASSUME CallInv, HeapInv, Intact, NEW t \in Threads, CheckThisHandle(t) \/ AllocThisHandle(t)
  PROVE  HeapInv'
<1> USE DEF CallInv
<1>1. Moves(t)
  BY FindKeepsCallInv
<1>2. /\ pc \in [Threads -> Labels] /\ local \in [Threads -> Local] /\ local[t] \in Local
      /\ thisHandle \in Slots \cup {0}
      /\ handles \in [Slots -> {"free", "callback", "shadow", "multi", "foreign"}]
  BY DEF HeapType
<1>3. thisHandle # 0 => handles[thisHandle] = "callback"
  BY DEF HeapInv
<1>4. \A u \in Threads \ {t} : pc'[u] = pc[u] /\ local'[u] = local[u]
  BY <1>1 DEF Moves
<1>5. CASE CheckThisHandle(t)
  <2>1. /\ UNCHANGED <<shape, wrappers, blocks, handles, thisHandle>>
        /\ pc'[t] = IF thisHandle = 0 THEN "allocThis" ELSE "shadows"
        /\ local'[t].handle = thisHandle
    BY <1>2, <1>5 DEF CheckThisHandle, Goto, Local, environment, object, heap
  <2>2. pc'[t] # "wrap"
        /\ (pc'[t] = "shadows" => local'[t].handle \in Slots
                                   /\ handles'[local'[t].handle] = "callback")
    BY <1>2, <1>3, <2>1
  <2>3. QED
    BY <1>3, <1>4, <2>1, <2>2, HeapFrame
<1>6. CASE AllocThisHandle(t)
  <2>1. /\ UNCHANGED <<shape, wrappers, blocks>> /\ pc'[t] = "shadows"
        /\ thisHandle' = Lowest(FreeSlots) /\ FreeSlots # {}
        /\ handles' = [handles EXCEPT ![thisHandle'] = "callback"]
        /\ local'[t].handle = thisHandle'
    BY <1>2, <1>6 DEF AllocThisHandle, Goto, Local, environment
  <2>2. thisHandle' \in Slots /\ handles[thisHandle'] = "free" /\ thisHandle' # 0
    BY <2>1, FreeSlotsAreSlots
  <2>3. handles'[thisHandle'] = "callback"
    BY <1>2, <2>1, <2>2
  <2>4. \A s \in Slots : Ours(s) => handles'[s] = handles[s]
    BY <1>2, <2>1, <2>2 DEF Ours
  <2>5. QED
    BY <1>4, <2>1, <2>2, <2>3, <2>4, HeapFrame
<1>7. QED
  BY <1>5, <1>6

(* The slots a thread takes for the shadows of its wrappers are free, and  *)
(* the one its wrappers lead through is what the class says.               *)
LEMMA ShadowSteps ==
  ASSUME CallInv, HeapInv, Intact, NEW t \in Threads, CreateShadows(t)
  PROVE  /\ Moves(t) /\ pc[t] = "shadows" /\ pc'[t] = "wrap"
         /\ UNCHANGED <<environment, object, tables, wrappers, blocks, returned>>
         /\ \A s \in Slots : handles[s] # "free" => handles'[s] = handles[s]
         /\ \A s \in Slots : handles[s] = "free" => handles'[s] \in {"free", "shadow", "multi"}
         /\ local'[t].handle \in Slots /\ handles'[local'[t].handle] = Kind
         /\ shape.shadows = 0 => UNCHANGED handles
         /\ shape.shadows # 0 => handles[local'[t].handle] = "free"
         /\ shape.shadows = 1 => \A s \in Slots \ {local'[t].handle} : handles'[s] = handles[s]
         /\ local' = [local EXCEPT ![t].handle = local'[t].handle]
<1> USE DEF CallInv
<1>1. Moves(t) /\ pc[t] = "shadows"
  BY FindKeepsCallInv DEF CreateShadows, At
<1>2. /\ pc \in [Threads -> Labels] /\ local \in [Threads -> Local] /\ shape.shadows \in Nat
      /\ handles \in [Slots -> {"free", "callback", "shadow", "multi", "foreign"}]
  BY ShapeType DEF HeapType
<1>3. PICK new \in SUBSET FreeSlots :
        /\ Cardinality(new) = shape.shadows + (IF shape.shadows > 1 THEN 1 ELSE 0)
        /\ handles' = [s \in Slots |->
                         IF s \notin new THEN handles[s]
                         ELSE IF s = (IF new = {} THEN local[t].handle ELSE Lowest(new))
                                 /\ shape.shadows > 1
                              THEN "multi" ELSE "shadow"]
        /\ local' = [local EXCEPT ![t].handle = IF new = {} THEN local[t].handle ELSE Lowest(new)]
  BY DEF CreateShadows
<1>4. pc'[t] = "wrap" /\ UNCHANGED <<environment, object, tables, wrappers, blocks, returned>>
  BY <1>2 DEF CreateShadows, Goto
<1>5. new \subseteq Slots /\ \A s \in new : handles[s] = "free"
  BY DEF FreeSlots
<1>6. IsFiniteSet(new)
  BY <1>5, SlotAssumption, FS_Subset
<1>7. shape.shadows = 0 <=> new = {}
  BY <1>2, <1>3, <1>6, FS_EmptySet
<1>8. shape.shadows = 1 => \E s \in new : new = {s}
  <2>1. shape.shadows = 1 => Cardinality(new) = 1
    BY <1>3
  <2>2. QED
    BY <1>6, <2>1, FS_Singleton
<1> DEFINE handle == IF new = {} THEN local[t].handle ELSE Lowest(new)
<1>9. local'[t].handle = handle
  BY <1>2, <1>3 DEF Local
<1>10. new # {} => handle \in new
  BY FreeSlotsAreSlots
<1>11. local[t].handle \in Slots /\ handles[local[t].handle] = "callback"
  BY <1>1 DEF HeapInv, At
<1>12. /\ \A s \in Slots \ new : handles'[s] = handles[s]
       /\ \A s \in new : handles'[s] = IF s = handle /\ shape.shadows > 1 THEN "multi" ELSE "shadow"
  BY <1>3, <1>5
<1>13. local' = [local EXCEPT ![t].handle = handle]
  BY <1>3
<1> HIDE DEF handle
<1>14. handle \in Slots /\ handles'[handle] = Kind
  <2>1. CASE new = {}
    BY <1>7, <1>11, <1>12, <2>1 DEF handle, Kind
  <2>2. CASE new # {}
    BY <1>2, <1>5, <1>7, <1>10, <1>12, <2>2 DEF Kind
  <2>3. QED
    BY <2>1, <2>2
<1>15. shape.shadows = 0 => UNCHANGED handles
  BY <1>2, <1>3, <1>7
<1>16. shape.shadows # 0 => handles[handle] = "free"
  BY <1>5, <1>7, <1>10
<1>17. shape.shadows = 1 => \A s \in Slots \ {handle} : handles'[s] = handles[s]
  BY <1>8, <1>10, <1>12
<1>18. /\ \A s \in Slots : handles[s] # "free" => handles'[s] = handles[s]
       /\ \A s \in Slots : handles[s] = "free" => handles'[s] \in {"free", "shadow", "multi"}
  BY <1>5, <1>12
<1>19. QED
  BY <1>1, <1>4, <1>9, <1>13, <1>14, <1>15, <1>16, <1>17, <1>18

LEMMA ShadowsKeepHeap ==
  ASSUME CallInv, HeapInv, Intact, NEW t \in Threads, CreateShadows(t)
  PROVE  HeapInv'
<1>1. /\ Moves(t) /\ pc'[t] = "wrap"
      /\ UNCHANGED <<environment, object, tables, wrappers, blocks, returned>>
      /\ \A s \in Slots : handles[s] # "free" => handles'[s] = handles[s]
      /\ local'[t].handle \in Slots /\ handles'[local'[t].handle] = Kind
  BY ShadowSteps
<1>2. UNCHANGED <<shape, wrappers, blocks, thisHandle>>
  BY <1>1 DEF environment, object
<1>3. thisHandle # 0 => thisHandle \in Slots /\ handles[thisHandle] = "callback"
  BY DEF HeapInv, CallInv, HeapType
<1>4. \A s \in Slots : Ours(s) => handles'[s] = handles[s]
  BY <1>1 DEF Ours
<1>5. thisHandle' # 0 => handles'[thisHandle'] = "callback"
  BY <1>1, <1>2, <1>3
<1>6. \A u \in Threads : pc'[u] = "shadows" => pc[u] = "shadows" /\ local'[u] = local[u]
  BY <1>1 DEF Moves
<1>7. \A u \in Threads : pc'[u] = "wrap" =>
        \/ pc[u] = "wrap" /\ local'[u].handle = local[u].handle
        \/ local'[u].handle \in Slots /\ handles'[local'[u].handle] = Kind
  BY <1>1 DEF Moves
<1>8. QED
  BY <1>2, <1>4, <1>5, <1>6, <1>7, HeapFrame

LEMMA SeqOfElements ==
  ASSUME NEW W, NEW V, NEW s \in Seq(W), \A k \in 1..Len(s) : s[k] \in V
  PROVE  s \in Seq(V)
<1>1. s \in [1..Len(s) -> W] /\ Len(s) \in Nat
  OBVIOUS
<1>2. s \in [1..Len(s) -> V]
  BY <1>1
<1>3. QED
  BY <1>1, <1>2

(* A leaf's wrapper, and where the dictionary leads to it.                 *)
LEMMA WrapSteps ==
  ASSUME CallInv, NEW t \in Threads, WrapLeaf(t)
  PROVE  /\ Moves(t) /\ pc[t] = "wrap"
         /\ pc'[t] = IF local[t].leaf + 1 = Len(Leaves) THEN "lookup" ELSE "wrap"
         /\ local'[t] = [local[t] EXCEPT !.leaf = local[t].leaf + 1]
         /\ local[t].leaf + 1 \in 1..Len(Leaves)
         /\ UNCHANGED <<environment, object, handles, blocks, returned>>
         /\ Len(wrappers) \in Nat /\ Len(wrappers') = Len(wrappers) + 1
         /\ \A w \in 1..Len(wrappers) : wrappers'[w] = wrappers[w]
         /\ wrappers'[Len(wrappers')].handle = local[t].handle
         /\ wrappers'[Len(wrappers')].state = "live"
         /\ local[t].filling \in 1..Len(tables) /\ Len(tables') = Len(tables)
         /\ \A i \in Interfaces : tables'[local[t].filling][i] =
              IF \/ i = Leaves[local[t].leaf + 1].guid
                 \/ /\ i \in Leaves[local[t].leaf + 1].inherits
                    /\ tables[local[t].filling][i] = 0
              THEN Len(wrappers') ELSE tables[local[t].filling][i]
<1> USE DEF CallInv
<1> DEFINE leaf == Leaves[local[t].leaf + 1]
           new == [handle |-> local[t].handle, state |-> "live"]
           filled == [i \in Interfaces |->
                        IF \/ i = leaf.guid
                           \/ i \in leaf.inherits /\ tables[local[t].filling][i] = 0
                        THEN Len(wrappers') ELSE tables[local[t].filling][i]]
<1>1. Moves(t)
  BY FindKeepsCallInv
<1>2. /\ pc \in [Threads -> Labels] /\ local \in [Threads -> Local] /\ local[t] \in Local
      /\ Len(wrappers) \in Nat /\ Len(tables) \in Nat
  BY HeapLengths DEF HeapType
<1>3. /\ wrappers' = Append(wrappers, new)
      /\ tables' = [tables EXCEPT ![local[t].filling] = filled]
      /\ local' = [local EXCEPT ![t].leaf = local[t].leaf + 1]
      /\ pc[t] = "wrap" /\ local[t].filling # 0
      /\ UNCHANGED <<environment, object, handles, blocks, returned>>
  BY DEF WrapLeaf, At
<1>4. local'[t] = [local[t] EXCEPT !.leaf = local[t].leaf + 1]
  BY <1>2, <1>3
<1>5. local[t].leaf \in Nat /\ local'[t].leaf = local[t].leaf + 1
  BY <1>2, <1>4 DEF Local
<1>6. pc'[t] = IF local[t].leaf + 1 = Len(Leaves) THEN "lookup" ELSE "wrap"
  BY <1>2, <1>5 DEF WrapLeaf, Goto
<1>7. local[t].leaf + 1 \in 1..Len(Leaves)
  <2>1. local[t].leaf < Len(Leaves)
    BY <1>3 DEF CallInvOf, At
  <2>2. Len(Leaves) \in Nat
    BY ShapeType DEF HeapType
  <2>3. QED
    BY <1>5, <2>1, <2>2
<1>8. /\ Len(wrappers') = Len(wrappers) + 1
      /\ \A w \in 1..Len(wrappers) : wrappers'[w] = wrappers[w]
      /\ wrappers'[Len(wrappers')] = new
  <2> DEFINE W == [handle : Slots \cup {0}, state : {"live", "freed", "corrupt"}]
  <2>1. new \in W
    BY <1>2 DEF Local
  <2>2. wrappers \in Seq(W)
    BY DEF HeapType
  <2> HIDE DEF new, W
  <2>3. QED
    BY <1>3, <2>1, <2>2
<1>9. local[t].filling \in 1..Len(tables)
  BY <1>2, <1>3 DEF Local
<1>10. Len(tables') = Len(tables) /\ tables'[local[t].filling] = filled
  <2> HIDE DEF filled
  <2>1. tables \in Seq([Interfaces -> 0..Len(wrappers)])
    BY DEF HeapType
  <2>2. QED
    BY <1>3, <1>9, <2>1
<1>11. QED
  BY <1>1, <1>2, <1>3, <1>4, <1>6, <1>7, <1>8, <1>9, <1>10

LEMMA WrapKeepsHeap ==
  ASSUME CallInv, HeapInv, Intact, NEW t \in Threads, WrapLeaf(t)
  PROVE  HeapInv'
<1>1. /\ Moves(t) /\ pc[t] = "wrap" /\ pc'[t] \in {"lookup", "wrap"}
      /\ UNCHANGED <<environment, object, handles, blocks, returned>>
      /\ Len(wrappers) \in Nat /\ Len(wrappers') = Len(wrappers) + 1
      /\ \A w \in 1..Len(wrappers) : wrappers'[w] = wrappers[w]
      /\ wrappers'[Len(wrappers')].handle = local[t].handle
      /\ wrappers'[Len(wrappers')].state = "live"
  BY WrapSteps
<1>2. local'[t].handle = local[t].handle
  <2>1. local'[t] = [local[t] EXCEPT !.leaf = local[t].leaf + 1] /\ local[t] \in Local
    BY WrapSteps DEF CallInv, HeapType
  <2>2. QED
    BY <2>1 DEF Local
<1>3. UNCHANGED <<shape, thisHandle>> /\ Kind' = Kind
  BY <1>1, SameClass DEF environment, object
<1>4. local[t].handle \in Slots /\ handles[local[t].handle] = Kind
  BY <1>1 DEF HeapInv, At
<1>5. ASSUME NEW w \in 1..Len(wrappers')
      PROVE  /\ wrappers'[w].state = "live"
             /\ wrappers'[w].handle \in Slots
             /\ handles'[wrappers'[w].handle] = Kind
  <2>1. w \in 1..Len(wrappers) \/ w = Len(wrappers')
    BY <1>1
  <2>2. QED
    BY <1>1, <1>4, <2>1 DEF HeapInv
<1>6. \A u \in Threads : pc'[u] = "shadows" => /\ local'[u].handle \in Slots
                                               /\ handles'[local'[u].handle] = "callback"
  BY <1>1 DEF HeapInv, Moves, At
<1>7. \A u \in Threads : pc'[u] = "wrap" => /\ local'[u].handle \in Slots
                                            /\ handles'[local'[u].handle] = Kind
  BY <1>1, <1>2 DEF HeapInv, Moves, At
<1>8. QED
  BY <1>1, <1>3, <1>5, <1>6, <1>7 DEF HeapInv, At

LEMMA GuidsKeepHeap ==
  ASSUME CallInv, HeapInv, Intact, NEW t \in Threads, BuildGuids(t)
  PROVE  HeapInv'
<1> USE DEF CallInv
<1>1. Moves(t)
  BY GuidsKeepCallInv
<1>2. /\ blocks' = Append(blocks, TRUE) /\ pc'[t] = "publishGuids"
      /\ UNCHANGED <<shape, wrappers, handles, thisHandle>>
  BY DEF BuildGuids, Goto, HeapType, environment
<1>3. \A b \in 1..Len(blocks') : blocks'[b]
  <2>1. blocks \in Seq(BOOLEAN) /\ \A b \in 1..Len(blocks) : blocks[b] = TRUE
    BY DEF HeapInv, HeapType
  <2>2. /\ Len(blocks') = Len(blocks) + 1 /\ Len(blocks) \in Nat
        /\ \A b \in 1..Len(blocks) : blocks'[b] = blocks[b]
        /\ blocks'[Len(blocks) + 1] = TRUE
    BY <1>2, <2>1
  <2>3. \A b \in 1..Len(blocks') : b \in 1..Len(blocks) \/ b = Len(blocks) + 1
    BY <2>2
  <2>4. \A b \in 1..Len(blocks') : blocks'[b] = TRUE
    BY <2>1, <2>2, <2>3
  <2>5. QED
    BY <2>4
<1>4. Kind' = Kind
  BY <1>2, SameClass
<1>5. \A u \in Threads : pc'[u] \in {"shadows", "wrap"} => pc'[u] = pc[u] /\ local'[u] = local[u]
  BY <1>1, <1>2 DEF Moves
<1>6. /\ \A u \in Threads : pc'[u] = "shadows" => /\ local'[u].handle \in Slots
                                                  /\ handles'[local'[u].handle] = "callback"
      /\ \A u \in Threads : pc'[u] = "wrap" => /\ local'[u].handle \in Slots
                                               /\ handles'[local'[u].handle] = Kind
  BY <1>2, <1>5 DEF HeapInv, At
<1>7. /\ \A w \in 1..Len(wrappers') : /\ wrappers'[w].state = "live"
                                      /\ wrappers'[w].handle \in Slots
                                      /\ handles'[wrappers'[w].handle] = Kind
      /\ thisHandle' # 0 => handles'[thisHandle'] = "callback"
  BY <1>2 DEF HeapInv
<1>8. QED
  BY <1>3, <1>4, <1>6, <1>7 DEF HeapInv, At

(* What other code does with the handle table.                             *)
LEMMA ForeignSteps ==
  ASSUME CallInv, ForeignAlloc \/ ForeignFree
  PROVE  /\ UNCHANGED <<environment, object, tables, wrappers, blocks, returned, pc, local>>
         /\ \A s \in Slots : handles[s] \notin {"free", "foreign"} => handles'[s] = handles[s]
         /\ \A s \in Slots : handles[s] \in {"free", "foreign"}
                               => handles'[s] \in {"free", "foreign"}
<1>1. handles \in [Slots -> {"free", "callback", "shadow", "multi", "foreign"}]
  BY DEF CallInv, HeapType
<1>2. CASE ForeignAlloc
  <2> DEFINE slot == Lowest(FreeSlots)
  <2>1. slot \in Slots /\ handles[slot] = "free"
    BY <1>2, FreeSlotsAreSlots DEF ForeignAlloc
  <2>2. handles' = [handles EXCEPT ![slot] = "foreign"]
    BY <1>2 DEF ForeignAlloc
  <2> HIDE DEF slot
  <2>3. QED
    BY <1>1, <1>2, <2>1, <2>2 DEF ForeignAlloc
<1>3. CASE ForeignFree
  BY <1>1, <1>3 DEF ForeignFree
<1>4. QED
  BY <1>2, <1>3

LEMMA ForeignKeepsHeap ==
  ASSUME CallInv, HeapInv, Intact, ForeignAlloc \/ ForeignFree
  PROVE  HeapInv'
<1>1. /\ UNCHANGED <<environment, object, tables, wrappers, blocks, returned, pc, local>>
      /\ \A s \in Slots : handles[s] \notin {"free", "foreign"} => handles'[s] = handles[s]
  BY ForeignSteps
<1>2. UNCHANGED <<shape, wrappers, blocks, thisHandle, pc, local>>
  BY <1>1 DEF environment, object
<1>3. \A s \in Slots : Ours(s) => handles'[s] = handles[s]
  BY <1>1 DEF Ours
<1>4. thisHandle' # 0 => handles'[thisHandle'] = "callback"
  BY <1>1, <1>2 DEF HeapInv, CallInv, HeapType
<1>5. QED
  BY <1>2, <1>3, <1>4, HeapFrame

(* A wrapper is freed, unless it has been through another of its           *)
(* interfaces.                                                             *)
LEMMA FreeSteps ==
  ASSUME CallInv, NEW t \in Threads, FreeEntry(t)
  PROVE  /\ Moves(t) /\ pc[t] = "free"
         /\ UNCHANGED <<environment, object, tables, blocks, returned, pc>>
         /\ Len(wrappers) \in Nat /\ Len(wrappers') = Len(wrappers)
         /\ \A v \in 1..Len(wrappers) : wrappers'[v].handle = wrappers[v].handle
         /\ \E i \in Interfaces : \E w \in 1..Len(wrappers) :
              /\ w = local[t].entries[i]
              /\ local'[t].entries = [local[t].entries EXCEPT ![i] = 0]
              /\ local'[t].freed = local[t].freed \cup {w}
              /\ \A v \in 1..Len(wrappers) \ {w} : wrappers'[v] = wrappers[v]
              /\ w \in local[t].freed => UNCHANGED <<wrappers, handles>>
              /\ w \notin local[t].freed =>
                   /\ wrappers'[w].state = IF wrappers[w].state = "live" THEN "freed" ELSE "corrupt"
                   /\ handles' = IF handles[wrappers[w].handle] \in {"shadow", "foreign"}
                                 THEN [handles EXCEPT ![wrappers[w].handle] = "free"] ELSE handles
<1> USE DEF CallInv
<1>1. Moves(t) /\ pc[t] = "free" /\ UNCHANGED <<environment, object, tables, blocks, returned, pc>>
  BY DisposalKeepsCallInv DEF FreeEntry, At
<1>2. PICK i \in Interfaces :
        /\ local[t].entries[i] # 0
        /\ local' = [local EXCEPT ![t].entries[i] = 0,
                                  ![t].freed = local[t].freed \cup {local[t].entries[i]}]
        /\ IF local[t].entries[i] \in local[t].freed THEN UNCHANGED <<wrappers, handles>>
                                                     ELSE FreeWrapper(local[t].entries[i])
  BY DEF FreeEntry
<1>3. local \in [Threads -> Local] /\ local[t] \in Local /\ Len(wrappers) \in Nat
  BY HeapLengths DEF HeapType
<1> DEFINE w == local[t].entries[i]
<1>4. w \in 1..Len(wrappers)
  <2>1. local[t].entries \in [Interfaces -> 0..Len(wrappers)]
    BY <1>3 DEF Local
  <2>2. QED
    BY <1>2, <1>3, <2>1
<1>5. /\ local'[t].entries = [local[t].entries EXCEPT ![i] = 0]
      /\ local'[t].freed = local[t].freed \cup {w}
  BY <1>2, <1>3 DEF Local
<1> DEFINE W == [handle : Slots \cup {0}, state : {"live", "freed", "corrupt"}]
           changed == [wrappers[w] EXCEPT !.state = IF wrappers[w].state = "live"
                                                    THEN "freed" ELSE "corrupt"]
<1>6. wrappers \in Seq(W)
  BY DEF HeapType
<1>7. wrappers[w] \in W
  <2> HIDE DEF W, w
  <2>1. QED
    BY <1>4, <1>6
<1>8. /\ changed.handle = wrappers[w].handle
      /\ changed.state = IF wrappers[w].state = "live" THEN "freed" ELSE "corrupt"
  <2> HIDE DEF w
  <2>1. QED
    BY <1>7
<1>9. CASE w \in local[t].freed
  BY <1>1, <1>2, <1>3, <1>4, <1>5, <1>9
<1>10. CASE w \notin local[t].freed
  <2>1. FreeWrapper(w)
    BY <1>2, <1>10
  <2>2. wrappers' = [wrappers EXCEPT ![w] = changed]
    BY <2>1 DEF FreeWrapper, FreeMemory
  <2>3. handles' = IF handles[wrappers[w].handle] \in {"shadow", "foreign"}
                   THEN [handles EXCEPT ![wrappers[w].handle] = "free"] ELSE handles
    BY <2>1 DEF FreeWrapper
  <2>4. /\ Len(wrappers') = Len(wrappers) /\ wrappers'[w] = changed
        /\ \A v \in 1..Len(wrappers) \ {w} : wrappers'[v] = wrappers[v]
    <3> HIDE DEF w, changed, W
    <3>1. QED
      BY <1>3, <1>4, <1>6, <2>2
  <2>5. \A v \in 1..Len(wrappers) : wrappers'[v].handle = wrappers[v].handle
    <3> HIDE DEF w, changed, W
    <3>1. QED
      BY <1>8, <2>4
  <2>6. wrappers'[w].state = IF wrappers[w].state = "live" THEN "freed" ELSE "corrupt"
    BY <1>8, <2>4
  <2> HIDE DEF changed, W
  <2>7. QED
    BY <1>1, <1>2, <1>3, <1>4, <1>5, <1>10, <2>3, <2>4, <2>5, <2>6
<1>11. QED
  BY <1>9, <1>10

(* What every step does: it is one of these.                               *)
LEMMA NextCases ==
  ASSUME [Next]_vars
  PROVE  \/ \E t \in Threads : \/ Aside(t) \/ CheckThisHandle(t) \/ AllocThisHandle(t)
                               \/ CreateShadows(t) \/ WrapLeaf(t) \/ BuildGuids(t)
                               \/ FreeEntry(t) \/ FreeGuids(t) \/ FreeThisHandle(t)
         \/ ForeignAlloc \/ ForeignFree
         \/ UNCHANGED <<shape, object, heap, pc, local, returned>>
<1>1. CASE Drop \/ \E t \in Threads, r \in References : Give(t, r)
  BY <1>1 DEF Drop, Give
<1>2. CASE UNCHANGED vars
  BY <1>2 DEF vars, environment
<1>3. QED
  BY <1>1, <1>2 DEF Next, Aside, Returns, Entries

LEMMA NextHeapInv ==
  ASSUME OutlivesNative, LifeInv, HeapInv, [Next]_vars
  PROVE  HeapInv'
<1> USE DEF LifeInv
<1> SUFFICES ASSUME Intact'
             PROVE  HeapInv'
  BY DEF HeapInv
<1>1. Intact
  BY IntactBefore
<1>2. ASSUME NEW t \in Threads, FreeEntry(t) \/ FreeGuids(t) \/ FreeThisHandle(t)
      PROVE  FALSE
  BY <1>1, <1>2, FreeingNotIntact DEF FreeEntry, FreeGuids, FreeThisHandle, At
<1>3. CASE UNCHANGED <<shape, object, heap, pc, local, returned>>
  <2>1. UNCHANGED <<shape, wrappers, blocks, handles, thisHandle, pc, local>>
    BY <1>3 DEF object, heap
  <2>2. QED
    BY <1>1, <2>1, HeapFrame DEF HeapInv, At
<1>4. QED
  BY <1>1, <1>2, <1>3, NextCases, AsideKeepsHeap, ThisHandleKeepsHeap, ShadowsKeepHeap,
     WrapKeepsHeap, GuidsKeepHeap, ForeignKeepsHeap

LEMMA NextHandleInv ==
  ASSUME LifeInv, HeapInv, HandleInv, [Next]_vars
  PROVE  HandleInv'
<1> USE DEF LifeInv
<1>1. CASE UNCHANGED wrappers
  BY <1>1 DEF HandleInv
<1>2. ASSUME NEW t \in Threads, WrapLeaf(t)
      PROVE  HandleInv'
  <2>1. pc[t] = "wrap" /\ local[t].handle \in Slots
    <3>1. pc[t] = "wrap"
      BY <1>2, WrapSteps
    <3>2. local[t].call \in {"marshal", "query"}
      BY <3>1, CallAt DEF Finding
    <3>3. QED
      BY <3>1, <3>2, CallersIntact DEF HeapInv, At
  <2>2. /\ Len(wrappers) \in Nat /\ Len(wrappers') = Len(wrappers) + 1
        /\ \A w \in 1..Len(wrappers) : wrappers'[w] = wrappers[w]
        /\ wrappers'[Len(wrappers')].handle = local[t].handle
    BY <1>2, WrapSteps
  <2>3. \A w \in 1..Len(wrappers') : w \in 1..Len(wrappers) \/ w = Len(wrappers')
    BY <2>2
  <2>4. QED
    BY <2>1, <2>2, <2>3 DEF HandleInv
<1>3. ASSUME NEW t \in Threads, FreeEntry(t)
      PROVE  HandleInv'
  BY <1>3, FreeSteps DEF HandleInv
<1>4. ASSUME NEW t \in Threads,
             \/ Aside(t) \/ CheckThisHandle(t) \/ AllocThisHandle(t) \/ CreateShadows(t)
             \/ BuildGuids(t) \/ FreeGuids(t) \/ FreeThisHandle(t)
      PROVE  UNCHANGED wrappers
  BY <1>4, AsideSteps DEF CheckThisHandle, AllocThisHandle, CreateShadows, BuildGuids, FreeGuids,
     FreeThisHandle, heap
<1>5. CASE ForeignAlloc \/ ForeignFree \/ UNCHANGED <<shape, object, heap, pc, local, returned>>
  BY <1>1, <1>5 DEF ForeignAlloc, ForeignFree, heap
<1>6. QED
  BY <1>1, <1>2, <1>3, <1>4, <1>5, NextCases

SoundInv == LifeInv /\ HeapInv /\ HandleInv

LEMMA SoundInvariant == OutlivesNative => (Spec => []SoundInv)
<1> SUFFICES ASSUME OutlivesNative
             PROVE  Spec => []SoundInv
  OBVIOUS
<1>1. Init => HeapInv /\ HandleInv
  <2> SUFFICES ASSUME Init
               PROVE  HeapInv /\ HandleInv
    OBVIOUS
  <2>1. /\ wrappers = <<>> /\ blocks = <<>> /\ thisHandle = 0 /\ \A t \in Threads : pc[t] = "idle"
    BY DEF Init
  <2>2. 1..Len(wrappers) = {} /\ 1..Len(blocks) = {}
    BY <2>1
  <2>3. QED
    BY <2>1, <2>2 DEF HeapInv, HandleInv, At
<1>2. LifeInv /\ HeapInv /\ HandleInv /\ [Next]_vars => HeapInv' /\ HandleInv'
  BY NextHeapInv, NextHandleInv
<1>3. QED
  BY <1>1, <1>2, LifeInvariant, PTL DEF Spec, SoundInv

(* When managed code keeps the object as long as native code uses it,      *)
(* every variable keeps its type; without it the finalizer takes the       *)
(* handle of the object away from under a Find, whose wrappers then lead   *)
(* nowhere (CallbackBase.ThisHandle, Dispose).                             *)
THEOREM TypeCorrect == OutlivesNative => (Spec => []TypeOK)
<1>1. SoundInv => TypeOK
  <2> SUFFICES ASSUME SoundInv
               PROVE  TypeOK
    OBVIOUS
  <2> USE DEF SoundInv, LifeInv, CallInv, HeapType
  <2>1. refCount \in Nat
    BY Counting DEF CountInv
  <2>2. wrappers \in Seq([handle : Slots, state : {"live", "freed", "corrupt"}])
    <3> DEFINE W == [handle : Slots \cup {0}, state : {"live", "freed", "corrupt"}]
               V == [handle : Slots, state : {"live", "freed", "corrupt"}]
    <3>1. wrappers \in Seq(W) /\ Len(wrappers) \in Nat
      BY HeapLengths
    <3>2. \A w \in 1..Len(wrappers) : wrappers[w] \in W
      <4> HIDE DEF W
      <4>1. QED
        BY <3>1
    <3>3. \A w \in 1..Len(wrappers) : wrappers[w] \in V
      BY <3>2 DEF HandleInv
    <3> HIDE DEF W, V
    <3>4. wrappers \in Seq(V)
      BY <3>1, <3>3, SeqOfElements
    <3>5. QED
      BY <3>4 DEF V
  <2>3. QED
    BY <2>1, <2>2 DEF TypeOK, Local
<1>2. QED
  BY <1>1, SoundInvariant, PTL

(* As long as native code holds a reference, every pointer it was given is *)
(* to a wrapper that leads back to the callback, and the GUIDs it copies   *)
(* are allocated (CallbackBase.Release, DisposeCallableWrappers, Guids).   *)
THEOREM ReferencedUsable == OutlivesNative => (Spec => []ReferencedMeansUsable)
<1>1. SoundInv => ReferencedMeansUsable
  <2> SUFFICES ASSUME SoundInv, Held # {}
               PROVE  /\ \A i \in Interfaces : \A w \in returned[i] :
                           /\ wrappers[w].state = "live"
                           /\ handles[wrappers[w].handle] \in {"callback", "shadow", "multi"}
                      /\ guids # 0 => blocks[guids]
    BY DEF ReferencedMeansUsable
  <2> USE DEF SoundInv, LifeInv, CallInv, HeapType
  <2>1. refCount # 0 /\ app # "dropped"
    BY Counting DEF CountInv, DropInv
  <2>2. Intact
    BY <2>1 DEF Intact
  <2>3. \A i \in Interfaces : returned[i] \subseteq 1..Len(wrappers)
    OBVIOUS
  <2>4. \A i \in Interfaces : \A w \in returned[i] :
           /\ wrappers[w].state = "live"
           /\ handles[wrappers[w].handle] \in {"callback", "shadow", "multi"}
    BY <2>2, <2>3, KindIsOurs DEF HeapInv
  <2>5. guids # 0 => guids \in 1..Len(blocks)
    BY HeapLengths
  <2>6. QED
    BY <2>2, <2>4, <2>5 DEF HeapInv
<1>2. QED
  BY <1>1, SoundInvariant, PTL

-----------------------------------------------------------------------------
(* Who changes what.                                                       *)

Still(u) == pc'[u] = pc[u] /\ local'[u] = local[u]

Steps(t) ==
  \/ Quiet(t) \/ Returns(t) \/ Entries(t) \/ ReleaseOwned(t)
  \/ \E r \in References : Release(t, r)

LEMMA StepsMove ==
  ASSUME CallInv, NEW t \in Threads, Steps(t)
  PROVE  Moves(t)
BY QuietSteps, ReturnSteps, EntrySteps, ReferencesKeepCallInv DEF Steps

(* A thread that is not where it was has made a step of its own.           *)
LEMMA Mover ==
  ASSUME CallInv, [Next]_vars, NEW u \in Threads, ~Still(u)
  PROVE  Steps(u)
<1>1. ~UNCHANGED <<pc, local>>
  BY DEF Still
<1>2. PICK t \in Threads : Steps(t)
  BY <1>1 DEF Next, Steps, Quiet, Returns, Entries, ForeignAlloc, ForeignFree, Drop, Give, vars
<1>3. u = t
  BY <1>2, StepsMove DEF Moves, Still
<1>4. QED
  BY <1>2, <1>3

(* The only way on from some steps of a call.                              *)
LEMMA Departures ==
  ASSUME CallInv, [Next]_vars, NEW u \in Threads, ~Still(u)
  PROVE  /\ pc[u] = "publish" => Publish(u)
         /\ pc[u] = "assert" => PassTable(u)
         /\ pc[u] = "thisHandle" => CheckThisHandle(u) \/ InitializationThrows(u)
         /\ pc[u] = "allocThis" => AllocThisHandle(u) \/ InitializationThrows(u)
         /\ pc[u] = "shadows" => CreateShadows(u) \/ InitializationThrows(u)
         /\ pc[u] = "wrap" => WrapLeaf(u) \/ InitializationThrows(u)
         /\ pc[u] = "exchange" => ExchangeTable(u)
         /\ pc[u] = "free" => FreeEntry(u) \/ FreeGuids(u)
         /\ pc[u] = "freeThis" => FreeThisHandle(u)
         /\ pc[u] = "publishGuids" => PublishGuids(u)
<1>1. Steps(u)
  BY Mover
<1>2. CASE Quiet(u)
  BY <1>2 DEF Quiet, Find, Publish, PassTable, CheckThisHandle, AllocThisHandle, CreateShadows,
     WrapLeaf, Lookup, BuildGuids, ExchangeTable, FreeEntry, FreeGuids, FreeThisHandle, At
<1>3. CASE Returns(u)
  BY <1>3 DEF Returns, AddRef, FindReturns, SetDisposed, ReturnFrom, PublishGuids,
     InitializationThrows, At
<1>4. CASE Entries(u) \/ ReleaseOwned(u) \/ \E r \in References : Release(u, r)
  BY <1>4, EntrySteps DEF ReleaseOwned, Release, At
<1>5. QED
  BY <1>1, <1>2, <1>3, <1>4 DEF Steps

(* Each step of a call is reached by one or two steps.                     *)
LEMMA Arrivals ==
  ASSUME CallInv, [Next]_vars, NEW u \in Threads, ~Still(u)
  PROVE  /\ pc'[u] = "publish" => Find(u) /\ ccw = 0
         /\ pc'[u] = "assert" => Publish(u)
         /\ pc'[u] = "thisHandle" => PassTable(u)
         /\ pc'[u] = "allocThis" => CheckThisHandle(u) /\ thisHandle = 0
         /\ pc'[u] = "shadows" => CheckThisHandle(u) \/ AllocThisHandle(u)
         /\ pc'[u] = "wrap" => CreateShadows(u) \/ WrapLeaf(u)
         /\ pc'[u] = "lookup" => (Find(u) /\ ccw # 0) \/ PassTable(u) \/ WrapLeaf(u)
         /\ pc'[u] = "found" => Lookup(u)
         /\ pc'[u] = "free" => ExchangeTable(u) \/ FreeEntry(u)
         /\ pc'[u] = "freeThis" => FreeGuids(u)
         /\ pc'[u] = "guids" => GetIids(u) /\ guids = 0
         /\ pc'[u] = "publishGuids" => BuildGuids(u)
<1> USE DEF CallInv
<1>1. pc \in [Threads -> Labels] /\ local \in [Threads -> Local]
  BY DEF HeapType
<1>2. ASSUME NEW t \in Threads, Returns(t) \/ Entries(t)
      PROVE  /\ pc'[t] \in {"idle", "find", "return", "releaseOwned", "exchange", "guids"}
             /\ pc'[t] = "guids" => GetIids(t) /\ guids = 0
  <2>1. /\ pc'[t] \in {"idle", "find", "return", "releaseOwned", "exchange", "guids"}
        /\ pc'[t] = "guids" => GetIids(t)
    BY <1>2, ReturnSteps, EntrySteps DEF Entries
  <2>2. GetIids(t) /\ pc'[t] = "guids" => guids = 0
    BY <1>1 DEF GetIids, Enter, Goto
  <2>3. QED
    BY <2>1, <2>2
<1>3. ASSUME NEW t \in Threads, ReleaseOwned(t) \/ \E r \in References : Release(t, r)
      PROVE  pc'[t] \in {"idle", "setDisposed", "exchange"}
  BY <1>1, <1>3 DEF ReleaseOwned, Release, Decrement, Goto
<1>4. ASSUME NEW t \in Threads
      PROVE  /\ Find(t) => pc'[t] = IF ccw = 0 THEN "publish" ELSE "lookup"
             /\ Publish(t) => pc'[t] = "assert"
             /\ PassTable(t) => pc'[t] \in {"lookup", "thisHandle"}
             /\ CheckThisHandle(t) => pc'[t] = IF thisHandle = 0 THEN "allocThis" ELSE "shadows"
             /\ AllocThisHandle(t) => pc'[t] = "shadows"
             /\ CreateShadows(t) => pc'[t] = "wrap"
             /\ WrapLeaf(t) => pc'[t] \in {"lookup", "wrap"}
             /\ Lookup(t) => pc'[t] = "found"
             /\ BuildGuids(t) => pc'[t] = "publishGuids"
             /\ ExchangeTable(t) => pc'[t] = "free"
             /\ FreeEntry(t) => pc'[t] = "free"
             /\ FreeGuids(t) => pc'[t] = "freeThis"
             /\ FreeThisHandle(t) => pc'[t] \in {"return", "setDisposed"}
  <2>1. /\ Find(t) => pc'[t] = IF ccw = 0 THEN "publish" ELSE "lookup"
        /\ Publish(t) => pc'[t] = "assert"
        /\ PassTable(t) => pc'[t] \in {"lookup", "thisHandle"}
        /\ CheckThisHandle(t) => pc'[t] = IF thisHandle = 0 THEN "allocThis" ELSE "shadows"
        /\ AllocThisHandle(t) => pc'[t] = "shadows"
        /\ CreateShadows(t) => pc'[t] = "wrap"
        /\ Lookup(t) => pc'[t] = "found"
    BY <1>1 DEF Find, Publish, PassTable, CheckThisHandle, AllocThisHandle, CreateShadows, Lookup,
       Goto
  <2>2. /\ BuildGuids(t) => pc'[t] = "publishGuids"
        /\ ExchangeTable(t) => pc'[t] = "free"
        /\ FreeGuids(t) => pc'[t] = "freeThis"
        /\ FreeThisHandle(t) => pc'[t] \in {"return", "setDisposed"}
    BY <1>1 DEF BuildGuids, ExchangeTable, FreeGuids, FreeThisHandle, Goto
  <2>3. WrapLeaf(t) => pc'[t] \in {"lookup", "wrap"}
    BY WrapSteps
  <2>4. FreeEntry(t) => pc'[t] = "free"
    BY FreeSteps
  <2>5. QED
    BY <2>1, <2>2, <2>3, <2>4
<1>5. Steps(u)
  BY Mover
<1>6. CASE Quiet(u)
  BY <1>4, <1>6 DEF Quiet
<1>7. QED
  BY <1>2, <1>3, <1>5, <1>6 DEF Steps

(* The heap and the fields of the object are changed by few steps.         *)
LEMMA Changes ==
  ASSUME CallInv, [Next]_vars
  PROVE  /\ UNCHANGED shape
         /\ UNCHANGED wrappers \/ \E t \in Threads : WrapLeaf(t) \/ FreeEntry(t)
         /\ \/ UNCHANGED handles \/ ForeignAlloc \/ ForeignFree
            \/ \E t \in Threads : \/ AllocThisHandle(t) \/ CreateShadows(t)
                                  \/ FreeEntry(t) \/ FreeThisHandle(t)
         /\ UNCHANGED thisHandle \/ \E t \in Threads : AllocThisHandle(t) \/ FreeThisHandle(t)
         /\ UNCHANGED tables \/ \E t \in Threads : Publish(t) \/ WrapLeaf(t)
         /\ UNCHANGED ccw \/ \E t \in Threads : Publish(t) \/ ExchangeTable(t)
         /\ UNCHANGED <<blocks, guidPtr>> \/ \E t \in Threads : BuildGuids(t) \/ FreeGuids(t)
         /\ UNCHANGED guids \/ \E t \in Threads : PublishGuids(t)
         /\ UNCHANGED returned \/ \E t \in Threads : Lookup(t)
<1> USE DEF CallInv
<1> DEFINE Kept == UNCHANGED <<shape, wrappers, handles, thisHandle, tables, ccw, blocks, guidPtr,
                               guids, returned>>
<1>1. ASSUME NEW t \in Threads,
             \/ Entries(t) \/ Find(t) \/ PassTable(t) \/ CheckThisHandle(t)
             \/ InitializationThrows(t) \/ FindReturns(t) \/ ReturnFrom(t)
      PROVE  Kept
  <2>1. UNCHANGED <<shape, object, heap, returned>>
    BY <1>1 DEF Entries, Marshal, QueryInterface, Dispose, Finalize, GetIids, Enter, Find,
       PassTable, CheckThisHandle, InitializationThrows, FindReturns, ReturnFrom, environment
  <2>2. QED
    BY <2>1 DEF object, heap
<1>2. ASSUME NEW t \in Threads,
             \/ AddRef(t) \/ SetDisposed(t) \/ ReleaseOwned(t)
             \/ \E r \in References : Release(t, r)
      PROVE  Kept
  BY <1>2 DEF AddRef, SetDisposed, ReleaseOwned, Release, Decrement, heap, environment
<1>3. ASSUME Drop \/ (\E t \in Threads, r \in References : Give(t, r)) \/ UNCHANGED vars
      PROVE  Kept
  BY <1>3 DEF Drop, Give, vars, environment, object, heap
<1>4. ASSUME NEW t \in Threads, Publish(t)
      PROVE  UNCHANGED <<shape, wrappers, handles, thisHandle, blocks, guidPtr, guids, returned>>
  BY <1>4 DEF Publish, environment
<1>5. ASSUME NEW t \in Threads, AllocThisHandle(t)
      PROVE  UNCHANGED <<shape, wrappers, tables, ccw, blocks, guidPtr, guids, returned>>
  BY <1>5 DEF AllocThisHandle, environment
<1>6. ASSUME NEW t \in Threads, CreateShadows(t)
      PROVE  UNCHANGED <<shape, wrappers, thisHandle, tables, ccw,
                         blocks, guidPtr, guids, returned>>
  BY <1>6 DEF CreateShadows, environment, object
<1>7. ASSUME NEW t \in Threads, WrapLeaf(t)
      PROVE  UNCHANGED <<shape, handles, thisHandle, ccw, blocks, guidPtr, guids, returned>>
  BY <1>7 DEF WrapLeaf, environment, object
<1>8. ASSUME NEW t \in Threads, Lookup(t)
      PROVE  UNCHANGED <<shape, wrappers, handles, thisHandle, tables, ccw, blocks, guidPtr, guids>>
  BY <1>8 DEF Lookup, environment, object, heap
<1>9. ASSUME NEW t \in Threads, ExchangeTable(t)
      PROVE  UNCHANGED <<shape, wrappers, handles, thisHandle, tables,
                         blocks, guidPtr, guids, returned>>
  BY <1>9 DEF ExchangeTable, environment, heap
<1>10. ASSUME NEW t \in Threads, FreeEntry(t)
       PROVE  UNCHANGED <<shape, thisHandle, tables, ccw, blocks, guidPtr, guids, returned>>
  BY <1>10 DEF FreeEntry, environment, object
<1>11. ASSUME NEW t \in Threads, FreeGuids(t)
       PROVE  UNCHANGED <<shape, wrappers, handles, thisHandle, tables, ccw, guids, returned>>
  BY <1>11 DEF FreeGuids, environment
<1>12. ASSUME NEW t \in Threads, FreeThisHandle(t)
       PROVE  UNCHANGED <<shape, wrappers, tables, ccw, blocks, guidPtr, guids, returned>>
  BY <1>12 DEF FreeThisHandle, environment
<1>13. ASSUME NEW t \in Threads, BuildGuids(t)
       PROVE  UNCHANGED <<shape, wrappers, handles, thisHandle, tables, ccw, guids, returned>>
  BY <1>13 DEF BuildGuids, environment
<1>14. ASSUME NEW t \in Threads, PublishGuids(t)
       PROVE  UNCHANGED <<shape, wrappers, handles, thisHandle, tables, ccw,
                          blocks, guidPtr, returned>>
  BY <1>14 DEF PublishGuids, environment, heap
<1>15. ASSUME ForeignAlloc \/ ForeignFree
       PROVE  UNCHANGED <<shape, wrappers, thisHandle, tables, ccw,
                          blocks, guidPtr, guids, returned>>
  BY <1>15 DEF ForeignAlloc, ForeignFree, environment, object
<1>16. QED
  BY <1>1, <1>2, <1>3, <1>4, <1>5, <1>6, <1>7, <1>8, <1>9, <1>10, <1>11, <1>12, <1>13, <1>14,
     <1>15 DEF Next, Entries

LEMMA ExchangeSteps ==
  ASSUME CallInv, NEW t \in Threads, ExchangeTable(t)
  PROVE  /\ Moves(t) /\ pc[t] = "exchange" /\ pc'[t] = "free" /\ Intact
         /\ local'[t].freed = {}
         /\ local'[t].entries = IF ccw = 0 THEN NoEntries ELSE tables[ccw]
         /\ UNCHANGED <<environment, heap, returned, thisHandle, guidPtr, guids>> /\ ccw' = 0
<1> USE DEF CallInv
<1>1. Moves(t) /\ pc[t] = "exchange"
  BY DisposalKeepsCallInv DEF ExchangeTable, At
<1>2. pc \in [Threads -> Labels] /\ local \in [Threads -> Local]
  BY DEF HeapType
<1>3. /\ pc'[t] = "free" /\ ccw' = 0
      /\ UNCHANGED <<environment, heap, returned, thisHandle, guidPtr, guids>>
  BY <1>2 DEF ExchangeTable, Goto
<1>4. local[t].freed = {}
  BY <1>1 DEF CallInvOf
<1>5. /\ local'[t].freed = {}
      /\ local'[t].entries = IF ccw = 0 THEN NoEntries ELSE tables[ccw]
  BY <1>2, <1>4 DEF ExchangeTable, Local
<1>6. QED
  BY <1>1, <1>3, <1>5 DEF Intact, At

(* While one thread frees, no call uses the object and no other frees.     *)
LEMMA FreeingAlone ==
  ASSUME LifeInv, NEW t \in Threads, Disposing(t)
  PROVE  /\ \A u \in Threads : Disposing(u) => u = t
         /\ \A u \in Threads : local[u].call \notin {"marshal", "query", "guids"}
         /\ \A u \in Threads : pc[u] \notin Finding \cup {"guids", "publishGuids"}
<1>1. \A u \in Threads : local[u].call \notin {"marshal", "query", "guids"}
  BY CallersIntact
<1>2. \A u \in Threads : pc[u] \notin Finding \cup {"guids", "publishGuids"}
  BY <1>1, CallAt DEF LifeInv
<1>3. QED
  BY <1>1, <1>2 DEF LifeInv, CountInv

-----------------------------------------------------------------------------
(* Freeing the wrappers.                                                   *)

LEMMA NextFreeInv ==
  ASSUME SoundInv, FreeInv, [Next]_vars
  PROVE  FreeInv'
<1> USE DEF SoundInv
<1>1. LifeInv /\ CallInv /\ UNCHANGED shape
  BY Changes DEF LifeInv
<1>2. DOMAIN wrappers = 1..Len(wrappers) /\ DOMAIN wrappers' = 1..Len(wrappers')
  <2>1. CallInv'
    BY <1>1, NextCallInv
  <2>2. QED
    BY <1>1, <2>1 DEF CallInv, HeapType
<1>3. ASSUME NEW t \in Threads, WrapLeaf(t)
      PROVE  FreeInv'
  <2>1. /\ Moves(t) /\ pc[t] = "wrap" /\ pc'[t] # "free" /\ Len(wrappers) \in Nat
        /\ Len(wrappers') = Len(wrappers) + 1
        /\ \A w \in 1..Len(wrappers) : wrappers'[w] = wrappers[w]
        /\ wrappers'[Len(wrappers')].state = "live"
    BY <1>1, <1>3, WrapSteps
  <2>2. \A u \in Threads : pc[u] # "free"
    <3>1. \A u \in Threads : pc[u] = "free" => pc[t] \notin Finding
      BY <1>1, FreeingAlone DEF Disposing
    <3>2. QED
      BY <2>1, <3>1 DEF Finding
  <2>3. \A u \in Threads : pc'[u] # "free"
    BY <2>1, <2>2 DEF Moves
  <2>4. \A w \in 1..Len(wrappers') : w \in 1..Len(wrappers) \/ w = Len(wrappers')
    BY <2>1
  <2>5. QED
    BY <1>2, <2>1, <2>3, <2>4 DEF FreeInv, NoDoubleFree, At
<1>4. ASSUME NEW t \in Threads, FreeEntry(t)
      PROVE  FreeInv'
  <2>1. PICK w \in 1..Len(wrappers) :
          /\ local'[t].freed = local[t].freed \cup {w}
          /\ \A v \in 1..Len(wrappers) \ {w} : wrappers'[v] = wrappers[v]
          /\ w \in local[t].freed => UNCHANGED <<wrappers, handles>>
          /\ w \notin local[t].freed =>
               wrappers'[w].state = IF wrappers[w].state = "live" THEN "freed" ELSE "corrupt"
    BY <1>1, <1>4, FreeSteps
  <2>2. /\ Moves(t) /\ pc[t] = "free" /\ UNCHANGED pc /\ Len(wrappers') = Len(wrappers)
    BY <1>1, <1>4, FreeSteps
  <2>3. \A u \in Threads : pc'[u] = "free" => u = t
    BY <1>1, <2>2, FreeingAlone DEF Disposing
  <2>4. \A v \in 1..Len(wrappers) : wrappers[v].state = "live" \/ v \in local[t].freed
    BY <2>2 DEF FreeInv, At
  <2>5. \A v \in 1..Len(wrappers) : /\ wrappers'[v].state # "corrupt"
                                    /\ wrappers'[v].state = "live" \/ v \in local'[t].freed
    BY <1>2, <2>1, <2>4 DEF FreeInv, NoDoubleFree
  <2>6. QED
    BY <1>2, <2>2, <2>3, <2>5 DEF FreeInv, NoDoubleFree, At
<1>5. CASE UNCHANGED wrappers /\ ~\E t \in Threads : FreeEntry(t)
  <2>1. ASSUME NEW u \in Threads, pc'[u] = "free", NEW w \in 1..Len(wrappers)
        PROVE  wrappers[w].state = "live" \/ w \in local'[u].freed
    <3>1. CASE Still(u)
      BY <2>1, <3>1 DEF FreeInv, At, Still
    <3>2. CASE ExchangeTable(u)
      BY <1>1, <3>2, ExchangeSteps DEF HeapInv
    <3>3. QED
      BY <1>1, <1>5, <2>1, <3>1, <3>2, Arrivals
  <2>2. QED
    BY <1>2, <1>5, <2>1 DEF FreeInv, NoDoubleFree, At
<1>6. QED
  BY <1>1, <1>3, <1>4, <1>5, Changes

(* Two wrappers of a class with a shadow of its own lead through different *)
(* slots, so that freeing one leaves the other's.                          *)
LEMMA NextSeparateInv ==
  ASSUME SeparateShadows, SoundInv, SeparateInv, [Next]_vars
  PROVE  SeparateInv'
<1> USE DEF SoundInv
<1>1. LifeInv /\ CallInv /\ UNCHANGED shape /\ Kind' = Kind
  BY Changes, SameClass DEF LifeInv
<1> DEFINE Apart ==
             /\ \A v, w \in 1..Len(wrappers) : wrappers[v].handle = wrappers[w].handle => v = w
             /\ \A t \in Threads : pc[t] = "wrap" =>
                  \A w \in 1..Len(wrappers) : wrappers[w].handle # local[t].handle
             /\ \A t, u \in Threads : pc[t] = "wrap" /\ pc[u] = "wrap"
                  /\ local[t].handle = local[u].handle => t = u
<1>2. \A t \in Threads : pc[t] \in Finding => Intact
  <2>1. \A t \in Threads : pc[t] \in Finding => local[t].call \in {"marshal", "query"}
    BY <1>1, CallAt
  <2>2. QED
    BY <1>1, <2>1, CallersIntact
<1>3. ASSUME shape.shadows = 1
      PROVE  Apart'
  <2>1. Apart
    BY <1>3 DEF SeparateInv, At
  <2>2. ASSUME NEW t \in Threads, WrapLeaf(t)
        PROVE  Apart'
    <3>1. /\ Moves(t) /\ pc[t] = "wrap" /\ UNCHANGED shape
          /\ pc'[t] = IF local[t].leaf + 1 = Len(Leaves) THEN "lookup" ELSE "wrap"
          /\ local[t].leaf + 1 \in 1..Len(Leaves)
          /\ Len(wrappers) \in Nat /\ Len(wrappers') = Len(wrappers) + 1
          /\ \A w \in 1..Len(wrappers) : wrappers'[w] = wrappers[w]
          /\ wrappers'[Len(wrappers')].handle = local[t].handle
      BY <1>1, <2>2, WrapSteps
    <3>2. Len(Leaves) \in Nat /\ Len(Leaves) <= 1
      BY <1>1, <1>3, ShapeType DEF CallInv, HeapType, SeparateShadows, Leaves
    <3>3. pc'[t] = "lookup"
      BY <3>1, <3>2
    <3>4. \A w \in 1..Len(wrappers') : w \in 1..Len(wrappers) \/ w = Len(wrappers')
      BY <3>1
    <3>5. \A w \in 1..Len(wrappers) : wrappers[w].handle # local[t].handle
      BY <2>1, <3>1
    <3>6. \A u \in Threads : pc'[u] = "wrap" =>
            u # t /\ pc[u] = "wrap" /\ local'[u] = local[u]
      BY <3>1, <3>3 DEF Moves
    <3>7. \A v, w \in 1..Len(wrappers') : wrappers'[v].handle = wrappers'[w].handle => v = w
      BY <2>1, <3>1, <3>4, <3>5
    <3>8. \A u \in Threads : pc'[u] = "wrap" =>
            \A w \in 1..Len(wrappers') : wrappers'[w].handle # local'[u].handle
      BY <2>1, <3>1, <3>4, <3>6
    <3>9. QED
      BY <2>1, <3>6, <3>7, <3>8
  <2>3. ASSUME NEW t \in Threads, CreateShadows(t)
        PROVE  Apart'
    <3>1. pc[t] = "shadows" /\ Intact
      BY <1>2, <2>3 DEF CreateShadows, At, Finding
    <3>2. /\ Moves(t) /\ UNCHANGED wrappers
          /\ handles[local'[t].handle] = "free"
      BY <1>1, <1>3, <2>3, <3>1, ShadowSteps
    <3>3. Kind # "free"
      BY KindIsOurs
    <3>4. \A w \in 1..Len(wrappers) : wrappers[w].handle # local'[t].handle
      BY <3>1, <3>2, <3>3 DEF HeapInv
    <3>5. \A u \in Threads \ {t} : pc'[u] = "wrap" =>
            /\ pc[u] = "wrap" /\ local'[u] = local[u]
            /\ local'[u].handle # local'[t].handle
      BY <3>1, <3>2, <3>3 DEF HeapInv, Moves, At
    <3>6. QED
      BY <2>1, <3>2, <3>4, <3>5
  <2>4. CASE /\ ~\E t \in Threads : WrapLeaf(t) \/ CreateShadows(t)
    <3>1. /\ Len(wrappers') = Len(wrappers)
          /\ \A w \in 1..Len(wrappers) : wrappers'[w].handle = wrappers[w].handle
      <4>1. UNCHANGED wrappers \/ \E t \in Threads : FreeEntry(t)
        BY <1>1, <2>4, Changes
      <4>2. QED
        BY <1>1, <4>1, FreeSteps
    <3>2. \A u \in Threads : pc'[u] = "wrap" => pc[u] = "wrap" /\ local'[u] = local[u]
      BY <1>1, <2>4, Arrivals DEF Still
    <3>3. QED
      BY <2>1, <3>1, <3>2
  <2>5. QED
    BY <2>2, <2>3, <2>4
<1>4. ASSUME NEW u \in Threads, pc'[u] = "free"
      PROVE  \A w \in 1..Len(wrappers') \ local'[u].freed : handles'[wrappers'[w].handle] = Kind
  <2>1. CASE ExchangeTable(u)
    <3>1. Intact /\ UNCHANGED <<wrappers, handles>>
      BY <1>1, <2>1, ExchangeSteps DEF heap
    <3>2. QED
      BY <3>1 DEF HeapInv
  <2>2. CASE FreeEntry(u)
    <3>1. PICK w \in 1..Len(wrappers) :
            /\ local'[u].freed = local[u].freed \cup {w}
            /\ w \in local[u].freed => UNCHANGED <<wrappers, handles>>
            /\ w \notin local[u].freed =>
                 handles' = IF handles[wrappers[w].handle] \in {"shadow", "foreign"}
                            THEN [handles EXCEPT ![wrappers[w].handle] = "free"] ELSE handles
      BY <1>1, <2>2, FreeSteps
    <3>2. /\ pc[u] = "free" /\ Len(wrappers') = Len(wrappers)
          /\ \A v \in 1..Len(wrappers) : wrappers'[v].handle = wrappers[v].handle
      BY <1>1, <2>2, FreeSteps
    <3>3. \A v \in 1..Len(wrappers) \ local[u].freed : handles[wrappers[v].handle] = Kind
      BY <3>2 DEF SeparateInv, At
    <3>4. ASSUME NEW v \in 1..Len(wrappers) \ local'[u].freed
          PROVE  handles'[wrappers[v].handle] = Kind
      <4>1. v \notin local[u].freed /\ v # w /\ handles[wrappers[v].handle] = Kind
        BY <3>1, <3>3
      <4>2. CASE w \in local[u].freed \/ Kind # "shadow"
        BY <3>1, <3>3, <4>1, <4>2, KindIsOurs
      <4>3. CASE w \notin local[u].freed /\ Kind = "shadow"
        <5>1. shape.shadows = 1
          BY <4>3 DEF Kind
        <5>2. wrappers[v].handle # wrappers[w].handle
          BY <4>1, <5>1 DEF SeparateInv
        <5>3. handles \in [Slots -> {"free", "callback", "shadow", "multi", "foreign"}]
          BY <1>1 DEF CallInv, HeapType
        <5>4. wrappers[v].handle \in Slots
          BY DEF HandleInv
        <5>5. QED
          BY <3>1, <4>1, <4>3, <5>2, <5>3, <5>4
      <4>4. QED
        BY <4>2, <4>3
    <3>5. QED
      BY <3>2, <3>4
  <2>3. CASE Still(u)
    <3>1. pc[u] = "free" /\ local'[u] = local[u]
      BY <1>4, <2>3 DEF Still
    <3>2. \A w \in 1..Len(wrappers) \ local[u].freed : handles[wrappers[w].handle] = Kind
      BY <3>1 DEF SeparateInv, At
    <3>3. \A t \in Threads : t # u => pc[t] \notin Finding \cup Freeing
      BY <1>1, <3>1, FreeingAlone DEF Disposing, Freeing
    <3>4. ~\E t \in Threads : \/ AllocThisHandle(t) \/ CreateShadows(t) \/ WrapLeaf(t)
                              \/ FreeThisHandle(t)
      BY <3>1, <3>3 DEF AllocThisHandle, CreateShadows, WrapLeaf, FreeThisHandle, At,
         Finding, Freeing
    <3>5. CASE \E t \in Threads : FreeEntry(t)
      <4>1. FreeEntry(u)
        BY <1>1, <3>3, <3>5, FreeSteps DEF Freeing
      <4>2. QED
        BY <2>2, <4>1
    <3>6. CASE ~\E t \in Threads : FreeEntry(t)
      <4>1. /\ UNCHANGED wrappers
            /\ UNCHANGED handles \/ ForeignAlloc \/ ForeignFree
        BY <1>1, <3>4, <3>6, Changes
      <4>2. \A s \in Slots : handles[s] = Kind => handles'[s] = Kind
        BY <1>1, <4>1, ForeignSteps, KindIsOurs
      <4>3. QED
        BY <3>1, <3>2, <4>1, <4>2 DEF HandleInv
    <3>7. QED
      BY <3>5, <3>6
  <2>4. QED
    BY <1>1, <1>4, <2>1, <2>2, <2>3, Arrivals
<1>5. QED
  BY <1>1, <1>3, <1>4 DEF SeparateInv, At

(* Freeing the wrappers of an object leaves alone the slots that other     *)
(* objects use: a shadow's handle is freed through one wrapper only        *)
(* (CppObjectCallableWrapper.Free).                                        *)
THEOREM ForeignHandles ==
  OutlivesNative /\ SeparateShadows => (Spec => ForeignHandleSurvives)
<1> SUFFICES ASSUME OutlivesNative, SeparateShadows
             PROVE  Spec => ForeignHandleSurvives
  OBVIOUS
<1>1. Init => SeparateInv
  <2> SUFFICES ASSUME Init
               PROVE  SeparateInv
    OBVIOUS
  <2>1. 1..Len(wrappers) = {} /\ \A t \in Threads : pc[t] = "idle"
    BY DEF Init
  <2>2. QED
    BY <2>1 DEF SeparateInv, At
<1>2. SoundInv /\ SeparateInv /\ [Next]_vars => SeparateInv'
  BY NextSeparateInv
<1>3. SoundInv /\ SeparateInv /\ [Next]_vars =>
        [\A s \in Slots : (\E t \in Threads : FreeEntry(t)) /\ handles[s] = "foreign"
                          => handles'[s] = "foreign"]_vars
  <2> SUFFICES ASSUME SoundInv, SeparateInv,
                      NEW s \in Slots, NEW t \in Threads, FreeEntry(t), handles[s] = "foreign"
               PROVE  handles'[s] = "foreign"
    OBVIOUS
  <2> USE DEF SoundInv
  <2>1. CallInv
    BY DEF LifeInv
  <2>2. PICK w \in 1..Len(wrappers) :
          /\ w \in local[t].freed => UNCHANGED <<wrappers, handles>>
          /\ w \notin local[t].freed =>
               handles' = IF handles[wrappers[w].handle] \in {"shadow", "foreign"}
                          THEN [handles EXCEPT ![wrappers[w].handle] = "free"] ELSE handles
    BY <2>1, FreeSteps
  <2>3. w \notin local[t].freed => handles[wrappers[w].handle] = Kind
    BY <2>1, FreeSteps DEF SeparateInv, At
  <2>4. handles \in [Slots -> {"free", "callback", "shadow", "multi", "foreign"}]
    BY <2>1 DEF CallInv, HeapType
  <2>5. QED
    BY <2>2, <2>3, <2>4, KindIsOurs
<1>4. QED
  BY <1>1, <1>2, <1>3, SoundInvariant, PTL DEF Spec, ForeignHandleSurvives

-----------------------------------------------------------------------------
(* The dictionary.                                                         *)

(* FreeingNotIntact, of the state after a step.                            *)
LEMMA FreedIsNotIntact ==
  (LifeInv => \A t \in Threads : pc[t] \in {"free", "freeThis"} => ~Intact)'
<1>1. LifeInv => \A t \in Threads : pc[t] \in {"free", "freeThis"} => ~Intact
  BY FreeingNotIntact
<1>2. QED
  BY <1>1, PTL

(* Native code gets a reference from no more than AddRef.                  *)
LEMMA HeldSteps ==
  ASSUME CallInv, CallInv', UseInv, [Next]_vars, Held' # {}
  PROVE  Held # {} \/ \E t \in Threads : AddRef(t)
<1>1. CASE UNCHANGED holder
  BY <1>1 DEF Held
<1>2. ASSUME NEW t \in Threads, \/ Quiet(t) \/ Entries(t) \/ ReleaseOwned(t)
                                \/ (Returns(t) /\ ~AddRef(t))
      PROVE  UNCHANGED holder
  BY <1>2, QuietSteps, EntrySteps, ReleaseOwnedKeepsUse, ReturnSteps
<1>3. ASSUME NEW t \in Threads, NEW r \in References, Release(t, r)
      PROVE  Held # {}
  BY <1>3, ThreadAssumption DEF Release, Held
<1>4. CASE Elsewhere
  BY <1>4, ElsewhereKeepsUse
<1>5. CASE UNCHANGED vars
  BY <1>1, <1>5 DEF vars, environment
<1>6. QED
  BY <1>1, <1>2, <1>3, <1>4, <1>5 DEF Next, Quiet, Returns, Entries, Elsewhere

LEMMA NextCallerInv ==
  ASSUME CallInv, CallerInv, [Next]_vars
  PROVE  CallerInv'
<1>1. ASSUME NEW t \in Threads, Moves(t),
             local'[t].call = "marshal" => t \in Marshallers,
             local'[t].call = "guids" => t \in GuidReaders
      PROVE  CallerInv'
  BY <1>1 DEF CallerInv, Busy, Moves
<1>2. ASSUME NEW t \in Threads, Quiet(t)
      PROVE  CallerInv'
  <2>1. Moves(t) /\ local'[t].call = local[t].call
    BY <1>2, QuietSteps
  <2>2. QED
    BY <1>1, <2>1 DEF CallerInv, Busy
<1>3. ASSUME NEW t \in Threads, Returns(t)
      PROVE  CallerInv'
  BY <1>1, <1>3, ReturnSteps
<1>4. ASSUME NEW t \in Threads, Entries(t)
      PROVE  CallerInv'
  <2>1. /\ Moves(t)
        /\ local'[t].call = "marshal" => Marshal(t)
        /\ local'[t].call = "guids" => GetIids(t)
    BY <1>4, EntrySteps DEF Entries
  <2>2. QED
    BY <1>1, <2>1 DEF Marshal, GetIids
<1>5. ASSUME NEW t \in Threads, ReleaseOwned(t) \/ \E r \in References : Release(t, r)
      PROVE  CallerInv'
  <2>1. Moves(t) /\ local'[t].call \in {local[t].call, "release", "none"}
    <3>1. Moves(t)
      BY <1>5, ReferencesKeepCallInv
    <3>2. local \in [Threads -> Local]
      BY DEF CallInv, HeapType
    <3>3. local'[t].call \in {local[t].call, "release", "none"}
      BY <1>5, <3>2 DEF ReleaseOwned, Release, Local
    <3>4. QED
      BY <3>1, <3>3
  <2>2. QED
    BY <1>1, <2>1 DEF CallerInv, Busy
<1>6. CASE UNCHANGED local
  BY <1>6 DEF CallerInv, Busy
<1>7. CASE Elsewhere \/ UNCHANGED vars
  BY <1>6, <1>7 DEF Elsewhere, ForeignAlloc, ForeignFree, Drop, Give, vars
<1>8. QED
  BY <1>2, <1>3, <1>4, <1>5, <1>7 DEF Next, Quiet, Returns, Entries, Elsewhere

(* What the steps that make the dictionary do to it and to their call.     *)
LEMMA TableSteps ==
  ASSUME CallInv, NEW t \in Threads
  PROVE  /\ Find(t) => pc[t] = "find" /\ UNCHANGED <<tables, holder>>
         /\ Publish(t) => /\ pc[t] = "publish" /\ ccw' = Len(tables')
                          /\ Len(tables') = Len(tables) + 1
         /\ PassTable(t) => /\ pc[t] = "assert" /\ UNCHANGED tables
                            /\ local'[t].filling = ccw
                            /\ pc'[t] = IF Leaves = <<>> THEN "lookup" ELSE "thisHandle"
         /\ CheckThisHandle(t) => /\ pc[t] = "thisHandle" /\ UNCHANGED tables
                                  /\ local'[t].filling = local[t].filling
         /\ AllocThisHandle(t) => /\ pc[t] = "allocThis" /\ UNCHANGED tables
                                  /\ local'[t].filling = local[t].filling
         /\ CreateShadows(t) => /\ pc[t] = "shadows" /\ UNCHANGED tables
                                /\ local'[t].filling = local[t].filling
                                /\ local'[t].leaf = local[t].leaf
         /\ WrapLeaf(t) => /\ pc[t] = "wrap" /\ Len(tables') = Len(tables)
                           /\ local'[t].filling = local[t].filling
                           /\ local'[t].leaf = local[t].leaf + 1
<1> USE DEF CallInv
<1>1. /\ pc \in [Threads -> Labels] /\ local \in [Threads -> Local] /\ local[t] \in Local
      /\ Len(tables) \in Nat
  BY HeapLengths DEF HeapType
<1>2. Find(t) => pc[t] = "find" /\ UNCHANGED <<tables, holder>>
  BY DEF Find, At, heap, environment
<1>3. Publish(t) => /\ pc[t] = "publish" /\ ccw' = Len(tables')
                    /\ Len(tables') = Len(tables) + 1
  <2> DEFINE T == [Interfaces -> 0..Len(wrappers)]
  <2>1. tables \in Seq(T) /\ NoEntries \in T
    BY NoLocalsType DEF HeapType
  <2> HIDE DEF T
  <2>2. Len(Append(tables, NoEntries)) = Len(tables) + 1
    BY <2>1
  <2>3. QED
    BY <2>2 DEF Publish, At
<1>4. PassTable(t) => /\ pc[t] = "assert" /\ UNCHANGED tables
                      /\ local'[t].filling = ccw
                      /\ pc'[t] = IF Leaves = <<>> THEN "lookup" ELSE "thisHandle"
  BY <1>1 DEF PassTable, At, Goto, heap, Local
<1>5. /\ CheckThisHandle(t) => /\ pc[t] = "thisHandle" /\ UNCHANGED tables
                               /\ local'[t].filling = local[t].filling
      /\ AllocThisHandle(t) => /\ pc[t] = "allocThis" /\ UNCHANGED tables
                               /\ local'[t].filling = local[t].filling
  BY <1>1 DEF CheckThisHandle, AllocThisHandle, At, Local, heap
<1>6. CreateShadows(t) => /\ pc[t] = "shadows" /\ UNCHANGED tables
                          /\ local'[t].filling = local[t].filling
                          /\ local'[t].leaf = local[t].leaf
  BY <1>1 DEF CreateShadows, At, Local
<1>7. WrapLeaf(t) => /\ pc[t] = "wrap" /\ Len(tables') = Len(tables)
                     /\ local'[t].filling = local[t].filling
                     /\ local'[t].leaf = local[t].leaf + 1
  <2>1. WrapLeaf(t) => /\ pc[t] = "wrap" /\ Len(tables') = Len(tables)
                       /\ local'[t] = [local[t] EXCEPT !.leaf = local[t].leaf + 1]
    BY WrapSteps
  <2>2. QED
    BY <1>1, <2>1 DEF Local
<1>8. QED
  BY <1>2, <1>3, <1>4, <1>5, <1>6, <1>7

LEMMA EmptyLength ==
  ASSUME NEW T, NEW s \in Seq(T)
  PROVE  s = <<>> <=> Len(s) = 0
OBVIOUS

(* One thread makes the dictionary, and nobody looks anything up in it     *)
(* before it is whole.                                                     *)
LEMMA FillingAlone ==
  ASSUME OneMarshaller, SoundInv, CallerInv, TableInv
  PROVE  /\ \A t, u \in Threads : Filling(t) /\ Filling(u) => t = u
         /\ Filled => \A t \in Threads : ~Filling(t)
         /\ tables = <<>> <=> Len(tables) = 0
         /\ Len(tables) \in {0, 1}
         /\ \A t \in Threads : pc[t] \in Finding =>
              Intact /\ ccw = Len(tables) /\ local[t].call \in {"marshal", "query"}
         /\ \A t \in Threads : Find(t) /\ ccw = 0 =>
              tables = <<>> /\ local[t].call = "marshal" /\ Held = {}
         /\ \A t \in Threads : Filling(t) /\ pc[t] # "publish" => Len(tables) = 1
<1> USE DEF SoundInv
<1>1. CallInv /\ UseInv /\ LifeInv
  BY DEF LifeInv
<1>2. \A t, u \in Threads : Filling(t) /\ Filling(u) => t = u
  BY DEF TableInv, CallerInv, Busy, OneMarshaller
<1>3. Len(tables) \in {0, 1} /\ (tables = <<>> <=> Len(tables) = 0)
  <2>1. tables \in Seq([Interfaces -> 0..Len(wrappers)]) /\ Len(tables) \in Nat
    BY <1>1, HeapLengths DEF CallInv, HeapType
  <2>2. tables = <<>> <=> Len(tables) = 0
    BY <2>1, EmptyLength
  <2>3. QED
    BY <2>2 DEF TableInv
<1>4. ASSUME NEW t \in Threads, pc[t] \in Finding
      PROVE  Intact /\ ccw = Len(tables) /\ local[t].call \in {"marshal", "query"}
  BY <1>1, <1>4, CallAt, CallersIntact DEF TableInv
<1>5. ASSUME NEW t \in Threads, Find(t), ccw = 0
      PROVE  tables = <<>> /\ local[t].call = "marshal" /\ Held = {}
  <2>1. ccw = Len(tables) /\ local[t].call \in {"marshal", "query"}
    BY <1>4, <1>5 DEF Find, At, Finding
  <2>2. tables = <<>>
    BY <1>3, <1>5, <2>1
  <2>3. Held = {}
    BY <2>2 DEF TableInv, Filled
  <2>4. local[t].call # "query"
    BY <1>1, <2>3, HeldByAreHeld DEF UseInv
  <2>5. QED
    BY <2>1, <2>2, <2>3, <2>4
<1>6. ASSUME NEW t \in Threads, Filling(t), pc[t] # "publish"
      PROVE  Len(tables) = 1
  BY <1>3, <1>6 DEF TableInv, At
<1>7. QED
  BY <1>2, <1>3, <1>4, <1>5, <1>6 DEF Filled

LEMMA FillingSteps ==
  ASSUME OneMarshaller, SoundInv, CallerInv, TableInv, [Next]_vars, NEW t \in Threads, Filling(t)'
  PROVE  \/ Filling(t) /\ local'[t].call = local[t].call
         \/ Find(t) /\ ccw = 0 /\ pc'[t] = "publish" /\ local'[t].call = local[t].call
<1>1. CallInv
  BY DEF SoundInv, LifeInv
<1>2. CASE Still(t)
  BY <1>2 DEF Filling, Still
<1>3. CASE ~Still(t)
  <2>1. \/ Find(t) /\ ccw = 0 /\ pc'[t] = "publish"
        \/ Publish(t) \/ PassTable(t) \/ CheckThisHandle(t) \/ AllocThisHandle(t)
        \/ CreateShadows(t) \/ WrapLeaf(t)
    BY <1>1, <1>3, Arrivals DEF Filling
  <2>2. local'[t].call = local[t].call
    BY <1>1, <2>1, QuietSteps DEF Quiet
  <2>3. QED
    BY <1>1, <2>1, <2>2, TableSteps DEF Filling
<1>4. QED
  BY <1>2, <1>3

(* Once whole, the dictionary stays as it is.                              *)
LEMMA FilledStays ==
  ASSUME OneMarshaller, SoundInv, CallerInv, TableInv, [Next]_vars, Filled
  PROVE  Filled' /\ UNCHANGED tables
<1>1. CallInv
  BY DEF SoundInv, LifeInv
<1>2. tables # <<>> /\ \A t \in Threads : ~Filling(t)
  BY DEF Filled
<1>3. UNCHANGED tables
  <2>1. \A t \in Threads : ~Publish(t) /\ ~WrapLeaf(t)
    BY <1>1, <1>2, TableSteps DEF Filling
  <2>2. QED
    BY <1>1, <2>1, Changes
<1>4. \A t \in Threads : ~Filling(t)'
  BY <1>2, FillingSteps, FillingAlone
<1>5. QED
  BY <1>2, <1>3, <1>4 DEF Filled

LEMMA NextTableInv ==
  ASSUME OneMarshaller, OutlivesNative, SoundInv, CallerInv, TableInv, [Next]_vars
  PROVE  TableInv'
<1> USE DEF SoundInv
<1>1. CallInv /\ UseInv /\ LifeInv /\ LifeInv' /\ CallInv'
  BY NextDropInv DEF LifeInv
<1>2. ASSUME Held' # {}
      PROVE  Filled
  <2>1. Held # {} \/ \E t \in Threads : pc[t] = "found"
    BY <1>1, <1>2, HeldSteps DEF AddRef, At
  <2>2. QED
    BY <2>1 DEF TableInv
<1>3. /\ Len(tables') \in {0, 1} /\ Len(tables') >= Len(tables)
      /\ Len(tables') = Len(tables) \/ \E t \in Threads : Publish(t)
      /\ tables' = <<>> <=> Len(tables') = 0
  <2>1. tables' \in Seq([Interfaces -> 0..Len(wrappers')])
    BY <1>1 DEF CallInv, HeapType
  <2>2. ASSUME NEW t \in Threads, Publish(t)
        PROVE  Len(tables') = 1 /\ Len(tables) = 0
    <3>1. pc[t] = "publish" /\ Len(tables') = Len(tables) + 1
      BY <1>1, <2>2, TableSteps
    <3>2. tables = <<>>
      BY <3>1 DEF TableInv, Filling, At
    <3>3. QED
      BY <3>1, <3>2
  <2>3. ASSUME NEW t \in Threads, WrapLeaf(t)
        PROVE  Len(tables') = Len(tables)
    BY <1>1, <2>3, TableSteps
  <2>4. Len(tables) \in {0, 1}
    BY FillingAlone
  <2>5. QED
    BY <1>1, <2>1, <2>2, <2>3, <2>4, Changes
<1>4. Intact' => ccw' = Len(tables')
  <2> SUFFICES ASSUME Intact'
               PROVE  ccw' = Len(tables')
    OBVIOUS
  <2>1. ccw = Len(tables)
    BY <1>1, IntactBefore DEF TableInv
  <2>2. \A t \in Threads : ~ExchangeTable(t)
    BY <1>1, ExchangeSteps, FreedIsNotIntact
  <2>3. QED
    BY <1>1, <1>3, <2>1, <2>2, Changes, TableSteps
<1>5. ASSUME NEW t \in Threads, Filling(t)'
      PROVE  /\ local'[t].call = "marshal"
             /\ Held' = {}
             /\ pc'[t] = "publish" <=> tables' = <<>>
             /\ pc'[t] \in {"thisHandle", "allocThis", "shadows", "wrap"} => local'[t].filling = 1
  <2>1. CASE Find(t) /\ ccw = 0 /\ pc'[t] = "publish" /\ local'[t].call = local[t].call
    BY <1>1, <2>1, FillingAlone, TableSteps DEF Held
  <2>2. CASE Filling(t) /\ local'[t].call = local[t].call
    <3>1. local'[t].call = "marshal"
      BY <2>2 DEF TableInv
    <3>2. Held' = {}
      BY <1>2, <2>2 DEF Filled
    <3>3. CASE pc'[t] = "publish"
      <4>1. Still(t)
        BY <1>1, <2>2, <3>3, Arrivals, TableSteps DEF Filling
      <4>2. pc[t] = "publish" /\ tables = <<>>
        BY <2>2, <3>3, <4>1 DEF TableInv, Still, At
      <4>3. \A u \in Threads : ~Publish(u)
        <5> SUFFICES ASSUME NEW u \in Threads, Publish(u)
                     PROVE  FALSE
          OBVIOUS
        <5>1. u = t
          BY <1>1, <2>2, FillingAlone, TableSteps DEF Filling
        <5>2. pc'[t] = "assert"
          BY <1>1, <5>1 DEF Publish, Goto, CallInv, HeapType
        <5>3. QED
          BY <3>3, <5>2
      <4>4. tables' = <<>>
        BY <1>3, <4>2, <4>3
      <4>5. QED
        BY <3>1, <3>2, <3>3, <4>4
    <3>4. CASE pc'[t] # "publish"
      <4>1. tables' # <<>>
        <5>1. CASE pc[t] # "publish"
          BY <1>3, <2>2, <5>1, FillingAlone
        <5>2. CASE pc[t] = "publish"
          <6>1. Publish(t)
            BY <1>1, <1>5, <3>4, <5>2, Arrivals, TableSteps DEF Filling, Still
          <6>2. QED
            BY <1>1, <1>3, <6>1, FillingAlone, TableSteps
        <5>3. QED
          BY <5>1, <5>2
      <4>2. ASSUME pc'[t] \in {"thisHandle", "allocThis", "shadows", "wrap"}
            PROVE  local'[t].filling = 1
        <5>1. CASE Still(t)
          BY <2>2, <4>2, <5>1 DEF Still, TableInv
        <5>2. CASE PassTable(t)
          <6>1. pc[t] = "assert" /\ local'[t].filling = ccw
            BY <1>1, <5>2, TableSteps
          <6>2. ccw = 1
            BY <2>2, <6>1, FillingAlone DEF Finding
          <6>3. QED
            BY <6>1, <6>2
        <5>3. CASE \/ CheckThisHandle(t) \/ AllocThisHandle(t) \/ CreateShadows(t) \/ WrapLeaf(t)
          <6>1. /\ pc[t] \in {"thisHandle", "allocThis", "shadows", "wrap"}
                /\ local'[t].filling = local[t].filling
            BY <1>1, <5>3, TableSteps
          <6>2. QED
            BY <2>2, <6>1 DEF TableInv
        <5>4. QED
          BY <1>1, <4>2, <5>1, <5>2, <5>3, Arrivals
      <4>3. QED
        BY <3>1, <3>2, <3>4, <4>1, <4>2
    <3>5. QED
      BY <3>3, <3>4
  <2>3. QED
    BY <1>5, <2>1, <2>2, FillingSteps
<1>6. ASSUME NEW t \in Threads, pc'[t] \in {"lookup", "found"}
      PROVE  Filled'
  <2>1. CASE Still(t) \/ Lookup(t)
    <3>1. pc[t] \in {"lookup", "found"}
      BY <1>6, <2>1 DEF Still, Lookup, At
    <3>2. QED
      BY <3>1, FilledStays DEF TableInv
  <2>2. CASE Find(t) /\ ccw # 0
    <3>1. pc[t] = "find" /\ Len(tables) = 1
      BY <1>1, <2>2, TableSteps, FillingAlone DEF Finding
    <3>2. ASSUME NEW u \in Threads, Filling(u)
          PROVE  FALSE
      <4>1. local[u].call = "marshal" /\ Held = {} /\ u # t
        BY <3>1, <3>2 DEF TableInv, Filling
      <4>2. local[t].call = "marshal"
        BY <1>1, <3>1, <4>1, FillingAlone, HeldByAreHeld DEF UseInv, Finding
      <4>3. QED
        BY <4>1, <4>2 DEF CallerInv, Busy, OneMarshaller
    <3>3. Filled
      BY <3>1, <3>2, FillingAlone DEF Filled
    <3>4. QED
      BY <3>3, FilledStays
  <2>3. CASE PassTable(t) \/ WrapLeaf(t)
    <3>1. Filling(t) /\ pc[t] # "publish" /\ Len(tables) = 1
      BY <1>1, <2>3, TableSteps, FillingAlone DEF Filling
    <3>2. tables' # <<>>
      BY <1>3, <3>1
    <3>3. ASSUME NEW u \in Threads, Filling(u)'
          PROVE  FALSE
      <4>1. u # t
        BY <1>6, <3>3 DEF Filling
      <4>2. ~Filling(u)
        BY <3>1, <4>1, FillingAlone
      <4>3. tables = <<>>
        BY <3>3, <4>2, FillingSteps, FillingAlone
      <4>4. QED
        BY <3>1, <4>3, FillingAlone
    <3>4. QED
      BY <3>2, <3>3 DEF Filled
  <2>4. QED
    BY <1>1, <1>6, <2>1, <2>2, <2>3, Arrivals
<1>7. Held' # {} => Filled'
  BY <1>2, FilledStays
<1>8. QED
  BY <1>3, <1>4, <1>5, <1>6, <1>7 DEF TableInv, At

LEMMA OneTable ==
  ASSUME TableInv, NEW n \in 1..Len(tables)
  PROVE  n = 1
<1>1. Len(tables) = 0 \/ Len(tables) = 1
  BY DEF TableInv
<1>2. CASE Len(tables) = 0
  BY <1>2
<1>3. CASE Len(tables) = 1
  BY <1>3
<1>4. QED
  BY <1>1, <1>2, <1>3

LEMMA LookupSteps ==
  ASSUME CallInv, NEW t \in Threads, Lookup(t)
  PROVE  /\ pc[t] = "lookup" /\ UNCHANGED tables
         /\ local[t].table \in 1..Len(tables)
         /\ \E i \in Supported :
              /\ local'[t].pointer = tables[local[t].table][i]
              /\ returned' = [returned EXCEPT ![i] =
                    returned[i] \cup ({tables[local[t].table][i]} \ {0})]
<1> USE DEF CallInv
<1>1. /\ local \in [Threads -> Local] /\ local[t] \in Local /\ Len(tables) \in Nat
  BY HeapLengths DEF HeapType
<1>2. pc[t] = "lookup" /\ UNCHANGED tables
  BY DEF Lookup, At, heap
<1>3. PICK i \in Supported : local[t].want = {i}
  BY <1>2 DEF CallInvOf, Finding
<1>4. (CHOOSE j \in local[t].want : TRUE) = i
  BY <1>3
<1>5. local[t].table \in 1..Len(tables)
  BY <1>1, <1>2 DEF CallInvOf, Local
<1>6. /\ local' = [local EXCEPT ![t].pointer = tables[local[t].table][i]]
      /\ returned' = [returned EXCEPT ![i] =
            returned[i] \cup ({tables[local[t].table][i]} \ {0})]
  BY <1>4 DEF Lookup
<1>7. local'[t].pointer = tables[local[t].table][i]
  BY <1>1, <1>6 DEF Local
<1>8. QED
  BY <1>2, <1>5, <1>6, <1>7

LEMMA NextIdentityInv ==
  ASSUME OneMarshaller, SoundInv, CallerInv, TableInv, IdentityInv, [Next]_vars
  PROVE  IdentityInv'
<1>1. CallInv
  BY DEF SoundInv, LifeInv
<1> SUFFICES ASSUME NEW j \in Interfaces, returned'[j] # {}
             PROVE  Filled' /\ returned'[j] = {tables'[1][j]}
  BY DEF IdentityInv
<1>2. CASE UNCHANGED returned
  BY <1>2, FilledStays DEF IdentityInv
<1>3. ASSUME NEW t \in Threads, Lookup(t)
      PROVE  Filled' /\ returned'[j] = {tables'[1][j]}
  <2>1. pc[t] = "lookup" /\ local[t].table \in 1..Len(tables)
    BY <1>1, <1>3, LookupSteps
  <2>2. PICK i \in Supported :
          returned' = [returned EXCEPT ![i] =
             returned[i] \cup ({tables[local[t].table][i]} \ {0})]
    BY <1>1, <1>3, LookupSteps
  <2>3. Filled /\ Filled' /\ UNCHANGED tables
    BY <2>1, FilledStays DEF TableInv
  <2>4. local[t].table = 1
    BY <2>1, OneTable
  <2>5. returned[j] = {} \/ returned[j] = {tables[1][j]}
    BY DEF IdentityInv
  <2>6. returned \in [Interfaces -> SUBSET (1..Len(wrappers))]
    BY <1>1 DEF CallInv, HeapType
  <2>7. returned'[j] \in {returned[j], returned[j] \cup ({tables[1][j]} \ {0})}
    BY <2>2, <2>4, <2>6
  <2>8. returned'[j] = {tables[1][j]}
    BY <2>5, <2>7
  <2>9. QED
    BY <2>3, <2>8
<1>4. QED
  BY <1>1, <1>2, <1>3, Changes

(* Unless something throws, the dictionary is whole when the last leaf is  *)
(* done.                                                                   *)
LEMMA NothingThrows ==
  ASSUME ~AllowFailure, TableInv, NEW t \in Threads
  PROVE  ~InitializationThrows(t)
<1>1. At(t, "wrap") => local[t].filling = 1
  BY DEF TableInv, Filling, At
<1>2. QED
  BY <1>1 DEF InitializationThrows

LEMMA FilledBegins ==
  ASSUME ~AllowFailure, CallInv, TableInv, [Next]_vars, ~Filled, Filled'
  PROVE  \E t \in Threads : \/ PassTable(t) /\ Leaves = <<>>
                            \/ WrapLeaf(t) /\ local[t].leaf + 1 = Len(Leaves)
<1>1. PICK t \in Threads : (Filling(t) /\ ~Filling(t)') \/ Publish(t)
  BY Changes, TableSteps DEF Filled, Filling
<1>2. Publish(t) => pc'[t] = "assert"
  BY DEF Publish, Goto, CallInv, HeapType
<1>3. Filling(t) /\ ~Filling(t)'
  BY <1>1, <1>2 DEF Filled, Filling
<1>4. ~Still(t)
  BY <1>3 DEF Still, Filling
<1>5. \/ PassTable(t) \/ WrapLeaf(t)
      \/ Publish(t) \/ CheckThisHandle(t) \/ AllocThisHandle(t) \/ CreateShadows(t)
  BY <1>3, <1>4, Departures, NothingThrows DEF Filling
<1>6. pc \in [Threads -> Labels]
  BY DEF CallInv, HeapType
<1>7. PassTable(t) \/ WrapLeaf(t)
  BY <1>2, <1>3, <1>5, <1>6 DEF Filling, CheckThisHandle, AllocThisHandle, CreateShadows, Goto
<1>8. QED
  BY <1>3, <1>7, TableSteps, WrapSteps DEF Filling

(* Unless something throws, each leaf is entered under the interfaces it   *)
(* inherits as well, before anybody looks one up.                          *)
LEMMA NextAnswerInv ==
  ASSUME OneMarshaller, ~AllowFailure, SoundInv, CallerInv, TableInv, AnswerInv, [Next]_vars
  PROVE  AnswerInv'
<1>1. CallInv /\ CallInv'
  BY NextCallInv DEF SoundInv, LifeInv
<1>2. UNCHANGED shape /\ Leaves' = Leaves
  BY <1>1, Changes, SameClass
<1>3. /\ Len(Leaves) \in Nat /\ DOMAIN Leaves = 1..Len(Leaves)
      /\ \A l \in 1..Len(Leaves) : /\ Leaves[l].guid \in Interfaces
                                   /\ Leaves[l].inherits \subseteq Interfaces
  <2>1. shape \in Shapes
    BY <1>1 DEF CallInv, HeapType
  <2>2. Leaves \in Seq([guid : Interfaces, inherits : SUBSET Interfaces])
    BY <2>1, ShapeType
  <2>3. /\ Supported \subseteq Interfaces
        /\ \A l \in 1..Len(Leaves) : /\ Leaves[l].guid \in Supported
                                     /\ Leaves[l].inherits \subseteq Supported
    BY <2>1, ShapeType
  <2>4. QED
    BY <2>2, <2>3
<1>4. ASSUME NEW t \in Threads, WrapLeaf(t)
      PROVE  \A l \in 1..local[t].leaf + 1 : Entered(l)'
  <2>1. /\ pc[t] = "wrap" /\ local[t].leaf + 1 \in 1..Len(Leaves)
        /\ Len(wrappers) \in Nat /\ Len(wrappers') = Len(wrappers) + 1
        /\ \A i \in Interfaces : tables'[local[t].filling][i] =
             IF \/ i = Leaves[local[t].leaf + 1].guid
                \/ /\ i \in Leaves[local[t].leaf + 1].inherits
                   /\ tables[local[t].filling][i] = 0
             THEN Len(wrappers') ELSE tables[local[t].filling][i]
    BY <1>1, <1>4, WrapSteps
  <2>2. local[t].filling = 1
    BY <2>1 DEF TableInv, Filling
  <2>3. local[t].leaf \in Nat
    BY <1>1 DEF CallInv, HeapType, Local
  <2>4. \A i \in Interfaces : tables[1][i] # 0 => tables'[1][i] # 0
    BY <2>1, <2>2
  <2>5. \A l \in 1..local[t].leaf : Entered(l)
    BY <2>1 DEF AnswerInv, At
  <2>6. \A l \in 1..local[t].leaf : Entered(l)'
    BY <1>2, <1>3, <2>1, <2>3, <2>4, <2>5 DEF Entered
  <2> DEFINE last == local[t].leaf + 1
  <2>7. /\ tables'[1][Leaves[last].guid] # 0
        /\ \A i \in Leaves[last].inherits : tables'[1][i] # 0
    BY <1>3, <2>1, <2>2
  <2>8. ASSUME NEW l, l = last
        PROVE  Entered(l)'
    BY <1>2, <2>7, <2>8 DEF Entered
  <2>9. \A l \in 1..local[t].leaf + 1 : l \in 1..local[t].leaf \/ l = last
    BY <2>3
  <2> HIDE DEF last
  <2>10. QED
    BY <2>6, <2>8, <2>9
<1>5. ASSUME NEW t \in Threads, pc'[t] = "wrap"
      PROVE  \A l \in 1..local'[t].leaf : Entered(l)'
  <2>1. CASE Still(t)
    <3>1. pc[t] = "wrap" /\ local'[t] = local[t]
      BY <1>5, <2>1 DEF Still
    <3>2. \A u \in Threads : ~Publish(u)
      <4>1. \A u \in Threads : Publish(u) => Filling(u) /\ Filling(t) /\ u # t
        BY <1>1, <3>1, TableSteps DEF Filling
      <4>2. QED
        BY <4>1, FillingAlone
    <3>3. \A u \in Threads : ~WrapLeaf(u)
      <4>1. \A u \in Threads : WrapLeaf(u) => Filling(u) /\ Filling(t)
        BY <1>1, <3>1, TableSteps DEF Filling
      <4>2. local[t].leaf \in Nat
        BY <1>1 DEF CallInv, HeapType, Local
      <4>3. WrapLeaf(t) => local'[t].leaf = local[t].leaf + 1
        BY <1>1, TableSteps
      <4>4. QED
        BY <3>1, <4>1, <4>2, <4>3, FillingAlone
    <3>4. UNCHANGED tables
      BY <1>1, <3>2, <3>3, Changes
    <3>5. QED
      BY <1>2, <3>1, <3>4 DEF AnswerInv, At, Entered
  <2>2. CASE CreateShadows(t)
    <3>1. local'[t].leaf = 0
      BY <1>1, <2>2, TableSteps DEF CallInv, CallInvOf, Finding
    <3>2. QED
      BY <3>1
  <2>3. CASE WrapLeaf(t)
    BY <1>1, <1>4, <2>3, TableSteps
  <2>4. QED
    BY <1>1, <1>5, <2>1, <2>2, <2>3, Arrivals
<1>6. ASSUME Filled', NEW l \in DOMAIN Leaves
      PROVE  Entered(l)'
  <2>1. CASE Filled
    BY <1>2, <2>1, FilledStays DEF AnswerInv, Entered
  <2>2. CASE ~Filled
    <3>1. PICK t \in Threads : \/ PassTable(t) /\ Leaves = <<>>
                               \/ WrapLeaf(t) /\ local[t].leaf + 1 = Len(Leaves)
      BY <1>1, <1>6, <2>2, FilledBegins
    <3>2. CASE Leaves = <<>>
      BY <3>2
    <3>3. CASE WrapLeaf(t) /\ local[t].leaf + 1 = Len(Leaves)
      BY <1>3, <1>4, <3>3
    <3>4. QED
      BY <3>1, <3>2, <3>3
  <2>3. QED
    BY <2>1, <2>2
<1>7. ASSUME NEW t \in Threads, pc'[t] = "found"
      PROVE  local'[t].pointer # 0
  <2>1. CASE Still(t)
    BY <1>7, <2>1 DEF AnswerInv, FindAnswers, At, Still
  <2>2. CASE Lookup(t)
    <3>1. pc[t] = "lookup" /\ local[t].table \in 1..Len(tables)
      BY <1>1, <2>2, LookupSteps
    <3>2. PICK i \in Supported : local'[t].pointer = tables[local[t].table][i]
      BY <1>1, <2>2, LookupSteps
    <3>3. local[t].table = 1 /\ Filled
      BY <3>1, OneTable DEF TableInv
    <3>4. PICK l \in DOMAIN Leaves : i \in {Leaves[l].guid} \cup Leaves[l].inherits
      BY DEF Supported
    <3>5. Entered(l)
      BY <3>3 DEF AnswerInv
    <3>6. QED
      BY <3>2, <3>3, <3>4, <3>5 DEF Entered
  <2>3. QED
    BY <1>1, <1>7, <2>1, <2>2, Arrivals
<1>8. QED
  BY <1>2, <1>5, <1>6, <1>7 DEF AnswerInv, FindAnswers, At

DictionaryInv == SoundInv /\ CallerInv /\ TableInv /\ IdentityInv

LEMMA DictionaryInvariant ==
  OutlivesNative /\ OneMarshaller => (Spec => []DictionaryInv)
<1> SUFFICES ASSUME OutlivesNative, OneMarshaller
             PROVE  Spec => []DictionaryInv
  OBVIOUS
<1>1. Init => CallerInv /\ TableInv /\ IdentityInv
  <2> SUFFICES ASSUME Init
               PROVE  CallerInv /\ TableInv /\ IdentityInv
    OBVIOUS
  <2>1. \A t \in Threads : local[t].call = "none" /\ pc[t] = "idle"
    BY DEF Init, NoLocals
  <2>2. Held = {}
    BY DEF Init, Held
  <2>3. Len(tables) = 0 /\ ccw = 0
    BY DEF Init
  <2>4. QED
    BY <2>1, <2>2, <2>3 DEF Init, CallerInv, Busy, TableInv, Filling, At, IdentityInv
<1>2. DictionaryInv /\ [Next]_vars => CallerInv' /\ TableInv' /\ IdentityInv'
  <2>1. SoundInv => CallInv
    BY DEF SoundInv, LifeInv
  <2>2. QED
    BY <2>1, NextCallerInv, NextTableInv, NextIdentityInv DEF DictionaryInv
<1>3. QED
  BY <1>1, <1>2, SoundInvariant, PTL DEF Spec, DictionaryInv

(* When one thread passes the object to native code for the first time,    *)
(* Find gives one pointer for an interface, as COM demands: the dictionary *)
(* is whole before a second Find, and is never made again                  *)
(* (CallbackBase.Find, InitializeCallableWrappers).                        *)
THEOREM OnePointer == OutlivesNative /\ OneMarshaller => (Spec => []OneIdentity)
<1>1. DictionaryInv => OneIdentity
  <2> SUFFICES ASSUME DictionaryInv, NEW i \in Interfaces
               PROVE  Cardinality(returned[i]) <= 1
    BY DEF OneIdentity
  <2>1. returned[i] = {} \/ \E w : returned[i] = {w}
    BY DEF DictionaryInv, IdentityInv
  <2>2. Cardinality(returned[i]) = 0 \/ Cardinality(returned[i]) = 1
    BY <2>1, FS_EmptySet, FS_Singleton
  <2>3. Cardinality(returned[i]) \in {0, 1} /\ \A n \in {0, 1} : n <= 1
    BY <2>2
  <2>4. QED
    BY <2>3
<1>2. QED
  BY <1>1, DictionaryInvariant, PTL

(* Then, unless something throws, Find is never answered with null for an  *)
(* interface of the class (CallbackBase.Find).                             *)
THEOREM FindIsAnswered ==
  OutlivesNative /\ OneMarshaller /\ ~AllowFailure => (Spec => []FindAnswers)
<1> SUFFICES ASSUME OutlivesNative, OneMarshaller, ~AllowFailure
             PROVE  Spec => []FindAnswers
  OBVIOUS
<1>1. Init => AnswerInv
  BY DEF Init, AnswerInv, FindAnswers, Filled, At
<1>2. DictionaryInv /\ AnswerInv /\ [Next]_vars => AnswerInv'
  BY NextAnswerInv DEF DictionaryInv
<1>3. AnswerInv => FindAnswers
  BY DEF AnswerInv
<1>4. QED
  BY <1>1, <1>2, <1>3, DictionaryInvariant, PTL DEF Spec

-----------------------------------------------------------------------------
(* Nothing is left.                                                        *)

(* Nobody begins to free but by taking the dictionary out of the object.   *)
LEMMA IntactEnds ==
  ASSUME LifeInv, [Next]_vars, Intact, \A t \in Threads : ~ExchangeTable(t)
  PROVE  Intact'
<1> USE DEF LifeInv
<1>1. CASE \E t \in Threads : At(t, "exchange")
  BY <1>1, Departures DEF Intact, At, Still
<1>2. CASE refCount # 0 /\ (app = "dropped" => ~isDisposed /\ Busy("finalize") = {})
  <2>1. refCount \in Nat
    BY Counting DEF CountInv
  <2>2. ASSUME NEW t \in Threads, Quiet(t)
        PROVE  Intact'
    <3>1. /\ Moves(t) /\ UNCHANGED <<app, refCount, isDisposed>>
          /\ local'[t].call = local[t].call
      BY <2>2, QuietSteps
    <3>2. Busy("finalize")' = Busy("finalize")
      BY <3>1 DEF Busy, Moves
    <3>3. QED
      BY <1>2, <3>1, <3>2 DEF Intact
  <2>3. ASSUME NEW t \in Threads, Returns(t)
        PROVE  Intact'
    <3>1. /\ Moves(t) /\ UNCHANGED app /\ local'[t].call = "none"
          /\ ~AddRef(t) => UNCHANGED refCount
          /\ ~SetDisposed(t) => UNCHANGED isDisposed
          /\ SetDisposed(t) => At(t, "setDisposed")
      BY <2>3, ReturnSteps
    <3>2. refCount' # 0
      BY <1>2, <2>1, <3>1 DEF AddRef
    <3>3. Busy("finalize")' \subseteq Busy("finalize")
      BY <3>1 DEF Busy, Moves
    <3>4. SetDisposed(t) => app = "disposed" \/ t \in Busy("finalize")
      <4>1. SetDisposed(t) => local[t].call \in {"dispose", "finalize"}
        BY <3>1, CallAt
      <4>2. QED
        BY <4>1 DEF UseInv, Busy
    <3>5. QED
      BY <1>2, <3>1, <3>2, <3>3, <3>4 DEF Intact
  <2>4. ASSUME NEW t \in Threads, Entries(t)
        PROVE  Intact'
    <3>1. /\ Moves(t) /\ UNCHANGED object
          /\ \/ pc'[t] = "exchange"
             \/ local'[t].call # "finalize" /\ (app' = "dropped" => app = "dropped")
      BY <2>4, EntrySteps DEF Entries
    <3>2. CASE pc'[t] = "exchange"
      BY <3>2 DEF Intact, At
    <3>3. CASE local'[t].call # "finalize" /\ (app' = "dropped" => app = "dropped")
      <4>1. Busy("finalize")' \subseteq Busy("finalize")
        BY <3>1, <3>3 DEF Busy, Moves
      <4>2. QED
        BY <1>2, <3>1, <3>3, <4>1 DEF Intact, object
    <3>4. QED
      BY <3>1, <3>2, <3>3
  <2>5. ASSUME NEW t \in Threads, NEW r \in References, Release(t, r)
        PROVE  Intact'
    <3>1. app # "dropped"
      BY <2>5, ThreadAssumption DEF Release, Held, DropInv
    <3>2. /\ UNCHANGED app /\ refCount' = refCount - 1
          /\ pc' = [pc EXCEPT ![t] = IF refCount = 1 THEN "exchange" ELSE "idle"]
      BY <2>5 DEF Release, Decrement, Goto
    <3>3. pc \in [Threads -> Labels]
      BY DEF CallInv, HeapType
    <3>4. QED
      BY <1>2, <2>1, <3>1, <3>2, <3>3 DEF Intact, At
  <2>6. ASSUME NEW t \in Threads, ReleaseOwned(t)
        PROVE  Intact'
    <3>1. /\ UNCHANGED app /\ refCount' = refCount - 1
          /\ pc[t] = "releaseOwned"
          /\ pc' = [pc EXCEPT ![t] = IF refCount = 1 THEN "exchange" ELSE "setDisposed"]
      BY <2>6 DEF ReleaseOwned, Decrement, Goto, At
    <3>2. app = "disposed"
      <4>1. local[t].call = "dispose"
        BY <3>1, CallAt DEF At
      <4>2. QED
        BY <4>1 DEF UseInv, Busy
    <3>3. pc \in [Threads -> Labels]
      BY DEF CallInv, HeapType
    <3>4. QED
      BY <1>2, <2>1, <3>1, <3>2, <3>3 DEF Intact, At
  <2>7. CASE Elsewhere
    <3>1. UNCHANGED <<object, pc, local>>
      BY <2>7 DEF Elsewhere, ForeignAlloc, ForeignFree, Drop, Give
    <3>2. app' = "dropped" => ~isDisposed /\ Busy("finalize") = {}
      <4>1. CASE UNCHANGED app
        BY <1>2, <4>1
      <4>2. CASE Drop
        <5>1. app = "using" /\ \A u \in Threads : At(u, "idle")
          BY <4>2 DEF Drop
        <5>2. \A u \in Threads : local[u].call = "none"
          BY <5>1, CallAt
        <5>3. QED
          BY <5>1, <5>2 DEF UseInv, Busy
      <4>3. QED
        BY <2>7, <4>1, <4>2 DEF Elsewhere, ForeignAlloc, ForeignFree, Give, environment
    <3>3. QED
      BY <1>2, <3>1, <3>2 DEF Intact, Busy, object
  <2>8. CASE UNCHANGED vars
    <3>1. UNCHANGED <<app, refCount, isDisposed, local>>
      BY <2>8 DEF vars, environment, object
    <3>2. QED
      BY <1>2, <3>1 DEF Intact, Busy
  <2>9. QED
    BY <2>2, <2>3, <2>4, <2>5, <2>6, <2>7, <2>8
       DEF Next, Quiet, Returns, Entries, Elsewhere
<1>3. QED
  BY <1>1, <1>2 DEF Intact

(* The wrappers are freed when the thread that frees them goes on.         *)
LEMMA FreedBegins ==
  ASSUME OutlivesNative, LifeInv, [Next]_vars, Freed'
  PROVE  Freed \/ \E t \in Threads : FreeGuids(t)
<1>1. CallInv
  BY DEF LifeInv
<1>2. ~Intact' /\ \A t \in Threads : pc'[t] # "free"
  BY DEF Freed, At
<1>3. ~Intact
  BY <1>1, <1>2, IntactEnds, ExchangeSteps
<1>4. ASSUME NEW t \in Threads, pc[t] = "free"
      PROVE  FreeGuids(t)
  <2>1. ~FreeEntry(t)
    BY <1>1, <1>2, <1>4, FreeSteps
  <2>2. ~Still(t)
    BY <1>2, <1>4 DEF Still
  <2>3. QED
    BY <1>1, <1>4, <2>1, <2>2, Departures
<1>5. QED
  BY <1>3, <1>4 DEF Freed, At

(* A leaf's wrapper is listed under the GUID of the leaf, and stays so.    *)
LEMMA WrapLists ==
  ASSUME DistinctLeaves, SoundInv, TableInv, ListedInv, NEW t \in Threads, WrapLeaf(t)
  PROVE  /\ Len(wrappers') = local[t].leaf + 1
         /\ \A w \in 1..Len(wrappers') : tables'[1][Leaves[w].guid] = w
<1>1. CallInv
  BY DEF SoundInv, LifeInv
<1>2. /\ pc[t] = "wrap" /\ local[t].leaf + 1 \in 1..Len(Leaves)
      /\ Len(wrappers) \in Nat /\ Len(wrappers') = Len(wrappers) + 1
      /\ \A i \in Interfaces : tables'[local[t].filling][i] =
           IF \/ i = Leaves[local[t].leaf + 1].guid
              \/ /\ i \in Leaves[local[t].leaf + 1].inherits
                 /\ tables[local[t].filling][i] = 0
           THEN Len(wrappers') ELSE tables[local[t].filling][i]
  BY <1>1, WrapSteps
<1>3. local[t].filling = 1
  BY <1>2 DEF TableInv, Filling
<1>4. Len(wrappers) = local[t].leaf /\ \A w \in 1..Len(wrappers) : tables[1][Leaves[w].guid] = w
  BY <1>2 DEF ListedInv, At
<1>5. shape \in Shapes /\ Len(Leaves) \in Nat
  BY <1>1, ShapeType DEF CallInv, HeapType
<1>6. \A l \in 1..Len(Leaves) : Leaves[l].guid \in Interfaces
  BY <1>5, ShapeType
<1>7. ASSUME NEW w \in 1..Len(wrappers')
      PROVE  tables'[1][Leaves[w].guid] = w
  <2>1. w \in 1..Len(Leaves)
    BY <1>2, <1>4, <1>5
  <2>2. CASE w = Len(wrappers')
    BY <1>2, <1>3, <1>4, <1>6, <2>1, <2>2
  <2>3. CASE w # Len(wrappers')
    <3>1. w \in 1..Len(wrappers) /\ w # local[t].leaf + 1
      BY <1>2, <1>4, <2>3
    <3>2. Leaves[w].guid # Leaves[local[t].leaf + 1].guid
      BY <1>2, <1>5, <2>1, <3>1 DEF DistinctLeaves, Leaves
    <3>3. tables[1][Leaves[w].guid] = w /\ w # 0
      BY <1>4, <3>1
    <3>4. QED
      BY <1>2, <1>3, <1>6, <2>1, <3>2, <3>3
  <2>4. QED
    BY <2>2, <2>3
<1>8. QED
  BY <1>2, <1>4, <1>7

LEMMA NextListedInv ==
  ASSUME DistinctLeaves, OneMarshaller, ~AllowFailure, DictionaryInv, ListedInv, [Next]_vars
  PROVE  ListedInv'
<1> USE DEF DictionaryInv
<1>1. CallInv /\ LifeInv /\ SoundInv /\ CallInv'
  BY NextCallInv DEF SoundInv, LifeInv
<1>2. UNCHANGED shape /\ Leaves' = Leaves
  BY <1>1, Changes, SameClass
<1>3. /\ wrappers = <<>> <=> Len(wrappers) = 0
      /\ wrappers' = <<>> <=> Len(wrappers') = 0
      /\ Len(wrappers) \in Nat /\ Len(wrappers') \in Nat
  <2>1. /\ wrappers \in Seq([handle : Slots \cup {0}, state : {"live", "freed", "corrupt"}])
        /\ wrappers' \in Seq([handle : Slots \cup {0}, state : {"live", "freed", "corrupt"}])
    BY <1>1 DEF CallInv, HeapType
  <2>2. Len(wrappers) \in Nat /\ Len(wrappers') \in Nat
    BY <2>1
  <2>3. QED
    BY <2>1, <2>2, EmptyLength
<1>4. tables' = <<>> => tables = <<>>
  <2>1. /\ tables \in Seq([Interfaces -> 0..Len(wrappers)]) /\ Len(tables) \in Nat
        /\ tables' \in Seq([Interfaces -> 0..Len(wrappers')])
    BY <1>1, HeapLengths DEF CallInv, HeapType
  <2>2. \A t \in Threads : /\ Publish(t) => Len(tables') = Len(tables) + 1
                           /\ WrapLeaf(t) => Len(tables') = Len(tables)
    BY <1>1, TableSteps
  <2>3. /\ tables = <<>> <=> Len(tables) = 0
        /\ tables' = <<>> <=> Len(tables') = 0
    BY <2>1, EmptyLength
  <2>4. QED
    BY <1>1, <2>1, <2>2, <2>3, Changes
<1>5. ASSUME NEW t \in Threads, WrapLeaf(t)
      PROVE  ListedInv'
  <2>1. /\ pc[t] = "wrap" /\ pc'[t] = IF local[t].leaf + 1 = Len(Leaves) THEN "lookup" ELSE "wrap"
        /\ Moves(t) /\ local'[t].leaf = local[t].leaf + 1
    BY <1>1, <1>5, WrapSteps, TableSteps
  <2>2. /\ Len(wrappers') = local[t].leaf + 1
        /\ \A w \in 1..Len(wrappers') : tables'[1][Leaves[w].guid] = w
    BY <1>1, <1>5, WrapLists
  <2>3. tables # <<>>
    BY <2>1 DEF TableInv, Filling, At
  <2>4. \A u \in Threads \ {t} : ~Filling(u) /\ ~Filling(u)'
    <3>1. \A u \in Threads \ {t} : ~Filling(u)
      BY <1>1, <2>1, FillingAlone DEF Filling
    <3>2. QED
      BY <2>1, <3>1 DEF Moves, Filling
  <2>5. \A u \in Threads : pc'[u] # "free"
    <3>1. \A u \in Threads : pc[u] = "free" => pc[t] \notin Finding
      BY <1>1, FreeingAlone DEF Disposing
    <3>2. QED
      BY <2>1, <3>1 DEF Moves, Finding
  <2>6. Filled' => pc'[t] = "lookup"
    BY <2>1 DEF Filled, Filling
  <2>7. Filled' => Len(wrappers') = Len(Leaves)
    BY <2>1, <2>2, <2>6
  <2>8. \A u \in Threads : Filling(u)' => At(u, "wrap")'
    BY <2>1, <2>4 DEF Filling, At
  <2>9. \A u \in Threads : At(u, "wrap")' => u = t
    BY <2>4 DEF Filling, At
  <2>10. QED
    BY <1>2, <1>4, <2>1, <2>2, <2>3, <2>5, <2>7, <2>8, <2>9 DEF ListedInv, At
<1>6. ASSUME NEW t \in Threads, FreeEntry(t)
      PROVE  ListedInv'
  <2>1. PICK i \in Interfaces : \E w \in 1..Len(wrappers) :
          /\ w = local[t].entries[i]
          /\ local'[t].entries = [local[t].entries EXCEPT ![i] = 0]
          /\ local'[t].freed = local[t].freed \cup {w}
    BY <1>1, <1>6, FreeSteps
  <2>2. /\ Moves(t) /\ pc[t] = "free" /\ UNCHANGED <<pc, tables>> /\ Len(wrappers') = Len(wrappers)
    BY <1>1, <1>6, FreeSteps
  <2>3. \A u \in Threads : pc[u] \notin Finding /\ (pc[u] = "free" => u = t)
    BY <1>1, <2>2, FreeingAlone DEF Disposing
  <2>4. \A u \in Threads : ~Filling(u) /\ ~Filling(u)'
    BY <2>2, <2>3 DEF Filling, Finding
  <2>5. local[t].entries \in [Interfaces -> 0..Len(wrappers)]
    BY <1>1 DEF CallInv, HeapType, Local
  <2>6. ASSUME NEW v \in 1..Len(wrappers)
        PROVE  v \in local'[t].freed \/ \E j \in Interfaces : local'[t].entries[j] = v
    <3>1. v \in local[t].freed \/ \E j \in Interfaces : local[t].entries[j] = v
      BY <2>2 DEF ListedInv, At
    <3>2. QED
      BY <2>1, <2>5, <3>1
  <2>7. Filled' => Filled
    BY <2>2, <2>4 DEF Filled
  <2>8. tables # <<>>
    BY <1>3, <2>1 DEF ListedInv
  <2>9. QED
    BY <1>2, <2>2, <2>3, <2>4, <2>6, <2>7, <2>8 DEF ListedInv, At, Filling
<1>7. CASE UNCHANGED wrappers /\ ~\E t \in Threads : WrapLeaf(t) \/ FreeEntry(t)
  <2>1. ASSUME NEW u \in Threads, pc'[u] = "wrap"
        PROVE  /\ Len(wrappers) = local'[u].leaf
               /\ \A w \in 1..Len(wrappers) : tables'[1][Leaves[w].guid] = w
    <3>1. CASE Still(u)
      <4>1. pc[u] = "wrap" /\ local'[u] = local[u]
        BY <2>1, <3>1 DEF Still
      <4>2. \A t \in Threads : ~Publish(t)
        <5>1. \A t \in Threads : Publish(t) => Filling(t) /\ Filling(u) /\ t # u
          BY <1>1, <4>1, TableSteps DEF Filling
        <5>2. QED
          BY <1>1, <5>1, FillingAlone
      <4>3. UNCHANGED tables
        BY <1>1, <1>7, <4>2, Changes
      <4>4. QED
        BY <4>1, <4>3 DEF ListedInv, At
    <3>2. CASE CreateShadows(u)
      <4>1. pc[u] = "shadows" /\ local[u].leaf = 0 /\ local'[u].leaf = local[u].leaf
        BY <1>1, <3>2, TableSteps DEF CallInv, CallInvOf, Finding
      <4>2. wrappers = <<>>
        BY <4>1 DEF ListedInv, Filling, At
      <4>3. QED
        BY <4>1, <4>2
    <3>3. QED
      BY <1>1, <1>7, <2>1, <3>1, <3>2, Arrivals
  <2>2. ASSUME NEW u \in Threads, Filling(u)', pc'[u] # "wrap"
        PROVE  wrappers = <<>>
    <3>1. CASE Find(u) /\ ccw = 0
      BY <1>1, <3>1, FillingAlone DEF ListedInv
    <3>2. CASE Filling(u)
      <4>1. pc[u] # "wrap"
        BY <1>1, <1>7, <2>2, NothingThrows, Departures DEF Still
      <4>2. QED
        BY <3>2, <4>1 DEF ListedInv, At
    <3>3. QED
      BY <1>1, <2>2, <3>1, <3>2, FillingSteps
  <2>3. tables' = <<>> => wrappers = <<>>
    BY <1>4 DEF ListedInv
  <2>4. ASSUME Filled'
        PROVE  /\ Len(wrappers) = Len(Leaves)
               /\ \A w \in 1..Len(wrappers) : tables'[1][Leaves[w].guid] = w
    <3>1. CASE Filled
      BY <1>1, <3>1, FilledStays DEF ListedInv
    <3>2. CASE ~Filled
      <4>1. PICK t \in Threads : PassTable(t) /\ Leaves = <<>>
        BY <1>1, <1>7, <2>4, <3>2, FilledBegins
      <4>2. pc[t] = "assert"
        BY <1>1, <4>1, TableSteps
      <4>3. wrappers = <<>>
        BY <4>2 DEF ListedInv, Filling, At
      <4>4. QED
        BY <4>1, <4>3
    <3>3. QED
      BY <3>1, <3>2
  <2>5. ASSUME NEW u \in Threads, pc'[u] = "free", NEW w \in 1..Len(wrappers)
        PROVE  w \in local'[u].freed \/ \E i \in Interfaces : local'[u].entries[i] = w
    <3>1. CASE Still(u)
      BY <2>5, <3>1 DEF ListedInv, At, Still
    <3>2. CASE ExchangeTable(u)
      <4>1. /\ pc[u] = "exchange" /\ Intact
            /\ local'[u].entries = IF ccw = 0 THEN NoEntries ELSE tables[ccw]
        BY <1>1, <3>2, ExchangeSteps
      <4>2. \A t \in Threads : ~Filling(t)
        <5>1. \A t \in Threads : pc[t] \notin Finding
          BY <1>1, <4>1, FreeingAlone DEF Disposing
        <5>2. QED
          BY <5>1 DEF Filling, Finding
      <4>3. tables # <<>>
        BY <1>3 DEF ListedInv
      <4>4. Filled
        BY <4>2, <4>3 DEF Filled
      <4>5. ccw = 1
        BY <1>1, <4>1, <4>3, FillingAlone DEF TableInv
      <4>6. local'[u].entries = tables[1]
        BY <4>1, <4>5
      <4>7. Len(wrappers) = Len(Leaves) /\ tables[1][Leaves[w].guid] = w
        BY <4>4 DEF ListedInv
      <4>8. Leaves[w].guid \in Interfaces
        <5>1. shape \in Shapes
          BY <1>1 DEF CallInv, HeapType
        <5>2. QED
          BY <4>7, <5>1, ShapeType
      <4>9. QED
        BY <4>6, <4>7, <4>8
    <3>3. QED
      BY <1>1, <1>7, <2>5, <3>1, <3>2, Arrivals
  <2>6. QED
    BY <1>2, <1>7, <2>1, <2>2, <2>3, <2>4, <2>5 DEF ListedInv, At
<1>8. QED
  BY <1>1, <1>5, <1>6, <1>7, Changes

LEMMA NextWrapperLeakInv ==
  ASSUME OutlivesNative, DictionaryInv, ListedInv, WrapperLeakInv, [Next]_vars
  PROVE  WrapperLeakInv'
<1> USE DEF DictionaryInv
<1>1. CallInv /\ LifeInv /\ Len(wrappers) \in Nat
  BY HeapLengths DEF SoundInv, LifeInv, CallInv
<1>2. ASSUME NEW t \in Threads, pc[t] \in Finding
      PROVE  Intact /\ \A u \in Threads : pc[u] # "free"
  BY <1>1, <1>2, FillingAlone, FreeingAlone, CallAt, CallersIntact DEF Disposing, SoundInv
<1>3. ASSUME NEW u \in Threads, pc'[u] = "free", NEW w \in local'[u].freed
      PROVE  wrappers'[w].state # "live"
  <2>1. CASE FreeEntry(u)
    <3>1. PICK v \in 1..Len(wrappers) :
            /\ local'[u].freed = local[u].freed \cup {v}
            /\ \A x \in 1..Len(wrappers) \ {v} : wrappers'[x] = wrappers[x]
            /\ v \in local[u].freed => UNCHANGED <<wrappers, handles>>
            /\ v \notin local[u].freed =>
                 wrappers'[v].state = IF wrappers[v].state = "live" THEN "freed" ELSE "corrupt"
      BY <1>1, <2>1, FreeSteps
    <3>2. pc[u] = "free"
      BY <1>1, <2>1, FreeSteps
    <3>3. local[u].freed \subseteq 1..Len(wrappers)
      BY <1>1 DEF CallInv, HeapType, Local
    <3>4. \A x \in local[u].freed : wrappers[x].state # "live"
      BY <3>2 DEF WrapperLeakInv, At
    <3>5. QED
      BY <1>3, <3>1, <3>3, <3>4
  <2>2. CASE ExchangeTable(u)
    BY <1>1, <1>3, <2>2, ExchangeSteps
  <2>3. CASE Still(u) /\ ~FreeEntry(u)
    <3>1. pc[u] = "free" /\ local'[u] = local[u]
      BY <1>3, <2>3 DEF Still
    <3>2. \A t \in Threads : ~WrapLeaf(t)
      BY <1>2, <3>1 DEF WrapLeaf, At, Finding
    <3>3. \A t \in Threads : ~FreeEntry(t)
      <4>1. \A t \in Threads : FreeEntry(t) => t = u
        BY <1>1, <3>1, FreeingAlone, FreeSteps DEF Disposing
      <4>2. QED
        BY <2>3, <4>1
    <3>4. UNCHANGED wrappers
      BY <1>1, <3>2, <3>3, Changes
    <3>5. QED
      BY <1>3, <3>1, <3>4 DEF WrapperLeakInv, At
  <2>4. QED
    BY <1>1, <1>3, <2>1, <2>2, <2>3, Arrivals
<1>4. ASSUME Freed', NEW w \in 1..Len(wrappers')
      PROVE  wrappers'[w].state # "live"
  <2>1. CASE Freed
    <3>1. \A t \in Threads : ~WrapLeaf(t) /\ ~FreeEntry(t)
      BY <1>2, <2>1 DEF WrapLeaf, FreeEntry, At, Finding, Freed
    <3>2. UNCHANGED wrappers
      BY <1>1, <3>1, Changes
    <3>3. QED
      BY <1>4, <2>1, <3>2 DEF WrapperLeakInv
  <2>2. ASSUME NEW t \in Threads, FreeGuids(t)
        PROVE  wrappers'[w].state # "live"
    <3>1. pc[t] = "free" /\ local[t].entries = NoEntries /\ UNCHANGED wrappers
      BY <2>2 DEF FreeGuids, At
    <3>2. w \in local[t].freed \/ \E i \in Interfaces : local[t].entries[i] = w
      BY <1>4, <3>1 DEF ListedInv, At
    <3>3. w # 0
      BY <1>1, <1>4, <3>1
    <3>4. w \in local[t].freed
      BY <3>1, <3>2, <3>3 DEF NoEntries
    <3>5. QED
      BY <3>1, <3>4 DEF WrapperLeakInv, At
  <2>3. QED
    BY <1>1, <1>4, <2>1, <2>2, FreedBegins
<1>5. ASSUME ~Intact'
      PROVE  ccw' = 0
  <2>1. CASE \E t \in Threads : ExchangeTable(t)
    BY <1>1, <2>1, ExchangeSteps
  <2>2. CASE ~\E t \in Threads : ExchangeTable(t)
    <3>1. ~Intact
      BY <1>1, <1>5, <2>2, IntactEnds
    <3>2. \A t \in Threads : ~Publish(t)
      BY <1>2, <3>1 DEF Publish, At, Finding
    <3>3. QED
      BY <1>1, <2>2, <3>1, <3>2, Changes DEF WrapperLeakInv
  <2>3. QED
    BY <2>1, <2>2
<1>6. QED
  BY <1>3, <1>4, <1>5 DEF WrapperLeakInv, At

(* The handles of the object and of its shadows have an owner that frees   *)
(* them.                                                                   *)
LEMMA NextHandleLeakInv ==
  ASSUME NoMultiShadow, OneMarshaller, ~AllowFailure, OutlivesNative, DictionaryInv, ListedInv,
         HandleLeakInv, [Next]_vars
  PROVE  HandleLeakInv'
<1> USE DEF DictionaryInv
<1>1. CallInv /\ LifeInv /\ HeapInv /\ HandleInv /\ SoundInv /\ TableInv
  BY DEF SoundInv, LifeInv
<1>2. /\ handles \in [Slots -> {"free", "callback", "shadow", "multi", "foreign"}]
      /\ 0 \notin Slots /\ shape.shadows \in {0, 1}
  <2>1. /\ shape \in Shapes
        /\ handles \in [Slots -> {"free", "callback", "shadow", "multi", "foreign"}]
    BY <1>1 DEF CallInv, HeapType
  <2>2. shape.shadows \in {0, 1}
    BY <2>1, ShapeType DEF NoMultiShadow
  <2>3. QED
    BY <2>1, <2>2, SlotAssumption
<1>3. ASSUME NEW t \in Threads, pc[t] \in Finding
      PROVE  Intact /\ \A u \in Threads : pc[u] \notin {"free", "freeThis"}
  BY <1>1, <1>3, CallAt, CallersIntact DEF Disposing
<1>4. ASSUME NEW t \in Threads, AllocThisHandle(t)
      PROVE  /\ pc[t] = "allocThis" /\ thisHandle' \in Slots
             /\ thisHandle = 0 /\ handles[thisHandle'] = "free"
             /\ handles' = [handles EXCEPT ![thisHandle'] = "callback"]
  BY <1>4, FreeSlotsAreSlots DEF AllocThisHandle, At, HandleLeakInv
<1>5. ASSUME NEW t \in Threads, CreateShadows(t)
      PROVE  /\ pc[t] = "shadows" /\ pc'[t] = "wrap" /\ UNCHANGED <<wrappers, thisHandle>>
             /\ \A s \in Slots : handles[s] # "free" => handles'[s] = handles[s]
             /\ \A s \in Slots : handles'[s] # handles[s] =>
                                   s = local'[t].handle /\ handles'[s] = "shadow"
  <2>1. pc[t] = "shadows" /\ Intact
    BY <1>3, <1>5 DEF CreateShadows, At, Finding
  <2>2. /\ pc'[t] = "wrap" /\ UNCHANGED <<object, wrappers>>
        /\ \A s \in Slots : handles[s] # "free" => handles'[s] = handles[s]
        /\ handles'[local'[t].handle] = Kind
        /\ shape.shadows = 0 => UNCHANGED handles
        /\ shape.shadows = 1 => \A s \in Slots \ {local'[t].handle} : handles'[s] = handles[s]
    BY <1>1, <1>5, <2>1, ShadowSteps
  <2>3. shape.shadows = 1 => Kind = "shadow"
    BY DEF Kind
  <2>4. QED
    BY <1>2, <2>1, <2>2, <2>3 DEF object
<1>6. ASSUME NEW t \in Threads, FreeEntry(t) \/ FreeThisHandle(t)
      PROVE  /\ pc[t] \in {"free", "freeThis"}
             /\ \A s \in Slots : handles'[s] \in {handles[s], "free"}
  <2>1. CASE FreeEntry(t)
    <3>1. pc[t] = "free"
      BY <1>1, <2>1, FreeSteps
    <3>2. PICK w \in 1..Len(wrappers) :
            handles' \in {handles, [handles EXCEPT ![wrappers[w].handle] = "free"]}
      BY <1>1, <2>1, FreeSteps
    <3>3. QED
      BY <1>2, <3>1, <3>2
  <2>2. CASE FreeThisHandle(t)
    BY <1>2, <2>2 DEF FreeThisHandle, At
  <2>3. QED
    BY <1>6, <2>1, <2>2
<1>7. ASSUME ForeignAlloc \/ ForeignFree
      PROVE  \A s \in Slots : handles'[s] \in {handles[s], "free", "foreign"}
  BY <1>1, <1>2, <1>7, ForeignSteps
<1>8. \A s \in Slots : handles'[s] # "multi"
  BY <1>1, <1>2, <1>4, <1>5, <1>6, <1>7, Changes DEF HandleLeakInv
<1>9. ASSUME NEW s \in Slots, handles'[s] = "callback"
      PROVE  thisHandle' = s
  <2>1. ASSUME NEW t \in Threads, AllocThisHandle(t)
        PROVE  thisHandle' = s
    BY <1>2, <1>4, <1>9, <2>1 DEF HandleLeakInv
  <2>2. ASSUME NEW t \in Threads, FreeThisHandle(t)
        PROVE  FALSE
    BY <1>2, <1>9, <2>2 DEF HandleLeakInv, FreeThisHandle
  <2>3. CASE ~\E t \in Threads : AllocThisHandle(t) \/ FreeThisHandle(t)
    <3>1. handles[s] = "callback"
      BY <1>1, <1>2, <1>5, <1>6, <1>7, <1>9, <2>3, Changes
    <3>2. QED
      BY <1>1, <2>3, <3>1, Changes DEF HandleLeakInv
  <2>4. QED
    BY <2>1, <2>2, <2>3
<1>10. ASSUME NEW t \in Threads, pc'[t] = "allocThis"
       PROVE  thisHandle' = 0
  <2>1. thisHandle = 0 /\ Filling(t)
    BY <1>1, <1>10, Arrivals, TableSteps DEF HandleLeakInv, Still, At, Filling
  <2>2. \A u \in Threads : ~FreeThisHandle(u)
    BY <1>3, <2>1 DEF Filling, Finding, FreeThisHandle, At
  <2>3. \A u \in Threads : ~AllocThisHandle(u)
    <3>1. \A u \in Threads : AllocThisHandle(u) => u = t
      BY <1>4, <2>1, FillingAlone DEF Filling
    <3>2. AllocThisHandle(t) => pc'[t] = "shadows"
      BY <1>1 DEF AllocThisHandle, Goto, CallInv, HeapType
    <3>3. QED
      BY <1>10, <3>1, <3>2
  <2>4. QED
    BY <1>1, <2>1, <2>2, <2>3, Changes
<1>11. ASSUME NEW s \in Slots, handles'[s] = "shadow"
       PROVE  \/ \E t \in Threads : pc'[t] = "wrap" /\ local'[t].handle = s
              \/ \E w \in 1..Len(wrappers') : wrappers'[w].handle = s
  <2>1. CASE handles[s] # "shadow"
    <3>1. PICK t \in Threads : CreateShadows(t)
      BY <1>1, <1>2, <1>4, <1>6, <1>7, <1>11, <2>1, Changes
    <3>2. QED
      BY <1>5, <1>11, <2>1, <3>1
  <2>2. ASSUME NEW t \in Threads, pc[t] = "wrap", local[t].handle = s
        PROVE  \/ pc'[t] = "wrap" /\ local'[t].handle = s
               \/ \E w \in 1..Len(wrappers') : wrappers'[w].handle = s
    <3>1. CASE Still(t)
      BY <2>2, <3>1 DEF Still
    <3>2. CASE WrapLeaf(t)
      <4>1. /\ Len(wrappers) \in Nat /\ Len(wrappers') = Len(wrappers) + 1
            /\ wrappers'[Len(wrappers')].handle = s
        BY <1>1, <2>2, <3>2, WrapSteps
      <4>2. Len(wrappers') \in 1..Len(wrappers')
        BY <4>1
      <4>3. QED
        BY <4>1, <4>2
    <3>3. QED
      BY <1>1, <2>2, <3>1, <3>2, Departures, NothingThrows
  <2>3. ASSUME NEW w \in 1..Len(wrappers), wrappers[w].handle = s
        PROVE  w \in 1..Len(wrappers') /\ wrappers'[w].handle = s
    <3>1. ASSUME NEW t \in Threads, WrapLeaf(t)
          PROVE  w \in 1..Len(wrappers') /\ wrappers'[w].handle = s
      <4>1. /\ Len(wrappers) \in Nat /\ Len(wrappers') = Len(wrappers) + 1
            /\ wrappers'[w] = wrappers[w]
        BY <1>1, <2>3, <3>1, WrapSteps
      <4>2. QED
        BY <2>3, <4>1
    <3>2. ASSUME NEW t \in Threads, FreeEntry(t)
          PROVE  w \in 1..Len(wrappers') /\ wrappers'[w].handle = s
      BY <1>1, <2>3, <3>2, FreeSteps
    <3>3. QED
      BY <1>1, <2>3, <3>1, <3>2, Changes
  <2>4. QED
    BY <2>1, <2>2, <2>3 DEF HandleLeakInv, At
<1>12. ASSUME NEW u \in Threads, pc'[u] = "free", NEW s \in Slots, handles'[s] = "shadow"
       PROVE  \E w \in 1..Len(wrappers') \ local'[u].freed : wrappers'[w].handle = s
  <2>1. CASE ExchangeTable(u)
    <3>1. pc[u] = "exchange" /\ UNCHANGED <<handles, wrappers>> /\ local'[u].freed = {}
      BY <1>1, <2>1, ExchangeSteps DEF heap
    <3>2. \A t \in Threads : pc[t] # "wrap"
      BY <1>1, <3>1, FreeingAlone DEF Disposing, Finding
    <3>3. \E w \in 1..Len(wrappers) : wrappers[w].handle = s
      BY <1>12, <3>1, <3>2 DEF HandleLeakInv, At
    <3>4. QED
      BY <3>1, <3>3
  <2>2. CASE FreeEntry(u)
    <3>1. PICK v \in 1..Len(wrappers) :
            /\ local'[u].freed = local[u].freed \cup {v}
            /\ v \in local[u].freed => UNCHANGED <<wrappers, handles>>
            /\ v \notin local[u].freed =>
                 handles' = IF handles[wrappers[v].handle] \in {"shadow", "foreign"}
                            THEN [handles EXCEPT ![wrappers[v].handle] = "free"] ELSE handles
      BY <1>1, <2>2, FreeSteps
    <3>2. /\ pc[u] = "free" /\ Len(wrappers') = Len(wrappers)
          /\ \A w \in 1..Len(wrappers) : wrappers'[w].handle = wrappers[w].handle
      BY <1>1, <2>2, FreeSteps
    <3>3. handles[s] = "shadow"
      BY <1>6, <1>12, <2>2
    <3>4. PICK w \in 1..Len(wrappers) \ local[u].freed : wrappers[w].handle = s
      BY <3>2, <3>3 DEF HandleLeakInv, At
    <3>5. w # v
      BY <1>2, <1>12, <3>1, <3>3, <3>4
    <3>6. QED
      BY <3>1, <3>2, <3>4, <3>5
  <2>3. CASE Still(u) /\ ~FreeEntry(u)
    <3>1. pc[u] = "free" /\ local'[u] = local[u]
      BY <1>12, <2>3 DEF Still
    <3>2. \A t \in Threads : t # u => pc[t] \notin Finding \cup Freeing
      BY <1>1, <3>1, FreeingAlone DEF Disposing, Freeing
    <3>3. \A t \in Threads : /\ ~AllocThisHandle(t) /\ ~CreateShadows(t) /\ ~WrapLeaf(t)
                             /\ ~FreeThisHandle(t) /\ ~FreeEntry(t)
      BY <2>3, <3>1, <3>2, ZenonT(40)
         DEF AllocThisHandle, CreateShadows, WrapLeaf, FreeThisHandle, FreeEntry, At, Finding,
             Freeing
    <3>4. UNCHANGED wrappers /\ (UNCHANGED handles \/ ForeignAlloc \/ ForeignFree)
      BY <1>1, <3>3, Changes
    <3>5. handles[s] = "shadow"
      BY <1>7, <1>12, <3>4
    <3>6. QED
      BY <3>1, <3>4, <3>5 DEF HandleLeakInv, At
  <2>4. QED
    BY <1>1, <1>12, <2>1, <2>2, <2>3, Arrivals
<1>13. ASSUME Freed'
       PROVE  /\ \A s \in Slots : handles'[s] # "shadow"
              /\ (\A t \in Threads : pc'[t] # "freeThis") => thisHandle' = 0
  <2>1. CASE Freed
    <3>1. \A t \in Threads : ~AllocThisHandle(t) /\ ~CreateShadows(t)
      BY <1>3, <2>1 DEF AllocThisHandle, CreateShadows, At, Finding, Freed
    <3>2. \A s \in Slots : handles'[s] # "shadow"
      BY <1>1, <1>6, <1>7, <2>1, <3>1, Changes DEF HandleLeakInv
    <3>3. ASSUME \A t \in Threads : pc'[t] # "freeThis"
          PROVE  thisHandle' = 0
      <4>1. CASE \E t \in Threads : FreeThisHandle(t)
        BY <4>1 DEF FreeThisHandle
      <4>2. CASE ~\E t \in Threads : FreeThisHandle(t)
        <5>1. \A t \in Threads : pc[t] # "freeThis"
          BY <1>1, <3>3, <4>2, Departures DEF Still
        <5>2. QED
          BY <1>1, <2>1, <3>1, <4>2, <5>1, Changes DEF HandleLeakInv, At
      <4>3. QED
        BY <4>1, <4>2
    <3>4. QED
      BY <3>2, <3>3
  <2>2. ASSUME NEW t \in Threads, FreeGuids(t)
        PROVE  /\ \A s \in Slots : handles'[s] # "shadow"
               /\ (\A u \in Threads : pc'[u] # "freeThis") => thisHandle' = 0
    <3>1. /\ pc[t] = "free" /\ local[t].entries = NoEntries /\ UNCHANGED handles
          /\ pc'[t] = "freeThis"
      BY <1>1, <2>2 DEF FreeGuids, At, Goto, CallInv, HeapType
    <3>2. \A w \in 1..Len(wrappers) : w \in local[t].freed
      <4>1. \A w \in 1..Len(wrappers) : w # 0
        BY <1>1, HeapLengths DEF CallInv
      <4>2. QED
        BY <3>1, <4>1 DEF ListedInv, At, NoEntries
    <3>3. QED
      BY <3>1, <3>2 DEF HandleLeakInv, At
  <2>3. QED
    BY <1>1, <1>13, <2>1, <2>2, FreedBegins
<1>14. QED
  BY <1>8, <1>9, <1>10, <1>11, <1>12, <1>13 DEF HandleLeakInv, At

(* One block of GUIDs is made, and it is the one that _guidPtr leads to.   *)
LEMMA NextBlockInv ==
  ASSUME OneGuidReader, OutlivesNative, SoundInv, CallerInv, BlockInv, [Next]_vars
  PROVE  BlockInv'
<1>1. CallInv /\ LifeInv
  BY DEF SoundInv, LifeInv
<1>2. /\ Len(blocks) \in Nat /\ blocks \in Seq(BOOLEAN) /\ DOMAIN blocks = 1..Len(blocks)
      /\ guidPtr \in 0..Len(blocks) /\ (blocks = <<>> <=> Len(blocks) = 0)
  BY <1>1 DEF CallInv, HeapType
<1>3. ASSUME NEW t \in Threads, NEW u \in Threads, pc[t] \in {"guids", "publishGuids"},
             local[u].call = "guids"
      PROVE  t = u
  BY <1>1, <1>3, CallAt DEF CallerInv, Busy, OneGuidReader
<1>4. ASSUME NEW t \in Threads, pc[t] \in {"guids", "publishGuids"}
      PROVE  Intact /\ \A u \in Threads : ~Disposing(u)
  BY <1>1, <1>4, CallAt, CallersIntact
<1>5. ASSUME NEW t \in Threads, FreeGuids(t)
      PROVE  /\ pc[t] = "free" /\ guids' = guids /\ Len(blocks') = Len(blocks)
             /\ \A b \in 1..Len(blocks) : ~blocks'[b]
             /\ \A u \in Threads : pc[u] \notin {"guids", "publishGuids"}
  <2>1. pc[t] = "free" /\ guids' = guids
        /\ blocks' = IF guidPtr = 0 THEN blocks ELSE [blocks EXCEPT ![guidPtr] = FALSE]
    BY <1>5 DEF FreeGuids, At
  <2>2. \A u \in Threads : pc[u] \notin {"guids", "publishGuids"}
    BY <1>4, <2>1 DEF Disposing
  <2>3. \A b \in 1..Len(blocks) : blocks[b] => b = guidPtr
    BY DEF BlockInv
  <2>4. Len(blocks') = Len(blocks) /\ \A b \in 1..Len(blocks) : ~blocks'[b]
    BY <1>2, <2>1, <2>3
  <2>5. QED
    BY <2>1, <2>2, <2>4
<1>6. ASSUME NEW t \in Threads, BuildGuids(t)
      PROVE  /\ pc[t] = "guids" /\ pc'[t] = "publishGuids" /\ Moves(t)
             /\ Len(blocks') = 1 /\ guidPtr' = 1 /\ local'[t].block = 1
  <2>1. /\ pc[t] = "guids" /\ blocks' = Append(blocks, TRUE) /\ guidPtr' = Len(blocks')
        /\ pc' = [pc EXCEPT ![t] = "publishGuids"]
        /\ local' = [local EXCEPT ![t].block = guidPtr']
    BY <1>6 DEF BuildGuids, At, Goto
  <2>2. blocks = <<>>
    BY <2>1 DEF BlockInv, At
  <2>3. Len(blocks') = 1 /\ guidPtr' = 1
    BY <1>2, <2>1, <2>2
  <2>4. pc'[t] = "publishGuids" /\ local'[t].block = 1 /\ Moves(t)
    <3>1. pc \in [Threads -> Labels] /\ local \in [Threads -> Local]
      BY <1>1 DEF CallInv, HeapType
    <3>2. local[t] \in Local
      BY <3>1
    <3>3. Moves(t)
      BY <1>1, <1>6, StepsMove DEF Steps, Quiet
    <3>4. QED
      BY <2>1, <2>3, <3>1, <3>2, <3>3 DEF Local
  <2>5. QED
    BY <2>1, <2>3, <2>4
<1>7. CASE \E t \in Threads : BuildGuids(t)
  <2>1. PICK t \in Threads : BuildGuids(t)
    BY <1>7
  <2>2. \A u \in Threads : pc'[u] \in {"guids", "publishGuids"} => u = t
    <3>1. \A u \in Threads \ {t} : pc'[u] = pc[u]
      BY <1>6, <2>1 DEF Moves
    <3>2. QED
      BY <1>1, <1>3, <1>6, <2>1, <3>1, CallAt
  <2>3. ~Freed'
    <3>1. ~Freed /\ \A u \in Threads : ~FreeGuids(u)
      <4>1. Intact /\ \A u \in Threads : pc[u] # "free"
        BY <1>4, <1>6, <2>1 DEF Disposing
      <4>2. QED
        BY <4>1 DEF Freed, FreeGuids, At
    <3>2. QED
      BY <1>1, <3>1, FreedBegins
  <2>4. QED
    BY <1>6, <2>1, <2>2, <2>3 DEF BlockInv, At
<1>8. CASE ~\E t \in Threads : BuildGuids(t)
  <2>1. /\ Len(blocks') = Len(blocks)
        /\ \A b \in 1..Len(blocks) : blocks'[b] => blocks[b] /\ b = guidPtr'
        /\ blocks' = <<>> <=> blocks = <<>>
    <3>1. CASE \E t \in Threads : FreeGuids(t)
      <4>1. Len(blocks') = Len(blocks) /\ \A b \in 1..Len(blocks) : ~blocks'[b]
        BY <1>5, <3>1
      <4>2. blocks' = <<>> <=> Len(blocks') = 0
        <5>1. blocks' \in Seq(BOOLEAN)
          BY <1>1, NextCallInv DEF CallInv, HeapType
        <5>2. QED
          BY <5>1, EmptyLength
      <4>3. QED
        BY <1>2, <4>1, <4>2
    <3>2. CASE ~\E t \in Threads : FreeGuids(t)
      BY <1>1, <1>8, <3>2, Changes DEF BlockInv
    <3>3. QED
      BY <3>1, <3>2
  <2>2. ASSUME NEW t \in Threads, pc'[t] = "guids"
        PROVE  blocks' = <<>>
    <3>1. CASE Still(t)
      BY <2>1, <2>2, <3>1 DEF Still, BlockInv, At
    <3>2. CASE GetIids(t) /\ guids = 0
      <4>1. ASSUME NEW u \in Threads, pc[u] = "publishGuids"
            PROVE  FALSE
        <5>1. local'[t].call = "guids" /\ pc[t] = "idle" /\ t \in GuidReaders
          BY <1>1, <3>2, EntrySteps DEF Entries, GetIids, At
        <5>2. local[u].call = "guids"
          BY <1>1, <4>1, CallAt
        <5>3. u \in GuidReaders
          BY <5>2 DEF CallerInv, Busy
        <5>4. QED
          BY <4>1, <5>1, <5>3 DEF OneGuidReader
      <4>2. blocks = <<>>
        BY <3>2, <4>1 DEF BlockInv, At
      <4>3. QED
        BY <2>1, <4>2
    <3>3. QED
      BY <1>1, <2>2, <3>1, <3>2, Arrivals
  <2>3. ASSUME NEW t \in Threads, pc'[t] = "publishGuids"
        PROVE  local'[t].block # 0
    <3>1. Still(t)
      BY <1>1, <1>8, <2>3, Arrivals
    <3>2. QED
      BY <2>3, <3>1 DEF Still, BlockInv, At
  <2>4. ASSUME blocks' # <<>>
        PROVE  guids' # 0 \/ \E t \in Threads : pc'[t] = "publishGuids"
    <3>1. CASE \E t \in Threads : PublishGuids(t)
      <4>1. PICK t \in Threads : guids' = local[t].block /\ pc[t] = "publishGuids"
        BY <3>1 DEF PublishGuids, At
      <4>2. QED
        BY <4>1 DEF BlockInv, At
    <3>2. CASE ~\E t \in Threads : PublishGuids(t)
      <4>1. UNCHANGED guids
        BY <1>1, <3>2, Changes
      <4>2. \A t \in Threads : pc[t] = "publishGuids" => pc'[t] = "publishGuids"
        BY <1>1, <3>2, Departures DEF Still
      <4>3. guids # 0 \/ \E t \in Threads : pc[t] = "publishGuids"
        BY <2>1, <2>4 DEF BlockInv, At
      <4>4. QED
        BY <4>1, <4>2, <4>3
    <3>3. QED
      BY <3>1, <3>2
  <2>5. ASSUME Freed'
        PROVE  \A b \in 1..Len(blocks') : ~blocks'[b]
    <3>1. CASE Freed
      BY <2>1, <3>1 DEF BlockInv
    <3>2. CASE \E t \in Threads : FreeGuids(t)
      BY <1>5, <3>2
    <3>3. QED
      BY <1>1, <2>5, <3>1, <3>2, FreedBegins
  <2>6. QED
    BY <2>1, <2>2, <2>3, <2>4, <2>5 DEF BlockInv, At
<1>9. QED
  BY <1>7, <1>8

(* What _ccw names is live and not being freed, whatever else there is.    *)
LEMMA NextReachInv ==
  ASSUME CallInv, CountInv, ReachInv, [Next]_vars
  PROVE  ReachInv'
<1>1. /\ Len(wrappers) \in Nat /\ DOMAIN wrappers = 1..Len(wrappers)
      /\ Len(wrappers') \in Nat /\ DOMAIN wrappers' = 1..Len(wrappers')
      /\ Len(tables) \in Nat /\ ccw \in 0..Len(tables)
      /\ \A n \in 1..Len(tables) : tables[n] \in [Interfaces -> 0..Len(wrappers)]
      /\ \A t \in Threads : local[t].entries \in [Interfaces -> 0..Len(wrappers)]
  <2>1. wrappers' \in Seq([handle : Slots \cup {0}, state : {"live", "freed", "corrupt"}])
    BY NextCallInv DEF CallInv, HeapType
  <2>2. Len(tables) \in Nat /\ Len(wrappers) \in Nat
    BY HeapLengths DEF CallInv
  <2>3. \A n \in 1..Len(tables) : tables[n] \in [Interfaces -> 0..Len(wrappers)]
    <3> DEFINE Table == [Interfaces -> 0..Len(wrappers)]
    <3>1. tables \in Seq(Table)
      BY DEF CallInv, HeapType
    <3> HIDE DEF Table
    <3>2. \A n \in 1..Len(tables) : tables[n] \in Table
      BY <3>1
    <3>3. QED
      BY <3>2 DEF Table
  <2>4. QED
    BY <2>1, <2>2, <2>3 DEF CallInv, HeapType, Local
<1>2. ASSUME NEW t \in Threads, FreeEntry(t)
      PROVE  ReachInv'
  <2>1. PICK i \in Interfaces : \E w \in 1..Len(wrappers) :
          /\ w = local[t].entries[i]
          /\ local'[t].entries = [local[t].entries EXCEPT ![i] = 0]
          /\ local'[t].freed = local[t].freed \cup {w}
          /\ \A v \in 1..Len(wrappers) \ {w} : wrappers'[v] = wrappers[v]
          /\ w \in local[t].freed => UNCHANGED <<wrappers, handles>>
          /\ w \notin local[t].freed =>
               /\ wrappers'[w].state = IF wrappers[w].state = "live" THEN "freed" ELSE "corrupt"
               /\ handles' = IF handles[wrappers[w].handle] \in {"shadow", "foreign"}
                             THEN [handles EXCEPT ![wrappers[w].handle] = "free"] ELSE handles
    BY <1>2, FreeSteps
  <2>2. PICK w \in 1..Len(wrappers) :
          /\ w = local[t].entries[i]
          /\ local'[t].entries = [local[t].entries EXCEPT ![i] = 0]
          /\ local'[t].freed = local[t].freed \cup {w}
          /\ \A v \in 1..Len(wrappers) \ {w} : wrappers'[v] = wrappers[v]
          /\ w \in local[t].freed => UNCHANGED <<wrappers, handles>>
          /\ w \notin local[t].freed =>
               wrappers'[w].state = IF wrappers[w].state = "live" THEN "freed" ELSE "corrupt"
    BY <2>1
  <2>3. /\ pc[t] = "free" /\ UNCHANGED <<pc, tables, ccw>> /\ Len(wrappers') = Len(wrappers)
        /\ w # 0
    <3>1. w # 0
      BY <1>1, <2>2
    <3>2. QED
      BY <1>2, <3>1, FreeSteps DEF object
  <2>4. \A u \in Threads : pc[u] = "free" => u = t
    BY <2>3 DEF CountInv, Disposing
  <2>5. /\ w \in local[t].freed \/ wrappers[w].state = "live"
        /\ ccw # 0 => \A j \in Interfaces : tables[ccw][j] # w
    BY <2>2, <2>3 DEF ReachInv, At
  <2>6. NoDoubleFree'
    BY <1>1, <2>2, <2>3, <2>5 DEF ReachInv, NoDoubleFree
  <2>7. ASSUME ccw # 0, NEW j \in Interfaces, tables[ccw][j] # 0
        PROVE  wrappers'[tables[ccw][j]].state = "live"
    <3>1. tables[ccw][j] \in 1..Len(wrappers) \ {w}
      BY <1>1, <2>5, <2>7
    <3>2. wrappers[tables[ccw][j]].state = "live"
      BY <2>7 DEF ReachInv
    <3>3. QED
      BY <2>2, <3>1, <3>2
  <2>8. ASSUME NEW j \in Interfaces, local'[t].entries[j] # 0
        PROVE  /\ local'[t].entries[j] = local[t].entries[j]
               /\ local[t].entries[j] \in 1..Len(wrappers)
    BY <1>1, <2>2, <2>8
  <2>9. ASSUME NEW j \in Interfaces, local'[t].entries[j] # 0
        PROVE  /\ \/ local'[t].entries[j] \in local'[t].freed
                  \/ wrappers'[local'[t].entries[j]].state = "live"
               /\ ccw # 0 => \A k \in Interfaces : tables[ccw][k] # local'[t].entries[j]
    BY <2>2, <2>3, <2>8, <2>9 DEF ReachInv, At
  <2>10. QED
    BY <2>3, <2>4, <2>6, <2>7, <2>9 DEF ReachInv, At
<1>3. ASSUME NEW t \in Threads, WrapLeaf(t)
      PROVE  ReachInv'
  <2>1. /\ Moves(t) /\ pc'[t] # "free" /\ UNCHANGED ccw
        /\ Len(wrappers') = Len(wrappers) + 1
        /\ \A w \in 1..Len(wrappers) : wrappers'[w] = wrappers[w]
        /\ wrappers'[Len(wrappers')].state = "live"
    BY <1>3, WrapSteps DEF object
  <2>2. NoDoubleFree'
    BY <1>1, <2>1 DEF ReachInv, NoDoubleFree
  <2>3. ASSUME ccw # 0, NEW j \in Interfaces
        PROVE  tables'[ccw][j] \in {tables[ccw][j], Len(wrappers')}
    <3>1. CASE local[t].filling = ccw
      BY <1>3, <2>3, <3>1, WrapSteps
    <3>2. CASE local[t].filling # ccw
      BY <1>1, <1>3, <2>3, <3>2 DEF WrapLeaf
    <3>3. QED
      BY <3>1, <3>2
  <2>4. ASSUME ccw # 0, NEW j \in Interfaces, tables'[ccw][j] # 0
        PROVE  wrappers'[tables'[ccw][j]].state = "live"
    BY <1>1, <2>1, <2>3, <2>4 DEF ReachInv
  <2>5. ASSUME NEW u \in Threads, pc'[u] = "free", NEW j \in Interfaces, local'[u].entries[j] # 0
        PROVE  /\ \/ local'[u].entries[j] \in local'[u].freed
                  \/ wrappers'[local'[u].entries[j]].state = "live"
               /\ ccw # 0 => \A k \in Interfaces : tables'[ccw][k] # local'[u].entries[j]
    <3>1. pc[u] = "free" /\ local'[u] = local[u]
      BY <2>1, <2>5 DEF Moves
    <3>2. local[u].entries[j] \in 1..Len(wrappers)
      BY <1>1, <2>5, <3>1
    <3>3. QED
      BY <2>1, <2>3, <2>5, <3>1, <3>2 DEF ReachInv, At
  <2>6. QED
    BY <2>1, <2>2, <2>4, <2>5 DEF ReachInv, At
<1>4. ASSUME NEW t \in Threads, ExchangeTable(t)
      PROVE  ReachInv'
  <2>1. /\ Moves(t) /\ pc[t] = "exchange" /\ ccw' = 0 /\ UNCHANGED wrappers
        /\ local'[t].entries = IF ccw = 0 THEN NoEntries ELSE tables[ccw]
    BY <1>4, ExchangeSteps DEF heap
  <2>2. \A u \in Threads : pc'[u] = "free" => u = t
    BY <2>1 DEF CountInv, Disposing, Moves
  <2>3. QED
    BY <1>1, <2>1, <2>2 DEF ReachInv, NoDoubleFree, NoEntries, At
<1>5. ASSUME NEW t \in Threads, Publish(t)
      PROVE  ReachInv'
  <2>1. /\ Moves(t) /\ pc'[t] # "free" /\ UNCHANGED wrappers
        /\ tables' = Append(tables, NoEntries) /\ ccw' = Len(tables) + 1
    <3>1. Moves(t)
      BY <1>5, StepsMove DEF Steps, Quiet
    <3>2. pc \in [Threads -> Labels] /\ tables \in Seq([Interfaces -> 0..Len(wrappers)])
      BY DEF CallInv, HeapType
    <3>3. tables' = Append(tables, NoEntries) /\ Len(tables') = Len(tables) + 1
      BY <1>5, <3>2 DEF Publish
    <3>4. pc'[t] = "assert" /\ UNCHANGED wrappers /\ ccw' = Len(tables')
      BY <1>5, <3>2 DEF Publish, Goto
    <3>5. QED
      BY <3>1, <3>3, <3>4
  <2>2. tables'[ccw'] = NoEntries
    BY <1>1, <2>1 DEF CallInv, HeapType
  <2>3. QED
    BY <2>1, <2>2 DEF ReachInv, NoDoubleFree, NoEntries, Moves, At
<1>6. CASE ~\E t \in Threads : FreeEntry(t) \/ WrapLeaf(t) \/ ExchangeTable(t) \/ Publish(t)
  <2>1. UNCHANGED <<wrappers, tables, ccw>>
    BY <1>6, Changes
  <2>2. \A u \in Threads : pc'[u] = "free" => pc[u] = "free" /\ local'[u] = local[u]
    BY <1>6, Arrivals DEF Still
  <2>3. QED
    BY <2>1, <2>2 DEF ReachInv, NoDoubleFree, At
<1>7. QED
  BY <1>2, <1>3, <1>4, <1>5, <1>6

(* No wrapper is freed twice, whatever fails, however many threads make    *)
(* the dictionary, and though native code may still use the object: the    *)
(* dictionary is taken out of _ccw before what it names is freed           *)
(* (DisposeCallableWrappers).                                              *)
THEOREM FreedAtMostOnce == Spec => []NoDoubleFree
<1>1. Init => ReachInv
  <2>1. Init => DOMAIN wrappers = {} /\ ccw = 0 /\ \A t \in Threads : ~At(t, "free")
    BY DEF Init, At
  <2>2. QED
    BY <2>1 DEF ReachInv, NoDoubleFree
<1>2. ReachInv => NoDoubleFree
  BY DEF ReachInv
<1>3. QED
  BY <1>1, <1>2, CallInvariant, CountInvariant, NextReachInv, PTL DEF Spec

(* When all calls are over and no reference is left, or the finalizer has  *)
(* run, nobody is about to free anything: it is all freed.                 *)
LEMMA FreedInTheEnd ==
  ASSUME LifeInv, \A t \in Threads : At(t, "idle"), refCount = 0 \/ (isDisposed /\ app = "dropped")
  PROVE  Freed
<1>1. \A t \in Threads : ~At(t, "exchange") /\ ~At(t, "free")
  BY DEF At
<1>2. QED
  BY <1>1 DEF Freed, Intact, At

(* Each wrapper, handle and block the object has is freed once, when one   *)
(* thread makes the wrappers and one the GUIDs, and no step of theirs      *)
(* fails: DisposeCallableWrappers and CppObjectCallableWrapper.Free.  A    *)
(* class with several shadows is left out: nobody frees the handle of its  *)
(* CppObjectMultiShadow.                                                   *)
THEOREM EverythingFreedOnce ==
  OutlivesNative /\ OneMarshaller /\ OneGuidReader /\ ~AllowFailure
    /\ DistinctLeaves /\ NoMultiShadow
    => (Spec => []FreedOnce)
<1>1. SUFFICES ASSUME OutlivesNative, OneMarshaller, OneGuidReader, ~AllowFailure, DistinctLeaves,
                      NoMultiShadow
               PROVE  Spec => []FreedOnce
  OBVIOUS
<1> DEFINE Kept == FreeInv /\ ListedInv /\ WrapperLeakInv /\ HandleLeakInv /\ BlockInv
<1>2. Spec => []DictionaryInv
  BY <1>1, DictionaryInvariant
<1>3. Init => Kept
  <2> SUFFICES ASSUME Init
               PROVE  Kept
    OBVIOUS
  <2>1. /\ wrappers = <<>> /\ tables = <<>> /\ blocks = <<>> /\ thisHandle = 0 /\ ccw = 0
        /\ handles = [s \in Slots |-> "free"] /\ \A t \in Threads : pc[t] = "idle"
    BY DEF Init
  <2>2. /\ 1..Len(wrappers) = {} /\ 1..Len(blocks) = {} /\ DOMAIN wrappers = {}
    BY <2>1
  <2>3. Intact
    BY DEF Init, Intact
  <2>4. \A t \in Threads : ~Filling(t)
    BY <2>1 DEF Filling
  <2>5. QED
    BY <2>1, <2>2, <2>3, <2>4 DEF FreeInv, NoDoubleFree, ListedInv, Filled, WrapperLeakInv,
       HandleLeakInv, BlockInv, Freed, At
<1>4. DictionaryInv /\ Kept /\ [Next]_vars => Kept'
  <2> SUFFICES ASSUME DictionaryInv, Kept, [Next]_vars
               PROVE  Kept'
    OBVIOUS
  <2>1. SoundInv /\ CallerInv
    BY DEF DictionaryInv
  <2>2. FreeInv' /\ BlockInv'
    BY <1>1, <2>1, NextFreeInv, NextBlockInv
  <2>3. ListedInv' /\ WrapperLeakInv'
    BY <1>1, NextListedInv, NextWrapperLeakInv
  <2>4. HandleLeakInv'
    BY <1>1, NextHandleLeakInv
  <2>5. QED
    BY <2>2, <2>3, <2>4
<1>5. DictionaryInv /\ Kept => FreedOnce
  <2> SUFFICES ASSUME DictionaryInv, Kept, \A t \in Threads : At(t, "idle"),
                      refCount = 0 \/ (isDisposed /\ app = "dropped")
               PROVE  /\ ccw = 0
                      /\ \A w \in DOMAIN wrappers : wrappers[w].state # "live"
                      /\ \A s \in Slots : handles[s] \in {"free", "foreign"}
                      /\ \A b \in DOMAIN blocks : ~blocks[b]
    BY DEF FreedOnce, NothingLeaks, FreeInv
  <2>1. CallInv /\ LifeInv
    BY DEF DictionaryInv, SoundInv, LifeInv
  <2>2. Freed /\ ~Intact
    BY <2>1, FreedInTheEnd DEF Freed
  <2>3. /\ DOMAIN wrappers = 1..Len(wrappers) /\ DOMAIN blocks = 1..Len(blocks)
        /\ handles \in [Slots -> {"free", "callback", "shadow", "multi", "foreign"}]
        /\ 0 \notin Slots
    BY <2>1, SlotAssumption DEF CallInv, HeapType
  <2>4. thisHandle = 0
    BY <2>2 DEF HandleLeakInv, At
  <2>5. \A s \in Slots : handles[s] \notin {"callback", "shadow", "multi"}
    BY <2>2, <2>3, <2>4 DEF HandleLeakInv
  <2>6. QED
    BY <2>2, <2>3, <2>5 DEF WrapperLeakInv, BlockInv
<1> HIDE DEF Kept
<1>6. QED
  BY <1>2, <1>3, <1>4, <1>5, PTL DEF Spec
=============================================================================
