--------------------------- MODULE CppObjectsProofs ---------------------------
(***************************************************************************)
(* What holds of CppObjects for every set of threads, objects and native   *)
(* objects, and for every depth of calls that handlers make: the counts of *)
(* the native objects and the lists of the tracker are exact.              *)
(***************************************************************************)
EXTENDS CppObjects, FiniteSetTheorems, TLAPS

(* The counts are wrong when a handler of UnTracked disposes of the object, *)
(* which is released while its pointer is still there: it is released again. *)
UnTrackedLeavesIt == "untracked" \notin Handlers

(* With a dictionary per thread, only its own thread can find an object.   *)
FoundByItsThread == ThreadStatic => Pinned

-----------------------------------------------------------------------------
(* The calls.  Where each call can be, and what lies below the top.        *)

LabelsOf(call) ==
  CASE call = "create"  -> {"table", "newTable", "track", "tracked"}
    [] call = "set"     -> {"table", "newTable", "migrate"}
    [] call = "dispose" -> {"disposing", "release", "table", "newTable", "untrack",
                            "untracked", "clear", "disposed"}
    [] call = "find"    -> {"table", "newTable", "report"}

FrameInv(f) ==
  /\ f.at \in LabelsOf(f.call)
  /\ f.call # "find" => f.object \in Objects
  /\ f.call = "create" => f.new \in Pointers

(* Below the top are calls that a handler interrupted, about its object.   *)
StackInv ==
  \A t \in Threads : \A i \in 1..Len(stack[t]) :
    /\ FrameInv(stack[t][i])
    /\ i < Len(stack[t])
         => /\ stack[t][i].at \in Handlers
            /\ stack[t][i].object = stack[t][i + 1].object
            /\ stack[t][i + 1].call = "dispose"

Uses(t, o) == stack[t] # <<>> /\ Top(t).call # "find" /\ Top(t).object = o

(* Users work on live objects, the finalizer on collected ones, and nobody *)
(* on an object that another thread works on.                              *)
UseInv ==
  /\ \A t \in Threads, o \in Objects :
       Uses(t, o) => status[o] = IF t = Finalizer THEN "collected" ELSE "live"
  /\ \A t, u \in Threads, o \in Objects : Uses(t, o) /\ Uses(u, o) => t = u
  /\ \A t \in Users, o \in Objects : Uses(t, o) /\ Pinned => creator[o] = t
  /\ \A o \in Objects : status[o] = "none" => pointer[o] = Null

(* What a call remembers of its object's pointer.                          *)
AfterRead == {"release", "table", "newTable", "untrack"}
Remembers(f) ==
  /\ f.call = "set" => f.new = pointer[f.object]
  /\ f.call = "create" /\ f.at # "tracked" => f.new = pointer[f.object]
  /\ f.call = "dispose" /\ f.at \in AfterRead => f.old = pointer[f.object]

PointerInv == \A t \in Threads, o \in Objects : Uses(t, o) => Remembers(Top(t))

(* TypeOK without the references, which need CountInv.                     *)
CallType ==
  /\ status \in [Objects -> {"none", "live", "dropped", "collected"}]
  /\ creator \in [Objects -> Threads \cup {NoThread}]
  /\ pointer \in [Objects -> Maybe]
  /\ suppressed \in [Objects -> BOOLEAN]
  /\ global \in Threads \cup {NoThread}
  /\ DOMAIN dictionary \subseteq Threads
  /\ dictionary \in [DOMAIN dictionary -> [Pointers -> SUBSET Objects]]
  /\ stack \in [Threads -> Seq(Frame)]

CallInv == CallType /\ StackInv /\ UseInv /\ PointerInv

-----------------------------------------------------------------------------
(* The references.                                                         *)

(* A call that has released its object and not cleared the pointer yet.    *)
HasReleased(f) ==
  /\ f.call = "dispose"
  /\ f.at \in {"table", "newTable", "untrack", "untracked", "clear"}
  /\ f.disposing \/ ReleaseOnFinalizer
Released(o) == \E t \in Threads : Uses(t, o) /\ HasReleased(Top(t))

Owners(p) == {o \in Objects : pointer[o] = p /\ ~Released(o)}

CountInv ==
  /\ references \in [Pointers -> Nat]
  /\ \A p \in Pointers :
    /\ references[p] >= Cardinality(Owners(p))
    /\ ReleaseOnFinalizer => references[p] = Cardinality(Owners(p))

-----------------------------------------------------------------------------
(* The tracker.                                                            *)

Looking == {"track", "migrate", "untrack"}

TableInv ==
  /\ IsFiniteSet(DOMAIN dictionary)
  /\ ~ThreadStatic => /\ global = NoThread <=> DOMAIN dictionary = {}
                      /\ global # NoThread => global \in DOMAIN dictionary
  /\ \A t \in Threads : At(t, "newTable") => t \notin DOMAIN dictionary
  /\ \A t \in Threads : stack[t] # <<>> /\ Top(t).at \in Looking
       => Top(t).table \in DOMAIN dictionary /\ (ThreadStatic => Top(t).table = t)

(* The dictionary in which managed code finds an object.                   *)
Home(o) == IF ThreadStatic THEN creator[o] ELSE global
OneTable == ThreadStatic \/ \A m, n \in DOMAIN dictionary : m = n

ListedAs(o, q) ==
  /\ Home(o) \in DOMAIN dictionary
       => \A p \in Pointers : o \in dictionary[Home(o)][p] => p = q
  /\ OneTable /\ q # Null
       => Home(o) \in DOMAIN dictionary /\ o \in dictionary[Home(o)][q]

(* The pointer under which the object of a call is listed.                 *)
ListedBy(f) ==
  IF f.call = "create" /\ f.at # "tracked" THEN Null
  ELSE IF f.call = "set" THEN f.old
  ELSE IF f.call = "dispose" /\ f.at \in {"untracked", "clear"} THEN Null
  ELSE pointer[f.object]

ListInv ==
  \A o \in Objects : status[o] = "live" =>
    /\ (\A t \in Threads : ~Uses(t, o)) => ListedAs(o, pointer[o])
    /\ \A t \in Threads : Uses(t, o) => ListedAs(o, ListedBy(Top(t)))

(* A call that still has a dictionary which has been overwritten works on  *)
(* an object that the new one does not list.                               *)
OldTableInv ==
  \A t \in Threads, o \in Objects :
    Uses(t, o) /\ status[o] = "live" /\ Top(t).at \in Looking /\ Top(t).table # Home(o)
      => \A p \in Pointers : o \notin dictionary[Home(o)][p]

(* An object that is not made yet is listed nowhere.                       *)
UnlistedInv ==
  \A o \in Objects : status[o] = "none" =>
    \A m \in DOMAIN dictionary, p \in Pointers : o \notin dictionary[m][p]

(* Where every thread has its dictionary, an object is only in its own's.   *)
PlaceInv ==
  ThreadStatic =>
    \A o \in Objects : status[o] = "live" =>
      \A m \in DOMAIN dictionary, p \in Pointers : o \in dictionary[m][p] => m = creator[o]

-----------------------------------------------------------------------------
(* The end of an object: what Dispose has found and done, its own handlers *)
(* and the finalizer.                                                      *)

Settled(f) ==
  /\ f.at \in {"disposing", "release"} => (pointer[f.object] = Null <=> f.nested)
  /\ f.at = "disposed" => pointer[f.object] = Null /\ suppressed[f.object]
SettledInv == \A t \in Threads, o \in Objects : Uses(t, o) => Settled(Top(t))

(* A Dispose that a handler of Disposing interrupts is marked.             *)
BelowInv ==
  \A t \in Threads : \A i \in 1..Len(stack[t]) - 1 :
    stack[t][i].at = "disposing" => stack[t][i].nested

(* What is collected with a pointer had no finalizer, or is in it.         *)
FinalInv ==
  \A o \in Objects : status[o] = "collected" /\ pointer[o] # Null
    => suppressed[o] \/ (Uses(Finalizer, o) /\ Top(Finalizer).call = "dispose")

EndInv == SettledInv /\ BelowInv /\ FinalInv

TrackInv == TableInv /\ ListInv /\ OldTableInv /\ UnlistedInv /\ PlaceInv

-----------------------------------------------------------------------------
(* Lemmas on stacks.                                                       *)

StackType == stack \in [Threads -> Seq(Frame)]
Others(t) == \A u \in Threads : u # t => stack'[u] = stack[u]

LEMMA TopFrame ==
  ASSUME StackType, NEW t \in Threads, stack[t] # <<>>
  PROVE  /\ Len(stack[t]) \in Nat \ {0}
         /\ Top(t) = stack[t][Len(stack[t])]
         /\ Top(t) \in Frame
<1>1. stack[t] \in Seq(Frame)
  BY DEF StackType
<1>2. Len(stack[t]) \in Nat \ {0}
  BY <1>1
<1>3. QED
  BY <1>1, <1>2 DEF Top

LEMMA PushStack ==
  ASSUME StackType, NEW t \in Threads, NEW f \in Frame, Push(t, f)
  PROVE  /\ StackType' /\ Others(t)
         /\ stack'[t] # <<>> /\ Top(t)' = f
         /\ Len(stack'[t]) = Len(stack[t]) + 1
         /\ \A i \in 1..Len(stack[t]) : stack'[t][i] = stack[t][i]
<1>1. stack[t] \in Seq(Frame)
  BY DEF StackType
<1>2. stack' = [stack EXCEPT ![t] = Append(stack[t], f)]
  BY DEF Push
<1>3. stack'[t] = Append(stack[t], f) /\ Others(t)
  BY <1>2 DEF StackType, Others
<1>4. Append(stack[t], f) \in Seq(Frame)
  BY <1>1
<1>5. StackType'
  BY <1>2, <1>4 DEF StackType
<1>6. QED
  BY <1>1, <1>3, <1>5 DEF Top

LEMMA GotoStack ==
  ASSUME StackType, NEW t \in Threads, stack[t] # <<>>, NEW f \in Frame, NEW label \in Labels,
         Goto(t, f, label)
  PROVE  /\ StackType' /\ Others(t)
         /\ stack'[t] # <<>> /\ Top(t)' = [f EXCEPT !.at = label]
         /\ Top(t)' \in Frame
         /\ Len(stack'[t]) = Len(stack[t])
         /\ \A i \in 1..Len(stack[t]) - 1 : stack'[t][i] = stack[t][i]
<1>1. stack[t] \in Seq(Frame) /\ Len(stack[t]) \in Nat \ {0}
  BY TopFrame DEF StackType
<1> DEFINE g == [f EXCEPT !.at = label]
           s == [stack[t] EXCEPT ![Len(stack[t])] = g]
<1>2. g \in Frame
  BY DEF Frame
<1>3. stack' = [stack EXCEPT ![t] = s]
  BY DEF Goto
<1>4. stack'[t] = s /\ Others(t)
  BY <1>3 DEF StackType, Others
<1>5. s \in Seq(Frame) /\ Len(s) = Len(stack[t]) /\ s[Len(stack[t])] = g
  BY <1>1, <1>2
<1>6. StackType'
  BY <1>3, <1>5 DEF StackType
<1>7. s # <<>> /\ \A i \in 1..Len(stack[t]) - 1 : s[i] = stack[t][i]
  BY <1>1, <1>5
<1>8. QED
  BY <1>2, <1>4, <1>5, <1>6, <1>7 DEF Top

LEMMA ReturnStack ==
  ASSUME StackType, NEW t \in Threads, stack[t] # <<>>, Return(t)
  PROVE  /\ StackType' /\ Others(t)
         /\ Len(stack'[t]) = Len(stack[t]) - 1
         /\ \A i \in 1..Len(stack[t]) - 1 : stack'[t][i] = stack[t][i]
<1>1. stack[t] \in Seq(Frame) /\ Len(stack[t]) \in Nat \ {0}
  BY TopFrame DEF StackType
<1> DEFINE s == SubSeq(stack[t], 1, Len(stack[t]) - 1)
<1>2. stack' = [stack EXCEPT ![t] = s]
  BY DEF Return
<1>3. stack'[t] = s /\ Others(t)
  BY <1>2 DEF StackType, Others
<1>4. /\ s \in Seq(Frame)
      /\ Len(s) = Len(stack[t]) - 1
      /\ \A i \in 1..Len(stack[t]) - 1 : s[i] = stack[t][i]
  BY <1>1
<1>5. StackType'
  BY <1>2, <1>4 DEF StackType
<1>6. QED
  BY <1>3, <1>4, <1>5

(* A call that begins, alone or in a handler of the one below it.          *)
LEMMA PushInv ==
  ASSUME StackType, StackInv, NEW t \in Threads, NEW f \in Frame, FrameInv(f), Push(t, f),
         stack[t] # <<>> => /\ Top(t).at \in Handlers
                            /\ Top(t).object = f.object /\ f.call = "dispose"
  PROVE  StackType' /\ StackInv' /\ Others(t) /\ stack'[t] # <<>> /\ Top(t)' = f
<1>1. /\ StackType' /\ Others(t) /\ stack'[t] # <<>> /\ Top(t)' = f
      /\ Len(stack'[t]) = Len(stack[t]) + 1
      /\ \A i \in 1..Len(stack[t]) : stack'[t][i] = stack[t][i]
  BY PushStack
<1>2. Len(stack[t]) \in Nat
  BY DEF StackType
<1>3. stack'[t][Len(stack[t]) + 1] = f
  BY <1>1 DEF Top
<1>4. ASSUME NEW i \in 1..Len(stack[t]) + 1
      PROVE  /\ FrameInv(stack'[t][i])
             /\ i < Len(stack[t]) + 1
                  => /\ stack'[t][i].at \in Handlers
                     /\ stack'[t][i].object = stack'[t][i + 1].object
                     /\ stack'[t][i + 1].call = "dispose"
  <2>1. CASE i = Len(stack[t]) + 1
    BY <1>3, <2>1
  <2>2. CASE i \in 1..Len(stack[t]) /\ i + 1 \in 1..Len(stack[t])
    BY <1>1, <1>2, <2>2, SMTT(20) DEF StackInv
  <2>3. CASE i = Len(stack[t])
    <3>1. stack[t] # <<>> /\ Top(t) = stack[t][i] /\ i \in 1..Len(stack[t])
      BY <1>2, <2>3 DEF Top
    <3>2. QED
      BY <1>1, <1>3, <2>3, <3>1 DEF StackInv
  <2>4. QED
    BY <1>2, <2>1, <2>2, <2>3
<1>5. QED
  BY <1>1, <1>4 DEF StackInv, Others

(* A handler's call, which marks the one it interrupts.                    *)
Marked(f) == [f EXCEPT !.nested = (@ \/ f.at = "disposing")]

LEMMA InterruptInv ==
  ASSUME StackType, StackInv, NEW t \in Threads, stack[t] # <<>>,
         NEW f \in Frame, FrameInv(f), f.object = Top(t).object, f.call = "dispose",
         Top(t).at \in Handlers,
         stack' = [stack EXCEPT ![t] =
                     Append([stack[t] EXCEPT ![Len(stack[t])] = Marked(Top(t))], f)]
  PROVE  /\ StackType' /\ StackInv' /\ Others(t) /\ stack'[t] # <<>> /\ Top(t)' = f
         /\ Len(stack'[t]) = Len(stack[t]) + 1
         /\ \A i \in 1..Len(stack[t]) - 1 : stack'[t][i] = stack[t][i]
         /\ stack'[t][Len(stack[t])] = Marked(Top(t))
<1> DEFINE n == Len(stack[t])
           g == Marked(Top(t))
           below == [stack[t] EXCEPT ![n] = g]
<1>1. stack[t] \in Seq(Frame) /\ n \in Nat \ {0} /\ Top(t) \in Frame /\ Top(t) = stack[t][n]
  BY TopFrame DEF StackType
<1>2. /\ g \in Frame /\ g.at = Top(t).at /\ g.object = Top(t).object /\ g.call = Top(t).call
      /\ g.new = Top(t).new
  BY <1>1 DEF Marked, Frame
<1> HIDE DEF g
<1>3. /\ below \in Seq(Frame) /\ Len(below) = n /\ below[n] = g
      /\ \A i \in 1..n - 1 : below[i] = stack[t][i]
  BY <1>1, <1>2
<1>4. stack' = [stack EXCEPT ![t] = Append(below, f)]
  BY DEF g
<1> HIDE DEF below
<1>5. stack'[t] = Append(below, f) /\ Others(t)
  BY <1>4 DEF StackType, Others
<1>6. /\ Append(below, f) \in Seq(Frame) /\ Len(stack'[t]) = n + 1
      /\ stack'[t][n + 1] = f /\ stack'[t][n] = g
      /\ \A i \in 1..n - 1 : stack'[t][i] = stack[t][i]
  BY <1>1, <1>3, <1>5
<1>7. StackType'
  BY <1>4, <1>6 DEF StackType
<1>8. stack'[t] # <<>> /\ Top(t)' = f
  BY <1>1, <1>6 DEF Top
<1>9. ASSUME NEW i \in 1..n + 1
      PROVE  /\ FrameInv(stack'[t][i])
             /\ i < n + 1 => /\ stack'[t][i].at \in Handlers
                             /\ stack'[t][i].object = stack'[t][i + 1].object
                             /\ stack'[t][i + 1].call = "dispose"
  <2>1. FrameInv(g)
    BY <1>1, <1>2 DEF StackInv, FrameInv
  <2>2. CASE i = n + 1
    BY <1>6, <2>2
  <2>3. CASE i = n
    BY <1>2, <1>6, <2>1, <2>3
  <2>4. CASE i = n - 1
    <3>0. i \in 1..n /\ i < n /\ i + 1 = n
      BY <1>1, <2>4
    <3>1. /\ FrameInv(stack[t][i]) /\ stack[t][i].at \in Handlers
          /\ stack[t][i].object = stack[t][i + 1].object
          /\ stack[t][i + 1].call = "dispose"
      BY <3>0 DEF StackInv
    <3>2. stack'[t][i] = stack[t][i]
      BY <1>1, <1>6, <2>4
    <3>3. QED
      BY <1>1, <1>2, <1>6, <3>0, <3>1, <3>2
  <2>5. CASE i \in 1..n - 2
    <3>1. /\ FrameInv(stack[t][i]) /\ stack[t][i].at \in Handlers
          /\ stack[t][i].object = stack[t][i + 1].object
          /\ stack[t][i + 1].call = "dispose"
      BY <1>1, <2>5 DEF StackInv
    <3>2. stack'[t][i] = stack[t][i] /\ stack'[t][i + 1] = stack[t][i + 1]
      <4>1. i \in 1..n - 1 /\ i + 1 \in 1..n - 1
        BY <1>1, <2>5
      <4>2. QED
        BY <1>6, <4>1
    <3>3. QED
      BY <3>1, <3>2
  <2>6. QED
    BY <1>1, <2>2, <2>3, <2>4, <2>5
<1>10. StackInv'
  BY <1>5, <1>6, <1>9 DEF StackInv, Others
<1>11. QED
  BY <1>5, <1>6, <1>7, <1>8, <1>10 DEF g

(* A call that goes on.                                                    *)
LEMMA GotoInv ==
  ASSUME StackType, StackInv, NEW t \in Threads, stack[t] # <<>>, NEW f \in Frame,
         NEW label \in Labels, Goto(t, f, label), FrameInv([f EXCEPT !.at = label]),
         f.object = Top(t).object, f.call = Top(t).call
  PROVE  /\ StackType' /\ StackInv' /\ Others(t) /\ stack'[t] # <<>>
         /\ Top(t)' = [f EXCEPT !.at = label]
<1> DEFINE n == Len(stack[t])
           g == [f EXCEPT !.at = label]
<1>1. /\ StackType' /\ Others(t) /\ stack'[t] # <<>> /\ Top(t)' = g
      /\ Len(stack'[t]) = n
      /\ \A i \in 1..n - 1 : stack'[t][i] = stack[t][i]
  BY GotoStack
<1>2. n \in Nat \ {0} /\ Top(t) = stack[t][n] /\ g.object = f.object /\ g.call = f.call
  BY TopFrame DEF Frame
<1>3. stack'[t][n] = g
  BY <1>1 DEF Top
<1>4. ASSUME NEW i \in 1..n
      PROVE  /\ FrameInv(stack'[t][i])
             /\ i < n => /\ stack'[t][i].at \in Handlers
                         /\ stack'[t][i].object = stack'[t][i + 1].object
                         /\ stack'[t][i + 1].call = "dispose"
  <2>1. CASE i = n
    BY <1>3, <2>1
  <2>2. CASE i + 1 = n
    <3>1. /\ FrameInv(stack[t][i]) /\ stack[t][i].at \in Handlers
          /\ stack[t][i].object = stack[t][n].object /\ stack'[t][i] = stack[t][i]
          /\ stack[t][n].call = "dispose"
      BY <1>1, <1>2, <2>2 DEF StackInv
    <3>2. QED
      BY <1>2, <1>3, <2>2, <3>1
  <2>3. CASE i + 1 < n
    <3>1. /\ FrameInv(stack[t][i]) /\ stack[t][i].at \in Handlers
          /\ stack[t][i].object = stack[t][i + 1].object
          /\ stack[t][i + 1].call = "dispose"
      BY <1>2, <2>3 DEF StackInv
    <3>2. stack'[t][i] = stack[t][i] /\ stack'[t][i + 1] = stack[t][i + 1]
      BY <1>1, <1>2, <2>3
    <3>3. QED
      BY <3>1, <3>2
  <2>4. QED
    BY <1>2, <2>1, <2>2, <2>3
<1>5. QED
  BY <1>1, <1>4 DEF StackInv, Others

(* A call that ends: below it is a call about the same object, at a        *)
(* handler.                                                                *)
LEMMA ReturnInv ==
  ASSUME StackType, StackInv, NEW t \in Threads, stack[t] # <<>>, Return(t)
  PROVE  /\ StackType' /\ StackInv' /\ Others(t)
         /\ stack'[t] # <<>>
              => /\ Top(t).call = "dispose"
                 /\ Top(t)'.at \in Handlers
                 /\ Top(t)'.object = Top(t).object
                 /\ FrameInv(Top(t)')
                 /\ Top(t)' \in Frame
<1> DEFINE n == Len(stack[t])
<1>1. /\ StackType' /\ Others(t)
      /\ Len(stack'[t]) = n - 1
      /\ \A i \in 1..n - 1 : stack'[t][i] = stack[t][i]
  BY ReturnStack
<1>2. n \in Nat \ {0} /\ Top(t) = stack[t][n]
  BY TopFrame
<1>3. \A i \in 1..n - 1 : /\ FrameInv(stack[t][i]) /\ stack[t][i].at \in Handlers
                          /\ stack[t][i].object = stack[t][i + 1].object
                          /\ stack[t][i + 1].call = "dispose"
  BY <1>2 DEF StackInv
<1>4. StackInv'
  <2>1. ASSUME NEW i \in 1..n - 1, i < n - 1
        PROVE  stack'[t][i] = stack[t][i] /\ stack'[t][i + 1] = stack[t][i + 1]
    <3>1. i + 1 \in 1..n - 1
      BY <1>2, <2>1
    <3>2. QED
      BY <1>1, <3>1
  <2>2. ASSUME NEW i \in 1..n - 1
        PROVE  /\ FrameInv(stack'[t][i])
               /\ i < n - 1 => /\ stack'[t][i].at \in Handlers
                               /\ stack'[t][i].object = stack'[t][i + 1].object
                               /\ stack'[t][i + 1].call = "dispose"
    BY <1>1, <1>3, <2>1
  <2>3. \A i \in 1..Len(stack'[t]) :
          /\ FrameInv(stack'[t][i])
          /\ i < Len(stack'[t]) => /\ stack'[t][i].at \in Handlers
                                  /\ stack'[t][i].object = stack'[t][i + 1].object
                                  /\ stack'[t][i + 1].call = "dispose"
    BY <1>1, <2>2
  <2>4. \A u \in Threads : u # t => stack'[u] = stack[u]
    BY <1>1 DEF Others
  <2>5. QED
    BY <2>3, <2>4 DEF StackInv
<1>5. ASSUME stack'[t] # <<>>
      PROVE  /\ Top(t)'.at \in Handlers /\ Top(t)'.object = Top(t).object
             /\ Top(t).call = "dispose" /\ FrameInv(Top(t)') /\ Top(t)' \in Frame
  <2>1. stack'[t] \in Seq(Frame)
    BY <1>1 DEF StackType
  <2>2. n - 1 \in 1..n - 1 /\ Top(t)' = stack'[t][n - 1] /\ Top(t)' \in Frame
    BY <1>1, <1>2, <1>5, <2>1 DEF Top
  <2>3. Top(t)' = stack[t][n - 1] /\ (n - 1) + 1 = n
    BY <1>1, <1>2, <2>2
  <2>4. FrameInv(stack[t][n - 1]) /\ stack[t][n - 1].at \in Handlers
        /\ stack[t][n - 1].object = stack[t][n].object
        /\ stack[t][n].call = "dispose"
    BY <1>3, <2>2, <2>3
  <2>5. QED
    BY <1>2, <2>2, <2>3, <2>4
<1>6. QED
  BY <1>1, <1>4, <1>5

(* All calls of a thread are unwound.                                      *)
LEMMA UnwindInv ==
  ASSUME StackType, StackInv, NEW t \in Threads, stack' = [stack EXCEPT ![t] = <<>>]
  PROVE  StackType' /\ StackInv' /\ Others(t) /\ stack'[t] = <<>>
<1>1. stack'[t] = <<>> /\ Others(t)
  BY DEF StackType, Others
<1>2. <<>> \in Seq(Frame) /\ Len(<<>>) = 0
  OBVIOUS
<1>3. StackType'
  BY <1>2 DEF StackType
<1>4. QED
  BY <1>1, <1>2, <1>3 DEF StackInv, Others

-----------------------------------------------------------------------------
(* The calls of every step: who works on what, and what it remembers.      *)

LEMMA OtherUses ==
  ASSUME NEW t \in Threads, Others(t), NEW u \in Threads, u # t
  PROVE  /\ stack'[u] = stack[u] /\ Top(u)' = Top(u)
         /\ \A o : Uses(u, o)' <=> Uses(u, o)
         /\ \A label : At(u, label)' <=> At(u, label)
BY DEF Others, Uses, Top, At

LEMMA UnusedUses ==
  ASSUME StackType, NEW o, Unused(o), NEW t \in Threads
  PROVE  ~Uses(t, o)
<1> SUFFICES ASSUME Uses(t, o)
             PROVE  FALSE
  OBVIOUS
<1>1. stack[t] # <<>> /\ Top(t).object = o
  BY DEF Uses
<1>2. Len(stack[t]) \in DOMAIN stack[t] /\ Top(t) = stack[t][Len(stack[t])]
  BY <1>1, TopFrame DEF StackType
<1>3. QED
  BY <1>1, <1>2 DEF Unused

LEMMA TopInv ==
  ASSUME CallInv, NEW t \in Threads, stack[t] # <<>>
  PROVE  /\ Top(t) \in Frame /\ FrameInv(Top(t))
         /\ Top(t).call # "find"
              => /\ Top(t).object \in Objects /\ Uses(t, Top(t).object)
                 /\ Remembers(Top(t))
<1>1. StackType
  BY DEF CallInv, CallType, StackType
<1>2. /\ Len(stack[t]) \in Nat \ {0} /\ Top(t) \in Frame
      /\ Top(t) = stack[t][Len(stack[t])]
  BY <1>1, TopFrame
<1>3. FrameInv(Top(t))
  BY <1>2 DEF CallInv, StackInv
<1>4. QED
  BY <1>2, <1>3 DEF FrameInv, Uses, CallInv, PointerInv

(* A step in the middle of a call of t.                                    *)
LEMMA CallGoesOn ==
  ASSUME CallInv, NEW t \in Threads, StackType', StackInv', Others(t),
         UNCHANGED <<status, creator>>,
         pointer' \in [Objects -> Maybe],
         \A o \in Objects : pointer'[o] = pointer[o] \/ (Uses(t, o) /\ pointer'[o] = Null),
         suppressed' \in [Objects -> BOOLEAN],
         global' \in Threads \cup {NoThread},
         DOMAIN dictionary' \subseteq Threads,
         dictionary' \in [DOMAIN dictionary' -> [Pointers -> SUBSET Objects]],
         \A o \in Objects : Uses(t, o)' => Uses(t, o) /\ Remembers(Top(t))'
  PROVE  CallInv'
<1>1. CallType'
  BY DEF CallInv, CallType, StackType
<1>2. \A u \in Threads, o \in Objects : Uses(u, o)' => Uses(u, o)
  BY OtherUses
<1>3. UseInv'
  <2>1. \A u \in Threads, o \in Objects :
          Uses(u, o)' => status'[o] = IF u = Finalizer THEN "collected" ELSE "live"
    BY <1>2 DEF CallInv, UseInv
  <2>2. \A u, v \in Threads, o \in Objects : Uses(u, o)' /\ Uses(v, o)' => u = v
    BY <1>2 DEF CallInv, UseInv
  <2>3. \A u \in Users, o \in Objects : Uses(u, o)' /\ Pinned => creator'[o] = u
    BY <1>2 DEF CallInv, UseInv, Users
  <2>4. \A o \in Objects : status'[o] = "none" => pointer'[o] = Null
    BY DEF CallInv, UseInv
  <2>5. QED
    BY <2>1, <2>2, <2>3, <2>4 DEF UseInv
<1>4. ASSUME NEW u \in Threads, NEW o \in Objects, u # t, Uses(u, o)'
      PROVE  Remembers(Top(u))'
  <2>1. Uses(u, o) /\ Top(u)' = Top(u)
    BY <1>4, OtherUses
  <2>2. ~Uses(t, o)
    BY <1>4, <2>1 DEF CallInv, UseInv
  <2>3. Top(u).object = o /\ pointer'[o] = pointer[o]
    BY <2>1, <2>2 DEF Uses
  <2>4. Remembers(Top(u))
    BY <2>1 DEF CallInv, PointerInv
  <2>5. QED
    BY <2>1, <2>3, <2>4 DEF Remembers
<1>5. QED
  BY <1>1, <1>3, <1>4 DEF CallInv, PointerInv

(* A call whose frame moves to another label and keeps its object.         *)
LEMMA CallMoves ==
  ASSUME CallInv, NEW t \in Threads, stack[t] # <<>>, NEW f \in Frame, NEW label \in Labels,
         Goto(t, f, label), label \in LabelsOf(f.call),
         f.call = Top(t).call, f.object = Top(t).object, f.new = Top(t).new
  PROVE  /\ StackType' /\ StackInv' /\ Others(t) /\ stack'[t] # <<>>
         /\ Top(t)' = [f EXCEPT !.at = label] /\ Top(t)' \in Frame
         /\ Top(t)'.call = Top(t).call /\ Top(t)'.object = Top(t).object
         /\ Top(t)'.at = label /\ Top(t)'.new = Top(t).new
         /\ Top(t)'.old = f.old /\ Top(t)'.table = f.table
         /\ Top(t)'.disposing = f.disposing /\ Top(t)'.nested = f.nested
         /\ \A o \in Objects : Uses(t, o)' <=> Uses(t, o)
<1> DEFINE g == [f EXCEPT !.at = label]
<1>1. StackType /\ StackInv
  BY DEF CallInv, CallType, StackType
<1>2. Top(t) \in Frame /\ FrameInv(Top(t))
  BY TopInv
<1>3. /\ g.at = label /\ g.call = f.call /\ g.object = f.object /\ g.new = f.new
      /\ g.old = f.old /\ g.table = f.table /\ g \in Frame /\ g.disposing = f.disposing
      /\ g.nested = f.nested
  BY DEF Frame
<1>4. FrameInv(g)
  BY <1>2, <1>3 DEF FrameInv
<1>5. StackType' /\ StackInv' /\ Others(t) /\ stack'[t] # <<>> /\ Top(t)' = g
  BY <1>1, <1>4, GotoInv
<1>6. \A o \in Objects : Uses(t, o)' <=> Uses(t, o)
  BY <1>3, <1>5 DEF Uses
<1>7. QED
  BY <1>3, <1>5, <1>6

LEMMA AtTop ==
  ASSUME CallInv, NEW t \in Threads, NEW label, At(t, label)
  PROVE  /\ stack[t] # <<>> /\ Top(t).at = label
         /\ Top(t) \in Frame /\ FrameInv(Top(t)) /\ label \in LabelsOf(Top(t).call)
BY TopInv DEF At, FrameInv

LEMMA CallEnds ==
  ASSUME CallInv, NEW t \in Threads, stack[t] # <<>>, Return(t)
  PROVE  /\ StackType' /\ StackInv' /\ Others(t)
         /\ \A o \in Objects : Uses(t, o)' => /\ Uses(t, o)
                                              /\ Top(t)' \in Frame /\ FrameInv(Top(t)')
                                              /\ \/ /\ Top(t)'.call = "create"
                                                    /\ Top(t)'.at = "tracked"
                                                 \/ /\ Top(t)'.call = "dispose"
                                                    /\ Top(t)'.at \in {"disposing", "untracked",
                                                                      "disposed"}
<1>1. StackType /\ StackInv
  BY DEF CallInv, CallType, StackType
<1>2. /\ StackType' /\ StackInv' /\ Others(t)
      /\ stack'[t] # <<>> => /\ Top(t).call = "dispose"
                             /\ Top(t)'.at \in Handlers
                             /\ Top(t)'.object = Top(t).object
                             /\ FrameInv(Top(t)')
                             /\ Top(t)' \in Frame
  BY <1>1, ReturnInv
<1>3. ASSUME NEW o \in Objects, Uses(t, o)'
      PROVE  /\ Uses(t, o) /\ Top(t)' \in Frame /\ FrameInv(Top(t)')
             /\ \/ Top(t)'.call = "create" /\ Top(t)'.at = "tracked"
                \/ Top(t)'.call = "dispose" /\ Top(t)'.at \in {"disposing", "untracked", "disposed"}
  <2>1. stack'[t] # <<>> /\ Top(t)'.object = o
    BY <1>3 DEF Uses
  <2>2. Uses(t, o)
    BY <1>2, <2>1 DEF Uses
  <2>3. Top(t)'.at \in {"tracked", "disposing", "untracked", "disposed"}
    BY <1>2, <2>1, HandlerAssumption
  <2>4. \/ Top(t)'.call = "create" /\ Top(t)'.at = "tracked"
        \/ Top(t)'.call = "dispose" /\ Top(t)'.at \in {"disposing", "untracked", "disposed"}
    BY <1>2, <2>1, <2>3 DEF FrameInv, LabelsOf, Frame
  <2>5. QED
    BY <1>2, <2>1, <2>2, <2>3, <2>4
<1>4. QED
  BY <1>2, <1>3

LEMMA WithType ==
  ASSUME NEW table \in [Pointers -> SUBSET Objects], NEW o \in Objects, NEW p
  PROVE  /\ With(table, o, p) \in [Pointers -> SUBSET Objects]
         /\ Without(table, o, p) \in [Pointers -> SUBSET Objects]
BY DEF With, Without

(* The frames that calls begin with.                                       *)
CreateFrame(o, p) ==
  [NoFrame EXCEPT !.call = "create", !.object = o, !.new = p, !.at = "table"]
SetFrame(o, q, p) ==
  [NoFrame EXCEPT !.call = "set", !.object = o, !.old = q, !.new = p, !.at = "table"]
FindFrame == [NoFrame EXCEPT !.call = "find", !.at = "table"]

LEMMA CreateFrameType ==
  ASSUME NEW o \in Objects, NEW p \in Maybe
  PROVE  LET f == CreateFrame(o, p)
         IN  /\ f \in Frame /\ f.call = "create" /\ f.object = o /\ f.new = p
             /\ f.at = "table" /\ (p # Null => FrameInv(f))
BY DEF NoFrame, Frame, Maybe, Labels, FrameInv, LabelsOf, CreateFrame

LEMMA SetFrameType ==
  ASSUME NEW o \in Objects, NEW p \in Maybe, NEW q \in Maybe
  PROVE  LET f == SetFrame(o, q, p)
         IN  /\ f \in Frame /\ f.call = "set" /\ f.object = o /\ f.old = q
             /\ f.new = p /\ f.at = "table" /\ FrameInv(f)
BY DEF NoFrame, Frame, Maybe, Labels, FrameInv, LabelsOf, SetFrame

LEMMA DisposeFrameType ==
  ASSUME NEW o \in Objects, NEW d \in BOOLEAN
  PROVE  LET f == DisposeFrame(o, d)
         IN  /\ f \in Frame /\ f.call = "dispose" /\ f.object = o /\ f.disposing = d
             /\ f.at = "disposing" /\ FrameInv(f) /\ ~f.nested
BY DEF NoFrame, Frame, Maybe, Labels, FrameInv, LabelsOf, DisposeFrame

LEMMA FindFrameType ==
  FindFrame \in Frame /\ FindFrame.call = "find" /\ FindFrame.at = "table" /\ FrameInv(FindFrame)
BY DEF NoFrame, Frame, Maybe, Labels, FrameInv, LabelsOf, FindFrame

(* A call of t that goes on with its object, and one that ends.            *)
SameCall(t) ==
  /\ Others(t) /\ stack'[t] # <<>> /\ Top(t)' \in Frame
  /\ Top(t)'.call = Top(t).call /\ Top(t)'.object = Top(t).object
  /\ Top(t)'.new = Top(t).new /\ Top(t)'.disposing = Top(t).disposing
  /\ \A o \in Objects : Uses(t, o)' <=> Uses(t, o)

Quiet(f) == \/ f.call = "create" /\ f.at = "tracked"
            \/ f.call = "dispose" /\ f.at \in {"disposing", "untracked", "disposed"}
EndedCall(t) ==
  Others(t) /\ \A o \in Objects : Uses(t, o)' => Uses(t, o) /\ Quiet(Top(t))'

LEMMA Moves ==
  ASSUME CallInv, NEW t \in Threads, stack[t] # <<>>, NEW f \in Frame, NEW label \in Labels,
         Goto(t, f, label), label \in LabelsOf(f.call),
         f.call = Top(t).call, f.object = Top(t).object, f.new = Top(t).new,
         f.disposing = Top(t).disposing
  PROVE  /\ StackType' /\ StackInv' /\ SameCall(t)
         /\ Top(t)'.at = label /\ Top(t)'.old = f.old /\ Top(t)'.table = f.table
         /\ Top(t)'.nested = f.nested
BY CallMoves DEF SameCall

LEMMA Ends ==
  ASSUME CallInv, NEW t \in Threads, stack[t] # <<>>, Return(t)
  PROVE  StackType' /\ StackInv' /\ EndedCall(t)
BY CallEnds DEF EndedCall, Quiet

(* Facts about a call in progress that every step of it starts from.       *)
LEMMA Running ==
  ASSUME CallInv, NEW t \in Threads, stack[t] # <<>>
  PROVE  /\ pointer \in [Objects -> Maybe]
         /\ suppressed \in [Objects -> BOOLEAN]
         /\ global \in Threads \cup {NoThread}
         /\ DOMAIN dictionary \subseteq Threads
         /\ dictionary \in [DOMAIN dictionary -> [Pointers -> SUBSET Objects]]
         /\ Top(t) \in Frame /\ FrameInv(Top(t))
         /\ \A o \in Objects : Uses(t, o) => Remembers(Top(t))
BY TopInv DEF CallInv, CallType, PointerInv

(* One step after the other: where it is taken, where it leads, and that   *)
(* CallInv survives it.                                                    *)
LEMMA GetTableCall ==
  ASSUME CallInv, NEW t \in Threads, GetTable(t)
  PROVE  /\ CallInv' /\ SameCall(t) /\ Top(t).at = "table" /\ Top(t)'.old = Top(t).old
         /\ LET table == IF ThreadStatic THEN t ELSE global
            IN  \/ table \notin DOMAIN dictionary /\ Top(t)'.at = "newTable"
                \/ /\ table \in DOMAIN dictionary
                   /\ Top(t)'.at = Lookup(Top(t).call) /\ Top(t)'.table = table
<1> DEFINE f == Top(t)
           table == IF ThreadStatic THEN t ELSE global
           g == [f EXCEPT !.table = table]
<1>1. /\ At(t, "table") /\ UNCHANGED <<objects, tracker>>
      /\ \/ table \notin DOMAIN dictionary /\ Goto(t, f, "newTable")
         \/ table \in DOMAIN dictionary /\ Goto(t, g, Lookup(f.call))
  BY DEF GetTable
<1>2. stack[t] # <<>> /\ f.at = "table" /\ "table" \in LabelsOf(f.call) /\ f = Top(t)
  BY <1>1, AtTop
<1>3. /\ pointer \in [Objects -> Maybe]
      /\ suppressed \in [Objects -> BOOLEAN]
      /\ global \in Threads \cup {NoThread}
      /\ DOMAIN dictionary \subseteq Threads
      /\ dictionary \in [DOMAIN dictionary -> [Pointers -> SUBSET Objects]]
      /\ f \in Frame /\ FrameInv(f) /\ \A o \in Objects : Uses(t, o) => Remembers(f)
  BY <1>2, Running
<1> HIDE DEF f
<1>4. CASE table \notin DOMAIN dictionary /\ Goto(t, f, "newTable")
  <2>1. "newTable" \in LabelsOf(f.call) /\ "newTable" \in Labels
    BY <1>2, <1>3 DEF Frame, LabelsOf, Labels
  <2>2. /\ StackType' /\ StackInv' /\ SameCall(t)
        /\ Top(t)'.at = "newTable" /\ Top(t)'.old = f.old
    BY <1>2, <1>3, <1>4, <2>1, Moves
  <2>3. CallInv'
    BY <1>1, <1>2, <1>3, <2>2, CallGoesOn
       DEF SameCall, Remembers, AfterRead, objects, tracker
  <2>4. QED
    BY <1>2, <1>4, <2>2, <2>3
<1>5. CASE table \in DOMAIN dictionary /\ Goto(t, g, Lookup(f.call))
  <2>1. /\ g \in Frame /\ g.call = f.call /\ g.object = f.object /\ g.new = f.new
        /\ g.old = f.old /\ g.table = table /\ g.disposing = f.disposing
    BY <1>3, <1>5 DEF Frame
  <2>2. Lookup(f.call) \in LabelsOf(f.call) /\ Lookup(f.call) \in Labels
    BY <1>3 DEF Lookup, Frame, LabelsOf, Labels
  <2>3. /\ StackType' /\ StackInv' /\ SameCall(t)
        /\ Top(t)'.at = Lookup(f.call) /\ Top(t)'.old = f.old /\ Top(t)'.table = table
    <3> HIDE DEF g
    <3>1. QED
      BY <1>2, <1>5, <2>1, <2>2, Moves
  <2>4. CallInv'
    BY <1>1, <1>2, <1>3, <2>2, <2>3, CallGoesOn
       DEF SameCall, Remembers, AfterRead, LabelsOf, Lookup, Frame, objects, tracker
  <2>5. QED
    BY <1>2, <1>5, <2>3, <2>4
<1>6. QED
  BY <1>1, <1>4, <1>5

LEMMA NewTableCall ==
  ASSUME CallInv, NEW t \in Threads, NewTable(t)
  PROVE  /\ CallInv' /\ SameCall(t) /\ Top(t).at = "newTable" /\ Top(t)'.old = Top(t).old
         /\ Top(t)'.at = Lookup(Top(t).call) /\ Top(t)'.table = t
<1> DEFINE f == Top(t)
           g == [f EXCEPT !.table = t]
<1>1. /\ At(t, "newTable") /\ UNCHANGED objects
      /\ global' \in {global, t}
      /\ dictionary' = [maker \in DOMAIN dictionary \cup {t} |->
                          IF maker = t THEN Empty ELSE dictionary[maker]]
      /\ Goto(t, g, Lookup(f.call))
  BY DEF NewTable
<1>2. stack[t] # <<>> /\ f.at = "newTable" /\ "newTable" \in LabelsOf(f.call) /\ f = Top(t)
  BY <1>1, AtTop
<1>3. /\ pointer \in [Objects -> Maybe]
      /\ suppressed \in [Objects -> BOOLEAN]
      /\ global \in Threads \cup {NoThread}
      /\ DOMAIN dictionary \subseteq Threads
      /\ dictionary \in [DOMAIN dictionary -> [Pointers -> SUBSET Objects]]
      /\ f \in Frame /\ FrameInv(f) /\ \A o \in Objects : Uses(t, o) => Remembers(f)
  BY <1>2, Running
<1> HIDE DEF f
<1>4. /\ g \in Frame /\ g.call = f.call /\ g.object = f.object /\ g.new = f.new
      /\ g.old = f.old /\ g.table = t /\ g.disposing = f.disposing
  BY <1>3 DEF Frame
<1>5. Lookup(f.call) \in LabelsOf(f.call) /\ Lookup(f.call) \in Labels
  BY <1>3 DEF Lookup, Frame, LabelsOf, Labels
<1>6. /\ StackType' /\ StackInv' /\ SameCall(t)
      /\ Top(t)'.at = Lookup(f.call) /\ Top(t)'.old = f.old /\ Top(t)'.table = t
  <2> HIDE DEF g
  <2>1. QED
    BY <1>1, <1>2, <1>4, <1>5, Moves
<1>7. /\ DOMAIN dictionary' \subseteq Threads
      /\ dictionary' \in [DOMAIN dictionary' -> [Pointers -> SUBSET Objects]]
  BY <1>1, <1>3 DEF Empty
<1>8. CallInv'
  BY <1>1, <1>2, <1>3, <1>5, <1>6, <1>7, CallGoesOn
     DEF SameCall, Remembers, AfterRead, LabelsOf, Lookup, Frame, objects
<1>9. QED
  BY <1>2, <1>6, <1>8

LEMMA TrackCall ==
  ASSUME CallInv, NEW t \in Threads, Track(t)
  PROVE  /\ CallInv' /\ SameCall(t) /\ Top(t).call = "create" /\ Top(t).at = "track"
         /\ Top(t)'.at = "tracked"
<1> DEFINE f == Top(t)
<1>1. /\ At(t, "track") /\ UNCHANGED <<objects, global>>
      /\ dictionary' = [dictionary EXCEPT ![f.table] = With(@, f.object, f.new)]
      /\ Goto(t, f, "tracked")
  BY DEF Track
<1>2. stack[t] # <<>> /\ f.at = "track" /\ "track" \in LabelsOf(f.call) /\ f = Top(t)
  BY <1>1, AtTop
<1>3. /\ pointer \in [Objects -> Maybe]
      /\ suppressed \in [Objects -> BOOLEAN]
      /\ global \in Threads \cup {NoThread}
      /\ DOMAIN dictionary \subseteq Threads
      /\ dictionary \in [DOMAIN dictionary -> [Pointers -> SUBSET Objects]]
      /\ f \in Frame /\ FrameInv(f) /\ \A o \in Objects : Uses(t, o) => Remembers(f)
  BY <1>2, Running
<1> HIDE DEF f
<1>4. f.call = "create" /\ f.object \in Objects
  BY <1>2, <1>3 DEF Frame, FrameInv, LabelsOf
<1>5. /\ StackType' /\ StackInv' /\ SameCall(t)
      /\ Top(t)'.at = "tracked" /\ Top(t)'.old = f.old
  BY <1>1, <1>2, <1>3, <1>4, Moves DEF LabelsOf, Labels
<1>6. /\ DOMAIN dictionary' \subseteq Threads
      /\ dictionary' \in [DOMAIN dictionary' -> [Pointers -> SUBSET Objects]]
  BY <1>1, <1>3, <1>4, WithType
<1>7. CallInv'
  BY <1>1, <1>2, <1>3, <1>4, <1>5, <1>6, CallGoesOn DEF SameCall, Remembers, objects
<1>8. QED
  BY <1>2, <1>4, <1>5, <1>7

LEMMA MigrateCall ==
  ASSUME CallInv, NEW t \in Threads, MigrateNativePointer(t)
  PROVE  CallInv' /\ EndedCall(t) /\ Top(t).call = "set" /\ Top(t).at = "migrate"
<1> DEFINE f == Top(t)
           table == dictionary[f.table]
           left == IF f.old = Null THEN table ELSE Without(table, f.object, f.old)
           new == IF f.new = Null THEN left ELSE With(left, f.object, f.new)
<1>1. /\ At(t, "migrate") /\ UNCHANGED <<objects, global>>
      /\ dictionary' = [dictionary EXCEPT ![f.table] = new]
      /\ Return(t)
  BY DEF MigrateNativePointer
<1>2. stack[t] # <<>> /\ f.at = "migrate" /\ "migrate" \in LabelsOf(f.call) /\ f = Top(t)
  BY <1>1, AtTop
<1>3. /\ pointer \in [Objects -> Maybe]
      /\ suppressed \in [Objects -> BOOLEAN]
      /\ global \in Threads \cup {NoThread}
      /\ DOMAIN dictionary \subseteq Threads
      /\ dictionary \in [DOMAIN dictionary -> [Pointers -> SUBSET Objects]]
      /\ f \in Frame /\ FrameInv(f) /\ \A o \in Objects : Uses(t, o) => Remembers(f)
  BY <1>2, Running
<1> HIDE DEF f
<1>4. f.call = "set" /\ f.object \in Objects
  BY <1>2, <1>3 DEF Frame, FrameInv, LabelsOf
<1>5. StackType' /\ StackInv' /\ EndedCall(t)
  BY <1>1, <1>2, Ends
<1>6. /\ DOMAIN dictionary' \subseteq Threads
      /\ dictionary' \in [DOMAIN dictionary' -> [Pointers -> SUBSET Objects]]
  <2>1. f.table \in DOMAIN dictionary => table \in [Pointers -> SUBSET Objects]
    BY <1>3
  <2>2. f.table \in DOMAIN dictionary => new \in [Pointers -> SUBSET Objects]
    BY <1>4, <2>1, WithType
  <2>3. QED
    BY <1>1, <1>3, <2>2
<1>7. CallInv'
  BY <1>1, <1>3, <1>5, <1>6, CallGoesOn DEF EndedCall, Quiet, Remembers, AfterRead, objects
<1>8. QED
  BY <1>2, <1>4, <1>5, <1>7

LEMMA UntrackCall ==
  ASSUME CallInv, NEW t \in Threads, Untrack(t)
  PROVE  /\ CallInv' /\ SameCall(t) /\ Top(t).call = "dispose" /\ Top(t).at = "untrack"
         /\ Top(t)'.at \in {"untracked", "clear"} /\ Top(t)'.old = Top(t).old
<1> DEFINE f == Top(t)
<1>1. /\ At(t, "untrack") /\ UNCHANGED <<objects, global>>
      /\ dictionary' = [dictionary EXCEPT ![f.table] = Without(@, f.object, f.old)]
      /\ Goto(t, f, "untracked") \/ Goto(t, f, "clear")
  BY DEF Untrack
<1>2. stack[t] # <<>> /\ f.at = "untrack" /\ "untrack" \in LabelsOf(f.call) /\ f = Top(t)
  BY <1>1, AtTop
<1>3. /\ pointer \in [Objects -> Maybe]
      /\ suppressed \in [Objects -> BOOLEAN]
      /\ global \in Threads \cup {NoThread}
      /\ DOMAIN dictionary \subseteq Threads
      /\ dictionary \in [DOMAIN dictionary -> [Pointers -> SUBSET Objects]]
      /\ f \in Frame /\ FrameInv(f) /\ \A o \in Objects : Uses(t, o) => Remembers(f)
  BY <1>2, Running
<1> HIDE DEF f
<1>4. f.call = "dispose" /\ f.object \in Objects
  BY <1>2, <1>3 DEF Frame, FrameInv, LabelsOf
<1>5. /\ StackType' /\ StackInv' /\ SameCall(t)
      /\ Top(t)'.at \in {"untracked", "clear"} /\ Top(t)'.old = f.old
  <2>1. CASE Goto(t, f, "untracked")
    BY <1>2, <1>3, <1>4, <2>1, Moves DEF LabelsOf, Labels
  <2>2. CASE Goto(t, f, "clear")
    BY <1>2, <1>3, <1>4, <2>2, Moves DEF LabelsOf, Labels
  <2>3. QED
    BY <1>1, <2>1, <2>2
<1>6. /\ DOMAIN dictionary' \subseteq Threads
      /\ dictionary' \in [DOMAIN dictionary' -> [Pointers -> SUBSET Objects]]
  BY <1>1, <1>3, <1>4, WithType
<1>7. CallInv'
  BY <1>1, <1>2, <1>3, <1>4, <1>5, <1>6, CallGoesOn
     DEF SameCall, Remembers, AfterRead, objects
<1>8. QED
  BY <1>2, <1>4, <1>5, <1>7

LEMMA EndCallCall ==
  ASSUME CallInv, NEW t \in Threads, EndCall(t)
  PROVE  /\ CallInv' /\ EndedCall(t)
         /\ \/ Quiet(Top(t)) /\ Top(t).at \in {"tracked", "disposed"}
            \/ Top(t).call = "find"
<1>1. /\ Return(t) /\ UNCHANGED <<objects, tracker>> /\ stack[t] # <<>>
      /\ At(t, "tracked") \/ At(t, "report") \/ At(t, "disposed")
  BY DEF EndCall, At
<1>2. /\ pointer \in [Objects -> Maybe]
      /\ suppressed \in [Objects -> BOOLEAN]
      /\ global \in Threads \cup {NoThread}
      /\ DOMAIN dictionary \subseteq Threads
      /\ dictionary \in [DOMAIN dictionary -> [Pointers -> SUBSET Objects]]
      /\ Top(t) \in Frame /\ FrameInv(Top(t))
  BY <1>1, Running
<1>3. StackType' /\ StackInv' /\ EndedCall(t)
  BY <1>1, Ends
<1>4. CallInv'
  BY <1>1, <1>2, <1>3, CallGoesOn
     DEF EndedCall, Quiet, Remembers, AfterRead, objects, tracker
<1>5. \/ Quiet(Top(t)) /\ Top(t).at \in {"tracked", "disposed"}
      \/ Top(t).call = "find"
  BY <1>1, <1>2 DEF At, FrameInv, LabelsOf, Frame, Quiet
<1>6. QED
  BY <1>3, <1>4, <1>5

LEMMA HandlerCall ==
  ASSUME CallInv, NEW t \in Threads, DisposeInHandler(t)
  PROVE  CallInv' /\ EndedCall(t) /\ Quiet(Top(t))
         /\ Top(t)'.at = "disposing" /\ pointer[Top(t).object] # Null
         /\ stack[t] # <<>> /\ Top(t).at \in Handlers
         /\ stack'[t] # <<>> /\ Top(t)' = DisposeFrame(Top(t).object, TRUE)
         /\ Len(stack'[t]) = Len(stack[t]) + 1
         /\ stack'[t][Len(stack[t])] = Marked(Top(t))
         /\ \A i \in 1..Len(stack[t]) - 1 : stack'[t][i] = stack[t][i]
<1> DEFINE f == Top(t)
           g == DisposeFrame(f.object, TRUE)
<1>1. /\ stack[t] # <<>> /\ f.at \in Handlers /\ ~IsDisposed(f.object)
      /\ stack' = [stack EXCEPT ![t] =
                     Append([stack[t] EXCEPT ![Len(stack[t])] = Marked(f)], g)]
      /\ UNCHANGED <<objects, tracker>>
  BY DEF DisposeInHandler, CheckAndDispose, Marked
<1>2. /\ pointer \in [Objects -> Maybe]
      /\ suppressed \in [Objects -> BOOLEAN]
      /\ global \in Threads \cup {NoThread}
      /\ DOMAIN dictionary \subseteq Threads
      /\ dictionary \in [DOMAIN dictionary -> [Pointers -> SUBSET Objects]]
      /\ f \in Frame /\ FrameInv(f) /\ StackType /\ StackInv /\ f = Top(t)
  BY <1>1, Running DEF CallInv, CallType, StackType
<1> HIDE DEF f
<1>3. Quiet(f) /\ f.object \in Objects
  BY <1>1, <1>2, HandlerAssumption
     DEF FrameInv, Frame, LabelsOf, Quiet
<1>4. g \in Frame /\ g.call = "dispose" /\ g.object = f.object /\ g.at = "disposing" /\ FrameInv(g)
  BY <1>3, DisposeFrameType
<1> HIDE DEF g
<1>5. /\ StackType' /\ StackInv' /\ Others(t) /\ stack'[t] # <<>> /\ Top(t)' = g
      /\ Len(stack'[t]) = Len(stack[t]) + 1
      /\ \A i \in 1..Len(stack[t]) - 1 : stack'[t][i] = stack[t][i]
      /\ stack'[t][Len(stack[t])] = Marked(f)
  BY <1>1, <1>2, <1>4, InterruptInv
<1>6. \A o \in Objects : Uses(t, o)' => Uses(t, o)
  BY <1>1, <1>2, <1>3, <1>4, <1>5 DEF Uses, Quiet
<1>7. EndedCall(t)
  BY <1>4, <1>5, <1>6 DEF EndedCall, Quiet
<1>8. CallInv'
  BY <1>1, <1>2, <1>5, <1>6, <1>7, CallGoesOn
     DEF EndedCall, Quiet, Remembers, AfterRead, objects, tracker
<1>9. QED
  BY <1>1, <1>2, <1>3, <1>4, <1>5, <1>7, <1>8 DEF IsDisposed, g

LEMMA ReadPointerCall ==
  ASSUME CallInv, NEW t \in Threads, ReadPointer(t)
  PROVE  /\ CallInv' /\ SameCall(t) /\ Top(t).call = "dispose" /\ Top(t).at = "disposing"
         /\ Top(t)'.at = "release" /\ Top(t)'.nested = Top(t).nested
<1> DEFINE f == Top(t)
           g == [f EXCEPT !.old = pointer[f.object]]
<1>1. /\ At(t, "disposing") /\ Goto(t, g, "release") /\ UNCHANGED <<objects, tracker>>
  BY DEF ReadPointer
<1>2. stack[t] # <<>> /\ f.at = "disposing" /\ "disposing" \in LabelsOf(f.call) /\ f = Top(t)
  BY <1>1, AtTop
<1>3. /\ pointer \in [Objects -> Maybe]
      /\ suppressed \in [Objects -> BOOLEAN]
      /\ global \in Threads \cup {NoThread}
      /\ DOMAIN dictionary \subseteq Threads
      /\ dictionary \in [DOMAIN dictionary -> [Pointers -> SUBSET Objects]]
      /\ f \in Frame /\ FrameInv(f) /\ \A o \in Objects : Uses(t, o) => Remembers(f)
  BY <1>2, Running
<1> HIDE DEF f
<1>4. f.call = "dispose" /\ f.object \in Objects
  BY <1>2, <1>3 DEF Frame, FrameInv, LabelsOf
<1>5. /\ g \in Frame /\ g.call = f.call /\ g.object = f.object /\ g.new = f.new
      /\ g.old = pointer[f.object] /\ g.disposing = f.disposing /\ g.nested = f.nested
  BY <1>3, <1>4 DEF Frame
<1>6. /\ StackType' /\ StackInv' /\ SameCall(t)
      /\ Top(t)'.at = "release" /\ Top(t)'.old = pointer[f.object]
      /\ Top(t)'.nested = f.nested
  <2> HIDE DEF g
  <2>1. QED
    BY <1>1, <1>2, <1>4, <1>5, Moves DEF LabelsOf, Labels
<1>7. CallInv'
  BY <1>1, <1>2, <1>3, <1>4, <1>6, CallGoesOn
     DEF SameCall, Remembers, AfterRead, objects, tracker
<1>8. QED
  BY <1>2, <1>4, <1>6, <1>7

(* The call to Release is made, or it throws and unwinds the stack.        *)
LEMMA ReleaseCall ==
  ASSUME CallInv, NEW t \in Threads, Release(t)
  PROVE  /\ CallInv' /\ Others(t) /\ Top(t).call = "dispose" /\ Top(t).at = "release"
         /\ Uses(t, Top(t).object) /\ Top(t).object \in Objects
         /\ \/ /\ Releases(t) /\ pointer[Top(t).object] = Null
               /\ UNCHANGED references
               /\ \A o \in Objects : ~Uses(t, o)'
            \/ /\ ~(Releases(t) /\ pointer[Top(t).object] = Null)
               /\ SameCall(t) /\ Top(t)'.old = Top(t).old
               /\ Top(t)'.at = IF Top(t).old = Null THEN "clear" ELSE "table"
<1> DEFINE f == Top(t)
           label == IF f.old = Null THEN "clear" ELSE "table"
<1>1. /\ At(t, "release") /\ UNCHANGED <<status, creator, pointer, suppressed, tracker>>
      /\ \/ /\ Releases(t) /\ pointer[f.object] = Null
            /\ stack' = [stack EXCEPT ![t] = <<>>] /\ UNCHANGED references
         \/ ~(Releases(t) /\ pointer[f.object] = Null) /\ Goto(t, f, label)
  BY DEF Release
<1>2. stack[t] # <<>> /\ f.at = "release" /\ "release" \in LabelsOf(f.call) /\ f = Top(t)
  BY <1>1, AtTop
<1>3. /\ pointer \in [Objects -> Maybe]
      /\ suppressed \in [Objects -> BOOLEAN]
      /\ global \in Threads \cup {NoThread}
      /\ DOMAIN dictionary \subseteq Threads
      /\ dictionary \in [DOMAIN dictionary -> [Pointers -> SUBSET Objects]]
      /\ f \in Frame /\ FrameInv(f) /\ \A o \in Objects : Uses(t, o) => Remembers(f)
      /\ StackType /\ StackInv
  BY <1>2, Running DEF CallInv, CallType, StackType
<1> HIDE DEF f
<1>4. f.call = "dispose" /\ f.object \in Objects /\ Uses(t, f.object)
  BY <1>2, <1>3 DEF Frame, FrameInv, LabelsOf, Uses
<1>5. CASE /\ Releases(t) /\ pointer[f.object] = Null
           /\ stack' = [stack EXCEPT ![t] = <<>>] /\ UNCHANGED references
  <2>1. StackType' /\ StackInv' /\ Others(t) /\ stack'[t] = <<>>
    BY <1>3, <1>5, UnwindInv
  <2>2. \A o \in Objects : ~Uses(t, o)'
    BY <2>1 DEF Uses
  <2>3. CallInv'
    BY <1>1, <1>3, <2>1, <2>2, CallGoesOn DEF tracker
  <2>4. QED
    BY <1>2, <1>4, <1>5, <2>1, <2>2, <2>3
<1>6. CASE ~(Releases(t) /\ pointer[f.object] = Null) /\ Goto(t, f, label)
  <2>1. label \in {"clear", "table"} /\ label \in LabelsOf(f.call) /\ label \in Labels
    BY <1>4 DEF LabelsOf, Labels
  <2>2. /\ StackType' /\ StackInv' /\ SameCall(t)
        /\ Top(t)'.at = label /\ Top(t)'.old = f.old
    <3> HIDE DEF label
    <3>1. QED
      BY <1>2, <1>3, <1>6, <2>1, Moves
  <2>3. CallInv'
    BY <1>1, <1>2, <1>3, <1>4, <2>1, <2>2, CallGoesOn
       DEF SameCall, Remembers, AfterRead, tracker
  <2>4. QED
    BY <1>2, <1>4, <1>6, <2>2, <2>3 DEF SameCall
<1>7. QED
  BY <1>1, <1>5, <1>6

LEMMA UnTrackedCall ==
  ASSUME CallInv, NEW t \in Threads, HandlersOfUnTracked(t)
  PROVE  /\ CallInv' /\ SameCall(t) /\ Top(t).call = "dispose" /\ Top(t).at = "untracked"
         /\ Top(t)'.at = "clear" /\ Top(t)'.old = Top(t).old
<1> DEFINE f == Top(t)
<1>1. /\ At(t, "untracked") /\ Goto(t, f, "clear") /\ UNCHANGED <<objects, tracker>>
  BY DEF HandlersOfUnTracked
<1>2. stack[t] # <<>> /\ f.at = "untracked" /\ "untracked" \in LabelsOf(f.call) /\ f = Top(t)
  BY <1>1, AtTop
<1>3. /\ pointer \in [Objects -> Maybe]
      /\ suppressed \in [Objects -> BOOLEAN]
      /\ global \in Threads \cup {NoThread}
      /\ DOMAIN dictionary \subseteq Threads
      /\ dictionary \in [DOMAIN dictionary -> [Pointers -> SUBSET Objects]]
      /\ f \in Frame /\ FrameInv(f) /\ \A o \in Objects : Uses(t, o) => Remembers(f)
  BY <1>2, Running
<1> HIDE DEF f
<1>4. f.call = "dispose"
  BY <1>2, <1>3 DEF Frame, LabelsOf
<1>5. /\ StackType' /\ StackInv' /\ SameCall(t)
      /\ Top(t)'.at = "clear" /\ Top(t)'.old = f.old
  BY <1>1, <1>2, <1>3, <1>4, Moves DEF LabelsOf, Labels
<1>6. CallInv'
  BY <1>1, <1>2, <1>3, <1>4, <1>5, CallGoesOn
     DEF SameCall, Remembers, AfterRead, objects, tracker
<1>7. QED
  BY <1>2, <1>4, <1>5, <1>6

LEMMA ClearCall ==
  ASSUME CallInv, NEW t \in Threads, Clear(t)
  PROVE  /\ CallInv' /\ SameCall(t) /\ Top(t).call = "dispose" /\ Top(t).at = "clear"
         /\ Top(t)'.at = "disposed"
         /\ Uses(t, Top(t).object) /\ Top(t).object \in Objects
         /\ pointer' = [pointer EXCEPT ![Top(t).object] = Null]
         /\ suppressed' = [suppressed EXCEPT ![Top(t).object] = TRUE]
<1> DEFINE f == Top(t)
<1>1. /\ At(t, "clear") /\ Goto(t, f, "disposed")
      /\ pointer' = [pointer EXCEPT ![f.object] = Null]
      /\ suppressed' = [suppressed EXCEPT ![f.object] = TRUE]
      /\ UNCHANGED <<status, creator, tracker>>
  BY DEF Clear
<1>2. stack[t] # <<>> /\ f.at = "clear" /\ "clear" \in LabelsOf(f.call) /\ f = Top(t)
  BY <1>1, AtTop
<1>3. /\ pointer \in [Objects -> Maybe]
      /\ suppressed \in [Objects -> BOOLEAN]
      /\ global \in Threads \cup {NoThread}
      /\ DOMAIN dictionary \subseteq Threads
      /\ dictionary \in [DOMAIN dictionary -> [Pointers -> SUBSET Objects]]
      /\ f \in Frame /\ FrameInv(f)
  BY <1>2, Running
<1> HIDE DEF f
<1>4. f.call = "dispose" /\ f.object \in Objects /\ Uses(t, f.object)
  BY <1>2, <1>3 DEF Frame, FrameInv, LabelsOf, Uses
<1>5. StackType' /\ StackInv' /\ SameCall(t) /\ Top(t)'.at = "disposed"
  BY <1>1, <1>2, <1>3, <1>4, Moves DEF LabelsOf, Labels
<1>6. /\ pointer' \in [Objects -> Maybe] /\ suppressed' \in [Objects -> BOOLEAN]
      /\ \A o \in Objects : pointer'[o] = pointer[o] \/ (o = f.object /\ pointer'[o] = Null)
  BY <1>1, <1>3 DEF Maybe
<1>7. CallInv'
  BY <1>1, <1>2, <1>3, <1>4, <1>5, <1>6, CallGoesOn
     DEF SameCall, Remembers, AfterRead, tracker
<1>8. QED
  BY <1>1, <1>2, <1>4, <1>5, <1>7

LEMMA ContinueCall ==
  ASSUME CallInv, NEW t \in Threads, Continue(t)
  PROVE  CallInv'
BY GetTableCall, NewTableCall, TrackCall, MigrateCall, UntrackCall, EndCallCall,
   HandlerCall, ReadPointerCall, ReleaseCall, UnTrackedCall, ClearCall
   DEF Continue

(* A call that begins on an empty stack: managed code's or the finalizer's. *)
LEMMA CallBegins ==
  ASSUME CallInv, NEW t \in Threads, stack[t] = <<>>, NEW f \in Frame, FrameInv(f), Push(t, f)
  PROVE  /\ StackType' /\ StackInv' /\ Others(t) /\ stack'[t] # <<>> /\ Top(t)' = f
         /\ \A o \in Objects : Uses(t, o)' <=> f.call # "find" /\ f.object = o
<1>1. StackType /\ StackInv
  BY DEF CallInv, CallType, StackType
<1>2. StackType' /\ StackInv' /\ Others(t) /\ stack'[t] # <<>> /\ Top(t)' = f
  BY <1>1, PushInv
<1>3. QED
  BY <1>2 DEF Uses

(* It is about an object that nobody works on.                             *)
LEMMA CallAbout ==
  ASSUME CallInv, NEW t \in Threads, NEW o \in Objects, StackType', StackInv', Others(t),
         \A u \in Threads : ~Uses(u, o),
         status' \in [Objects -> {"none", "live", "dropped", "collected"}],
         creator' \in [Objects -> Threads \cup {NoThread}],
         pointer' \in [Objects -> Maybe],
         \A x \in Objects : x # o => /\ status'[x] = status[x]
                                     /\ creator'[x] = creator[x]
                                     /\ pointer'[x] = pointer[x],
         status'[o] # "none",
         UNCHANGED <<suppressed, tracker>>,
         \A x \in Objects : Uses(t, x)' => x = o,
         Uses(t, o)' => /\ Remembers(Top(t))'
                        /\ status'[o] = IF t = Finalizer THEN "collected" ELSE "live"
                        /\ t \in Users /\ Pinned => creator'[o] = t,
         \A x \in Objects : ~Uses(t, x)
  PROVE  CallInv'
<1>1. CallType'
  BY DEF CallInv, CallType, StackType, tracker
<1>2. \A u \in Threads, x \in Objects : u # t => (Uses(u, x)' <=> Uses(u, x))
  BY OtherUses
<1>3. UseInv'
  <2>1. \A u \in Threads, x \in Objects :
          Uses(u, x)' => status'[x] = IF u = Finalizer THEN "collected" ELSE "live"
    BY <1>2 DEF CallInv, UseInv
  <2>2. \A u, v \in Threads, x \in Objects : Uses(u, x)' /\ Uses(v, x)' => u = v
    BY <1>2 DEF CallInv, UseInv
  <2>3. \A u \in Users, x \in Objects : Uses(u, x)' /\ Pinned => creator'[x] = u
    BY <1>2 DEF CallInv, UseInv, Users
  <2>4. \A x \in Objects : status'[x] = "none" => pointer'[x] = Null
    BY DEF CallInv, UseInv
  <2>5. QED
    BY <2>1, <2>2, <2>3, <2>4 DEF UseInv
<1>4. ASSUME NEW u \in Threads, NEW x \in Objects, Uses(u, x)', u # t
      PROVE  Remembers(Top(u))'
  <2>1. Uses(u, x) /\ Top(u)' = Top(u) /\ Top(u).object = x /\ x # o
    BY <1>4, OtherUses DEF Uses
  <2>2. Remembers(Top(u))
    BY <2>1 DEF CallInv, PointerInv
  <2>3. QED
    BY <2>1, <2>2 DEF Remembers
<1>5. QED
  BY <1>1, <1>3, <1>4 DEF CallInv, PointerInv

LEMMA EmptyUses ==
  ASSUME NEW t, stack[t] = <<>>
  PROVE  \A o : ~Uses(t, o)
BY DEF Uses

LEMMA CreateCall ==
  ASSUME CallInv, NEW t \in Threads, NEW o \in Objects, NEW p \in Maybe, Create(t, o, p)
  PROVE  /\ CallInv' /\ Others(t)
         /\ \A x \in Objects : Uses(t, x)' => /\ x = o /\ p # Null
                                              /\ Top(t)'.call = "create"
                                              /\ Top(t)'.at = "table"
<1> DEFINE f == CreateFrame(o, p)
<1>1. /\ t \in Users /\ stack[t] = <<>> /\ status[o] = "none"
      /\ status' = [status EXCEPT ![o] = "live"]
      /\ creator' = [creator EXCEPT ![o] = t]
      /\ pointer' = [pointer EXCEPT ![o] = p]
      /\ UNCHANGED <<suppressed, tracker>>
      /\ (p = Null /\ stack' = stack) \/ (p # Null /\ Push(t, f))
  BY DEF Create, CreateFrame
<1>2. /\ f \in Frame /\ f.call = "create" /\ f.object = o /\ f.new = p /\ f.at = "table"
      /\ p # Null => FrameInv(f)
  BY CreateFrameType
<1> HIDE DEF f
<1>4. /\ StackType' /\ StackInv' /\ Others(t)
      /\ \A x \in Objects : Uses(t, x)' => x = o /\ p # Null /\ Top(t)' = f
  <2>1. CASE p = Null
    BY <1>1, <2>1, EmptyUses DEF CallInv, CallType, StackType, StackInv, Others, Uses
  <2>2. CASE p # Null
    BY <1>1, <1>2, <2>2, CallBegins
  <2>3. QED
    BY <2>1, <2>2
<1>5. \A u \in Threads : ~Uses(u, o)
  BY <1>1 DEF CallInv, UseInv
<1>6. /\ status' \in [Objects -> {"none", "live", "dropped", "collected"}]
      /\ creator' \in [Objects -> Threads \cup {NoThread}]
      /\ pointer' \in [Objects -> Maybe]
      /\ status'[o] = "live" /\ creator'[o] = t /\ pointer'[o] = p
      /\ \A x \in Objects : x # o => /\ status'[x] = status[x]
                                     /\ creator'[x] = creator[x]
                                     /\ pointer'[x] = pointer[x]
  BY <1>1 DEF CallInv, CallType
<1>7. Uses(t, o)' => Remembers(Top(t))'
  BY <1>2, <1>4, <1>6 DEF Remembers
<1>8. \A x \in Objects : ~Uses(t, x)
  BY <1>1, EmptyUses
<1>9. CallInv'
  BY <1>1, <1>4, <1>5, <1>6, <1>7, <1>8, CallAbout DEF Users
<1>10. QED
  BY <1>2, <1>4, <1>9

LEMMA SetCall ==
  ASSUME CallInv, NEW t \in Threads, NEW o \in Objects, NEW p \in Maybe,
         SetNativePointer(t, o, p)
  PROVE  /\ CallInv' /\ Others(t) /\ Uses(t, o)'
         /\ Top(t)'.call = "set" /\ Top(t)'.at = "table" /\ Top(t)'.old = pointer[o]
         /\ \A x \in Objects : Uses(t, x)' => x = o
<1> DEFINE f == SetFrame(o, pointer[o], p)
<1>1. /\ t \in Users /\ stack[t] = <<>> /\ status[o] = "live" /\ Unused(o)
      /\ Pinned => creator[o] = t
      /\ pointer' = [pointer EXCEPT ![o] = p]
      /\ UNCHANGED <<status, creator, suppressed, tracker>>
      /\ Push(t, f)
  BY DEF SetNativePointer, MayUse, SetFrame
<1>2. pointer[o] \in Maybe
  BY DEF CallInv, CallType
<1>3. /\ f \in Frame /\ f.call = "set" /\ f.object = o /\ f.new = p /\ f.at = "table"
      /\ f.old = pointer[o] /\ FrameInv(f)
  BY <1>2, SetFrameType
<1> HIDE DEF f
<1>5. /\ StackType' /\ StackInv' /\ Others(t) /\ Uses(t, o)' /\ Top(t)' = f
      /\ \A x \in Objects : Uses(t, x)' => x = o
  BY <1>1, <1>3, CallBegins
<1>6. \A u \in Threads : ~Uses(u, o)
  BY <1>1, UnusedUses DEF CallInv, CallType, StackType
<1>7. /\ pointer' \in [Objects -> Maybe] /\ pointer'[o] = p
      /\ \A x \in Objects : x # o => pointer'[x] = pointer[x]
  BY <1>1 DEF CallInv, CallType
<1>8. Remembers(Top(t))'
  BY <1>3, <1>5, <1>7 DEF Remembers
<1>9. /\ status' \in [Objects -> {"none", "live", "dropped", "collected"}]
      /\ creator' \in [Objects -> Threads \cup {NoThread}]
      /\ status' = status /\ creator' = creator
  BY <1>1 DEF CallInv, CallType
<1>10. \A x \in Objects : ~Uses(t, x)
  BY <1>1, EmptyUses
<1>11. CallInv'
  BY <1>1, <1>5, <1>6, <1>7, <1>8, <1>9, <1>10, CallAbout DEF Users
<1>12. QED
  BY <1>3, <1>5, <1>11

(* Dispose and the finalizer's call differ only in who may make them.      *)
LEMMA DisposeCall ==
  ASSUME CallInv, NEW t \in Threads, NEW o \in Objects, NEW d \in BOOLEAN, stack[t] = <<>>,
         \A u \in Threads : ~Uses(u, o),
         Push(t, DisposeFrame(o, d)),
         status' \in [Objects -> {"none", "live", "dropped", "collected"}],
         \A x \in Objects : x # o => status'[x] = status[x],
         status'[o] = IF t = Finalizer THEN "collected" ELSE "live",
         t \in Users /\ Pinned => creator[o] = t,
         UNCHANGED <<creator, pointer, suppressed, tracker>>
  PROVE  /\ CallInv' /\ Others(t) /\ Uses(t, o)'
         /\ Top(t)'.call = "dispose" /\ Top(t)'.at = "disposing"
         /\ \A x \in Objects : Uses(t, x)' => x = o
<1> DEFINE f == DisposeFrame(o, d)
<1>1. f \in Frame /\ f.call = "dispose" /\ f.object = o /\ f.at = "disposing" /\ FrameInv(f)
  BY DisposeFrameType
<1>2. Push(t, f)
  OBVIOUS
<1> HIDE DEF f
<1>3. /\ StackType' /\ StackInv' /\ Others(t) /\ Uses(t, o)' /\ Top(t)' = f
      /\ \A x \in Objects : Uses(t, x)' => x = o
  BY <1>1, <1>2, CallBegins
<1>4. Remembers(Top(t))'
  BY <1>1, <1>3 DEF Remembers, AfterRead
<1>5. /\ creator' \in [Objects -> Threads \cup {NoThread}]
      /\ pointer' \in [Objects -> Maybe]
      /\ creator' = creator /\ pointer' = pointer
  BY DEF CallInv, CallType
<1>6. \A x \in Objects : ~Uses(t, x)
  BY EmptyUses
<1>7. CallInv'
  BY <1>3, <1>4, <1>5, <1>6, CallAbout
<1>8. QED
  BY <1>1, <1>3, <1>7

LEMMA DisposeByUser ==
  ASSUME CallInv, NEW t \in Threads, NEW o \in Objects, Dispose(t, o)
  PROVE  /\ CallInv' /\ Others(t) /\ Uses(t, o)'
         /\ Top(t)'.call = "dispose" /\ Top(t)'.at = "disposing"
         /\ \A x \in Objects : Uses(t, x)' => x = o
<1>1. /\ t \in Users /\ stack[t] = <<>> /\ status[o] = "live" /\ Unused(o)
      /\ Pinned => creator[o] = t
      /\ Push(t, DisposeFrame(o, TRUE))
      /\ UNCHANGED <<status, creator, pointer, suppressed, tracker>>
  BY DEF Dispose, MayUse, CheckAndDispose, Push, objects
<1>2. \A u \in Threads : ~Uses(u, o)
  BY <1>1, UnusedUses DEF CallInv, CallType, StackType
<1>3. status' \in [Objects -> {"none", "live", "dropped", "collected"}] /\ t # Finalizer
  BY <1>1 DEF CallInv, CallType, Users
<1>4. QED
  BY <1>1, <1>2, <1>3, DisposeCall

LEMMA FindCall ==
  ASSUME CallInv, NEW t \in Threads, FindActiveObjects(t)
  PROVE  CallInv' /\ Others(t) /\ \A x \in Objects : ~Uses(t, x)'
<1>1. stack[t] = <<>> /\ Push(t, FindFrame) /\ UNCHANGED <<objects, tracker>>
  BY DEF FindActiveObjects, FindFrame
<1>2. /\ StackType' /\ StackInv' /\ Others(t)
      /\ \A x \in Objects : ~Uses(t, x)'
  BY <1>1, FindFrameType, CallBegins
<1>3. QED
  BY <1>1, <1>2, CallGoesOn DEF CallInv, CallType, objects, tracker

LEMMA DropCall ==
  ASSUME CallInv, NEW o \in Objects, Drop(o)
  PROVE  CallInv' /\ UNCHANGED <<creator, pointer, stack>>
         /\ \A t \in Threads : ~Uses(t, o)
<1>1. /\ status[o] = "live" /\ Unused(o)
      /\ status' = [status EXCEPT ![o] = IF suppressed[o] THEN "collected" ELSE "dropped"]
      /\ UNCHANGED <<creator, pointer, suppressed, references, tracker, stack>>
  BY DEF Drop
<1>2. \A t \in Threads : ~Uses(t, o)
  BY <1>1, UnusedUses DEF CallInv, CallType, StackType
<1>3. CallType' /\ StackInv'
  BY <1>1 DEF CallInv, CallType, StackInv, tracker
<1>4. /\ \A t \in Threads, x \in Objects : Uses(t, x)' <=> Uses(t, x)
      /\ \A t \in Threads : Top(t)' = Top(t)
  BY <1>1 DEF Uses, Top
<1>5. /\ \A x \in Objects : x # o => status'[x] = status[x]
      /\ status'[o] # "none"
  BY <1>1 DEF CallInv, CallType
<1>6. UseInv'
  BY <1>1, <1>2, <1>4, <1>5 DEF CallInv, UseInv, Users
<1>7. PointerInv'
  BY <1>1, <1>4 DEF CallInv, PointerInv, Remembers
<1>8. QED
  BY <1>1, <1>2, <1>3, <1>6, <1>7 DEF CallInv

LEMMA FinalizeCall ==
  ASSUME CallInv, NEW o \in Objects, Finalize(o)
  PROVE  /\ CallInv' /\ Others(Finalizer) /\ UNCHANGED <<creator, pointer>>
         /\ \A x \in Objects : Uses(Finalizer, x)' => /\ x = o
                                                      /\ Top(Finalizer)'.call = "dispose"
                                                      /\ Top(Finalizer)'.at = "disposing"
         /\ \A x \in Objects : x # o => status'[x] = status[x]
         /\ status[o] # "live" /\ status'[o] # "live"
<1>1. /\ stack[Finalizer] = <<>> /\ status[o] = "dropped"
      /\ status' = [status EXCEPT ![o] = "collected"]
      /\ UNCHANGED <<creator, pointer, suppressed, references, tracker>>
      /\ stack' = stack \/ Push(Finalizer, DisposeFrame(o, FALSE))
  BY DEF Finalize
<1>2. /\ status' \in [Objects -> {"none", "live", "dropped", "collected"}]
      /\ status'[o] = "collected"
      /\ \A x \in Objects : x # o => status'[x] = status[x]
  BY <1>1 DEF CallInv, CallType
<1>3. \A u \in Threads : ~Uses(u, o)
  BY <1>1 DEF CallInv, UseInv
<1>4. CASE stack' = stack
  <2>1. StackType' /\ StackInv' /\ Others(Finalizer) /\ \A x \in Objects : ~Uses(Finalizer, x)'
    BY <1>1, <1>4, EmptyUses DEF CallInv, CallType, StackType, StackInv, Others, Uses
  <2>2. /\ \A x \in Objects : ~Uses(Finalizer, x)
        /\ creator' \in [Objects -> Threads \cup {NoThread}]
        /\ pointer' \in [Objects -> Maybe]
    BY <1>1, EmptyUses DEF CallInv, CallType
  <2>3. CallInv'
    BY <1>1, <1>2, <1>3, <2>1, <2>2, CallAbout, ThreadAssumption
  <2>4. QED
    BY <1>1, <1>2, <2>1, <2>3
<1>5. CASE Push(Finalizer, DisposeFrame(o, FALSE))
  <2>1. Finalizer \in Threads /\ Finalizer \notin Users
    BY ThreadAssumption DEF Users
  <2>2. QED
    BY <1>1, <1>2, <1>3, <1>5, <2>1, DisposeCall
<1>6. QED
  BY <1>1, <1>4, <1>5

LEMMA InitCall == Init => CallInv
<1> SUFFICES ASSUME Init
             PROVE  CallInv
  OBVIOUS
<1>1. CallType
  BY DEF Init, CallType, Maybe
<1>2. \A t \in Threads : Len(stack[t]) = 0 /\ \A o : ~Uses(t, o)
  BY DEF Init, Uses
<1>3. StackInv
  BY <1>2 DEF StackInv
<1>4. UseInv /\ PointerInv
  BY <1>2 DEF UseInv, PointerInv, Users, Init
<1>5. QED
  BY <1>1, <1>3, <1>4 DEF CallInv

LEMMA NextCall == CallInv /\ [Next]_vars => CallInv'
<1> SUFFICES ASSUME CallInv, [Next]_vars
             PROVE  CallInv'
  OBVIOUS
<1>1. ASSUME NEW t \in Threads, Begin(t)
      PROVE  CallInv'
  BY <1>1, CreateCall, SetCall, DisposeByUser, FindCall DEF Begin
<1>2. ASSUME NEW o \in Objects, Drop(o) \/ Finalize(o)
      PROVE  CallInv'
  BY <1>2, DropCall, FinalizeCall
<1>3. CASE UNCHANGED vars
  <2>1. /\ UNCHANGED <<status, creator, pointer, suppressed, global, dictionary, stack>>
        /\ \A t \in Threads, o \in Objects : Uses(t, o)' <=> Uses(t, o)
        /\ \A t \in Threads : Top(t)' = Top(t)
    BY <1>3 DEF vars, objects, tracker, Uses, Top
  <2>2. CallType' /\ StackInv'
    BY <2>1 DEF CallInv, CallType, StackInv
  <2>3. UseInv' /\ PointerInv'
    BY <2>1 DEF CallInv, UseInv, PointerInv, Remembers, Users
  <2>4. QED
    BY <2>2, <2>3 DEF CallInv
<1>4. QED
  BY <1>1, <1>2, <1>3, ContinueCall DEF Next

LEMMA ReturnsToHandlers ==
  ASSUME CallInv, NEW t \in Threads, stack[t] # <<>>, Return(t)
  PROVE  \A o \in Objects : Uses(t, o)' => Top(t)'.at \in Handlers
<1>1. StackType /\ StackInv
  BY DEF CallInv, CallType, StackType
<1>2. stack'[t] # <<>> => Top(t)'.at \in Handlers
  BY <1>1, ReturnInv
<1>3. QED
  BY <1>2 DEF Uses

(* Unless a handler of UnTracked disposes, no call ends on top of one that *)
(* is at that event.                                                       *)
LEMMA NotToUnTracked ==
  ASSUME UnTrackedLeavesIt, CallInv, NEW t \in Threads, stack[t] # <<>>, Return(t)
  PROVE  \A o \in Objects : Uses(t, o)' => Top(t)'.at # "untracked"
BY ReturnsToHandlers DEF UnTrackedLeavesIt

-----------------------------------------------------------------------------
(* The references: an owner more or less with every count.                 *)

LEMMA SameReleased ==
  ASSUME NEW t \in Threads, Others(t), NEW o \in Objects,
         (Uses(t, o) /\ HasReleased(Top(t))) <=> (Uses(t, o)' /\ HasReleased(Top(t))')
  PROVE  Released(o)' <=> Released(o)
<1>1. ASSUME NEW u \in Threads, u # t
      PROVE  (Uses(u, o) /\ HasReleased(Top(u))) <=> (Uses(u, o)' /\ HasReleased(Top(u))')
  BY <1>1, OtherUses DEF HasReleased
<1>2. \A u \in Threads :
        (Uses(u, o) /\ HasReleased(Top(u))) <=> (Uses(u, o)' /\ HasReleased(Top(u))')
  BY <1>1
<1> HIDE DEF Released
<1>3. Released(o) <=> \E u \in Threads : Uses(u, o) /\ HasReleased(Top(u))
  BY DEF Released
<1>4. Released(o)' <=> \E u \in Threads : Uses(u, o)' /\ HasReleased(Top(u))'
  BY DEF Released
<1>5. QED
  BY <1>2, <1>3, <1>4

LEMMA OwnReleased ==
  ASSUME CallInv, NEW t \in Threads, NEW o \in Objects, Uses(t, o)
  PROVE  Released(o) <=> HasReleased(Top(t))
BY DEF CallInv, UseInv, Released

LEMMA OwnReleasedNext ==
  ASSUME CallInv', NEW t \in Threads, NEW o \in Objects, Uses(t, o)'
  PROVE  Released(o)' <=> HasReleased(Top(t))'
BY DEF CallInv, UseInv, Released

LEMMA OwnersFinite ==
  ASSUME NEW p
  PROVE  IsFiniteSet(Owners(p)) /\ Cardinality(Owners(p)) \in Nat
<1>1. Owners(p) \in SUBSET Objects
  BY DEF Owners
<1>2. IsFiniteSet(Owners(p))
  BY <1>1, ObjectAssumption, FS_Subset
<1>3. QED
  BY <1>2, FS_CardinalityType

(* No object starts or stops owning a reference.                           *)
LEMMA SameOwners ==
  ASSUME CountInv, NEW t \in Threads, Others(t), UNCHANGED <<references, pointer>>,
         \A o \in Objects :
           (Uses(t, o) /\ HasReleased(Top(t))) <=> (Uses(t, o)' /\ HasReleased(Top(t))')
  PROVE  CountInv'
<1>1. \A o \in Objects : Released(o)' <=> Released(o)
  BY SameReleased
<1>2. \A p \in Pointers : Owners(p)' = Owners(p)
  BY <1>1 DEF Owners
<1>3. QED
  BY <1>2 DEF CountInv

(* An object that has not released anything takes another pointer.         *)
LEMMA OwnerMoves ==
  ASSUME CountInv, NEW o \in Objects, ~Released(o), ~Released(o)',
         NEW p, NEW q, pointer[o] = q, pointer'[o] = p,
         \A x \in Objects : x # o => /\ pointer'[x] = pointer[x]
                                     /\ Released(x)' <=> Released(x),
         references' = [r \in Pointers |-> references[r] + (IF r = p THEN 1 ELSE 0)
                                                         - (IF r = q THEN 1 ELSE 0)]
  PROVE  CountInv'
<1>1. ASSUME NEW r \in Pointers
      PROVE  /\ Owners(r)' = IF r = p THEN Owners(r) \cup {o} ELSE Owners(r) \ {o}
             /\ o \in Owners(r) <=> r = q
  BY <1>1 DEF Owners
<1>2. ASSUME NEW r \in Pointers
      PROVE  Cardinality(Owners(r)') = Cardinality(Owners(r)) + (IF r = p THEN 1 ELSE 0)
                                                               - (IF r = q THEN 1 ELSE 0)
  <2> DEFINE S == Owners(r)
  <2>1. IsFiniteSet(S) /\ Cardinality(S) \in Nat /\ (o \in S <=> r = q)
    BY <1>1, OwnersFinite
  <2>2. Owners(r)' = IF r = p THEN S \cup {o} ELSE S \ {o}
    BY <1>1
  <2> HIDE DEF S
  <2>3. /\ Cardinality(S \cup {o}) = IF o \in S THEN Cardinality(S) ELSE Cardinality(S) + 1
        /\ Cardinality(S \ {o}) = IF o \in S THEN Cardinality(S) - 1 ELSE Cardinality(S)
    BY <2>1, FS_AddElement, FS_RemoveElement
  <2>4. Cardinality(Owners(r)') = Cardinality(S) + (IF r = p THEN 1 ELSE 0)
                                                 - (IF r = q THEN 1 ELSE 0)
    BY <2>1, <2>2, <2>3
  <2>5. QED
    BY <2>4 DEF S
<1>3. ASSUME NEW r \in Pointers
      PROVE  /\ Cardinality(Owners(r)) \in Nat /\ references[r] \in Nat
             /\ references[r] >= Cardinality(Owners(r))
             /\ ReleaseOnFinalizer => references[r] = Cardinality(Owners(r))
             /\ r = q => Cardinality(Owners(r)) >= 1
  <2>1. r = q => Owners(r) # {}
    BY <1>1
  <2>2. r = q => Cardinality(Owners(r)) # 0
    BY <2>1, OwnersFinite, FS_EmptySet
  <2>3. QED
    BY <2>2, OwnersFinite DEF CountInv
<1>4. ASSUME NEW r \in Pointers
      PROVE  /\ references'[r] = references[r] + (IF r = p THEN 1 ELSE 0)
                                               - (IF r = q THEN 1 ELSE 0)
             /\ references'[r] \in Nat
             /\ references'[r] >= Cardinality(Owners(r)')
             /\ ReleaseOnFinalizer => references'[r] = Cardinality(Owners(r)')
  BY <1>2, <1>3
<1>5. references' \in [Pointers -> Nat]
  BY <1>4
<1>6. QED
  BY <1>4, <1>5 DEF CountInv

(* Release takes the object out of the owners with the count.              *)
LEMMA ReleaseCount ==
  ASSUME CallInv, CountInv, NEW t \in Threads, Release(t)
  PROVE  CountInv'
<1>0. PICK o \in Objects : o = Top(t).object
  BY ReleaseCall
<1> DEFINE p == pointer[o]
<1>1. /\ CallInv' /\ Others(t) /\ Top(t).call = "dispose" /\ Top(t).at = "release"
      /\ Uses(t, o) /\ o \in Objects
      /\ \/ /\ Releases(t) /\ p = Null
            /\ UNCHANGED references
            /\ \A x \in Objects : ~Uses(t, x)'
         \/ /\ ~(Releases(t) /\ p = Null)
            /\ SameCall(t) /\ Top(t)'.old = Top(t).old
            /\ Top(t)'.at = IF Top(t).old = Null THEN "clear" ELSE "table"
  BY <1>0, ReleaseCall
<1>2. ~HasReleased(Top(t)) /\ pointer' = pointer
  BY <1>1 DEF HasReleased, Release
<1>3. CASE UNCHANGED references /\ \A x \in Objects : ~Uses(t, x)'
  BY <1>1, <1>2, <1>3, SameOwners
<1>4. CASE SameCall(t) /\ ~Releases(t)
  <2>1. UNCHANGED references
    BY <1>4 DEF Release
  <2>2. ~HasReleased(Top(t))'
    BY <1>4 DEF SameCall, HasReleased, Releases
  <2>3. QED
    BY <1>1, <1>2, <2>1, <2>2, SameOwners
<1>5. CASE SameCall(t) /\ Releases(t) /\ p # Null
  <2>1. references' = [references EXCEPT ![p] = @ - 1] /\ p \in Pointers
    BY <1>0, <1>1, <1>5 DEF Release, CallInv, CallType, Maybe
  <2>2. Top(t)'.at \in {"clear", "table"}
    BY <1>1, <1>5
  <2>3. HasReleased(Top(t))' /\ Uses(t, o)'
    BY <1>0, <1>1, <1>5, <2>2 DEF SameCall, HasReleased, Releases, AfterRead
  <2>4. ~Released(o) /\ Released(o)'
    BY <1>1, <1>2, <2>3, OwnReleased, OwnReleasedNext
  <2>5. ASSUME NEW x \in Objects, x # o
        PROVE  Released(x)' <=> Released(x)
    <3>1. ~Uses(t, x) /\ ~Uses(t, x)'
      BY <1>0, <1>5, <2>5 DEF Uses, SameCall
    <3>2. QED
      BY <1>1, <3>1, SameReleased
  <2>6. ASSUME NEW r \in Pointers
        PROVE  /\ Cardinality(Owners(r)') = Cardinality(Owners(r)) - (IF r = p THEN 1 ELSE 0)
               /\ Cardinality(Owners(r)) \in Nat
               /\ r = p => Cardinality(Owners(r)) # 0
    <3> DEFINE S == Owners(r)
    <3>1. IsFiniteSet(S) /\ Cardinality(S) \in Nat
      BY OwnersFinite
    <3>2. Owners(r)' = S \ {o} /\ (o \in S <=> r = p)
      BY <1>1, <1>2, <2>4, <2>5 DEF Owners
    <3> HIDE DEF S
    <3>3. Cardinality(S \ {o}) = IF o \in S THEN Cardinality(S) - 1 ELSE Cardinality(S)
      BY <3>1, FS_RemoveElement
    <3>4. r = p => Cardinality(S) # 0
      BY <3>1, <3>2, FS_EmptySet
    <3>5. /\ Cardinality(Owners(r)') = Cardinality(S) - (IF r = p THEN 1 ELSE 0)
          /\ Cardinality(S) \in Nat /\ (r = p => Cardinality(S) # 0)
      BY <3>1, <3>2, <3>3, <3>4
    <3>6. QED
      BY <3>5 DEF S
  <2>7. \A r \in Pointers :
          /\ references[r] \in Nat /\ references[r] >= Cardinality(Owners(r))
          /\ ReleaseOnFinalizer => references[r] = Cardinality(Owners(r))
          /\ references'[r] = references[r] - (IF r = p THEN 1 ELSE 0)
    BY <2>1 DEF CountInv
  <2>8. \A r \in Pointers :
          /\ references'[r] \in Nat /\ references'[r] >= Cardinality(Owners(r)')
          /\ ReleaseOnFinalizer => references'[r] = Cardinality(Owners(r)')
    BY <2>6, <2>7
  <2>9. references' \in [Pointers -> Nat]
    BY <2>1, <2>8 DEF CountInv
  <2>10. QED
    BY <2>8, <2>9 DEF CountInv
<1>6. QED
  BY <1>1, <1>3, <1>4, <1>5

(* The pointer goes once its reference has gone; the finalizer may leave   *)
(* the reference behind.                                                   *)
LEMMA ClearCount ==
  ASSUME CallInv, CountInv, NEW t \in Threads, Clear(t)
  PROVE  CountInv'
<1> DEFINE o == Top(t).object
<1>1. /\ CallInv' /\ SameCall(t) /\ Top(t).call = "dispose" /\ Top(t).at = "clear"
      /\ Top(t)'.at = "disposed" /\ Uses(t, o) /\ o \in Objects
      /\ pointer' = [pointer EXCEPT ![o] = Null] /\ UNCHANGED references
  BY ClearCall DEF Clear
<1>2. ReleaseOnFinalizer => Released(o)
  <2>1. ReleaseOnFinalizer => HasReleased(Top(t))
    BY <1>1 DEF HasReleased, AfterRead
  <2>2. QED
    BY <1>1, <2>1, OwnReleased
<1>3. ASSUME NEW x \in Objects, x # o
      PROVE  /\ Released(x)' <=> Released(x)
             /\ pointer'[x] = pointer[x]
  <2>1. ~Uses(t, x) /\ ~Uses(t, x)'
    BY <1>1, <1>3 DEF Uses, SameCall
  <2>2. Released(x)' <=> Released(x)
    BY <1>1, <2>1, SameReleased DEF SameCall
  <2>3. QED
    BY <1>1, <1>3, <2>2 DEF CallInv, CallType
<1>4. pointer'[o] = Null
  BY <1>1 DEF CallInv, CallType
<1>5. ASSUME NEW r \in Pointers
      PROVE  /\ references'[r] >= Cardinality(Owners(r)')
             /\ ReleaseOnFinalizer => references'[r] = Cardinality(Owners(r)')
  <2>1. Owners(r)' = Owners(r) \ {o} /\ (ReleaseOnFinalizer => o \notin Owners(r))
    BY <1>2, <1>3, <1>4, ObjectAssumption DEF Owners
  <2>2. IsFiniteSet(Owners(r)) /\ Cardinality(Owners(r)) \in Nat
    BY OwnersFinite
  <2>3. /\ Cardinality(Owners(r) \ {o})
             = IF o \in Owners(r) THEN Cardinality(Owners(r)) - 1 ELSE Cardinality(Owners(r))
    BY <2>2, FS_RemoveElement
  <2>4. /\ references'[r] \in Nat /\ references'[r] >= Cardinality(Owners(r))
        /\ ReleaseOnFinalizer => references'[r] = Cardinality(Owners(r))
    BY <1>1 DEF CountInv
  <2>5. Cardinality(Owners(r)') <= Cardinality(Owners(r))
    BY <2>1, <2>2, <2>3
  <2>6. ReleaseOnFinalizer => Cardinality(Owners(r)') = Cardinality(Owners(r))
    BY <2>1, <2>3
  <2>7. Cardinality(Owners(r)') \in Nat
    BY <2>1, <2>2, FS_Subset, FS_CardinalityType
  <2> HIDE DEF Owners
  <2>8. QED
    BY <2>2, <2>4, <2>5, <2>6, <2>7
<1>6. QED
  BY <1>1, <1>5 DEF CountInv

LEMMA ContinueCount ==
  ASSUME UnTrackedLeavesIt, CallInv, CountInv, NEW t \in Threads, Continue(t)
  PROVE  CountInv'
<1> USE DEF HasReleased
<1>1. CASE GetTable(t)
  <2>1. /\ SameCall(t) /\ Top(t).at = "table"
        /\ Top(t).call = "dispose" => Top(t)'.at \in {"newTable", "untrack"}
    BY <1>1, GetTableCall DEF Lookup
  <2>2. UNCHANGED <<references, pointer>>
    BY <1>1 DEF GetTable, objects
  <2>3. HasReleased(Top(t)) <=> HasReleased(Top(t))'
    BY <2>1 DEF SameCall, AfterRead
  <2> HIDE DEF HasReleased
  <2>4. QED
    BY <2>1, <2>2, <2>3, SameOwners DEF SameCall
<1>2. CASE NewTable(t)
  <2>1. /\ SameCall(t) /\ Top(t).at = "newTable"
        /\ Top(t).call = "dispose" => Top(t)'.at = "untrack"
    BY <1>2, NewTableCall DEF Lookup
  <2>2. QED
    BY <1>2, <2>1, SameOwners DEF NewTable, objects, SameCall, AfterRead
<1>3. CASE Track(t)
  BY <1>3, TrackCall, SameOwners DEF Track, objects, SameCall
<1>4. CASE MigrateNativePointer(t)
  <2>1. UNCHANGED <<references, pointer>> /\ Return(t) /\ stack[t] # <<>>
    BY <1>4 DEF MigrateNativePointer, objects, At
  <2>2. QED
    BY <1>4, <2>1, MigrateCall, NotToUnTracked, SameOwners DEF EndedCall, Quiet
<1>5. CASE Untrack(t)
  <2>1. UNCHANGED <<references, pointer>>
    BY <1>5 DEF Untrack, objects
  <2>2. QED
    BY <1>5, <2>1, UntrackCall, SameOwners DEF SameCall, AfterRead
<1>6. CASE EndCall(t)
  <2>1. UNCHANGED <<references, pointer>> /\ Return(t) /\ stack[t] # <<>>
    BY <1>6 DEF EndCall, objects, At
  <2>2. QED
    BY <1>6, <2>1, EndCallCall, NotToUnTracked, SameOwners DEF EndedCall, Quiet
<1>7. CASE DisposeInHandler(t)
  <2>1. UNCHANGED <<references, pointer>>
    BY <1>7 DEF DisposeInHandler, CheckAndDispose, objects
  <2>2. QED
    BY <1>7, <2>1, HandlerCall, SameOwners DEF EndedCall, Quiet, UnTrackedLeavesIt
<1>8. CASE ReadPointer(t)
  BY <1>8, ReadPointerCall, SameOwners DEF ReadPointer, objects, SameCall, AfterRead
<1>9. CASE HandlersOfUnTracked(t)
  BY <1>9, UnTrackedCall, SameOwners DEF HandlersOfUnTracked, objects, SameCall, AfterRead
<1>10. QED
  BY <1>1, <1>2, <1>3, <1>4, <1>5, <1>6, <1>7, <1>8, <1>9, ReleaseCount, ClearCount
     DEF Continue

LEMMA BeginCount ==
  ASSUME CallInv, CountInv, NEW t \in Threads, Begin(t)
  PROVE  CountInv'
<1> USE DEF HasReleased
<1>1. ASSUME NEW o \in Objects, NEW p \in Maybe, Create(t, o, p)
      PROVE  CountInv'
  <2>1. /\ stack[t] = <<>> /\ status[o] = "none"
        /\ pointer' = [pointer EXCEPT ![o] = p]
        /\ references' = [r \in Pointers |-> references[r] + IF r = p THEN 1 ELSE 0]
    BY <1>1 DEF Create
  <2>2. /\ Others(t) /\ \A x \in Objects : Uses(t, x)' => Top(t)'.call = "create"
    BY <1>1, CreateCall
  <2>3. \A u \in Threads : ~Uses(u, o)
    BY <2>1 DEF CallInv, UseInv
  <2>4. pointer[o] = Null
    BY <2>1 DEF CallInv, UseInv
  <2>5. /\ ~Released(o)
        /\ \A x \in Objects : Released(x)' <=> Released(x)
    BY <2>1, <2>2, <2>3, EmptyUses, SameReleased DEF Released
  <2>6. /\ pointer'[o] = p /\ \A x \in Objects : x # o => pointer'[x] = pointer[x]
    BY <2>1 DEF CallInv, CallType
  <2>7. references' = [r \in Pointers |-> references[r] + (IF r = p THEN 1 ELSE 0)
                                                       - (IF r = Null THEN 1 ELSE 0)]
    <3>1. \A r \in Pointers : references[r] \in Nat /\ r # Null
      BY ObjectAssumption DEF CountInv
    <3>2. \A r \in Pointers : references[r] + (IF r = p THEN 1 ELSE 0)
                            = references[r] + (IF r = p THEN 1 ELSE 0)
                                            - (IF r = Null THEN 1 ELSE 0)
      BY <3>1
    <3>3. QED
      BY <2>1, <3>2
  <2>8. QED
    BY <2>4, <2>5, <2>6, <2>7, OwnerMoves
<1>2. ASSUME NEW o \in Objects, NEW p \in Maybe, SetNativePointer(t, o, p)
      PROVE  CountInv'
  <2>1. /\ stack[t] = <<>> /\ Unused(o)
        /\ pointer' = [pointer EXCEPT ![o] = p]
        /\ references' = [r \in Pointers |-> references[r] + (IF r = p THEN 1 ELSE 0)
                                                           - (IF r = pointer[o] THEN 1 ELSE 0)]
    BY <1>2 DEF SetNativePointer, MayUse
  <2>2. Others(t) /\ Top(t)'.call = "set"
    BY <1>2, SetCall
  <2>3. \A u \in Threads : ~Uses(u, o)
    BY <2>1, UnusedUses DEF CallInv, CallType, StackType
  <2>4. /\ ~Released(o)
        /\ \A x \in Objects : Released(x)' <=> Released(x)
    BY <2>1, <2>2, <2>3, EmptyUses, SameReleased DEF Released
  <2>5. /\ pointer'[o] = p /\ \A x \in Objects : x # o => pointer'[x] = pointer[x]
    BY <2>1 DEF CallInv, CallType
  <2>6. QED
    BY <2>1, <2>4, <2>5, OwnerMoves
<1>3. ASSUME NEW o \in Objects, Dispose(t, o)
      PROVE  CountInv'
  <2>1. stack[t] = <<>> /\ UNCHANGED <<references, pointer>>
    BY <1>3 DEF Dispose, MayUse, CheckAndDispose, objects
  <2>2. QED
    BY <1>3, <2>1, DisposeByUser, EmptyUses, SameOwners DEF AfterRead
<1>4. CASE FindActiveObjects(t)
  <2>1. stack[t] = <<>> /\ UNCHANGED <<references, pointer>>
    BY <1>4 DEF FindActiveObjects, objects
  <2>2. QED
    BY <1>4, <2>1, FindCall, EmptyUses, SameOwners
<1>5. QED
  BY <1>1, <1>2, <1>3, <1>4 DEF Begin

LEMMA NextCount ==
  UnTrackedLeavesIt => (CallInv /\ CountInv /\ [Next]_vars => CountInv')
<1> SUFFICES ASSUME UnTrackedLeavesIt, CallInv, CountInv, [Next]_vars
             PROVE  CountInv'
  OBVIOUS
<1>1. ASSUME NEW o \in Objects, Drop(o)
      PROVE  CountInv'
  <2>1. UNCHANGED <<references, pointer, stack>> /\ Others(Finalizer)
    BY <1>1 DEF Drop, Others
  <2>2. \A x \in Objects : (Uses(Finalizer, x) /\ HasReleased(Top(Finalizer)))
                             <=> (Uses(Finalizer, x)' /\ HasReleased(Top(Finalizer))')
    BY <2>1 DEF Uses, HasReleased, Top
  <2>3. QED
    BY <2>1, <2>2, SameOwners, ThreadAssumption
<1>2. ASSUME NEW o \in Objects, Finalize(o)
      PROVE  CountInv'
  <2>1. UNCHANGED <<references, pointer>> /\ stack[Finalizer] = <<>>
    BY <1>2 DEF Finalize
  <2>2. QED
    BY <1>2, <2>1, FinalizeCall, EmptyUses, SameOwners, ThreadAssumption
       DEF HasReleased, AfterRead
<1>3. CASE UNCHANGED vars
  <2>1. UNCHANGED <<references, pointer, stack>> /\ Others(Finalizer)
    BY <1>3 DEF vars, objects, Others
  <2>2. \A x \in Objects : (Uses(Finalizer, x) /\ HasReleased(Top(Finalizer)))
                             <=> (Uses(Finalizer, x)' /\ HasReleased(Top(Finalizer))')
    BY <2>1 DEF Uses, HasReleased, Top
  <2>3. QED
    BY <2>1, <2>2, SameOwners, ThreadAssumption
<1>4. QED
  BY <1>1, <1>2, <1>3, ContinueCount, BeginCount DEF Next

LEMMA InitCount == Init => CountInv
<1> SUFFICES ASSUME Init
             PROVE  CountInv
  OBVIOUS
<1>1. \A p \in Pointers : Owners(p) = {}
  BY ObjectAssumption DEF Init, Owners
<1>2. \A p \in Pointers : references[p] = 0 /\ Cardinality(Owners(p)) = 0
  BY <1>1, FS_EmptySet DEF Init
<1>3. references \in [Pointers -> Nat]
  BY DEF Init
<1>4. QED
  BY <1>2, <1>3 DEF CountInv

LEMMA CountInvariant == UnTrackedLeavesIt => (Spec => [](CallInv /\ CountInv))
<1> SUFFICES ASSUME UnTrackedLeavesIt
             PROVE  Spec => [](CallInv /\ CountInv)
  OBVIOUS
<1>1. CallInv /\ CountInv /\ [Next]_vars => CallInv' /\ CountInv'
  BY NextCall, NextCount
<1>2. QED
  BY <1>1, InitCall, InitCount, PTL DEF Spec

(* TypeOK: every field has its type, and no count falls below zero: no     *)
(* native object is released more often than references to it were handed  *)
(* out, whatever threads, handlers and the finalizer do.                   *)
THEOREM TypeCorrect == UnTrackedLeavesIt => (Spec => []TypeOK)
<1>1. CallInv /\ CountInv => TypeOK
  BY DEF CallInv, CallType, CountInv, TypeOK
<1>2. QED
  BY <1>1, CountInvariant, PTL

-----------------------------------------------------------------------------
(* The end of an object: what a Dispose finds and leaves behind.           *)

(* A step of t that marks no call leaves those below its last one alone.   *)
KeepsBelow(t) ==
  /\ Others(t) /\ Len(stack'[t]) <= Len(stack[t])
  /\ \A i \in 1..Len(stack'[t]) - 1 : stack'[t][i] = stack[t][i]

LEMMA GotoBelow ==
  ASSUME StackType, NEW t \in Threads, stack[t] # <<>>, NEW f, NEW label, Goto(t, f, label)
  PROVE  KeepsBelow(t)
<1> DEFINE g == [f EXCEPT !.at = label]
           s == [stack[t] EXCEPT ![Len(stack[t])] = g]
<1>1. stack[t] \in Seq(Frame \cup {g}) /\ Len(stack[t]) \in Nat \ {0}
  <2>1. stack[t] \in Seq(Frame)
    BY DEF StackType
  <2>2. QED
    BY <2>1
<1>2. stack' = [stack EXCEPT ![t] = s]
  BY DEF Goto
<1> HIDE DEF g
<1>3. Len(s) = Len(stack[t]) /\ \A i \in 1..Len(stack[t]) - 1 : s[i] = stack[t][i]
  BY <1>1
<1>4. stack'[t] = s /\ Others(t)
  BY <1>2 DEF StackType, Others
<1>5. QED
  BY <1>1, <1>3, <1>4 DEF KeepsBelow

LEMMA ReturnBelow ==
  ASSUME StackType, NEW t \in Threads, stack[t] # <<>>, Return(t)
  PROVE  KeepsBelow(t)
<1>1. /\ Others(t) /\ Len(stack'[t]) = Len(stack[t]) - 1 /\ Len(stack[t]) \in Nat \ {0}
      /\ \A i \in 1..Len(stack[t]) - 1 : stack'[t][i] = stack[t][i]
  BY ReturnStack, TopFrame
<1>2. QED
  BY <1>1 DEF KeepsBelow

LEMMA ContinueBelow ==
  ASSUME CallInv, NEW t \in Threads, Continue(t), ~DisposeInHandler(t)
  PROVE  KeepsBelow(t)
<1>1. StackType
  BY DEF CallInv, CallType, StackType
<1>2. CASE GetTable(t)
  <2>1. stack[t] # <<>> /\ \E f, label : Goto(t, f, label)
    BY <1>2 DEF GetTable, At
  <2>2. QED
    BY <1>1, <2>1, GotoBelow
<1>3. CASE NewTable(t)
  <2>1. stack[t] # <<>> /\ \E f, label : Goto(t, f, label)
    BY <1>3 DEF NewTable, At
  <2>2. QED
    BY <1>1, <2>1, GotoBelow
<1>4. CASE Track(t) \/ HandlersOfUnTracked(t) \/ ReadPointer(t) \/ Clear(t)
  <2>1. stack[t] # <<>> /\ \E f, label : Goto(t, f, label)
    BY <1>4 DEF Track, HandlersOfUnTracked, ReadPointer, Clear, At
  <2>2. QED
    BY <1>1, <2>1, GotoBelow
<1>5. CASE Untrack(t)
  <2>1. stack[t] # <<>> /\ \E f, label : Goto(t, f, label)
    BY <1>5 DEF Untrack, At
  <2>2. QED
    BY <1>1, <2>1, GotoBelow
<1>6. CASE MigrateNativePointer(t) \/ EndCall(t)
  <2>1. stack[t] # <<>> /\ Return(t)
    BY <1>6 DEF MigrateNativePointer, EndCall, At
  <2>2. QED
    BY <1>1, <2>1, ReturnBelow
<1>7. CASE Release(t)
  <2>1. /\ stack[t] # <<>>
        /\ stack' = [stack EXCEPT ![t] = <<>>] \/ \E f, label : Goto(t, f, label)
    BY <1>7 DEF Release, At
  <2>2. CASE stack' = [stack EXCEPT ![t] = <<>>]
    <3>1. Others(t) /\ Len(stack'[t]) = 0 /\ Len(stack[t]) \in Nat
      BY <1>1, <2>1, <2>2, TopFrame DEF StackType, Others
    <3>2. QED
      BY <3>1 DEF KeepsBelow
  <2>3. QED
    BY <1>1, <2>1, <2>2, GotoBelow
<1>8. QED
  BY <1>2, <1>3, <1>4, <1>5, <1>6, <1>7 DEF Continue

LEMMA FirstFrame ==
  ASSUME StackType, NEW t \in Threads, stack[t] = <<>>, NEW f, Push(t, f)
  PROVE  Others(t) /\ Len(stack'[t]) = 1
<1>1. stack' = [stack EXCEPT ![t] = Append(<<>>, f)]
  BY DEF Push
<1>2. stack'[t] = Append(<<>>, f) /\ Others(t)
  BY <1>1 DEF StackType, Others
<1>3. Append(<<>>, f) = <<f>>
  OBVIOUS
<1>4. QED
  BY <1>2, <1>3

LEMMA BelowKept ==
  ASSUME StackType, BelowInv, NEW t \in Threads, KeepsBelow(t)
  PROVE  BelowInv'
<1> SUFFICES ASSUME NEW u \in Threads, NEW i \in 1..Len(stack'[u]) - 1,
                    stack'[u][i].at = "disposing"
             PROVE  stack'[u][i].nested
  BY DEF BelowInv
<1>1. CASE u = t
  <2>1. Len(stack[t]) \in Nat
    BY DEF StackType
  <2>2. CASE Len(stack'[t]) \in Nat
    <3>1. i \in 1..Len(stack[t]) - 1 /\ stack'[t][i] = stack[t][i]
      BY <1>1, <2>1, <2>2 DEF KeepsBelow
    <3>2. QED
      BY <1>1, <3>1 DEF BelowInv
  <2>3. stack'[t] \in Seq(Frame) => Len(stack'[t]) \in Nat
    OBVIOUS
  <2>4. QED
    BY <2>2, <2>3
<1>2. CASE u # t
  BY <1>2 DEF KeepsBelow, Others, BelowInv
<1>3. QED
  BY <1>1, <1>2

LEMMA NoneBelow ==
  ASSUME BelowInv, NEW t \in Threads, Others(t), Len(stack'[t]) = 1
  PROVE  BelowInv'
<1>1. \A i \in 1..Len(stack'[t]) - 1 : FALSE
  OBVIOUS
<1>2. \A u \in Threads : u # t =>
        \A i \in 1..Len(stack'[u]) - 1 : stack'[u][i].at = "disposing" => stack'[u][i].nested
  BY DEF BelowInv, Others
<1>3. QED
  BY <1>1, <1>2 DEF BelowInv

LEMMA NextBelow ==
  ASSUME CallInv, BelowInv, [Next]_vars
  PROVE  BelowInv'
<1>1. StackType /\ StackType'
  BY NextCall DEF CallInv, CallType, StackType
<1>2. ASSUME NEW t \in Threads, Continue(t), ~DisposeInHandler(t)
      PROVE  BelowInv'
  BY <1>1, <1>2, ContinueBelow, BelowKept
<1>3. ASSUME NEW t \in Threads, DisposeInHandler(t)
      PROVE  BelowInv'
  <2> DEFINE n == Len(stack[t])
  <2>0. /\ EndedCall(t) /\ stack[t] # <<>> /\ Len(stack'[t]) = Len(stack[t]) + 1
        /\ stack'[t][Len(stack[t])] = Marked(Top(t))
        /\ \A i \in 1..Len(stack[t]) - 1 : stack'[t][i] = stack[t][i]
    BY <1>3, HandlerCall
  <2>1. /\ Others(t) /\ Len(stack'[t]) = n + 1 /\ stack'[t][n] = Marked(Top(t))
        /\ \A i \in 1..n - 1 : stack'[t][i] = stack[t][i]
        /\ n \in Nat /\ Top(t) \in Frame
    BY <1>1, <2>0, TopFrame DEF EndedCall
  <2>2. Marked(Top(t)).at = "disposing" => Marked(Top(t)).nested
    BY <2>1 DEF Marked, Frame
  <2>3. ASSUME NEW i \in 1..n, stack'[t][i].at = "disposing"
        PROVE  stack'[t][i].nested
    BY <2>1, <2>2, <2>3 DEF BelowInv
  <2>4. QED
    BY <2>1, <2>3 DEF BelowInv, Others
<1>4. ASSUME NEW t \in Threads, Begin(t)
      PROVE  BelowInv'
  <2>1. stack' = stack \/ (stack[t] = <<>> /\ \E f : Push(t, f))
    BY <1>4 DEF Begin, Create, SetNativePointer, MayUse, Dispose, CheckAndDispose,
       FindActiveObjects, Push
  <2>2. CASE stack[t] = <<>> /\ \E f : Push(t, f)
    <3>1. Others(t) /\ Len(stack'[t]) = 1
      BY <1>1, <2>2, FirstFrame
    <3>2. QED
      BY <3>1, NoneBelow
  <2>3. QED
    BY <2>1, <2>2 DEF BelowInv
<1>5. ASSUME NEW o \in Objects, Drop(o) \/ Finalize(o)
      PROVE  BelowInv'
  <2>1. stack' = stack \/ (stack[Finalizer] = <<>> /\ \E f : Push(Finalizer, f))
    BY <1>5 DEF Drop, Finalize
  <2>2. CASE stack[Finalizer] = <<>> /\ \E f : Push(Finalizer, f)
    <3>1. Others(Finalizer) /\ Len(stack'[Finalizer]) = 1
      BY <1>1, <2>2, ThreadAssumption, FirstFrame
    <3>2. QED
      BY <3>1, ThreadAssumption, NoneBelow
  <2>3. QED
    BY <2>1, <2>2 DEF BelowInv
<1>6. CASE UNCHANGED vars
  BY <1>6 DEF vars, BelowInv
<1>7. QED
  BY <1>2, <1>3, <1>4, <1>5, <1>6 DEF Next

(* A step of t finds and leaves Settled what it works on.                  *)
LEMMA SettledStep ==
  ASSUME CallInv, SettledInv, NEW t \in Threads, Others(t),
         \A o \in Objects : \/ pointer'[o] = pointer[o] /\ suppressed'[o] = suppressed[o]
                            \/ \A u \in Threads : u # t => ~Uses(u, o),
         \A o \in Objects : Uses(t, o)' => Settled(Top(t))'
  PROVE  SettledInv'
<1> SUFFICES ASSUME NEW u \in Threads, NEW o \in Objects, Uses(u, o)'
             PROVE  Settled(Top(u))'
  BY DEF SettledInv
<1>1. CASE u = t
  BY <1>1
<1>2. CASE u # t
  <2>1. Uses(u, o) /\ Top(u)' = Top(u)
    BY <1>2, OtherUses
  <2>2. Top(u).object = o /\ Settled(Top(u))
    BY <2>1 DEF SettledInv, Uses
  <2>3. pointer'[o] = pointer[o] /\ suppressed'[o] = suppressed[o]
    BY <1>2, <2>1
  <2>4. QED
    BY <2>1, <2>2, <2>3 DEF Settled
<1>3. QED
  BY <1>1, <1>2

(* A call that goes on, with the pointers as they are.                     *)
LEMMA SettledGoesOn ==
  ASSUME CallInv, SettledInv, NEW t \in Threads, SameCall(t),
         UNCHANGED <<pointer, suppressed>>,
         \/ Top(t)'.at \notin {"disposing", "release", "disposed"}
         \/ /\ Top(t)'.at = "release" /\ Top(t).at = "disposing"
            /\ Top(t)'.nested = Top(t).nested
  PROVE  SettledInv'
<1>1. ASSUME NEW o \in Objects, Uses(t, o)'
      PROVE  Settled(Top(t))'
  <2>1. Uses(t, o) /\ Settled(Top(t)) /\ Top(t)'.object = Top(t).object
    BY <1>1 DEF SameCall, SettledInv
  <2>2. QED
    BY <2>1 DEF Settled
<1>2. QED
  BY <1>1, SettledStep DEF SameCall

(* The finalizer keeps what it works on until its pointer is null.         *)
LEMMA FinalStep ==
  ASSUME FinalInv, status' = status,
         \A o \in Objects : pointer'[o] # Null => pointer'[o] = pointer[o],
         \A o \in Objects : suppressed[o] => suppressed'[o],
         \A o \in Objects :
           Uses(Finalizer, o) /\ Top(Finalizer).call = "dispose" /\ pointer'[o] # Null
             => Uses(Finalizer, o)' /\ Top(Finalizer)'.call = "dispose"
  PROVE  FinalInv'
<1> SUFFICES ASSUME NEW o \in Objects, status'[o] = "collected", pointer'[o] # Null,
                    ~suppressed'[o]
             PROVE  Uses(Finalizer, o)' /\ Top(Finalizer)'.call = "dispose"
  BY DEF FinalInv
<1>1. Uses(Finalizer, o) /\ Top(Finalizer).call = "dispose"
  BY DEF FinalInv
<1>2. QED
  BY <1>1

LEMMA FinalByOther ==
  ASSUME FinalInv, NEW t \in Threads, Others(t), status' = status,
         \A o \in Objects : pointer'[o] # Null => pointer'[o] = pointer[o],
         \A o \in Objects : suppressed[o] => suppressed'[o],
         t # Finalizer \/ SameCall(t)
  PROVE  FinalInv'
<1>1. \A o \in Objects : Uses(Finalizer, o) /\ Top(Finalizer).call = "dispose"
        => Uses(Finalizer, o)' /\ Top(Finalizer)'.call = "dispose"
  BY OtherUses, ThreadAssumption DEF SameCall
<1>2. QED
  BY <1>1, FinalStep

(* A step in the middle of a call that leads to none of these labels.      *)
LEMMA EndGoesOn ==
  ASSUME CallInv, SettledInv, FinalInv, NEW t \in Threads, SameCall(t),
         UNCHANGED <<status, pointer, suppressed>>,
         \/ Top(t)'.at \notin {"disposing", "release", "disposed"}
         \/ /\ Top(t)'.at = "release" /\ Top(t).at = "disposing"
            /\ Top(t)'.nested = Top(t).nested
  PROVE  SettledInv' /\ FinalInv'
BY SettledGoesOn, FinalByOther DEF SameCall

(* A call that returns: to one that was interrupted while it was disposing *)
(* of the object, which by now has no pointer.                             *)
LEMMA EndReturns ==
  ASSUME CallInv, SettledInv, BelowInv, FinalInv, NEW t \in Threads, stack[t] # <<>>,
         Return(t), EndedCall(t), UNCHANGED <<status, pointer, suppressed>>,
         Top(t).call = "dispose" => Top(t).at = "disposed"
  PROVE  SettledInv' /\ FinalInv'
<1>1. StackType /\ StackInv
  BY DEF CallInv, CallType, StackType
<1>2. Top(t).call = "dispose" => pointer[Top(t).object] = Null /\ suppressed[Top(t).object]
  <2> SUFFICES ASSUME Top(t).call = "dispose"
               PROVE  pointer[Top(t).object] = Null /\ suppressed[Top(t).object]
    OBVIOUS
  <2>1. Top(t).object \in Objects /\ Uses(t, Top(t).object)
    BY TopInv
  <2>2. QED
    BY <2>1 DEF SettledInv, Settled
<1>3. ASSUME NEW o \in Objects, Uses(t, o)'
      PROVE  Settled(Top(t))'
  <2> DEFINE n == Len(stack[t])
  <2>1. stack'[t] # <<>>
    BY <1>3 DEF Uses
  <2>2. /\ Top(t).call = "dispose" /\ Top(t)'.at \in Handlers
        /\ Top(t)'.object = Top(t).object
    BY <1>1, <2>1, ReturnInv
  <2>3. /\ Len(stack'[t]) = n - 1 /\ n \in Nat \ {0} /\ StackType'
        /\ \A i \in 1..n - 1 : stack'[t][i] = stack[t][i]
    BY <1>1, ReturnStack, TopFrame
  <2>4. stack'[t] \in Seq(Frame) /\ n - 1 \in 1..n - 1
    BY <2>1, <2>3 DEF StackType
  <2>5. Top(t)' = stack[t][n - 1]
    BY <2>3, <2>4 DEF Top
  <2>6. Top(t)'.at = "disposing" => Top(t)'.nested
    BY <2>4, <2>5 DEF BelowInv
  <2>7. pointer'[Top(t)'.object] = Null /\ suppressed'[Top(t)'.object]
    BY <1>2, <2>2
  <2>8. Top(t)'.at # "release"
    BY <2>2, HandlerAssumption
  <2>9. QED
    BY <2>6, <2>7, <2>8 DEF Settled
<1>0. /\ Others(t) /\ status' = status /\ pointer' = pointer /\ suppressed' = suppressed
  BY DEF EndedCall
<1>4. SettledInv'
  BY <1>0, <1>3, SettledStep
<1>5. CASE t # Finalizer
  BY <1>0, <1>4, <1>5, FinalByOther
<1>6. CASE t = Finalizer
  <2>1. \A o \in Objects : Uses(Finalizer, o) /\ Top(Finalizer).call = "dispose"
          => pointer'[o] = Null
    BY <1>0, <1>2, <1>6 DEF Uses
  <2>2. QED
    BY <1>0, <1>4, <2>1, FinalStep
<1>7. QED
  BY <1>5, <1>6

LEMMA ContinueEnd ==
  ASSUME CallInv, SettledInv, BelowInv, FinalInv, NEW t \in Threads, Continue(t)
  PROVE  SettledInv' /\ FinalInv'
<1>1. CASE GetTable(t)
  <2>1. UNCHANGED <<status, pointer, suppressed>>
    BY <1>1 DEF GetTable, objects
  <2>2. /\ SameCall(t)
        /\ Top(t)'.at = "newTable" \/ Top(t)'.at = Lookup(Top(t).call)
    BY <1>1, GetTableCall
  <2>3. Top(t).call \in {"create", "set", "dispose", "find"}
    BY <1>1, AtTop DEF GetTable, Frame
  <2>4. QED
    BY <2>1, <2>2, <2>3, EndGoesOn DEF Lookup
<1>2. CASE NewTable(t)
  <2>1. UNCHANGED <<status, pointer, suppressed>>
    BY <1>2 DEF NewTable, objects
  <2>2. SameCall(t) /\ Top(t)'.at = Lookup(Top(t).call)
    BY <1>2, NewTableCall
  <2>3. Top(t).call \in {"create", "set", "dispose", "find"}
    BY <1>2, AtTop DEF NewTable, Frame
  <2>4. QED
    BY <2>1, <2>2, <2>3, EndGoesOn DEF Lookup
<1>3. CASE Track(t)
  <2>1. UNCHANGED <<status, pointer, suppressed>>
    BY <1>3 DEF Track, objects
  <2>2. QED
    BY <1>3, <2>1, TrackCall, EndGoesOn
<1>4. CASE MigrateNativePointer(t)
  <2>1. /\ UNCHANGED <<status, pointer, suppressed>> /\ Return(t) /\ stack[t] # <<>>
        /\ At(t, "migrate")
    BY <1>4 DEF MigrateNativePointer, objects, At
  <2>2. Top(t).call # "dispose"
    BY <2>1, AtTop DEF Frame, LabelsOf
  <2>3. QED
    BY <1>4, <2>1, <2>2, MigrateCall, EndReturns
<1>5. CASE Untrack(t)
  <2>1. UNCHANGED <<status, pointer, suppressed>>
    BY <1>5 DEF Untrack, objects
  <2>2. QED
    BY <1>5, <2>1, UntrackCall, EndGoesOn
<1>6. CASE EndCall(t)
  <2>1. /\ UNCHANGED <<status, pointer, suppressed>> /\ Return(t) /\ stack[t] # <<>>
        /\ At(t, "tracked") \/ At(t, "report") \/ At(t, "disposed")
    BY <1>6 DEF EndCall, objects, At
  <2>2. Top(t).call = "dispose" => Top(t).at = "disposed"
    BY <2>1, AtTop DEF Frame, LabelsOf
  <2>3. QED
    BY <1>6, <2>1, <2>2, EndCallCall, EndReturns
<1>7. CASE DisposeInHandler(t)
  <2>1. UNCHANGED <<status, pointer, suppressed>>
    BY <1>7 DEF DisposeInHandler, CheckAndDispose, objects
  <2>2. /\ EndedCall(t) /\ pointer[Top(t).object] # Null /\ stack[t] # <<>> /\ stack'[t] # <<>>
        /\ Top(t)' = DisposeFrame(Top(t).object, TRUE) /\ Quiet(Top(t))
    BY <1>7, HandlerCall
  <2>3. Top(t).object \in Objects /\ Uses(t, Top(t).object)
    BY <2>2, TopInv DEF Quiet
  <2>4. /\ Top(t)'.call = "dispose" /\ Top(t)'.object = Top(t).object
        /\ Top(t)'.at = "disposing" /\ ~Top(t)'.nested
    BY <2>2, <2>3, DisposeFrameType
  <2>5. \A o \in Objects : Uses(t, o)' => Settled(Top(t))'
    BY <2>1, <2>2, <2>4 DEF Settled
  <2>6. SettledInv'
    BY <2>1, <2>2, <2>5, SettledStep DEF EndedCall
  <2>7. \A o \in Objects : Uses(t, o) => Uses(t, o)' /\ Top(t)'.call = "dispose"
    BY <2>2, <2>4 DEF Uses
  <2>8. \A o \in Objects : Uses(Finalizer, o) /\ Top(Finalizer).call = "dispose"
          => Uses(Finalizer, o)' /\ Top(Finalizer)'.call = "dispose"
    BY <2>2, <2>7, OtherUses, ThreadAssumption DEF EndedCall
  <2>9. FinalInv'
    BY <2>1, <2>8, FinalStep
  <2>10. QED
    BY <2>6, <2>9
<1>8. CASE ReadPointer(t)
  <2>1. UNCHANGED <<status, pointer, suppressed>>
    BY <1>8 DEF ReadPointer, objects
  <2>2. QED
    BY <1>8, <2>1, ReadPointerCall, EndGoesOn
<1>9. CASE Release(t)
  <2>1. status' = status /\ pointer' = pointer /\ suppressed' = suppressed
    BY <1>9 DEF Release
  <2>2. /\ Others(t) /\ Top(t).at = "release"
        /\ \/ pointer[Top(t).object] = Null /\ \A o \in Objects : ~Uses(t, o)'
           \/ SameCall(t) /\ Top(t)'.at \in {"clear", "table"}
    BY <1>9, ReleaseCall
  <2>3. CASE pointer[Top(t).object] = Null /\ \A o \in Objects : ~Uses(t, o)'
    <3>1. SettledInv'
      BY <2>1, <2>2, <2>3, SettledStep
    <3>2. \A o \in Objects : Uses(Finalizer, o) /\ pointer'[o] # Null => Uses(Finalizer, o)'
                                                   /\ Top(Finalizer)' = Top(Finalizer)
      BY <2>1, <2>2, <2>3, OtherUses, ThreadAssumption DEF Uses
    <3>3. FinalInv'
      BY <2>1, <3>2, FinalStep
    <3>4. QED
      BY <3>1, <3>3
  <2>4. CASE SameCall(t) /\ Top(t)'.at \in {"clear", "table"}
    BY <2>1, <2>2, <2>4, EndGoesOn
  <2>5. QED
    BY <2>2, <2>3, <2>4
<1>10. CASE HandlersOfUnTracked(t)
  <2>1. UNCHANGED <<status, pointer, suppressed>>
    BY <1>10 DEF HandlersOfUnTracked, objects
  <2>2. QED
    BY <1>10, <2>1, UnTrackedCall, EndGoesOn
<1>11. CASE Clear(t)
  <2>1. /\ SameCall(t) /\ Top(t)'.at = "disposed"
        /\ Uses(t, Top(t).object) /\ Top(t).object \in Objects
        /\ pointer' = [pointer EXCEPT ![Top(t).object] = Null]
        /\ suppressed' = [suppressed EXCEPT ![Top(t).object] = TRUE]
        /\ status' = status
    BY <1>11, ClearCall DEF Clear
  <2>2. /\ pointer'[Top(t).object] = Null /\ suppressed'[Top(t).object]
        /\ \A o \in Objects : o # Top(t).object =>
             pointer'[o] = pointer[o] /\ suppressed'[o] = suppressed[o]
    BY <2>1 DEF CallInv, CallType
  <2>3. \A o \in Objects : \/ pointer'[o] = pointer[o] /\ suppressed'[o] = suppressed[o]
                           \/ \A u \in Threads : u # t => ~Uses(u, o)
    BY <2>1, <2>2 DEF CallInv, UseInv
  <2>4. Settled(Top(t))'
    BY <2>1, <2>2 DEF Settled, SameCall
  <2>5. SettledInv'
    BY <2>1, <2>3, <2>4, SettledStep DEF SameCall
  <2>6. \A o \in Objects : /\ pointer'[o] # Null => pointer'[o] = pointer[o]
                           /\ suppressed[o] => suppressed'[o]
    BY <2>2
  <2>7. FinalInv'
    BY <2>1, <2>6, FinalByOther DEF SameCall
  <2>8. QED
    BY <2>5, <2>7
<1>12. QED
  BY <1>1, <1>2, <1>3, <1>4, <1>5, <1>6, <1>7, <1>8, <1>9, <1>10, <1>11 DEF Continue

(* A call that begins about an object nobody works on.                     *)
LEMMA BeginEnd ==
  ASSUME CallInv, SettledInv, FinalInv, NEW t \in Users, NEW o \in Objects, Others(t),
         \A u \in Threads : ~Uses(u, o), suppressed' = suppressed,
         \A x \in Objects : x # o => pointer'[x] = pointer[x] /\ status'[x] = status[x],
         status'[o] = "live",
         \A x \in Objects : Uses(t, x)' => x = o /\ Settled(Top(t))'
  PROVE  SettledInv' /\ FinalInv'
<1>1. t \in Threads /\ t # Finalizer
  BY DEF Users
<1>2. SettledInv'
  BY <1>1, SettledStep
<1>3. \A x \in Objects : Uses(Finalizer, x) /\ Top(Finalizer).call = "dispose"
        => Uses(Finalizer, x)' /\ Top(Finalizer)'.call = "dispose"
  BY <1>1, OtherUses, ThreadAssumption
<1>4. FinalInv'
  BY <1>3 DEF FinalInv
<1>5. QED
  BY <1>2, <1>4

LEMMA NextEnd ==
  ASSUME CallInv, SettledInv, BelowInv, FinalInv, [Next]_vars
  PROVE  SettledInv' /\ FinalInv'
<1>1. ASSUME NEW t \in Threads, NEW o \in Objects, NEW p \in Maybe, Create(t, o, p)
      PROVE  SettledInv' /\ FinalInv'
  <2>1. /\ t \in Users /\ status[o] = "none" /\ suppressed' = suppressed /\ status'[o] = "live"
        /\ \A x \in Objects : x # o => pointer'[x] = pointer[x] /\ status'[x] = status[x]
    BY <1>1 DEF Create, CallInv, CallType
  <2>2. \A u \in Threads : ~Uses(u, o)
    BY <2>1 DEF CallInv, UseInv
  <2>3. /\ Others(t)
        /\ \A x \in Objects : Uses(t, x)' => x = o /\ Top(t)'.at = "table"
    BY <1>1, CreateCall
  <2>4. QED
    BY <2>1, <2>2, <2>3, BeginEnd DEF Settled
<1>2. ASSUME NEW t \in Threads, NEW o \in Objects, NEW p \in Maybe, SetNativePointer(t, o, p)
      PROVE  SettledInv' /\ FinalInv'
  <2>1. /\ t \in Users /\ status[o] = "live" /\ Unused(o) /\ suppressed' = suppressed
        /\ status' = status
        /\ \A x \in Objects : x # o => pointer'[x] = pointer[x]
    BY <1>2 DEF SetNativePointer, MayUse, CallInv, CallType
  <2>2. \A u \in Threads : ~Uses(u, o)
    BY <2>1, UnusedUses DEF CallInv, CallType, StackType
  <2>3. /\ Others(t)
        /\ \A x \in Objects : Uses(t, x)' => x = o /\ Top(t)'.at = "table"
    BY <1>2, SetCall
  <2>4. QED
    BY <2>1, <2>2, <2>3, BeginEnd DEF Settled
<1>3. ASSUME NEW t \in Threads, NEW o \in Objects, Dispose(t, o)
      PROVE  SettledInv' /\ FinalInv'
  <2>1. /\ t \in Users /\ status[o] = "live" /\ Unused(o) /\ stack[t] = <<>>
        /\ suppressed' = suppressed /\ status' = status
        /\ pointer' = pointer /\ pointer[o] # Null /\ Push(t, DisposeFrame(o, TRUE))
    BY <1>3 DEF Dispose, MayUse, CheckAndDispose, IsDisposed, objects, Push
  <2>2. \A u \in Threads : ~Uses(u, o)
    BY <2>1, UnusedUses DEF CallInv, CallType, StackType
  <2>3. /\ DisposeFrame(o, TRUE).at = "disposing" /\ ~DisposeFrame(o, TRUE).nested
        /\ DisposeFrame(o, TRUE).object = o /\ FrameInv(DisposeFrame(o, TRUE))
        /\ DisposeFrame(o, TRUE) \in Frame
    BY DisposeFrameType
  <2>4. Top(t)' = DisposeFrame(o, TRUE)
    BY <2>1, <2>3, CallBegins
  <2>5. Settled(Top(t))'
    BY <2>1, <2>3, <2>4 DEF Settled
  <2>6. Others(t) /\ \A x \in Objects : Uses(t, x)' => x = o
    BY <1>3, DisposeByUser
  <2>7. QED
    BY <2>1, <2>2, <2>5, <2>6, BeginEnd
<1>4. ASSUME NEW t \in Threads, FindActiveObjects(t)
      PROVE  SettledInv' /\ FinalInv'
  <2>1. /\ status' = status /\ pointer' = pointer /\ suppressed' = suppressed /\ t # Finalizer
    BY <1>4 DEF FindActiveObjects, objects, Users
  <2>2. Others(t) /\ \A x \in Objects : ~Uses(t, x)'
    BY <1>4, FindCall
  <2>3. QED
    BY <2>1, <2>2, SettledStep, FinalByOther
<1>5. ASSUME NEW o \in Objects, Drop(o)
      PROVE  SettledInv' /\ FinalInv'
  <2>1. /\ UNCHANGED <<pointer, suppressed, stack>>
        /\ status'[o] = "collected" => suppressed[o]
        /\ \A x \in Objects : x # o => status'[x] = status[x]
    BY <1>5 DEF Drop, CallInv, CallType
  <2>2. /\ \A t \in Threads : Top(t)' = Top(t)
        /\ \A t \in Threads, x \in Objects : Uses(t, x)' <=> Uses(t, x)
    BY <2>1 DEF Top, Uses
  <2>3. SettledInv'
    BY <2>1, <2>2 DEF SettledInv, Settled
  <2>4. FinalInv'
    BY <2>1, <2>2, ThreadAssumption DEF FinalInv
  <2>5. QED
    BY <2>3, <2>4
<1>6. ASSUME NEW o \in Objects, Finalize(o)
      PROVE  SettledInv' /\ FinalInv'
  <2>1. /\ pointer' = pointer /\ suppressed' = suppressed /\ stack[Finalizer] = <<>>
        /\ \A x \in Objects : x # o => status'[x] = status[x]
        /\ \/ pointer[o] = Null /\ stack' = stack
           \/ pointer[o] # Null /\ Push(Finalizer, DisposeFrame(o, FALSE))
    BY <1>6 DEF Finalize, IsDisposed, CallInv, CallType
  <2>2. \A x \in Objects : ~Uses(Finalizer, x)
    BY <2>1 DEF Uses
  <2>3. CASE pointer[o] = Null /\ stack' = stack
    <3>1. /\ \A t \in Threads : Top(t)' = Top(t)
          /\ \A t \in Threads, x \in Objects : Uses(t, x)' <=> Uses(t, x)
      BY <2>3 DEF Top, Uses
    <3>2. SettledInv'
      BY <2>1, <3>1 DEF SettledInv, Settled
    <3>3. FinalInv'
      BY <2>1, <2>3, <3>1, ThreadAssumption DEF FinalInv
    <3>4. QED
      BY <3>2, <3>3
  <2>4. CASE pointer[o] # Null /\ Push(Finalizer, DisposeFrame(o, FALSE))
    <3>1. /\ DisposeFrame(o, FALSE).at = "disposing" /\ ~DisposeFrame(o, FALSE).nested
          /\ DisposeFrame(o, FALSE).object = o /\ FrameInv(DisposeFrame(o, FALSE))
          /\ DisposeFrame(o, FALSE).call = "dispose" /\ DisposeFrame(o, FALSE) \in Frame
      BY DisposeFrameType
    <3>2. /\ Top(Finalizer)' = DisposeFrame(o, FALSE) /\ Others(Finalizer)
          /\ \A x \in Objects : Uses(Finalizer, x)' <=> x = o
      BY <2>1, <2>4, <3>1, CallBegins, ThreadAssumption
    <3>3. Settled(Top(Finalizer))'
      BY <2>1, <2>4, <3>1, <3>2 DEF Settled
    <3>4. SettledInv'
      BY <2>1, <3>2, <3>3, SettledStep, ThreadAssumption
    <3>5. FinalInv'
      BY <2>1, <2>2, <3>1, <3>2 DEF FinalInv
    <3>6. QED
      BY <3>4, <3>5
  <2>5. QED
    BY <2>1, <2>3, <2>4
<1>7. CASE UNCHANGED vars
  <2>1. /\ UNCHANGED <<status, pointer, suppressed>>
        /\ \A t \in Threads : Top(t)' = Top(t)
        /\ \A t \in Threads, x \in Objects : Uses(t, x)' <=> Uses(t, x)
    BY <1>7 DEF vars, objects, Top, Uses
  <2>2. SettledInv'
    BY <2>1 DEF SettledInv, Settled
  <2>3. FinalInv'
    BY <2>1, ThreadAssumption DEF FinalInv
  <2>4. QED
    BY <2>2, <2>3
<1>8. QED
  BY <1>1, <1>2, <1>3, <1>4, <1>5, <1>6, <1>7, ContinueEnd DEF Next, Begin

LEMMA EndInvariant == Spec => [](CallInv /\ EndInv)
<1>1. Init => EndInv
  <2> SUFFICES ASSUME Init
               PROVE  EndInv
    OBVIOUS
  <2>1. \A t \in Threads : stack[t] = <<>> /\ Len(stack[t]) = 0
    BY DEF Init
  <2>2. SettledInv /\ FinalInv
    BY <2>1 DEF SettledInv, FinalInv, Uses, Init
  <2>3. BelowInv
    BY <2>1 DEF BelowInv
  <2>4. QED
    BY <2>2, <2>3 DEF EndInv
<1>2. CallInv /\ EndInv /\ [Next]_vars => CallInv' /\ EndInv'
  BY NextCall, NextEnd, NextBelow DEF EndInv
<1>3. QED
  BY <1>1, <1>2, InitCall, PTL DEF Spec

(* DisposedByItsHandler: the assertion of ComObject's indexer holds of an  *)
(* object exactly when no handler of Disposing has disposed of it in the   *)
(* meantime: whatever the other handlers, other threads and the finalizer  *)
(* do, and however deep handlers nest.                                     *)
THEOREM IndexerAssertion == Spec => []DisposedByItsHandler
<1>1. CallInv /\ EndInv => DisposedByItsHandler
  <2> SUFFICES ASSUME CallInv, EndInv, NEW t \in Threads, At(t, "release")
               PROVE  IsDisposed(Top(t).object) <=> Top(t).nested
    BY DEF DisposedByItsHandler
  <2>1. Top(t).call = "dispose" /\ Top(t).at = "release"
    BY AtTop DEF LabelsOf, Frame
  <2>2. Top(t).object \in Objects /\ Uses(t, Top(t).object)
    BY <2>1, TopInv DEF At
  <2>3. QED
    BY <2>1, <2>2 DEF EndInv, SettledInv, Settled, IsDisposed
<1>2. QED
  BY <1>1, EndInvariant, PTL

(* ReferencesExact: when all calls have returned, a native object has one  *)
(* reference for every object that holds it and is alive or waits for the  *)
(* finalizer, and one for every object that was given its pointer after    *)
(* Dispose and then dropped; without EnableReleaseOnFinalizer at least as  *)
(* many.  All that is collected with a pointer is of the second kind.      *)
THEOREM CountsExact == UnTrackedLeavesIt => (Spec => []ReferencesExact)
<1>1. CallInv /\ EndInv /\ CountInv => ReferencesExact
  <2> SUFFICES ASSUME CallInv, EndInv, CountInv, AllIdle, NEW p \in Pointers
               PROVE  LET owed == Cardinality(Reachable(p)) + Cardinality(Lost(p))
                      IN  IF ReleaseOnFinalizer THEN references[p] = owed
                          ELSE references[p] >= owed
    BY DEF ReferencesExact
  <2>1. Owners(p) = Holders(p)
    BY DEF Owners, Holders, Released, Uses, AllIdle
  <2>2. ASSUME NEW o \in Holders(p)
        PROVE  o \in Reachable(p) \cup Lost(p)
    <3>1. o \in Objects /\ pointer[o] # Null
      BY <2>2, ObjectAssumption DEF Holders
    <3>2. status[o] \in {"live", "dropped", "collected"}
      BY <3>1 DEF CallInv, CallType, UseInv
    <3>3. status[o] = "collected" => suppressed[o]
      BY <3>1, ThreadAssumption DEF EndInv, FinalInv, AllIdle, Uses
    <3>4. QED
      BY <3>2, <3>3, <2>2 DEF Reachable, Lost
  <2>3. /\ Holders(p) = Reachable(p) \cup Lost(p) /\ Reachable(p) \cap Lost(p) = {}
        /\ Reachable(p) \in SUBSET Objects /\ Lost(p) \in SUBSET Objects
    BY <2>2 DEF Reachable, Lost, Holders
  <2>4. IsFiniteSet(Reachable(p)) /\ IsFiniteSet(Lost(p))
    BY <2>3, FS_Subset, ObjectAssumption
  <2>5. Cardinality(Holders(p)) = Cardinality(Reachable(p)) + Cardinality(Lost(p))
    <3>1. Cardinality({}) = 0
      BY FS_EmptySet
    <3>2. Cardinality(Reachable(p)) \in Nat /\ Cardinality(Lost(p)) \in Nat
      BY <2>4, FS_CardinalityType
    <3>3. Cardinality(Reachable(p) \cup Lost(p))
            = Cardinality(Reachable(p)) + Cardinality(Lost(p)) - Cardinality({})
      BY <2>3, <2>4, FS_Union
    <3>4. QED
      BY <2>3, <3>1, <3>2, <3>3
  <2>6. QED
    BY <2>1, <2>5 DEF CountInv
<1>2. QED
  BY <1>1, CountInvariant, EndInvariant, PTL

-----------------------------------------------------------------------------
(* The tracker's dictionaries.                                             *)

LEMMA WithMember ==
  ASSUME NEW table \in [Pointers -> SUBSET Objects], NEW o \in Objects, NEW p,
         NEW r \in Pointers, NEW x
  PROVE  /\ x \in With(table, o, p)[r] <=> x \in table[r] \/ (r = p /\ x = o)
         /\ x \in Without(table, o, p)[r]
              <=> x \in table[r] /\ (r = p => HasTarget(x) /\ x # o)
BY DEF With, Without

(* A step that makes no dictionary.                                        *)
LEMMA TableStep ==
  ASSUME TableInv, NEW t \in Threads, Others(t),
         DOMAIN dictionary' = DOMAIN dictionary, global' = global,
         stack'[t] # <<>> => /\ Top(t)'.at = "newTable" => t \notin DOMAIN dictionary
                             /\ Top(t)'.at \in Looking
                                  => /\ Top(t)'.table \in DOMAIN dictionary
                                     /\ ThreadStatic => Top(t)'.table = t
  PROVE  TableInv'
<1>1. ASSUME NEW u \in Threads, u # t
      PROVE  /\ At(u, "newTable")' => u \notin DOMAIN dictionary'
             /\ stack'[u] # <<>> /\ Top(u)'.at \in Looking
                  => /\ Top(u)'.table \in DOMAIN dictionary'
                     /\ ThreadStatic => Top(u)'.table = u
  BY <1>1, OtherUses DEF TableInv
<1>2. At(t, "newTable")' => t \notin DOMAIN dictionary'
  BY DEF At
<1>3. stack'[t] # <<>> /\ Top(t)'.at \in Looking
        => /\ Top(t)'.table \in DOMAIN dictionary'
           /\ ThreadStatic => Top(t)'.table = t
  OBVIOUS
<1>4. IsFiniteSet(DOMAIN dictionary')
  BY DEF TableInv
<1>5. ~ThreadStatic => /\ global' = NoThread <=> DOMAIN dictionary' = {}
                       /\ global' # NoThread => global' \in DOMAIN dictionary'
  BY DEF TableInv
<1>6. QED
  BY <1>1, <1>2, <1>3, <1>4, <1>5 DEF TableInv

LEMMA ReturnTable ==
  ASSUME CallInv, TableInv, NEW t \in Threads, stack[t] # <<>>, Return(t),
         DOMAIN dictionary' = DOMAIN dictionary, global' = global
  PROVE  TableInv'
<1>1. StackType /\ StackInv
  BY DEF CallInv, CallType, StackType
<1>2. Others(t) /\ (stack'[t] # <<>> => Top(t)'.at \in Handlers)
  BY <1>1, ReturnInv
<1>3. \A label \in Handlers : label # "newTable" /\ label \notin Looking
  BY HandlerAssumption DEF Looking
<1>4. QED
  BY <1>2, <1>3, TableStep

LEMMA GetTableTable ==
  ASSUME CallInv, TableInv, NEW t \in Threads, GetTable(t)
  PROVE  TableInv'
<1> DEFINE table == IF ThreadStatic THEN t ELSE global
<1>1. /\ SameCall(t)
      /\ \/ table \notin DOMAIN dictionary /\ Top(t)'.at = "newTable"
         \/ /\ table \in DOMAIN dictionary
            /\ Top(t)'.at = Lookup(Top(t).call) /\ Top(t)'.table = table
  BY GetTableCall
<1>2. dictionary' = dictionary /\ global' = global
  BY DEF GetTable, tracker
<1>3. Top(t).at = "table" /\ Top(t).call \in {"create", "set", "dispose", "find"}
  BY AtTop DEF GetTable, Frame
<1>4. Lookup(Top(t).call) # "newTable"
  BY <1>3 DEF Lookup
<1>5. table \notin DOMAIN dictionary => t \notin DOMAIN dictionary
  BY DEF TableInv
<1>6. "newTable" \notin Looking
  BY DEF Looking
<1>7. QED
  BY <1>1, <1>2, <1>4, <1>5, <1>6, TableStep DEF SameCall

LEMMA NewTableTable ==
  ASSUME CallInv, TableInv, NEW t \in Threads, NewTable(t)
  PROVE  TableInv'
<1>1. /\ SameCall(t) /\ Top(t)'.at = Lookup(Top(t).call) /\ Top(t)'.table = t
  BY NewTableCall
<1>2. /\ DOMAIN dictionary' = DOMAIN dictionary \cup {t}
      /\ global' = IF ThreadStatic THEN global ELSE t
  BY DEF NewTable
<1>3. stack[t] # <<>> /\ Top(t).call \in {"create", "set", "dispose", "find"}
  BY AtTop DEF NewTable, Frame
<1>4. Lookup(Top(t).call) # "newTable"
  BY <1>3 DEF Lookup
<1>5. IsFiniteSet(DOMAIN dictionary')
  BY <1>2, FS_AddElement DEF TableInv
<1>6. ~ThreadStatic => /\ global' = NoThread <=> DOMAIN dictionary' = {}
                       /\ global' # NoThread => global' \in DOMAIN dictionary'
  BY <1>2, ThreadAssumption
<1>7. ASSUME NEW u \in Threads
      PROVE  /\ At(u, "newTable")' => u \notin DOMAIN dictionary'
             /\ stack'[u] # <<>> /\ Top(u)'.at \in Looking
                  => /\ Top(u)'.table \in DOMAIN dictionary'
                     /\ ThreadStatic => Top(u)'.table = u
  <2>1. CASE u = t
    BY <1>1, <1>2, <1>4, <2>1 DEF At
  <2>2. CASE u # t
    <3>1. /\ stack'[u] = stack[u] /\ Top(u)' = Top(u)
          /\ At(u, "newTable")' <=> At(u, "newTable")
      BY <1>1, <2>2, OtherUses DEF SameCall
    <3>2. QED
      BY <1>2, <2>2, <3>1 DEF TableInv
  <2>3. QED
    BY <2>1, <2>2
<1>8. QED
  BY <1>5, <1>6, <1>7 DEF TableInv

LEMMA ContinueTable ==
  ASSUME UnTrackedLeavesIt, CallInv, TableInv, NEW t \in Threads, Continue(t)
  PROVE  TableInv'
<1> USE DEF Looking
<1>1. CASE Track(t)
  <2>1. DOMAIN dictionary' = DOMAIN dictionary /\ global' = global
    BY <1>1 DEF Track
  <2>2. QED
    BY <1>1, <2>1, TrackCall, TableStep DEF SameCall
<1>2. CASE MigrateNativePointer(t)
  <2>1. /\ DOMAIN dictionary' = DOMAIN dictionary /\ global' = global
        /\ Return(t) /\ stack[t] # <<>>
    BY <1>2 DEF MigrateNativePointer, At
  <2>2. QED
    BY <2>1, ReturnTable
<1>3. CASE Untrack(t)
  <2>1. DOMAIN dictionary' = DOMAIN dictionary /\ global' = global
    BY <1>3 DEF Untrack
  <2>2. QED
    BY <1>3, <2>1, UntrackCall, TableStep DEF SameCall
<1>4. CASE EndCall(t)
  <2>1. /\ dictionary' = dictionary /\ global' = global
        /\ Return(t) /\ stack[t] # <<>>
    BY <1>4 DEF EndCall, At, tracker
  <2>2. QED
    BY <2>1, ReturnTable
<1>5. CASE DisposeInHandler(t)
  <2>1. dictionary' = dictionary /\ global' = global
    BY <1>5 DEF DisposeInHandler, CheckAndDispose, tracker
  <2>2. QED
    BY <1>5, <2>1, HandlerCall, TableStep DEF EndedCall
<1>6. CASE ReadPointer(t)
  <2>1. dictionary' = dictionary /\ global' = global
    BY <1>6 DEF ReadPointer, tracker
  <2>2. QED
    BY <1>6, <2>1, ReadPointerCall, TableStep DEF SameCall
<1>7. CASE Release(t)
  <2>1. dictionary' = dictionary /\ global' = global
    BY <1>7 DEF Release, tracker
  <2>2. stack'[t] # <<>> => Top(t)'.at \in {"clear", "table"}
    <3>1. CASE stack' = [stack EXCEPT ![t] = <<>>]
      BY <3>1 DEF CallInv, CallType
    <3>2. CASE stack' # [stack EXCEPT ![t] = <<>>]
      BY <1>7, <3>2, ReleaseCall DEF Release
    <3>3. QED
      BY <3>1, <3>2
  <2>3. QED
    BY <1>7, <2>1, <2>2, ReleaseCall, TableStep
<1>8. CASE HandlersOfUnTracked(t)
  <2>1. dictionary' = dictionary /\ global' = global
    BY <1>8 DEF HandlersOfUnTracked, tracker
  <2>2. QED
    BY <1>8, <2>1, UnTrackedCall, TableStep DEF SameCall
<1>9. CASE Clear(t)
  <2>1. dictionary' = dictionary /\ global' = global
    BY <1>9 DEF Clear, tracker
  <2>2. QED
    BY <1>9, <2>1, ClearCall, TableStep DEF SameCall
<1>10. QED
  BY <1>1, <1>2, <1>3, <1>4, <1>5, <1>6, <1>7, <1>8, <1>9, GetTableTable, NewTableTable
     DEF Continue

LEMMA PushTable ==
  ASSUME CallInv, TableInv, NEW t \in Threads, NEW f \in Frame, Push(t, f),
         f.at \in {"table", "disposing"}, UNCHANGED tracker
  PROVE  TableInv'
<1>1. Others(t) /\ Top(t)' = f
  BY PushStack DEF CallInv, CallType, StackType
<1>2. QED
  BY <1>1, TableStep DEF Looking, tracker

LEMMA NextTable ==
  UnTrackedLeavesIt => (CallInv /\ TableInv /\ [Next]_vars => TableInv')
<1> SUFFICES ASSUME UnTrackedLeavesIt, CallInv, TableInv, [Next]_vars
             PROVE  TableInv'
  OBVIOUS
<1>1. ASSUME UNCHANGED <<tracker, stack>>
      PROVE  TableInv'
  BY <1>1 DEF TableInv, tracker, At, Top
<1>2. ASSUME NEW t \in Threads, NEW o \in Objects, NEW p \in Maybe, Create(t, o, p)
      PROVE  TableInv'
  <2>1. /\ UNCHANGED tracker
        /\ stack' = stack \/ Push(t, CreateFrame(o, p))
    BY <1>2 DEF Create, CreateFrame
  <2>2. QED
    BY <1>1, <2>1, CreateFrameType, PushTable
<1>3. ASSUME NEW t \in Threads, NEW o \in Objects, NEW p \in Maybe, SetNativePointer(t, o, p)
      PROVE  TableInv'
  <2>1. UNCHANGED tracker /\ Push(t, SetFrame(o, pointer[o], p)) /\ pointer[o] \in Maybe
    BY <1>3 DEF SetNativePointer, SetFrame, CallInv, CallType
  <2>2. QED
    BY <2>1, SetFrameType, PushTable
<1>4. ASSUME NEW t \in Threads, NEW o \in Objects, Dispose(t, o)
      PROVE  TableInv'
  <2>1. UNCHANGED tracker /\ Push(t, DisposeFrame(o, TRUE))
    BY <1>4 DEF Dispose, CheckAndDispose, Push
  <2>2. QED
    BY <2>1, DisposeFrameType, PushTable
<1>5. ASSUME NEW t \in Threads, FindActiveObjects(t)
      PROVE  TableInv'
  <2>1. UNCHANGED tracker /\ Push(t, FindFrame)
    BY <1>5 DEF FindActiveObjects, FindFrame
  <2>2. QED
    BY <2>1, FindFrameType, PushTable
<1>6. ASSUME NEW o \in Objects, Finalize(o)
      PROVE  TableInv'
  <2>1. /\ UNCHANGED tracker
        /\ stack' = stack \/ Push(Finalizer, DisposeFrame(o, FALSE))
    BY <1>6 DEF Finalize, DisposeFrame
  <2>2. QED
    BY <1>1, <2>1, DisposeFrameType, PushTable, ThreadAssumption
<1>7. ASSUME NEW o \in Objects, Drop(o)
      PROVE  TableInv'
  BY <1>1, <1>7 DEF Drop
<1>8. CASE UNCHANGED vars
  BY <1>1, <1>8 DEF vars
<1>9. QED
  BY <1>2, <1>3, <1>4, <1>5, <1>6, <1>7, <1>8, ContinueTable DEF Next, Begin

-----------------------------------------------------------------------------
(* What each object is listed under.                                       *)

(* The pointer that is due in the home dictionary, seen from thread t.     *)
Due(t, o) == IF Uses(t, o) THEN ListedBy(Top(t)) ELSE pointer[o]

LEMMA DueType ==
  ASSUME CallInv, NEW t \in Threads, NEW o \in Objects
  PROVE  Due(t, o) \in Maybe
<1>1. CASE Uses(t, o)
  <2>1. Top(t) \in Frame /\ Top(t).object = o
    BY <1>1, TopInv DEF Uses
  <2>2. QED
    BY <1>1, <2>1 DEF Due, ListedBy, Frame, Maybe, CallInv, CallType
<1>2. CASE ~Uses(t, o)
  BY <1>2 DEF Due, CallInv, CallType
<1>3. QED
  BY <1>1, <1>2

LEMMA ListStep ==
  ASSUME CallInv, CallInv', ListInv, NEW t \in Threads, Others(t),
         \A o \in Objects : \/ pointer'[o] = pointer[o]
                            \/ \A u \in Threads : u # t => ~Uses(u, o),
         \A o \in Objects : status'[o] = "live" =>
           \/ /\ status[o] = "live" /\ Due(t, o)' = Due(t, o)
              /\ \A q \in Maybe : ListedAs(o, q) => ListedAs(o, q)'
           \/ /\ \A u \in Threads : u # t => ~Uses(u, o)
              /\ \E q : q = Due(t, o)' /\ ListedAs(o, q)'
  PROVE  ListInv'
<1> SUFFICES ASSUME NEW o \in Objects, status'[o] = "live"
             PROVE  /\ (\A u \in Threads : ~Uses(u, o)') => ListedAs(o, pointer[o])'
                    /\ \A u \in Threads : Uses(u, o)' => ListedAs(o, ListedBy(Top(u)))'
  BY DEF ListInv
<1>1. \A u \in Threads : u # t => (Uses(u, o)' <=> Uses(u, o)) /\ Top(u)' = Top(u)
  BY OtherUses
<1>2. \A u, v \in Threads : Uses(u, o)' /\ Uses(v, o)' => u = v
  BY DEF CallInv, UseInv
<1>3. \A u, v \in Threads : Uses(u, o) /\ Uses(v, o) => u = v
  BY DEF CallInv, UseInv
<1>4. CASE \A u \in Threads : u # t => ~Uses(u, o)
  <2>1. PICK q : q = Due(t, o)' /\ ListedAs(o, q)'
    <3>1. CASE /\ status[o] = "live" /\ Due(t, o)' = Due(t, o)
               /\ \A q \in Maybe : ListedAs(o, q) => ListedAs(o, q)'
      <4>1. PICK q \in Maybe : q = Due(t, o)
        BY DueType
      <4>2. ListedAs(o, q)
        BY <1>4, <3>1, <4>1 DEF ListInv, Due
      <4>3. QED
        BY <3>1, <4>1, <4>2
    <3>2. QED
      BY <3>1
  <2>2. CASE Uses(t, o)'
    <3>1. q = ListedBy(Top(t))'
      BY <2>1, <2>2 DEF Due
    <3>2. ListedAs(o, ListedBy(Top(t)))'
      BY <2>1, <3>1 DEF ListedAs
    <3>3. QED
      BY <1>2, <2>2, <3>2
  <2>3. CASE ~Uses(t, o)'
    <3>1. q = pointer'[o]
      BY <2>1, <2>3 DEF Due
    <3>2. ListedAs(o, pointer[o])'
      BY <2>1, <3>1 DEF ListedAs
    <3>3. QED
      BY <1>1, <1>4, <2>3, <3>2
  <2>4. QED
    BY <2>2, <2>3
<1>5. ASSUME NEW u \in Threads, u # t, Uses(u, o)
      PROVE  ListedAs(o, ListedBy(Top(u)))'
  <2>1. /\ status[o] = "live" /\ pointer'[o] = pointer[o]
        /\ \A q \in Maybe : ListedAs(o, q) => ListedAs(o, q)'
    BY <1>5
  <2>2. PICK q \in Maybe : q = ListedBy(Top(u))
    BY <1>5, DueType DEF Due
  <2>3. ListedAs(o, q)
    BY <1>5, <2>1, <2>2 DEF ListInv
  <2>4. Top(u)' = Top(u) /\ Top(u).object = o
    BY <1>1, <1>5 DEF Uses
  <2>5. q = ListedBy(Top(u))'
    BY <2>1, <2>2, <2>4 DEF ListedBy
  <2>6. ListedAs(o, q)'
    BY <2>1, <2>3
  <2>7. QED
    BY <2>5, <2>6 DEF ListedAs
<1>6. QED
  BY <1>1, <1>2, <1>4, <1>5

(* A step that leaves the dictionaries alone, and what is due in them.     *)
LEMMA ListKept ==
  ASSUME CallInv, CallInv', ListInv, NEW t \in Threads, Others(t), UNCHANGED tracker,
         \A o \in Objects : \/ pointer'[o] = pointer[o]
                            \/ \A u \in Threads : u # t => ~Uses(u, o),
         \A o \in Objects : status'[o] = "live" =>
           /\ status[o] = "live" /\ creator'[o] = creator[o]
           /\ Due(t, o)' = Due(t, o)
  PROVE  ListInv'
<1>1. ASSUME NEW o \in Objects, status'[o] = "live", NEW q, ListedAs(o, q)
      PROVE  ListedAs(o, q)'
  BY <1>1 DEF ListedAs, Home, OneTable, tracker
<1>2. QED
  BY <1>1, ListStep

LEMMA SameDue ==
  ASSUME CallInv, NEW t \in Threads, SameCall(t), pointer' = pointer,
         Top(t).call = "set" => Top(t)'.old = Top(t).old,
         Top(t).call = "create" => (Top(t)'.at = "tracked" <=> Top(t).at = "tracked"),
         Top(t).call = "dispose" => (Top(t)'.at \in {"untracked", "clear"}
                                       <=> Top(t).at \in {"untracked", "clear"})
  PROVE  \A o \in Objects : Due(t, o)' = Due(t, o)
<1>1. ListedBy(Top(t))' = ListedBy(Top(t))
  BY DEF ListedBy, SameCall
<1>2. QED
  BY <1>1 DEF Due, SameCall

(* A call that ends, or is interrupted, where the object's pointer is due. *)
LEMMA QuietDue ==
  ASSUME NEW t \in Threads, EndedCall(t), pointer' = pointer,
         \A o \in Objects : Uses(t, o)' => Top(t)'.at # "untracked"
  PROVE  \A o \in Objects : Due(t, o)' = pointer[o]
<1>1. ASSUME NEW o \in Objects, Uses(t, o)'
      PROVE  ListedBy(Top(t))' = pointer[o]
  <2>1. Quiet(Top(t))' /\ Top(t)'.object = o /\ Top(t)'.at # "untracked"
    BY <1>1 DEF EndedCall, Uses
  <2>2. QED
    BY <2>1 DEF Quiet, ListedBy
<1>2. QED
  BY <1>1 DEF Due

LEMMA QuietDueBefore ==
  ASSUME NEW t \in Threads, Quiet(Top(t)) \/ Top(t).call = "find", Top(t).at # "untracked"
  PROVE  \A o \in Objects : Due(t, o) = pointer[o]
BY DEF Due, Uses, Quiet, ListedBy

(* The dictionary of a live object: the one that its call looks in, or it  *)
(* has been overwritten, and there are two.                                *)
LEMMA HomeTable ==
  ASSUME FoundByItsThread, CallInv, TableInv, NEW t \in Threads, NEW o \in Objects,
         Uses(t, o), status[o] = "live", Top(t).at \in Looking
  PROVE  /\ Top(t).table \in DOMAIN dictionary /\ Home(o) \in DOMAIN dictionary
         /\ Top(t).table # Home(o) => ~OneTable /\ ~ThreadStatic
<1>1. /\ Top(t).table \in DOMAIN dictionary
      /\ ThreadStatic => Top(t).table = t
  BY DEF TableInv, Uses
<1>2. t \in Users
  BY DEF CallInv, UseInv, Users
<1>3. ThreadStatic => creator[o] = t
  BY <1>2 DEF CallInv, UseInv, FoundByItsThread
<1>4. ~ThreadStatic => global \in DOMAIN dictionary
  BY <1>1 DEF TableInv
<1>5. QED
  BY <1>1, <1>3, <1>4 DEF Home, OneTable

(* What a step that writes to one dictionary does not touch.               *)
LEMMA Elsewhere ==
  ASSUME CallInv, NEW m \in DOMAIN dictionary, NEW table,
         dictionary' = [dictionary EXCEPT ![m] = table],
         global' = global, creator' = creator,
         NEW x, \A p \in Pointers : x \in table[p] <=> x \in dictionary[m][p]
  PROVE  \A q \in Maybe : ListedAs(x, q)' <=> ListedAs(x, q)
<1>1. /\ DOMAIN dictionary' = DOMAIN dictionary
      /\ \A n \in DOMAIN dictionary, p \in Pointers :
           x \in dictionary'[n][p] <=> x \in dictionary[n][p]
  BY DEF CallInv, CallType
<1>2. Home(x)' = Home(x) /\ (OneTable' <=> OneTable)
  BY <1>1 DEF Home, OneTable
<1>3. ASSUME NEW q \in Maybe
      PROVE  ListedAs(x, q)' <=> ListedAs(x, q)
  <2>1. PICK h : h = Home(x)
    OBVIOUS
  <2>2. Home(x)' = h
    BY <1>2, <2>1
  <2>3. ListedAs(x, q) <=> /\ h \in DOMAIN dictionary
                                => \A p \in Pointers : x \in dictionary[h][p] => p = q
                           /\ OneTable /\ q # Null
                                => h \in DOMAIN dictionary /\ x \in dictionary[h][q]
    BY <2>1 DEF ListedAs
  <2>4. ListedAs(x, q)' <=> /\ h \in DOMAIN dictionary'
                                 => \A p \in Pointers : x \in dictionary'[h][p] => p = q
                            /\ OneTable' /\ q # Null
                                 => h \in DOMAIN dictionary' /\ x \in dictionary'[h][q]
    BY <2>2 DEF ListedAs
  <2>5. QED
    BY <1>1, <1>2, <2>3, <2>4 DEF Maybe
<1>4. QED
  BY <1>3

LEMMA InDictionary ==
  ASSUME CallInv, NEW m \in DOMAIN dictionary, NEW table,
         dictionary' = [dictionary EXCEPT ![m] = table]
  PROVE  /\ DOMAIN dictionary' = DOMAIN dictionary /\ dictionary'[m] = table
         /\ \A n \in DOMAIN dictionary : n # m => dictionary'[n] = dictionary[n]
         /\ dictionary[m] \in [Pointers -> SUBSET Objects]
BY DEF CallInv, CallType

(* The three steps that write: the object of the call ends up under q in   *)
(* the dictionary it looked in, or nowhere; nothing changes for the others. *)
Writes(t, o, table, q) ==
  /\ Uses(t, o) /\ Top(t).at \in Looking
  /\ dictionary' = [dictionary EXCEPT ![Top(t).table] = table]
  /\ UNCHANGED <<global, creator, pointer, status>>
  /\ \A x \in Objects, p \in Pointers :
       x # o /\ status[x] = "live"
         => (x \in table[p] <=> x \in dictionary[Top(t).table][p])
  /\ q = Due(t, o)' /\ q \in Maybe
  /\ status[o] = "live" /\ Top(t).table = Home(o)
       => \A p \in Pointers : o \in table[p] <=> p = q
  /\ \A x \in Objects : x # o => ~Uses(t, x)'

LEMMA ListWritten ==
  ASSUME FoundByItsThread, CallInv, CallInv', TableInv, ListInv, OldTableInv,
         NEW t \in Threads, Others(t), NEW o \in Objects, NEW table, NEW q,
         Writes(t, o, table, q)
  PROVE  ListInv'
<1> USE DEF Writes
<1>1. PICK m : m = Top(t).table
  OBVIOUS
<1>2. m \in DOMAIN dictionary
  BY <1>1 DEF TableInv, Uses
<1>3. \A x \in Objects : x # o => ~Uses(t, x)
  BY DEF Uses
<1>4. ASSUME NEW x \in Objects, x # o, status[x] = "live"
      PROVE  Due(t, x)' = Due(t, x) /\ \A r \in Maybe : ListedAs(x, r) => ListedAs(x, r)'
  <2>1. Due(t, x)' = Due(t, x)
    BY <1>3, <1>4 DEF Due
  <2>2. \A p \in Pointers : x \in table[p] <=> x \in dictionary[m][p]
    BY <1>1, <1>4
  <2>3. \A r \in Maybe : ListedAs(x, r)' <=> ListedAs(x, r)
    BY <1>1, <1>2, <2>2, Elsewhere
  <2>4. QED
    BY <2>1, <2>3
<1>5. ASSUME status[o] = "live"
      PROVE  ListedAs(o, q)'
  <2>1. /\ DOMAIN dictionary' = DOMAIN dictionary /\ dictionary'[m] = table
        /\ \A n \in DOMAIN dictionary : n # m => dictionary'[n] = dictionary[n]
    BY <1>1, <1>2, InDictionary
  <2>2. Home(o)' = Home(o) /\ (OneTable' <=> OneTable)
    BY <2>1 DEF Home, OneTable
  <2>3. /\ Home(o) \in DOMAIN dictionary
        /\ m # Home(o) => ~OneTable
    BY <1>1, <1>5, HomeTable
  <2>4. CASE m = Home(o)
    <3>1. \A p \in Pointers : o \in dictionary'[Home(o)'][p] <=> p = q
      BY <1>1, <1>5, <2>1, <2>2, <2>4
    <3>2. q # Null => q \in Pointers
      BY DEF Maybe
    <3>3. QED
      BY <2>1, <2>2, <2>3, <3>1, <3>2 DEF ListedAs
  <2>5. CASE m # Home(o)
    <3>1. \A p \in Pointers : o \notin dictionary[Home(o)][p]
      BY <1>1, <1>5, <2>5 DEF OldTableInv
    <3>2. \A p \in Pointers : o \notin dictionary'[Home(o)'][p]
      BY <2>1, <2>2, <2>3, <2>5, <3>1
    <3>3. QED
      BY <2>2, <2>3, <2>5, <3>2 DEF ListedAs
  <2>6. QED
    BY <2>4, <2>5
<1>6. \A u \in Threads : u # t => ~Uses(u, o)
  BY DEF CallInv, UseInv
<1>7. ASSUME NEW x \in Objects, status'[x] = "live"
      PROVE  \/ /\ status[x] = "live" /\ Due(t, x)' = Due(t, x)
                /\ \A r \in Maybe : ListedAs(x, r) => ListedAs(x, r)'
             \/ /\ \A u \in Threads : u # t => ~Uses(u, x)
                /\ \E r : r = Due(t, x)' /\ ListedAs(x, r)'
  <2>1. CASE x = o
    BY <1>5, <1>6, <1>7, <2>1
  <2>2. CASE x # o
    BY <1>4, <1>7, <2>2
  <2>3. QED
    BY <2>1, <2>2
<1>8. \A x \in Objects : \/ pointer'[x] = pointer[x]
                         \/ \A u \in Threads : u # t => ~Uses(u, x)
  OBVIOUS
<1>9. QED
  BY <1>7, <1>8, ListStep

LEMMA TrackList ==
  ASSUME FoundByItsThread, CallInv, TableInv, ListInv, OldTableInv, NEW t \in Threads, Track(t)
  PROVE  ListInv'
<1>1. /\ CallInv' /\ SameCall(t) /\ Top(t).call = "create" /\ Top(t).at = "track"
      /\ Top(t)'.at = "tracked"
  BY TrackCall
<1>2. stack[t] # <<>> /\ Top(t) \in Frame /\ FrameInv(Top(t))
  BY AtTop DEF Track
<1>3. PICK o \in Objects : o = Top(t).object /\ Uses(t, o) /\ Remembers(Top(t))
  BY <1>1, <1>2, TopInv
<1>4. PICK q \in Pointers : q = Top(t).new /\ q = pointer[o]
  BY <1>1, <1>2, <1>3 DEF FrameInv, Remembers
<1>5. PICK m \in DOMAIN dictionary : m = Top(t).table
  BY <1>1, <1>2 DEF TableInv, Looking
<1>0. PICK table : table = With(dictionary[m], o, q)
  OBVIOUS
<1>6. /\ dictionary' = [dictionary EXCEPT ![Top(t).table] = table]
      /\ UNCHANGED <<global, creator, pointer, status>>
  BY <1>0, <1>3, <1>4, <1>5 DEF Track, objects
<1>7. dictionary[m] \in [Pointers -> SUBSET Objects]
  BY DEF CallInv, CallType
<1>8. \A x, p : p \in Pointers => (x \in table[p] <=> x \in dictionary[m][p] \/ (p = q /\ x = o))
  BY <1>0, <1>7, WithMember
<1>9. q = Due(t, o)'
  BY <1>1, <1>3, <1>4, <1>6 DEF Due, ListedBy, SameCall
<1>10. ASSUME status[o] = "live", Top(t).table = Home(o)
       PROVE  \A p \in Pointers : o \in table[p] <=> p = q
  <2>1. ListedAs(o, Null)
    BY <1>1, <1>3, <1>10 DEF ListInv, ListedBy
  <2>2. \A p \in Pointers : o \notin dictionary[m][p]
    BY <1>5, <1>10, <2>1, ObjectAssumption DEF ListedAs
  <2>3. QED
    BY <1>8, <2>2
<1>11. \A x \in Objects : x # o => ~Uses(t, x)'
  BY <1>1, <1>3 DEF SameCall, Uses
<1>12. q \in Maybe /\ Top(t).at \in Looking /\ Others(t)
  BY <1>1 DEF Maybe, Looking, SameCall
<1>13. \A x \in Objects, p \in Pointers :
         x # o /\ status[x] = "live"
           => (x \in table[p] <=> x \in dictionary[Top(t).table][p])
  BY <1>5, <1>8
<1>14. Writes(t, o, table, q)
  BY <1>1, <1>3, <1>6, <1>9, <1>10, <1>11, <1>12, <1>13 DEF Writes
<1>15. QED
  BY <1>1, <1>14, ListWritten DEF SameCall, EndedCall

LEMMA MigrateList ==
  ASSUME UnTrackedLeavesIt, FoundByItsThread, CallInv, TableInv, ListInv, OldTableInv,
         NEW t \in Threads, MigrateNativePointer(t)
  PROVE  ListInv'
<1>1. CallInv' /\ EndedCall(t) /\ Top(t).call = "set" /\ Top(t).at = "migrate"
  BY MigrateCall
<1>2. stack[t] # <<>> /\ Top(t) \in Frame /\ FrameInv(Top(t))
  BY AtTop DEF MigrateNativePointer
<1>3. PICK o \in Objects : o = Top(t).object /\ Uses(t, o) /\ Remembers(Top(t))
  BY <1>1, <1>2, TopInv
<1>4. PICK q \in Maybe : q = Top(t).new /\ q = pointer[o]
  BY <1>1, <1>2, <1>3 DEF Frame, Remembers
<1>5. PICK m \in DOMAIN dictionary : m = Top(t).table
  BY <1>1, <1>2 DEF TableInv, Looking
<1>6. PICK old \in Maybe : old = Top(t).old
  BY <1>2 DEF Frame
<1>a. PICK left : left = IF old = Null THEN dictionary[m] ELSE Without(dictionary[m], o, old)
  OBVIOUS
<1>b. PICK table : table = IF q = Null THEN left ELSE With(left, o, q)
  OBVIOUS
<1>7. /\ dictionary' = [dictionary EXCEPT ![Top(t).table] = table]
      /\ UNCHANGED <<global, creator, pointer, status>>
  BY <1>3, <1>4, <1>5, <1>6, <1>a, <1>b DEF MigrateNativePointer, objects
<1>8. dictionary[m] \in [Pointers -> SUBSET Objects]
  BY DEF CallInv, CallType
<1>9. /\ left \in [Pointers -> SUBSET Objects]
      /\ \A x, p : p \in Pointers =>
           (x \in left[p] <=> x \in dictionary[m][p] /\ (p = old => HasTarget(x) /\ x # o))
  <2>1. CASE old = Null
    BY <1>8, <1>a, <2>1, ObjectAssumption
  <2>2. CASE old # Null
    BY <1>8, <1>a, <2>2, WithMember, WithType
  <2>3. QED
    BY <2>1, <2>2
<1>10. \A x, p : p \in Pointers =>
         (x \in table[p] <=> \/ x \in dictionary[m][p] /\ (p = old => HasTarget(x) /\ x # o)
                             \/ p = q /\ x = o)
  <2>1. CASE q = Null
    BY <1>9, <1>b, <2>1, ObjectAssumption
  <2>2. CASE q # Null
    BY <1>9, <1>b, <2>2, WithMember
  <2>3. QED
    BY <2>1, <2>2
<1>11. q = Due(t, o)'
  <2>1. Return(t)
    BY DEF MigrateNativePointer
  <2>2. QED
    BY <1>1, <1>2, <1>4, <1>7, <2>1, NotToUnTracked, QuietDue
<1>12. ASSUME status[o] = "live", Top(t).table = Home(o)
       PROVE  \A p \in Pointers : o \in table[p] <=> p = q
  <2>1. ListedAs(o, old)
    BY <1>1, <1>3, <1>6, <1>12 DEF ListInv, ListedBy
  <2>2. \A p \in Pointers : o \in dictionary[m][p] => p = old
    BY <1>5, <1>12, <2>1 DEF ListedAs
  <2>3. QED
    BY <1>10, <2>2
<1>13. \A x \in Objects : x # o => ~Uses(t, x)'
  BY <1>1, <1>3 DEF EndedCall, Uses
<1>14. Top(t).at \in Looking /\ Others(t)
  BY <1>1 DEF Looking, EndedCall
<1>15. \A x \in Objects, p \in Pointers :
         x # o /\ status[x] = "live"
           => (x \in table[p] <=> x \in dictionary[Top(t).table][p])
  BY <1>5, <1>10 DEF HasTarget
<1>16. Writes(t, o, table, q)
  BY <1>1, <1>3, <1>7, <1>11, <1>12, <1>13, <1>14, <1>15 DEF Writes
<1>17. QED
  BY <1>1, <1>16, ListWritten DEF SameCall, EndedCall

LEMMA UntrackList ==
  ASSUME FoundByItsThread, CallInv, TableInv, ListInv, OldTableInv,
         NEW t \in Threads, Untrack(t)
  PROVE  ListInv'
<1>1. /\ CallInv' /\ SameCall(t) /\ Top(t).call = "dispose" /\ Top(t).at = "untrack"
      /\ Top(t)'.at \in {"untracked", "clear"}
  BY UntrackCall
<1>2. stack[t] # <<>> /\ Top(t) \in Frame /\ FrameInv(Top(t))
  BY AtTop DEF Untrack
<1>3. PICK o \in Objects : o = Top(t).object /\ Uses(t, o) /\ Remembers(Top(t))
  BY <1>1, <1>2, TopInv
<1>4. PICK old \in Maybe : old = Top(t).old /\ old = pointer[o]
  BY <1>1, <1>2, <1>3 DEF Frame, Remembers, AfterRead
<1>5. PICK m \in DOMAIN dictionary : m = Top(t).table
  BY <1>1, <1>2 DEF TableInv, Looking
<1>0. PICK table : table = Without(dictionary[m], o, old)
  OBVIOUS
<1>6. /\ dictionary' = [dictionary EXCEPT ![Top(t).table] = table]
      /\ UNCHANGED <<global, creator, pointer, status>>
  BY <1>0, <1>3, <1>4, <1>5 DEF Untrack, objects
<1>7. dictionary[m] \in [Pointers -> SUBSET Objects]
  BY DEF CallInv, CallType
<1>8. \A x, p : p \in Pointers =>
        (x \in table[p] <=> x \in dictionary[m][p] /\ (p = old => HasTarget(x) /\ x # o))
  BY <1>0, <1>7, WithMember
<1>9. Null = Due(t, o)'
  BY <1>1, <1>3 DEF Due, ListedBy, SameCall
<1>10. ASSUME status[o] = "live", Top(t).table = Home(o)
       PROVE  \A p \in Pointers : o \in table[p] <=> p = Null
  <2>1. ListedAs(o, old)
    BY <1>1, <1>3, <1>4, <1>10 DEF ListInv, ListedBy
  <2>2. \A p \in Pointers : o \in dictionary[m][p] => p = old
    BY <1>5, <1>10, <2>1 DEF ListedAs
  <2>3. QED
    BY <1>8, <2>2, ObjectAssumption
<1>11. \A x \in Objects : x # o => ~Uses(t, x)'
  BY <1>1, <1>3 DEF SameCall, Uses
<1>12. Null \in Maybe /\ Top(t).at \in Looking /\ Others(t)
  BY <1>1 DEF Maybe, Looking, SameCall
<1>13. \A x \in Objects, p \in Pointers :
         x # o /\ status[x] = "live"
           => (x \in table[p] <=> x \in dictionary[Top(t).table][p])
  BY <1>5, <1>8 DEF HasTarget
<1>14. Writes(t, o, table, Null)
  BY <1>1, <1>3, <1>6, <1>9, <1>10, <1>11, <1>12, <1>13 DEF Writes
<1>15. QED
  BY <1>1, <1>14, ListWritten DEF SameCall, EndedCall

(* A new dictionary is empty; objects are at home in it that were listed   *)
(* nowhere, or that a dictionary had which is overwritten.                 *)
LEMMA NewTableList ==
  ASSUME CallInv, TableInv, ListInv, NEW t \in Threads, NewTable(t)
  PROVE  ListInv'
<1>1. /\ CallInv' /\ SameCall(t) /\ Top(t).at = "newTable" /\ Top(t)'.old = Top(t).old
      /\ Top(t)'.at = Lookup(Top(t).call)
  BY NewTableCall
<1>2. /\ UNCHANGED <<status, creator, pointer>> /\ At(t, "newTable")
      /\ global' = IF ThreadStatic THEN global ELSE t
      /\ DOMAIN dictionary' = DOMAIN dictionary \cup {t}
      /\ dictionary'[t] = Empty
      /\ \A m \in DOMAIN dictionary : m # t => dictionary'[m] = dictionary[m]
  BY DEF NewTable, objects
<1>3. t \notin DOMAIN dictionary
  BY <1>2 DEF TableInv
<1>4. \A o \in Objects : Due(t, o)' = Due(t, o)
  <2>1. stack[t] # <<>> /\ Top(t).call \in {"create", "set", "dispose", "find"}
    BY <1>2, AtTop DEF Frame
  <2>2. QED
    BY <1>1, <1>2, <2>1, SameDue DEF Lookup
<1>5. ASSUME NEW o \in Objects, NEW q \in Maybe, ListedAs(o, q)
      PROVE  ListedAs(o, q)'
  <2>1. PICK h : h = Home(o)'
    OBVIOUS
  <2>2. CASE h = t
    <3>1. \A p \in Pointers : o \notin dictionary'[h][p]
      BY <1>2, <2>2 DEF Empty
    <3>2. OneTable' => q = Null
      <4>1. CASE ThreadStatic
        <5>1. Home(o) = t /\ OneTable
          BY <1>2, <2>1, <2>2, <4>1 DEF Home, OneTable
        <5>2. QED
          BY <1>3, <1>5, <5>1 DEF ListedAs
      <4>2. CASE ~ThreadStatic
        <5>1. OneTable' => DOMAIN dictionary = {}
          BY <1>2, <1>3, <4>2 DEF OneTable
        <5>2. DOMAIN dictionary = {} => OneTable /\ Home(o) \notin DOMAIN dictionary
          BY DEF OneTable
        <5>3. QED
          BY <1>5, <5>1, <5>2 DEF ListedAs
      <4>3. QED
        BY <4>1, <4>2
    <3>3. QED
      BY <2>1, <3>1, <3>2 DEF ListedAs
  <2>3. CASE h # t
    <3>1. ThreadStatic /\ h = Home(o) /\ OneTable /\ OneTable'
      BY <1>2, <2>1, <2>3 DEF Home, OneTable
    <3>2. h \in DOMAIN dictionary' <=> h \in DOMAIN dictionary
      BY <1>2, <2>3
    <3>3. h \in DOMAIN dictionary => dictionary'[h] = dictionary[h]
      BY <1>2, <2>3
    <3>4. QED
      BY <1>5, <2>1, <3>1, <3>2, <3>3 DEF ListedAs
  <2>4. QED
    BY <2>2, <2>3
<1>6. QED
  BY <1>1, <1>2, <1>4, <1>5, ListStep DEF SameCall

LEMMA ContinueList ==
  ASSUME UnTrackedLeavesIt, FoundByItsThread, CallInv, TableInv, ListInv, OldTableInv,
         NEW t \in Threads, Continue(t)
  PROVE  ListInv'
<1>0. CallInv'
  BY ContinueCall
<1>1. ASSUME Others(t), UNCHANGED <<status, creator, pointer, tracker>>,
             \A o \in Objects : Due(t, o)' = Due(t, o)
      PROVE  ListInv'
  BY <1>0, <1>1, ListKept
<1>2. CASE GetTable(t)
  <2>1. UNCHANGED <<status, creator, pointer, tracker>>
    BY <1>2 DEF GetTable, objects
  <2>2. /\ SameCall(t) /\ Top(t).at = "table" /\ Top(t)'.old = Top(t).old
        /\ Top(t)'.at = "newTable" \/ Top(t)'.at = Lookup(Top(t).call)
    BY <1>2, GetTableCall
  <2>3. Top(t).call \in {"create", "set", "dispose", "find"}
    BY <1>2, AtTop DEF GetTable, Frame
  <2>4. \A o \in Objects : Due(t, o)' = Due(t, o)
    BY <2>1, <2>2, <2>3, SameDue DEF Lookup
  <2>5. QED
    BY <1>1, <2>1, <2>2, <2>4 DEF SameCall
<1>3. CASE EndCall(t)
  <2>1. /\ UNCHANGED <<status, creator, pointer, tracker>> /\ Return(t) /\ stack[t] # <<>>
        /\ Top(t).at # "untracked"
    BY <1>3 DEF EndCall, objects, At
  <2>2. EndedCall(t) /\ (Quiet(Top(t)) \/ Top(t).call = "find")
    BY <1>3, EndCallCall
  <2>3. \A o \in Objects : Due(t, o)' = Due(t, o)
    BY <2>1, <2>2, NotToUnTracked, QuietDue, QuietDueBefore
  <2>4. QED
    BY <1>1, <2>1, <2>2, <2>3 DEF EndedCall
<1>4. CASE DisposeInHandler(t)
  <2>1. UNCHANGED <<status, creator, pointer, tracker>>
    BY <1>4 DEF DisposeInHandler, CheckAndDispose, objects
  <2>2. /\ EndedCall(t) /\ Quiet(Top(t)) /\ Top(t).at # "untracked"
        /\ Top(t)'.at # "untracked"
    BY <1>4, HandlerCall DEF UnTrackedLeavesIt
  <2>3. \A o \in Objects : Due(t, o)' = Due(t, o)
    BY <2>1, <2>2, QuietDue, QuietDueBefore
  <2>4. QED
    BY <1>1, <2>1, <2>2, <2>3 DEF EndedCall
<1>5. CASE ReadPointer(t)
  <2>1. UNCHANGED <<status, creator, pointer, tracker>>
    BY <1>5 DEF ReadPointer, objects
  <2>2. /\ SameCall(t) /\ Top(t).call = "dispose" /\ Top(t).at = "disposing"
        /\ Top(t)'.at = "release"
    BY <1>5, ReadPointerCall
  <2>3. \A o \in Objects : Due(t, o)' = Due(t, o)
    BY <2>1, <2>2, SameDue
  <2>4. QED
    BY <1>1, <2>1, <2>2, <2>3 DEF SameCall
<1>6. CASE Release(t)
  <2>1. UNCHANGED <<status, creator, pointer, tracker>>
    BY <1>6 DEF Release
  <2>2. PICK o \in Objects : o = Top(t).object
    BY <1>6, ReleaseCall
  <2>3. /\ Others(t) /\ Top(t).call = "dispose" /\ Top(t).at = "release" /\ Uses(t, o)
        /\ \/ \A x \in Objects : ~Uses(t, x)'
           \/ /\ SameCall(t)
              /\ Top(t)'.at = IF Top(t).old = Null THEN "clear" ELSE "table"
    BY <1>6, <2>2, ReleaseCall
  <2>4. /\ \A x \in Objects : Due(t, x) = pointer[x]
        /\ Top(t).old = pointer[o]
    <3>1. Remembers(Top(t))
      BY <2>3, TopInv DEF Uses
    <3>2. QED
      BY <2>2, <2>3, <3>1 DEF Due, ListedBy, Uses, Remembers, AfterRead
  <2>5. CASE \A x \in Objects : ~Uses(t, x)'
    <3>1. \A x \in Objects : Due(t, x)' = Due(t, x)
      BY <2>1, <2>4, <2>5 DEF Due
    <3>2. QED
      BY <1>1, <2>1, <2>3, <3>1
  <2>6. CASE /\ SameCall(t)
             /\ Top(t)'.at = IF Top(t).old = Null THEN "clear" ELSE "table"
    <3>1. ListedBy(Top(t))' = pointer[o]
      BY <2>1, <2>2, <2>3, <2>4, <2>6 DEF ListedBy, SameCall
    <3>2. \A x \in Objects : Uses(t, x) => x = o
      BY <2>2 DEF Uses
    <3>3. \A x \in Objects : Due(t, x)' = Due(t, x)
      BY <2>1, <2>4, <2>6, <3>1, <3>2 DEF Due, SameCall
    <3>4. QED
      BY <1>1, <2>1, <2>3, <3>3
  <2>7. QED
    BY <2>3, <2>5, <2>6
<1>7. CASE HandlersOfUnTracked(t)
  <2>1. UNCHANGED <<status, creator, pointer, tracker>>
    BY <1>7 DEF HandlersOfUnTracked, objects
  <2>2. /\ SameCall(t) /\ Top(t).call = "dispose" /\ Top(t).at = "untracked"
        /\ Top(t)'.at = "clear"
    BY <1>7, UnTrackedCall
  <2>3. \A o \in Objects : Due(t, o)' = Due(t, o)
    BY <2>1, <2>2, SameDue
  <2>4. QED
    BY <1>1, <2>1, <2>2, <2>3 DEF SameCall
<1>8. CASE Clear(t)
  <2>1. UNCHANGED <<status, creator, tracker>>
    BY <1>8 DEF Clear
  <2>2. PICK o \in Objects : o = Top(t).object
    BY <1>8, ClearCall
  <2>3. /\ SameCall(t) /\ Top(t).call = "dispose" /\ Top(t).at = "clear"
        /\ Top(t)'.at = "disposed" /\ Uses(t, o)
        /\ pointer' = [pointer EXCEPT ![o] = Null]
    BY <1>8, <2>2, ClearCall
  <2>4. pointer'[o] = Null /\ \A x \in Objects : x # o => pointer'[x] = pointer[x]
    BY <2>3 DEF CallInv, CallType
  <2>5. ListedBy(Top(t))' = Null /\ ListedBy(Top(t)) = Null
    BY <2>2, <2>3, <2>4 DEF ListedBy, SameCall
  <2>6. \A x \in Objects : Uses(t, x) <=> x = o
    BY <2>2, <2>3 DEF Uses
  <2>7. \A x \in Objects : Due(t, x)' = Due(t, x)
    BY <2>3, <2>4, <2>5, <2>6 DEF Due, SameCall
  <2>8. \A x \in Objects : \/ pointer'[x] = pointer[x]
                           \/ \A u \in Threads : u # t => ~Uses(u, x)
    BY <2>3, <2>4 DEF CallInv, UseInv
  <2>9. QED
    BY <1>0, <2>1, <2>3, <2>7, <2>8, ListKept DEF SameCall
<1>9. QED
  BY <1>2, <1>3, <1>4, <1>5, <1>6, <1>7, <1>8, TrackList, MigrateList, UntrackList, NewTableList
     DEF Continue

LEMMA BeginList ==
  ASSUME CallInv, ListInv, UnlistedInv, NEW t \in Threads, Begin(t)
  PROVE  ListInv'
<1>1. ASSUME NEW o \in Objects, NEW p \in Maybe, Create(t, o, p)
      PROVE  ListInv'
  <2>1. /\ t \in Users /\ stack[t] = <<>> /\ status[o] = "none" /\ UNCHANGED tracker
        /\ status' = [status EXCEPT ![o] = "live"]
        /\ creator' = [creator EXCEPT ![o] = t]
        /\ pointer' = [pointer EXCEPT ![o] = p]
        /\ (p = Null /\ stack' = stack) \/ (p # Null /\ Push(t, CreateFrame(o, p)))
    BY <1>1 DEF Create, CreateFrame
  <2>2. /\ CallInv' /\ Others(t)
        /\ \A x \in Objects : Uses(t, x)' => /\ x = o /\ p # Null
                                             /\ Top(t)'.call = "create"
                                             /\ Top(t)'.at = "table"
    BY <1>1, CreateCall
  <2>3. /\ pointer'[o] = p /\ status'[o] = "live"
        /\ \A x \in Objects : x # o => /\ status'[x] = status[x]
                                       /\ creator'[x] = creator[x]
                                       /\ pointer'[x] = pointer[x]
    BY <2>1 DEF CallInv, CallType
  <2>4. \A u \in Threads : ~Uses(u, o)
    BY <2>1 DEF CallInv, UseInv
  <2>5. p # Null => Uses(t, o)'
    <3>1. ASSUME p # Null
          PROVE  Uses(t, o)'
      <4>1. PICK f : f = CreateFrame(o, p)
        OBVIOUS
      <4>2. f \in Frame /\ f.call = "create" /\ f.object = o /\ FrameInv(f) /\ Push(t, f)
        BY <2>1, <3>1, <4>1, CreateFrameType
      <4>3. QED
        BY <2>1, <4>2, CallBegins
    <3>2. QED
      BY <3>1
  <2>6. Due(t, o)' = Null
    BY <2>2, <2>3, <2>5 DEF Due, ListedBy
  <2>7. ListedAs(o, Null)'
    BY <2>1 DEF ListedAs, UnlistedInv, tracker
  <2>8. ASSUME NEW x \in Objects, x # o
        PROVE  Due(t, x)' = Due(t, x) /\ \A q \in Maybe : ListedAs(x, q) => ListedAs(x, q)'
    <3>1. Due(t, x)' = Due(t, x)
      BY <2>1, <2>2, <2>3, <2>8, EmptyUses DEF Due
    <3>2. \A q \in Maybe : ListedAs(x, q) => ListedAs(x, q)'
      BY <2>1, <2>3, <2>8 DEF ListedAs, Home, OneTable, tracker
    <3>3. QED
      BY <3>1, <3>2
  <2>9. QED
    BY <2>2, <2>3, <2>4, <2>6, <2>7, <2>8, ListStep
<1>2. ASSUME NEW o \in Objects, NEW p \in Maybe, SetNativePointer(t, o, p)
      PROVE  ListInv'
  <2>1. /\ stack[t] = <<>> /\ Unused(o) /\ UNCHANGED <<status, creator, tracker>>
        /\ pointer' = [pointer EXCEPT ![o] = p]
    BY <1>2 DEF SetNativePointer, MayUse
  <2>2. /\ CallInv' /\ Others(t) /\ Uses(t, o)'
        /\ Top(t)'.call = "set" /\ Top(t)'.at = "table" /\ Top(t)'.old = pointer[o]
        /\ \A x \in Objects : Uses(t, x)' => x = o
    BY <1>2, SetCall
  <2>3. \A u \in Threads : ~Uses(u, o)
    BY <2>1, UnusedUses DEF CallInv, CallType, StackType
  <2>4. \A x \in Objects : x # o => pointer'[x] = pointer[x]
    BY <2>1 DEF CallInv, CallType
  <2>5. \A x \in Objects : Due(t, x)' = Due(t, x)
    BY <2>1, <2>2, <2>4, EmptyUses DEF Due, ListedBy
  <2>6. QED
    BY <2>1, <2>2, <2>3, <2>4, <2>5, ListKept
<1>3. ASSUME NEW o \in Objects, Dispose(t, o)
      PROVE  ListInv'
  <2>1. stack[t] = <<>> /\ UNCHANGED <<status, creator, pointer, tracker>>
    BY <1>3 DEF Dispose, MayUse, CheckAndDispose, objects
  <2>2. /\ CallInv' /\ Others(t) /\ Uses(t, o)'
        /\ Top(t)'.call = "dispose" /\ Top(t)'.at = "disposing"
        /\ \A x \in Objects : Uses(t, x)' => x = o
    BY <1>3, DisposeByUser
  <2>3. Top(t)'.object = o
    BY <2>2 DEF Uses
  <2>4. \A x \in Objects : Due(t, x)' = Due(t, x)
    BY <2>1, <2>2, <2>3, EmptyUses DEF Due, ListedBy
  <2>5. QED
    BY <2>1, <2>2, <2>4, ListKept
<1>4. CASE FindActiveObjects(t)
  <2>1. stack[t] = <<>> /\ UNCHANGED <<status, creator, pointer, tracker>>
    BY <1>4 DEF FindActiveObjects, objects
  <2>2. CallInv' /\ Others(t) /\ \A x \in Objects : ~Uses(t, x)'
    BY <1>4, FindCall
  <2>3. \A x \in Objects : Due(t, x)' = Due(t, x)
    BY <2>1, <2>2, EmptyUses DEF Due
  <2>4. QED
    BY <2>1, <2>2, <2>3, ListKept
<1>5. QED
  BY <1>1, <1>2, <1>3, <1>4 DEF Begin

LEMMA NextList ==
  UnTrackedLeavesIt /\ FoundByItsThread
    => (CallInv /\ TrackInv /\ [Next]_vars => ListInv')
<1> SUFFICES ASSUME UnTrackedLeavesIt, FoundByItsThread, CallInv, TrackInv, [Next]_vars
             PROVE  ListInv'
  OBVIOUS
<1>1. TableInv /\ ListInv /\ OldTableInv /\ UnlistedInv
  BY DEF TrackInv
<1>2. CallInv'
  BY NextCall
<1>3. ASSUME NEW o \in Objects, Drop(o)
      PROVE  ListInv'
  <2>1. /\ UNCHANGED <<creator, pointer, stack, tracker>>
        /\ \A x \in Objects : status'[x] = "live" => status[x] = "live"
    BY <1>3 DEF Drop, CallInv, CallType
  <2>2. Others(Finalizer) /\ \A x \in Objects : Due(Finalizer, x)' = Due(Finalizer, x)
    BY <2>1 DEF Others, Due, Uses, ListedBy, Top
  <2>3. QED
    BY <1>1, <1>2, <2>1, <2>2, ListKept, ThreadAssumption
<1>4. ASSUME NEW o \in Objects, Finalize(o)
      PROVE  ListInv'
  <2>1. UNCHANGED <<creator, pointer, tracker>> /\ stack[Finalizer] = <<>>
    BY <1>4 DEF Finalize
  <2>2. /\ Others(Finalizer)
        /\ \A x \in Objects : Uses(Finalizer, x)' => x = o
        /\ \A x \in Objects : x # o => status'[x] = status[x]
        /\ status'[o] # "live"
    BY <1>4, FinalizeCall
  <2>3. \A x \in Objects : status'[x] = "live"
          => status[x] = "live" /\ Due(Finalizer, x)' = Due(Finalizer, x)
    BY <2>1, <2>2, EmptyUses DEF Due
  <2>4. QED
    BY <1>1, <1>2, <2>1, <2>2, <2>3, ListKept, ThreadAssumption
<1>5. CASE UNCHANGED vars
  <2>1. UNCHANGED <<status, creator, pointer, stack, tracker>>
    BY <1>5 DEF vars, objects
  <2>2. Others(Finalizer) /\ \A x \in Objects : Due(Finalizer, x)' = Due(Finalizer, x)
    BY <2>1 DEF Others, Due, Uses, ListedBy, Top
  <2>3. QED
    BY <1>1, <1>2, <2>1, <2>2, ListKept, ThreadAssumption
<1>6. QED
  BY <1>1, <1>3, <1>4, <1>5, ContinueList, BeginList DEF Next

-----------------------------------------------------------------------------
(* Dictionaries that were overwritten, and objects that are not made yet.  *)

LEMMA OldTableStep ==
  ASSUME FoundByItsThread, CallInv, CallInv', TableInv, TableInv', OldTableInv,
         NEW t \in Threads, Others(t),
         ~ThreadStatic /\ stack'[t] # <<>> /\ Top(t)'.at \in Looking
           => Top(t)'.table = global',
         \/ /\ global' = global
            /\ \A o \in Objects, m \in DOMAIN dictionary, p \in Pointers :
                 ~Uses(t, o) /\ o \in dictionary'[m][p] => o \in dictionary[m][p]
         \/ dictionary'[global'] = Empty
         \/ ThreadStatic
  PROVE  OldTableInv'
<1> SUFFICES ASSUME NEW u \in Threads, NEW o \in Objects, Uses(u, o)', status'[o] = "live",
                    Top(u)'.at \in Looking, Top(u)'.table # Home(o)',
                    NEW p \in Pointers
             PROVE  o \notin dictionary'[Home(o)'][p]
  BY DEF OldTableInv
<1>1. u \in Users
  BY DEF CallInv, UseInv, Users
<1>2. ~ThreadStatic
  BY <1>1 DEF CallInv, UseInv, FoundByItsThread, TableInv, Uses, Home
<1>3. Home(o)' = global' /\ Home(o) = global
  BY <1>2 DEF Home
<1>4. u # t
  BY <1>2, <1>3 DEF Uses
<1>5. Uses(u, o) /\ Top(u)' = Top(u) /\ ~Uses(t, o)
  BY <1>4, OtherUses DEF CallInv, UseInv
<1>6. status[o] = "live"
  BY <1>1, <1>5 DEF CallInv, UseInv, Users
<1>7. CASE dictionary'[global'] = Empty
  BY <1>3, <1>7 DEF Empty
<1>8. CASE /\ global' = global
           /\ \A x \in Objects, m \in DOMAIN dictionary, q \in Pointers :
                ~Uses(t, x) /\ x \in dictionary'[m][q] => x \in dictionary[m][q]
  <2>1. global \in DOMAIN dictionary /\ Top(u).table # Home(o) /\ Top(u).at \in Looking
    BY <1>3, <1>5, <1>6, <1>8, HomeTable
  <2>2. o \notin dictionary[global][p]
    BY <1>3, <1>5, <1>6, <2>1 DEF OldTableInv
  <2>3. QED
    BY <1>3, <1>5, <1>8, <2>1, <2>2
<1>9. QED
  BY <1>2, <1>7, <1>8

LEMMA UnlistedStep ==
  ASSUME CallInv, UnlistedInv, NEW t \in Threads,
         \A o \in Objects : status'[o] = "none" => status[o] = "none",
         \A o \in Objects, m \in DOMAIN dictionary', p \in Pointers :
           ~Uses(t, o) /\ o \in dictionary'[m][p]
             => m \in DOMAIN dictionary /\ o \in dictionary[m][p]
  PROVE  UnlistedInv'
<1>1. \A o \in Objects : status[o] = "none" => ~Uses(t, o)
  BY DEF CallInv, UseInv
<1>2. QED
  BY <1>1 DEF UnlistedInv

RestInv == OldTableInv /\ UnlistedInv

LEMMA RestKept ==
  ASSUME FoundByItsThread, CallInv, CallInv', TableInv, TableInv', RestInv,
         NEW t \in Threads, Others(t), UNCHANGED tracker,
         \A o \in Objects : status'[o] = "none" => status[o] = "none",
         ~ThreadStatic /\ stack'[t] # <<>> /\ Top(t)'.at \in Looking
           => Top(t)'.table = global
  PROVE  RestInv'
<1>1. dictionary' = dictionary /\ global' = global
  BY DEF tracker
<1>2. OldTableInv'
  BY <1>1, OldTableStep DEF RestInv
<1>3. UnlistedInv'
  BY <1>1, UnlistedStep DEF RestInv
<1>4. QED
  BY <1>2, <1>3 DEF RestInv

(* A write to one dictionary lists nothing but the object of the call.     *)
LEMMA RestWritten ==
  ASSUME FoundByItsThread, CallInv, CallInv', TableInv, TableInv', RestInv,
         NEW t \in Threads, Others(t), UNCHANGED <<status, global>>,
         NEW m \in DOMAIN dictionary, NEW table,
         dictionary' = [dictionary EXCEPT ![m] = table],
         \A o \in Objects, p \in Pointers :
           ~Uses(t, o) /\ o \in table[p] => o \in dictionary[m][p],
         stack'[t] # <<>> => Top(t)'.at \notin Looking
  PROVE  RestInv'
<1>1. /\ DOMAIN dictionary' = DOMAIN dictionary
      /\ \A o \in Objects, n \in DOMAIN dictionary, p \in Pointers :
           ~Uses(t, o) /\ o \in dictionary'[n][p] => o \in dictionary[n][p]
  BY InDictionary
<1>2. OldTableInv'
  BY <1>1, OldTableStep DEF RestInv
<1>3. UnlistedInv'
  BY <1>1, UnlistedStep DEF RestInv
<1>4. QED
  BY <1>2, <1>3 DEF RestInv

(* What a step writes: the dictionary of its call, in which it lists no    *)
(* other object.                                                           *)
LEMMA Written ==
  ASSUME UnTrackedLeavesIt, CallInv, TableInv, NEW t \in Threads,
         Track(t) \/ MigrateNativePointer(t) \/ Untrack(t)
  PROVE  /\ Top(t).at \in Looking /\ Others(t)
         /\ stack'[t] # <<>> => Top(t)'.at \notin Looking
         /\ UNCHANGED <<status, creator, global>>
         /\ \E o \in Objects, m \in DOMAIN dictionary,
              table \in [Pointers -> SUBSET Objects] :
              /\ Uses(t, o) /\ m = Top(t).table
              /\ dictionary' = [dictionary EXCEPT ![m] = table]
              /\ \A x \in Objects, q \in Pointers :
                   x # o /\ x \in table[q] => x \in dictionary[m][q]
<1>1. /\ Top(t).at \in Looking /\ Top(t).call # "find" /\ stack[t] # <<>> /\ Others(t)
      /\ stack'[t] # <<>> => Top(t)'.at \notin Looking
  <2>1. CASE Track(t)
    BY <2>1, TrackCall DEF Track, At, SameCall, Looking
  <2>2. CASE MigrateNativePointer(t)
    <3>1. stack[t] # <<>> /\ Return(t) /\ Top(t).at = "migrate" /\ Top(t).call = "set"
      BY <2>2, MigrateCall DEF MigrateNativePointer, At
    <3>2. Others(t) /\ (stack'[t] # <<>> => Top(t)'.at \in Handlers)
      BY <3>1, ReturnInv DEF CallInv, CallType, StackType
    <3>3. QED
      BY <3>1, <3>2, HandlerAssumption DEF Looking
  <2>3. CASE Untrack(t)
    BY <2>3, UntrackCall DEF Untrack, At, SameCall, Looking
  <2>4. QED
    BY <2>1, <2>2, <2>3
<1>2. PICK o \in Objects : o = Top(t).object /\ Uses(t, o)
  BY <1>1, TopInv
<1>3. PICK m \in DOMAIN dictionary : m = Top(t).table
  BY <1>1 DEF TableInv
<1>4. PICK p \in Maybe, old \in Maybe : p = Top(t).new /\ old = Top(t).old
  BY <1>1, TopInv DEF Frame
<1>5. dictionary[m] \in [Pointers -> SUBSET Objects]
  BY DEF CallInv, CallType
<1>6. UNCHANGED <<status, creator, global>>
  BY DEF Track, MigrateNativePointer, Untrack, objects
<1>7. PICK table \in [Pointers -> SUBSET Objects] :
        /\ dictionary' = [dictionary EXCEPT ![m] = table]
        /\ \A x \in Objects, q \in Pointers :
             x # o /\ x \in table[q] => x \in dictionary[m][q]
  <2>1. CASE Track(t)
    <3>1. dictionary' = [dictionary EXCEPT ![m] = With(dictionary[m], o, p)]
      BY <1>2, <1>3, <1>4, <2>1 DEF Track
    <3>2. \A x \in Objects, q \in Pointers :
            x # o /\ x \in With(dictionary[m], o, p)[q] => x \in dictionary[m][q]
      BY <1>5, WithMember
    <3>3. QED
      BY <1>5, <3>1, <3>2, WithType
  <2>2. CASE MigrateNativePointer(t)
    <3>1. PICK left : left = IF old = Null THEN dictionary[m] ELSE Without(dictionary[m], o, old)
      OBVIOUS
    <3>2. PICK table : table = IF p = Null THEN left ELSE With(left, o, p)
      OBVIOUS
    <3>3. dictionary' = [dictionary EXCEPT ![m] = table]
      BY <1>2, <1>3, <1>4, <2>2, <3>1, <3>2 DEF MigrateNativePointer
    <3>4. /\ left \in [Pointers -> SUBSET Objects]
          /\ \A x \in Objects, q \in Pointers : x \in left[q] => x \in dictionary[m][q]
      BY <1>5, <3>1, WithMember, WithType
    <3>5. \A x \in Objects, q \in Pointers : x # o /\ x \in table[q] => x \in dictionary[m][q]
      BY <3>2, <3>4, WithMember
    <3>6. table \in [Pointers -> SUBSET Objects]
      BY <3>2, <3>4, WithType
    <3>7. QED
      BY <3>3, <3>5, <3>6
  <2>3. CASE Untrack(t)
    <3>1. dictionary' = [dictionary EXCEPT ![m] = Without(dictionary[m], o, old)]
      BY <1>2, <1>3, <1>4, <2>3 DEF Untrack
    <3>2. \A x \in Objects, q \in Pointers :
            x # o /\ x \in Without(dictionary[m], o, old)[q] => x \in dictionary[m][q]
      BY <1>5, WithMember
    <3>3. QED
      BY <1>5, <3>1, <3>2, WithType
  <2>4. QED
    BY <2>1, <2>2, <2>3
<1>8. QED
  BY <1>1, <1>2, <1>3, <1>6, <1>7

LEMMA WritesRest ==
  ASSUME UnTrackedLeavesIt, FoundByItsThread, CallInv, CallInv', TableInv, TableInv', RestInv,
         NEW t \in Threads, Track(t) \/ MigrateNativePointer(t) \/ Untrack(t)
  PROVE  RestInv'
<1>1. PICK o \in Objects, m \in DOMAIN dictionary, table \in [Pointers -> SUBSET Objects] :
        /\ Uses(t, o)
        /\ dictionary' = [dictionary EXCEPT ![m] = table]
        /\ \A x \in Objects, q \in Pointers :
             x # o /\ x \in table[q] => x \in dictionary[m][q]
  BY Written
<1>2. \A x \in Objects : ~Uses(t, x) => x # o
  BY <1>1
<1>3. /\ UNCHANGED <<status, global>> /\ Others(t)
      /\ stack'[t] # <<>> => Top(t)'.at \notin Looking
  BY Written
<1>4. QED
  BY <1>1, <1>2, <1>3, RestWritten

LEMMA NewTableRest ==
  ASSUME FoundByItsThread, CallInv, CallInv', TableInv, TableInv', RestInv,
         NEW t \in Threads, NewTable(t)
  PROVE  RestInv'
<1>1. Others(t) /\ Top(t)'.table = t
  BY NewTableCall DEF SameCall
<1>2. /\ status' = status
      /\ global' = IF ThreadStatic THEN global ELSE t
      /\ DOMAIN dictionary' = DOMAIN dictionary \cup {t}
      /\ dictionary'[t] = Empty
      /\ \A m \in DOMAIN dictionary : m # t => dictionary'[m] = dictionary[m]
  BY DEF NewTable, objects
<1>3. OldTableInv'
  BY <1>1, <1>2, OldTableStep DEF RestInv
<1>4. ASSUME NEW o \in Objects, NEW m \in DOMAIN dictionary', NEW p \in Pointers,
             o \in dictionary'[m][p]
      PROVE  m \in DOMAIN dictionary /\ o \in dictionary[m][p]
  BY <1>2, <1>4 DEF Empty
<1>5. UnlistedInv'
  BY <1>2, <1>4, UnlistedStep DEF RestInv
<1>6. QED
  BY <1>3, <1>5 DEF RestInv

LEMMA ContinueRest ==
  ASSUME UnTrackedLeavesIt, FoundByItsThread, CallInv, CallInv', TableInv, TableInv', RestInv,
         NEW t \in Threads, Continue(t)
  PROVE  RestInv'
<1>1. ASSUME Others(t), UNCHANGED <<status, tracker>>,
             stack'[t] # <<>> => Top(t)'.at \notin Looking \/ Top(t)'.table = global
      PROVE  RestInv'
  BY <1>1, RestKept
<1>2. CASE GetTable(t)
  <2>1. UNCHANGED <<status, tracker>>
    BY <1>2 DEF GetTable, objects
  <2>2. /\ Others(t)
        /\ ~ThreadStatic => Top(t)'.at = "newTable" \/ Top(t)'.table = global
    BY <1>2, GetTableCall DEF SameCall
  <2>3. QED
    BY <2>1, <2>2, RestKept DEF Looking
<1>3. CASE EndCall(t)
  <2>1. UNCHANGED <<status, tracker>> /\ Return(t) /\ stack[t] # <<>>
    BY <1>3 DEF EndCall, objects, At
  <2>2. Others(t) /\ (stack'[t] # <<>> => Top(t)'.at \in Handlers)
    BY <2>1, ReturnInv DEF CallInv, CallType, StackType
  <2>3. QED
    BY <1>1, <2>1, <2>2, HandlerAssumption DEF Looking
<1>4. CASE DisposeInHandler(t)
  <2>1. UNCHANGED <<status, tracker>>
    BY <1>4 DEF DisposeInHandler, CheckAndDispose, objects
  <2>2. QED
    BY <1>1, <1>4, <2>1, HandlerCall DEF EndedCall, Looking
<1>5. CASE ReadPointer(t)
  <2>1. UNCHANGED <<status, tracker>>
    BY <1>5 DEF ReadPointer, objects
  <2>2. QED
    BY <1>1, <1>5, <2>1, ReadPointerCall DEF SameCall, Looking
<1>6. CASE Release(t)
  <2>1. UNCHANGED <<status, tracker>>
    BY <1>6 DEF Release
  <2>2. Others(t) /\ (stack'[t] # <<>> => Top(t)'.at \in {"clear", "table"})
    <3>1. CASE stack' = [stack EXCEPT ![t] = <<>>]
      BY <1>6, <3>1, ReleaseCall DEF CallInv, CallType
    <3>2. CASE stack' # [stack EXCEPT ![t] = <<>>]
      BY <1>6, <3>2, ReleaseCall DEF Release
    <3>3. QED
      BY <3>1, <3>2
  <2>3. QED
    BY <1>1, <2>1, <2>2 DEF Looking
<1>7. CASE HandlersOfUnTracked(t)
  <2>1. UNCHANGED <<status, tracker>>
    BY <1>7 DEF HandlersOfUnTracked, objects
  <2>2. QED
    BY <1>1, <1>7, <2>1, UnTrackedCall DEF SameCall, Looking
<1>8. CASE Clear(t)
  <2>1. UNCHANGED <<status, tracker>>
    BY <1>8 DEF Clear
  <2>2. QED
    BY <1>1, <1>8, <2>1, ClearCall DEF SameCall, Looking
<1>9. QED
  BY <1>2, <1>3, <1>4, <1>5, <1>6, <1>7, <1>8, WritesRest, NewTableRest DEF Continue

LEMMA PushRest ==
  ASSUME FoundByItsThread, CallInv, CallInv', TableInv, TableInv', RestInv,
         NEW t \in Threads, NEW f \in Frame, Push(t, f),
         f.at \in {"table", "disposing"}, UNCHANGED tracker,
         \A o \in Objects : status'[o] = "none" => status[o] = "none"
  PROVE  RestInv'
<1>1. Others(t) /\ Top(t)' = f
  BY PushStack DEF CallInv, CallType, StackType
<1>2. QED
  BY <1>1, RestKept DEF Looking

LEMMA NextRest ==
  UnTrackedLeavesIt /\ FoundByItsThread
    => (CallInv /\ TableInv /\ RestInv /\ [Next]_vars => RestInv')
<1> SUFFICES ASSUME UnTrackedLeavesIt, FoundByItsThread, CallInv, TableInv, RestInv, [Next]_vars
             PROVE  RestInv'
  OBVIOUS
<1>0. CallInv' /\ TableInv'
  BY NextCall, NextTable
<1>1. ASSUME UNCHANGED <<stack, tracker>>,
             \A o \in Objects : status'[o] = "none" => status[o] = "none"
      PROVE  RestInv'
  <2>1. Others(Finalizer) /\ Top(Finalizer)' = Top(Finalizer) /\ dictionary' = dictionary
    BY <1>1 DEF Others, Top, tracker
  <2>2. ASSUME NEW u \in Threads, NEW o \in Objects, Uses(u, o)', status'[o] = "live"
        PROVE  Uses(u, o) /\ status[o] = "live"
    <3>1. Uses(u, o)
      BY <1>1, <2>2 DEF Uses, Top
    <3>2. QED
      BY <1>0, <2>2, <3>1, ThreadAssumption DEF CallInv, UseInv
  <2>3. \A u \in Threads, o \in Objects : Uses(u, o) => status[o] # "none"
    BY DEF CallInv, UseInv
  <2>4. ASSUME NEW u \in Threads, NEW o \in Objects, Uses(u, o)', status'[o] = "live",
               Top(u)'.at \in Looking, Top(u)'.table # Home(o)', NEW p \in Pointers
        PROVE  o \notin dictionary'[Home(o)'][p]
    <3>1. u \in Users /\ Uses(u, o) /\ status[o] = "live" /\ Top(u)' = Top(u)
      BY <1>0, <1>1, <2>2, <2>4 DEF CallInv, UseInv, Users, Top
    <3>2. ~ThreadStatic
      BY <1>0, <2>4, <3>1 DEF CallInv, UseInv, FoundByItsThread, TableInv, Uses, Home
    <3>3. Home(o)' = Home(o)
      BY <1>1, <3>2 DEF Home, tracker
    <3>4. QED
      BY <2>1, <2>4, <3>1, <3>3 DEF RestInv, OldTableInv
  <2>5. OldTableInv'
    BY <2>4 DEF OldTableInv
  <2>6. UnlistedInv'
    BY <1>1, <2>1 DEF RestInv, UnlistedInv
  <2>7. QED
    BY <2>5, <2>6 DEF RestInv
<1>2. ASSUME NEW t \in Threads, NEW o \in Objects, NEW p \in Maybe, Create(t, o, p)
      PROVE  RestInv'
  <2>1. /\ UNCHANGED tracker
        /\ stack' = stack \/ Push(t, CreateFrame(o, p))
        /\ \A x \in Objects : status'[x] = "none" => status[x] = "none"
    BY <1>2 DEF Create, CreateFrame, CallInv, CallType
  <2>2. QED
    BY <1>0, <1>1, <2>1, CreateFrameType, PushRest
<1>3. ASSUME NEW t \in Threads, NEW o \in Objects, NEW p \in Maybe, SetNativePointer(t, o, p)
      PROVE  RestInv'
  <2>1. /\ UNCHANGED <<status, tracker>> /\ Push(t, SetFrame(o, pointer[o], p))
        /\ pointer[o] \in Maybe
    BY <1>3 DEF SetNativePointer, SetFrame, CallInv, CallType
  <2>2. QED
    BY <1>0, <2>1, SetFrameType, PushRest
<1>4. ASSUME NEW t \in Threads, NEW o \in Objects, Dispose(t, o)
      PROVE  RestInv'
  <2>1. UNCHANGED <<status, tracker>> /\ Push(t, DisposeFrame(o, TRUE))
    BY <1>4 DEF Dispose, CheckAndDispose, Push, objects
  <2>2. QED
    BY <1>0, <2>1, DisposeFrameType, PushRest
<1>5. ASSUME NEW t \in Threads, FindActiveObjects(t)
      PROVE  RestInv'
  <2>1. UNCHANGED <<status, tracker>> /\ Push(t, FindFrame)
    BY <1>5 DEF FindActiveObjects, FindFrame, objects
  <2>2. QED
    BY <1>0, <2>1, FindFrameType, PushRest
<1>6. ASSUME NEW o \in Objects, Finalize(o)
      PROVE  RestInv'
  <2>1. /\ UNCHANGED tracker
        /\ stack' = stack \/ Push(Finalizer, DisposeFrame(o, FALSE))
        /\ \A x \in Objects : status'[x] = "none" => status[x] = "none"
    BY <1>6 DEF Finalize, DisposeFrame, CallInv, CallType
  <2>2. QED
    BY <1>0, <1>1, <2>1, DisposeFrameType, PushRest, ThreadAssumption
<1>7. ASSUME NEW o \in Objects, Drop(o)
      PROVE  RestInv'
  <2>1. /\ UNCHANGED <<tracker, stack>>
        /\ \A x \in Objects : status'[x] = "none" => status[x] = "none"
    BY <1>7 DEF Drop, CallInv, CallType
  <2>2. QED
    BY <1>1, <2>1
<1>8. CASE UNCHANGED vars
  BY <1>1, <1>8 DEF vars, objects
<1>9. QED
  BY <1>0, <1>2, <1>3, <1>4, <1>5, <1>6, <1>7, <1>8, ContinueRest DEF Next, Begin

(* Every live object was live before, in the same hands, or is made.       *)
LEMMA LiveBefore ==
  ASSUME CallInv, [Next]_vars, NEW o \in Objects, status'[o] = "live"
  PROVE  \/ status[o] = "live" /\ creator'[o] = creator[o]
         \/ status[o] = "none"
<1>1. ASSUME NEW t \in Threads, NEW x \in Objects, NEW p \in Maybe, Create(t, x, p)
      PROVE  status[o] = "none" \/ (status[o] = "live" /\ creator'[o] = creator[o])
  BY <1>1 DEF Create, CallInv, CallType
<1>2. ASSUME NEW x \in Objects, Drop(x) \/ Finalize(x)
      PROVE  status[o] = "live" /\ creator'[o] = creator[o]
  BY <1>2 DEF Drop, Finalize, CallInv, CallType
<1>3. ASSUME NEW t \in Threads, Continue(t)
      PROVE  UNCHANGED <<status, creator>>
  BY <1>3 DEF Continue, GetTable, NewTable, Track, MigrateNativePointer, Untrack, EndCall,
              DisposeInHandler, CheckAndDispose, ReadPointer, Release, HandlersOfUnTracked,
              Clear, objects
<1>4. ASSUME NEW t \in Threads, NEW x \in Objects, NEW p \in Maybe,
             SetNativePointer(t, x, p) \/ Dispose(t, x) \/ FindActiveObjects(t)
      PROVE  UNCHANGED <<status, creator>>
  BY <1>4 DEF SetNativePointer, Dispose, CheckAndDispose, FindActiveObjects, objects
<1>5. Null \in Maybe
  BY DEF Maybe
<1>6. CASE UNCHANGED vars
  BY <1>6 DEF vars, objects
<1>7. QED
  BY <1>1, <1>2, <1>3, <1>4, <1>5, <1>6 DEF Next, Begin

LEMMA NextPlace ==
  UnTrackedLeavesIt /\ FoundByItsThread
    => (CallInv /\ TableInv /\ UnlistedInv /\ PlaceInv /\ [Next]_vars => PlaceInv')
<1> SUFFICES ASSUME UnTrackedLeavesIt, FoundByItsThread, CallInv, TableInv, UnlistedInv,
                    PlaceInv, [Next]_vars, ThreadStatic,
                    NEW o \in Objects, status'[o] = "live",
                    NEW n \in DOMAIN dictionary', NEW p \in Pointers, o \in dictionary'[n][p]
             PROVE  n = creator'[o]
  BY DEF PlaceInv
<1>1. \/ status[o] = "live" /\ creator'[o] = creator[o]
      \/ status[o] = "none"
  BY LiveBefore
<1>2. ASSUME n \in DOMAIN dictionary, o \in dictionary[n][p]
      PROVE  n = creator'[o]
  BY <1>1, <1>2 DEF PlaceInv, UnlistedInv
<1>3. ASSUME NEW t \in Threads, Track(t) \/ MigrateNativePointer(t) \/ Untrack(t)
      PROVE  n = creator'[o]
  <2>1. Top(t).at \in Looking /\ UNCHANGED <<status, creator, global>>
    BY <1>3, Written
  <2>2. PICK x \in Objects, m \in DOMAIN dictionary,
            table \in [Pointers -> SUBSET Objects] :
          /\ Uses(t, x) /\ m = Top(t).table
          /\ dictionary' = [dictionary EXCEPT ![m] = table]
          /\ \A y \in Objects, q \in Pointers :
               y # x /\ y \in table[q] => y \in dictionary[m][q]
    BY <1>3, Written
  <2>3. n \in DOMAIN dictionary /\ (n # m => dictionary'[n] = dictionary[n])
                               /\ (n = m => dictionary'[n] = table)
    BY <2>2, InDictionary
  <2>4. CASE n = m /\ o = x
    <3>1. m = Home(o) /\ status[o] = "live"
      BY <2>1, <2>2, <2>4, HomeTable
    <3>2. QED
      BY <2>1, <2>4, <3>1 DEF Home
  <2>5. CASE n # m \/ o # x
    BY <1>2, <2>2, <2>3, <2>5
  <2>6. QED
    BY <2>4, <2>5
<1>4. ASSUME NEW t \in Threads, NewTable(t)
      PROVE  n = creator'[o]
  <2>1. /\ n # t => n \in DOMAIN dictionary /\ dictionary'[n] = dictionary[n]
        /\ dictionary'[t] = Empty
    BY <1>4 DEF NewTable
  <2>2. n # t
    BY <2>1 DEF Empty
  <2>3. QED
    BY <1>2, <2>1, <2>2
<1>5. CASE dictionary' = dictionary
  BY <1>2, <1>5
<1>6. ASSUME NEW t \in Threads,
             \/ GetTable(t) \/ EndCall(t) \/ DisposeInHandler(t) \/ ReadPointer(t)
             \/ Release(t) \/ HandlersOfUnTracked(t) \/ Clear(t) \/ FindActiveObjects(t)
      PROVE  dictionary' = dictionary
  BY <1>6 DEF GetTable, EndCall, DisposeInHandler, CheckAndDispose, ReadPointer, Release,
              HandlersOfUnTracked, Clear, FindActiveObjects, tracker
<1>7. ASSUME NEW t \in Threads, NEW x \in Objects, NEW q \in Maybe,
             \/ Create(t, x, q) \/ SetNativePointer(t, x, q) \/ Dispose(t, x)
      PROVE  dictionary' = dictionary
  BY <1>7 DEF Create, SetNativePointer, Dispose, CheckAndDispose, tracker
<1>8. ASSUME NEW x \in Objects, Drop(x) \/ Finalize(x)
      PROVE  dictionary' = dictionary
  BY <1>8 DEF Drop, Finalize, tracker
<1>9. CASE UNCHANGED vars
  BY <1>5, <1>9 DEF vars, tracker
<1>10. Null \in Maybe
  BY DEF Maybe
<1>11. QED
  BY <1>3, <1>4, <1>5, <1>6, <1>7, <1>8, <1>9, <1>10 DEF Next, Begin, Continue

LEMMA TrackInvariant ==
  UnTrackedLeavesIt /\ FoundByItsThread => (Spec => [](CallInv /\ TrackInv))
<1> SUFFICES ASSUME UnTrackedLeavesIt, FoundByItsThread
             PROVE  Spec => [](CallInv /\ TrackInv)
  OBVIOUS
<1>1. Init => TrackInv
  <2> SUFFICES ASSUME Init
               PROVE  TrackInv
    OBVIOUS
  <2>1. /\ DOMAIN dictionary = {} /\ IsFiniteSet(DOMAIN dictionary) /\ global = NoThread
        /\ \A t \in Threads : stack[t] = <<>>
        /\ \A o \in Objects : status[o] = "none"
    BY FS_EmptySet DEF Init
  <2>2. TableInv
    BY <2>1 DEF TableInv, At
  <2>3. ListInv /\ OldTableInv /\ UnlistedInv /\ PlaceInv
    BY <2>1 DEF ListInv, OldTableInv, UnlistedInv, PlaceInv
  <2>4. QED
    BY <2>2, <2>3 DEF TrackInv
<1>2. CallInv /\ TrackInv /\ [Next]_vars => CallInv' /\ TrackInv'
  BY NextCall, NextTable, NextList, NextRest, NextPlace DEF TrackInv, RestInv
<1>3. QED
  BY <1>1, <1>2, InitCall, PTL DEF Spec

(* TrackerExact: when all calls have returned, an object that is in use is *)
(* listed in the dictionary of the process, or of the thread it belongs to, *)
(* under its own pointer and no other, through every assignment of the     *)
(* pointer, every disposal and every reuse after it; the one exception are *)
(* two threads that ask for the first dictionary of the process at once.   *)
THEOREM TrackerFollows ==
  UnTrackedLeavesIt /\ FoundByItsThread => (Spec => []TrackerExact)
<1> SUFFICES ASSUME UnTrackedLeavesIt, FoundByItsThread
             PROVE  Spec => []TrackerExact
  OBVIOUS
<1>1. CallInv /\ TrackInv => TrackerExact
  <2> SUFFICES ASSUME CallInv, TrackInv, AllIdle
               PROVE  TrackerExact
    BY DEF TrackerExact, ActiveAreReportedOnce, ActiveAreReported, ListedUnderItsPointer
  <2>1. \A o \in Objects : status[o] = "live" => ListedAs(o, pointer[o])
    BY DEF TrackInv, ListInv, AllIdle, Uses
  <2>2. ASSUME NEW t \in Users, NEW o \in Active(t),
               ThreadStatic \/ Cardinality(DOMAIN dictionary) < 2
        PROVE  o \in Reported(t)
    <3>1. /\ o \in Objects /\ status[o] = "live" /\ pointer[o] # Null
          /\ ThreadStatic => creator[o] = t
      BY DEF Active, IsDisposed
    <3>2. pointer[o] \in Pointers
      BY <3>1 DEF CallInv, CallType, Maybe
    <3>3. OneTable
      <4>1. IsFiniteSet(DOMAIN dictionary)
        BY DEF TrackInv, TableInv
      <4>2. Cardinality(DOMAIN dictionary) \in Nat
        BY <4>1, FS_CardinalityType
      <4>3. Cardinality(DOMAIN dictionary) = 0 => DOMAIN dictionary = {}
        BY <4>1, FS_EmptySet
      <4>4. Cardinality(DOMAIN dictionary) = 1 => \E m : DOMAIN dictionary = {m}
        BY <4>1, FS_Singleton
      <4>5. CASE Cardinality(DOMAIN dictionary) < 2
        <5>1. Cardinality(DOMAIN dictionary) = 0 \/ Cardinality(DOMAIN dictionary) = 1
          BY <4>2, <4>5
        <5>2. QED
          BY <4>3, <4>4, <5>1 DEF OneTable
      <4>6. QED
        BY <2>2, <4>5 DEF OneTable
    <3>4. Home(o) \in DOMAIN dictionary /\ o \in dictionary[Home(o)][pointer[o]]
      BY <2>1, <3>1, <3>3 DEF ListedAs
    <3>5. Table(t) = dictionary[Home(o)]
      BY <3>1, <3>4 DEF Table, Home
    <3>6. QED
      BY <3>1, <3>2, <3>4, <3>5 DEF Reported, HasTarget
  <2>3. ASSUME NEW t \in Users, NEW p \in Pointers, NEW o \in Objects,
               o \in Table(t)[p], HasTarget(o)
        PROVE  pointer[o] = p
    <3>1. ListedAs(o, pointer[o]) /\ status[o] = "live"
      BY <2>1, <2>3 DEF HasTarget
    <3>2. /\ (IF ThreadStatic THEN t ELSE global) \in DOMAIN dictionary
          /\ o \in dictionary[IF ThreadStatic THEN t ELSE global][p]
      BY <2>3 DEF Table, Empty
    <3>3. Home(o) = IF ThreadStatic THEN t ELSE global
      BY <3>1, <3>2 DEF Home, TrackInv, PlaceInv
    <3>4. QED
      BY <3>1, <3>2, <3>3 DEF ListedAs
  <2>4. QED
    BY <2>2, <2>3
       DEF TrackerExact, ActiveAreReportedOnce, ActiveAreReported, ListedUnderItsPointer
<1>2. QED
  BY <1>1, TrackInvariant, PTL
=============================================================================
