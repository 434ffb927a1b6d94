-------------------------- MODULE GeneratedCallProofs --------------------------
(***************************************************************************)
(* Proofs about GeneratedCall, for a method of any number of parameters.   *)
(* The theorems say of which mishaps they assume that they do not happen;  *)
(* the others may.                                                         *)
(***************************************************************************)
EXTENDS GeneratedCall, WellFoundedInduction, TLAPS

(* Where the three functions are, relative to one another: the native      *)
(* function runs while the caller is in the call, a callback while the     *)
(* native function has called it, and a callback that comes late is given  *)
(* no parameters.                                                          *)
StageInv ==
  /\ caller.at = "toNative" => native = "idle"
  /\ native = "idle" => caller.at \in {"toNative", "aborted"}
  /\ native \in {"running", "calling"} => caller.at = "call"
  /\ native = "late" => caller.at \in {"returned", "threw", "aborted"}
  /\ native \in {"calling", "late"}
       <=> callback.at \in {"find", "toManaged", "toNative", "catch", "crossed"}
  /\ callback.todo # {} => native = "calling" /\ callback.at \in {"toManaged", "toNative"}
  /\ callback.at = "toNative" => callback.todo \subseteq LocalManagedReferenceParameters
  /\ callback.at # "none" => callback.target \in Of({"object"}, {"in"})
  /\ caller.at = "toNative" => caller.todo \subseteq InRefInRefParameters

(* A location holds a block made for its own parameter, and only when the  *)
(* parameter is a text or a struct; nobody else's blocks are made.         *)
OwnBlocks ==
  \A p \in Params :
    /\ location[p] \in Blocks => /\ Kind(p) \in {"text", "struct"}
                                 /\ \E o \in Owners : location[p] = <<o, p>>
    /\ \A o \in Owners : memory[<<o, p>>] # "none" => Kind(p) \in {"text", "struct"}

(* The block a location holds is live until the cleanup frees it.          *)
InUse(p) ==
  \/ caller.at = "toNative"
  \/ native \in {"running", "calling"}
  \/ /\ "stale" \notin Permitted
     /\ ~Ended
     /\ caller.at = "cleanup" => p \in caller.todo
HeldIsLive ==
  \A p \in Params : location[p] \in Blocks /\ InUse(p) => memory[location[p]] = "live"

MemoryInv == "stale" \notin Permitted => MemorySafe

(* No block is out of its location's reach unless a callback's conversion  *)
(* overwrote it; before its parameter is converted there is none.          *)
LiveIsHeld ==
  \A p \in Params :
    /\ memory[<<"callback", p>>] = "none"
         => \A o \in Owners : memory[<<o, p>>] = "live" => location[p] = <<o, p>>
    /\ caller.at = "toNative"
         => \A o \in Owners : o # "caller" \/ p \in caller.todo => memory[<<o, p>>] = "none"

(* What the cleanup has been through is not live any more.                 *)
CleanedUp ==
  \A p \in InRefInRefParameters :
    (\/ caller.at = "cleanup" /\ p \notin caller.todo
     \/ caller.at \in {"returned", "threw"})
    => (location[p] \in Blocks => memory[location[p]] # "live")

(* What every kind of location holds, as soon as it is converted.          *)
Converted(p) == \/ caller.at = "toNative" /\ p \notin caller.todo
                \/ caller.at = "call"
Conversions ==
  \A p \in Params :
    /\ location[p] = Characters(p) => p \in pinned
    /\ location[p] = Wrapper(p) => p \in Of({"object"}, {"in"})
    /\ Direction(p) # "out" /\ Converted(p) =>
         /\ Kind(p) \in {"text", "struct"} => location[p] \in Blocks
         /\ Kind(p) = "object" => location[p] = Wrapper(p)
         /\ Kind(p) = "wide" /\ caller.at = "call" => location[p] = Characters(p)
PinnedInv == pinned \subseteq Of({"wide"}, {"in"})

(* Nobody takes an argument before its cleanup.                            *)
KeptAlive ==
  "dispose" \notin Permitted /\ caller.at \in {"toNative", "call"}
    => \A p \in Of({"object"}, {"in"}) : object[p] = "alive"

(* Native code is told of an exception, and what is checked is thrown.     *)
CodeInv ==
  /\ exception # "none" => callback.at \in {"catch", "raised", "crossed"}
  /\ callback.at = "raised" /\ exception = "failure" /\ rule # "none" => answer = "failed"
  /\ caller.at = "returned" /\ rule = "checked" => result = "ok"
  /\ caller.at = "threw" => rule = "checked" /\ result = "failed"

(* A callback that is called while it may be, and is there, does not cross *)
(* the native function.                                                    *)
CrossInv ==
  {"retain", "dispose", "raise"} \cap Permitted = {} =>
    native # "late" /\ callback.at # "crossed"

-----------------------------------------------------------------------------
(* A marshaller works on the first of the parameters that are left: there  *)
(* is one, as they are naturals.                                           *)
LEMMA FirstIn ==
  ASSUME NEW S \in SUBSET Params, S # {}
  PROVE  First(S) \in S
<1> DEFINE Less == OpToRel(<, Nat)
<1>1. S \subseteq Nat
  BY ArityAssumption DEF Params
<1>2. PICK p \in S : \A q \in S : ~ (<<q, p>> \in Less)
  BY <1>1, NatLessThanWellFounded, WFMin, Zenon
<1>3. Less = {r \in Nat \X Nat : r[1] < r[2]}
  BY Zenon DEF OpToRel
<1> HIDE DEF Less
<1>4. ASSUME NEW q \in Nat, NEW r \in Nat, q < r
      PROVE  <<q, r>> \in Less
  <2> DEFINE pair == <<q, r>>
  <2>1. pair \in Nat \X Nat /\ pair[1] = q /\ pair[2] = r
    OBVIOUS
  <2> HIDE DEF pair
  <2>2. pair \in Less
    BY <1>3, <1>4, <2>1
  <2>3. QED
    BY <2>2 DEF pair
<1>5. ASSUME NEW q \in S
      PROVE  p <= q
  <2>1. q \in Nat /\ p \in Nat
    BY <1>1
  <2>2. ~ (<<q, p>> \in Less)
    BY <1>2, Zenon
  <2>3. ~ (q < p)
    BY <1>4, <2>1, <2>2, Zenon
  <2>4. QED
    BY <2>1, <2>3
<1>6. QED
  BY <1>5 DEF First

(* Native memory is told from everything else a location can hold.         *)
LEMMA BlockFacts ==
  /\ Null \notin Blocks
  /\ \A p \in Params : /\ Characters(p) \notin Blocks
                       /\ Wrapper(p) \notin Blocks
                       /\ Foreign(p) \notin Blocks
  /\ \A p \in Params, o \in Owners : <<o, p>> \in Blocks
BY DEF Null, Characters, Wrapper, Foreign, Blocks, Owners

LEMMA PointerFacts ==
  \A p \in Params : /\ {Null, Characters(p), Wrapper(p), Foreign(p)} \subseteq Pointers
                    /\ Blocks \subseteq Pointers
                    /\ Characters(p) \notin {Null, Wrapper(p), Foreign(p)}
                    /\ Wrapper(p) \notin {Null, Foreign(p)}
BY DEF Null, Characters, Wrapper, Foreign, Pointers

(* What MarshalledElementFactory makes no parameter of.                    *)
LEMMA SignatureFacts ==
  ASSUME signature \in [Params -> Parameter], NEW p \in Params
  PROVE  /\ Kind(p) \in All
         /\ Kind(p) = "wide" => Direction(p) = "in"
         /\ Kind(p) = "text" => Direction(p) \in {"in", "ref"}
         /\ Kind(p) = "object" => Direction(p) \in {"in", "out"}
         /\ Direction(p) \in {"in", "ref", "out"}
BY DEF Parameter, Kind, Direction, All

LEMMA ParameterSets ==
  /\ InRefInRefParameters \subseteq Params
  /\ LocalManagedReferenceParameters \subseteq Params
  /\ Forwarded(InRefInRefParameters) \subseteq InRefInRefParameters
  /\ Forwarded(LocalManagedReferenceParameters) \subseteq LocalManagedReferenceParameters
  /\ \A K, D : Of(K, D) \subseteq Params
BY DEF InRefInRefParameters, LocalManagedReferenceParameters, Forwarded, Of

LEMMA InitType == Init => TypeOK
<1> SUFFICES ASSUME Init PROVE TypeOK
  OBVIOUS
<1> USE ParameterSets DEF Init, TypeOK
<1>1. caller \in [at : {"toNative", "call", "fromNative", "cleanup", "returned",
                        "threw", "aborted"}, todo : SUBSET Params]
  BY DEF Frame
<1>2. callback \in [at : {"none", "find", "toManaged", "toNative", "catch", "done",
                          "raised", "crossed"}, todo : SUBSET Params, target : Params]
  BY ArityAssumption DEF Target, Params
<1>3. location \in [Params -> Pointers]
  BY DEF Pointers
<1>4. memory \in [Blocks -> {"none", "live", "freed", "misused"}]
  OBVIOUS
<1>5. object \in [Params -> {"none", "alive", "gone"}]
  OBVIOUS
<1>6. QED
  BY <1>1, <1>2, <1>3, <1>4, <1>5

(* What reading, freeing and converting do to memory and locations.        *)
LEMMA ReadType ==
  ASSUME TypeOK, NEW q, Read(q)
  PROVE  /\ memory' \in [Blocks -> {"none", "live", "freed", "misused"}]
         /\ \A b \in Blocks : memory'[b] = IF b = q THEN Used(b) ELSE memory[b]
BY DEF TypeOK, Read, Used

LEMMA FreeType ==
  ASSUME TypeOK, NEW q, Free(q)
  PROVE  /\ memory' \in [Blocks -> {"none", "live", "freed", "misused"}]
         /\ \A b \in Blocks : memory'[b] = IF b = q THEN Freed(b) ELSE memory[b]
BY DEF TypeOK, Free, Freed

LEMMA ConvertType ==
  ASSUME TypeOK, NEW o \in Owners, NEW p \in Params, ConvertTo(o, p)
  PROVE  /\ location' \in [Params -> Pointers]
         /\ memory' \in [Blocks -> {"none", "live", "freed", "misused"}]
         /\ \A q \in Params : q # p => location'[q] = location[q]
         /\ \A b \in Blocks : b # <<o, p>> => memory'[b] = memory[b]
         /\ Kind(p) \in {"text", "struct"} =>
              location'[p] = <<o, p>> /\ memory'[<<o, p>>] = "live"
         /\ Kind(p) \notin {"text", "struct"} =>
              location'[p] \notin Blocks /\ memory' = memory
         /\ Kind(p) = "wide" => location'[p] = Null
         /\ Kind(p) = "object" =>
              location'[p] = IF o = "caller" THEN Wrapper(p) ELSE Foreign(p)
<1>1. CASE Kind(p) \in {"text", "struct"}
  <2>1. location' = [location EXCEPT ![p] = <<o, p>>] /\ memory' = [memory EXCEPT ![<<o, p>>] = "live"]
    BY <1>1 DEF ConvertTo
  <2>2. <<o, p>> \in Blocks /\ <<o, p>> \in Pointers
    BY BlockFacts, PointerFacts
  <2>3. QED
    BY <1>1, <2>1, <2>2 DEF TypeOK
<1>2. CASE Kind(p) = "wide"
  <2>1. location' = [location EXCEPT ![p] = Null] /\ memory' = memory
    BY <1>2 DEF ConvertTo
  <2>2. QED
    BY <1>2, <2>1, BlockFacts, PointerFacts DEF TypeOK
<1>3. CASE Kind(p) \notin {"text", "struct", "wide"}
  <2> DEFINE v == IF Kind(p) = "object" /\ o = "caller" THEN Wrapper(p) ELSE Foreign(p)
  <2>1. location' = [location EXCEPT ![p] = v] /\ memory' = memory
    BY <1>3 DEF ConvertTo
  <2>2. v \in Pointers /\ v \notin Blocks
    BY BlockFacts, PointerFacts
  <2>3. Kind(p) = "object" => v = IF o = "caller" THEN Wrapper(p) ELSE Foreign(p)
    OBVIOUS
  <2> HIDE DEF v
  <2>4. QED
    BY <1>3, <2>1, <2>2, <2>3 DEF TypeOK
<1>4. QED
  BY <1>1, <1>2, <1>3

(* A conversion back is done with, or ends the method.                     *)
LEMMA BackStep ==
  ASSUME TypeOK, NativeToManaged
  PROVE  /\ caller.at = "fromNative"
         /\ caller'.at \in {"fromNative", "aborted"}
         /\ caller'.todo \subseteq caller.todo
         /\ caller' \in [at : {"toNative", "call", "fromNative", "cleanup", "returned",
                              "threw", "aborted"}, todo : SUBSET Params]
<1>1. caller \in [at : {"toNative", "call", "fromNative", "cleanup", "returned",
                       "threw", "aborted"}, todo : SUBSET Params]
  BY DEF TypeOK
<1>2. \/ caller' = [caller EXCEPT !.todo = @ \ {First(caller.todo)}]
      \/ caller' = [at |-> "aborted", todo |-> {}]
  BY DEF NativeToManaged, Frame
<1>3. caller.at = "fromNative"
  BY DEF NativeToManaged
<1>4. QED
  BY <1>1, <1>2, <1>3

LEMMA TypeStep ==
  ASSUME TypeOK, [Next]_vars
  PROVE  TypeOK'
<1> USE ParameterSets
<1>1. CASE ManagedToNative
  <2>1. caller.todo \in SUBSET Params /\ caller.todo # {}
    BY <1>1 DEF TypeOK, ManagedToNative
  <2> DEFINE p == First(caller.todo)
  <2>2. p \in Params
    BY <2>1, FirstIn, Zenon
  <2> HIDE DEF p
  <2>3. CASE ConvertTo("caller", p) /\ caller' = [caller EXCEPT !.todo = @ \ {p}]
    <3>1. /\ location' \in [Params -> Pointers]
          /\ memory' \in [Blocks -> {"none", "live", "freed", "misused"}]
      BY <2>2, <2>3, ConvertType DEF Owners
    <3>2. QED
      BY <1>1, <2>3, <3>1 DEF TypeOK, ManagedToNative
  <2>4. CASE caller' = Frame("aborted", {}) /\ UNCHANGED <<location, memory>>
    BY <1>1, <2>4 DEF TypeOK, ManagedToNative, Frame
  <2>5. QED
    BY <1>1, <2>3, <2>4 DEF ManagedToNative, p
<1>2. CASE Invoke
  <2>1. location' \in [Params -> Pointers]
    BY <1>2, PointerFacts DEF TypeOK, Invoke
  <2>2. QED
    BY <1>2, <2>1 DEF TypeOK, Invoke, Frame
<1>3. CASE Back
  <2>1. location' \in [Params -> Pointers]
    BY <1>3, PointerFacts DEF TypeOK, Back
  <2>2. QED
    BY <1>3, <2>1 DEF TypeOK, Back, Frame
<1>4. CASE NativeToManaged
  <2>1. memory' \in [Blocks -> {"none", "live", "freed", "misused"}]
    BY <1>4, ReadType DEF NativeToManaged
  <2>2. QED
    BY <1>4, <2>1, BackStep DEF TypeOK, NativeToManaged
<1>5. CASE BeginCleanup
  BY <1>5 DEF TypeOK, BeginCleanup, Frame
<1>6. CASE NativeCleanup
  <2>1. memory' \in [Blocks -> {"none", "live", "freed", "misused"}]
    BY <1>6, FreeType DEF NativeCleanup
  <2>2. QED
    BY <1>6, <2>1 DEF TypeOK, NativeCleanup
<1>7. CASE CheckError
  BY <1>7 DEF TypeOK, CheckError, Frame
<1>8. ASSUME NEW p \in Params, NativeReads(p)
      PROVE  TypeOK'
  <2>1. memory' \in [Blocks -> {"none", "live", "freed", "misused"}]
    BY <1>8, ReadType DEF NativeReads
  <2>2. QED
    BY <1>8, <2>1 DEF TypeOK, NativeReads
<1>9. ASSUME NEW p \in Params, NativeWrites(p)
      PROVE  TypeOK'
  <2>1. CASE Kind(p) = "object"
    <3>1. location' = [location EXCEPT ![p] = Foreign(p)] /\ memory' = memory
      BY <1>9, <2>1 DEF NativeWrites
    <3>2. location' \in [Params -> Pointers]
      BY <3>1, PointerFacts DEF TypeOK
    <3>3. QED
      BY <1>9, <3>1, <3>2 DEF TypeOK, NativeWrites
  <2>2. CASE Kind(p) # "object"
    <3>1. location' = [location EXCEPT ![p] = <<"function", p>>]
      BY <1>9, <2>2 DEF NativeWrites
    <3>2. <<"function", p>> \in Pointers
      BY BlockFacts, PointerFacts DEF Owners
    <3>3. location' \in [Params -> Pointers]
      BY <3>1, <3>2 DEF TypeOK
    <3>4. memory' \in [Blocks -> {"none", "live", "freed", "misused"}]
      BY <1>9, <2>2, ZenonT(40) DEF TypeOK, NativeWrites, Freed
    <3>5. QED
      BY <1>9, <3>3, <3>4 DEF TypeOK, NativeWrites
  <2>3. QED
    BY <2>1, <2>2
<1>10. ASSUME NEW p \in Params, NativeCallsBack(p)
       PROVE  TypeOK'
  BY <1>10 DEF TypeOK, NativeCallsBack
<1>11. ASSUME NEW code \in {"ok", "failed"}, NativeReturns(code)
       PROVE  TypeOK'
  <2>1. memory' \in [Blocks -> {"none", "live", "freed", "misused"}]
    BY <1>11, ZenonT(40) DEF TypeOK, NativeReturns
  <2>2. QED
    BY <1>11, <2>1 DEF TypeOK, NativeReturns
<1>12. CASE ToCallback
  <2>1. callback' \in [at : {"none", "find", "toManaged", "toNative", "catch", "done",
                            "raised", "crossed"}, todo : SUBSET Params, target : Params]
    BY <1>12 DEF TypeOK, ToCallback
  <2>2. QED
    BY <1>12, <2>1, ZenonT(40) DEF TypeOK, ToCallback
<1>13. CASE CallbackToManaged
  <2>1. memory' \in [Blocks -> {"none", "live", "freed", "misused"}]
    BY <1>13, ReadType DEF TypeOK, CallbackToManaged
  <2>2. exception' \in {"none", "failure", "success"}
    BY <1>13 DEF TypeOK, CallbackToManaged, Throw
  <2>3. \/ callback' = [callback EXCEPT !.todo = @ \ {First(callback.todo)}]
        \/ callback' = [callback EXCEPT !.at = "catch", !.todo = {}]
    BY <1>13 DEF CallbackToManaged, Throw
  <2>4. QED
    BY <1>13, <2>1, <2>2, <2>3, ZenonT(40) DEF TypeOK, CallbackToManaged
<1>14. CASE Implementation
  <2>1. /\ callback' \in [at : {"none", "find", "toManaged", "toNative", "catch", "done",
                               "raised", "crossed"}, todo : SUBSET Params, target : Params]
        /\ exception' \in {"none", "failure", "success"}
    BY <1>14 DEF TypeOK, Implementation, Throw
  <2>2. QED
    BY <1>14, <2>1, ZenonT(40) DEF TypeOK, Implementation
<1>15. CASE CallbackToNative
  <2>1. callback.todo \in SUBSET Params /\ callback.todo # {}
    BY <1>15 DEF TypeOK, CallbackToNative
  <2> DEFINE p == First(callback.todo)
  <2>2. p \in Params
    BY <2>1, FirstIn, Zenon
  <2> HIDE DEF p
  <2>3. CASE /\ ConvertTo("callback", p)
             /\ callback' = [callback EXCEPT !.todo = @ \ {p}]
             /\ UNCHANGED exception
    <3>1. /\ location' \in [Params -> Pointers]
          /\ memory' \in [Blocks -> {"none", "live", "freed", "misused"}]
      BY <2>2, <2>3, ConvertType DEF Owners
    <3>2. QED
      BY <1>15, <2>3, <3>1 DEF TypeOK, CallbackToNative
  <2>4. CASE Throw("failure") /\ UNCHANGED <<location, memory>>
    <3>1. /\ callback' \in [at : {"none", "find", "toManaged", "toNative", "catch", "done",
                                 "raised", "crossed"}, todo : SUBSET Params, target : Params]
          /\ exception' \in {"none", "failure", "success"}
      BY <2>4 DEF TypeOK, Throw
    <3>2. QED
      BY <1>15, <2>4, <3>1, ZenonT(40) DEF TypeOK, CallbackToNative
  <2>5. QED
    BY <1>15, <2>3, <2>4 DEF CallbackToNative, p
<1>16. CASE CallbackReturns
  BY <1>16 DEF TypeOK, CallbackReturns, Resume
<1>17. CASE Catch
  BY <1>17 DEF TypeOK, Catch, Resume
<1>18. ASSUME NEW p \in Params, Lose(p)
       PROVE  TypeOK'
  <2>1. object' \in [Params -> {"none", "alive", "gone"}]
    BY <1>18 DEF TypeOK, Lose
  <2>2. QED
    BY <1>18, <2>1 DEF TypeOK, Lose
<1>19. CASE LoseReceiver \/ Finished \/ UNCHANGED vars
  BY <1>19 DEF TypeOK, LoseReceiver, Finished, vars
<1>20. QED
  BY <1>1, <1>2, <1>3, <1>4, <1>5, <1>6, <1>7, <1>8, <1>9, <1>10, <1>11, <1>12,
     <1>13, <1>14, <1>15, <1>16, <1>17, <1>18, <1>19 DEF Next

(* TypeOK: every variable of the generated code keeps its type.            *)
THEOREM TypeCorrect == Spec => []TypeOK
<1>1. Init => TypeOK
  BY InitType
<1>2. TypeOK /\ [Next]_vars => TypeOK'
  BY TypeStep
<1>3. QED
  BY <1>1, <1>2, PTL DEF Spec

LEMMA SignatureKept ==
  ASSUME [Next]_vars
  PROVE  /\ signature' = signature
         /\ \A p \in Params : Kind(p)' = Kind(p) /\ Direction(p)' = Direction(p)
         /\ Of({"object"}, {"in"})' = Of({"object"}, {"in"})
         /\ Of({"wide"}, {"in"})' = Of({"wide"}, {"in"})
         /\ InRefInRefParameters' = InRefInRefParameters
         /\ LocalManagedReferenceParameters' = LocalManagedReferenceParameters
<1>1. signature' = signature
  BY DEF Next, vars, ManagedToNative, Invoke, Back, NativeToManaged, BeginCleanup,
         NativeCleanup, CheckError, NativeReads, NativeWrites, NativeReturns,
         NativeCallsBack, ToCallback, CallbackToManaged, Implementation,
         CallbackToNative, CallbackReturns, Catch, Lose, LoseReceiver, Finished
<1>2. QED
  BY <1>1 DEF Of, Kind, Direction, InRefInRefParameters, LocalManagedReferenceParameters

(* The stages of the caller, the function and a callback.                  *)
LEMMA StageStep ==
  ASSUME TypeOK, StageInv, [Next]_vars
  PROVE  StageInv'
<1> USE SignatureKept
<1>1. CASE ManagedToNative
  <2>1. \/ caller' = [caller EXCEPT !.todo = @ \ {First(caller.todo)}]
        \/ caller' = [at |-> "aborted", todo |-> {}]
    BY <1>1 DEF ManagedToNative, Frame
  <2>2. /\ caller.at = "toNative"
        /\ UNCHANGED <<native, callback>>
    BY <1>1 DEF ManagedToNative
  <2>3. /\ caller'.at \in {"toNative", "aborted"}
        /\ caller'.todo \subseteq caller.todo
    <3>1. caller \in [at : {"toNative", "call", "fromNative", "cleanup", "returned",
                           "threw", "aborted"}, todo : SUBSET Params]
      BY DEF TypeOK
    <3>2. QED
      BY <2>1, <2>2, <3>1
  <2>4. QED
    BY <2>2, <2>3 DEF StageInv
<1>2. CASE Invoke
  BY <1>2 DEF StageInv, Invoke, Frame
<1>3. CASE Back
  BY <1>3 DEF StageInv, Back, Frame
<1>4. CASE NativeToManaged
  BY <1>4, BackStep DEF StageInv, NativeToManaged
<1>5. CASE BeginCleanup
  BY <1>5 DEF StageInv, BeginCleanup, Frame
<1>6. CASE NativeCleanup
  BY <1>6 DEF StageInv, NativeCleanup, TypeOK
<1>7. CASE CheckError
  BY <1>7 DEF StageInv, CheckError, Frame
<1>8. ASSUME NEW p \in Params, NativeReads(p)
      PROVE  StageInv'
  BY <1>8 DEF StageInv, NativeReads
<1>9. ASSUME NEW p \in Params, NativeWrites(p)
      PROVE  StageInv'
  BY <1>9 DEF StageInv, NativeWrites
<1>10. ASSUME NEW p \in Params, NativeCallsBack(p)
       PROVE  StageInv'
  BY <1>10 DEF StageInv, NativeCallsBack, Ended
<1>11. ASSUME NEW code \in {"ok", "failed"}, NativeReturns(code)
       PROVE  StageInv'
  BY <1>11 DEF StageInv, NativeReturns
<1>12. CASE ToCallback
  BY <1>12 DEF StageInv, ToCallback, TypeOK
<1>13. CASE CallbackToManaged
  <2>1. \/ callback' = [callback EXCEPT !.todo = @ \ {First(callback.todo)}]
        \/ callback' = [callback EXCEPT !.at = "catch", !.todo = {}]
    BY <1>13 DEF CallbackToManaged, Throw
  <2>2. /\ callback.at = "toManaged"
        /\ UNCHANGED <<caller, native>>
    BY <1>13 DEF CallbackToManaged
  <2>3. /\ callback'.at \in {"toManaged", "catch"}
        /\ callback'.todo = {} \/ callback'.at = "toManaged"
        /\ callback'.todo \subseteq callback.todo
        /\ callback'.target = callback.target
    BY <2>1, <2>2 DEF TypeOK
  <2>4. QED
    BY <2>2, <2>3 DEF StageInv
<1>14. CASE Implementation
  <2>1. /\ callback.at = "toManaged"
        /\ UNCHANGED <<caller, native>>
    BY <1>14 DEF Implementation
  <2>2. /\ \/ /\ callback'.at = "toNative"
              /\ callback'.todo = IF native = "calling"
                                  THEN Forwarded(LocalManagedReferenceParameters) ELSE {}
           \/ callback'.at = "catch" /\ callback'.todo = {}
        /\ callback'.target = callback.target
    BY <1>14 DEF Implementation, Throw, TypeOK
  <2>3. QED
    BY <2>1, <2>2, ParameterSets DEF StageInv
<1>15. CASE CallbackToNative
  BY <1>15 DEF StageInv, CallbackToNative, Throw, TypeOK
<1>16. CASE CallbackReturns
  BY <1>16 DEF StageInv, CallbackReturns, Resume, TypeOK
<1>17. CASE Catch
  <2>1. CASE callback' = [callback EXCEPT !.at = "crossed"] /\ UNCHANGED native
    BY <1>17, <2>1 DEF StageInv, Catch, TypeOK
  <2>2. CASE /\ callback' = [callback EXCEPT !.at = "raised"]
             /\ native' = IF native = "calling" THEN "running" ELSE "returned"
    <3>1. callback.at = "catch" /\ UNCHANGED caller
      BY <1>17 DEF Catch
    <3>2. callback' = [at |-> "raised", todo |-> callback.todo, target |-> callback.target]
      BY <2>2 DEF TypeOK
    <3>3. QED
      BY <2>2, <3>1, <3>2 DEF StageInv
  <2>3. QED
    BY <1>17, <2>1, <2>2 DEF Catch, Resume
<1>18. ASSUME NEW p \in Params, Lose(p)
       PROVE  StageInv'
  BY <1>18 DEF StageInv, Lose
<1>19. CASE LoseReceiver \/ Finished \/ UNCHANGED vars
  BY <1>19 DEF StageInv, LoseReceiver, Finished, vars
<1>20. QED
  BY <1>1, <1>2, <1>3, <1>4, <1>5, <1>6, <1>7, <1>8, <1>9, <1>10, <1>11, <1>12,
     <1>13, <1>14, <1>15, <1>16, <1>17, <1>18, <1>19 DEF Next

(* What a step does to locations and memory, and to which parameter.       *)
LEMMA StepKinds ==
  ASSUME TypeOK, [Next]_vars
  PROVE  \/ UNCHANGED <<location, memory>>
         \/ \E p \in caller.todo : ManagedToNative /\ ConvertTo("caller", p)
                                   /\ caller' = [caller EXCEPT !.todo = @ \ {p}]
         \/ \E p \in callback.todo : CallbackToNative /\ ConvertTo("callback", p)
         \/ \E p \in Params : /\ UNCHANGED location /\ Read(location[p])
                              /\ \/ NativeToManaged
                                 \/ NativeReads(p)
                                 \/ CallbackToManaged
         \/ \E p \in caller.todo : NativeCleanup /\ Free(location[p])
                                   /\ caller' = [caller EXCEPT !.todo = @ \ {p}]
         \/ \E p \in Params : NativeWrites(p)
         \/ Invoke
         \/ Back
         \/ \E code \in {"ok", "failed"} : NativeReturns(code)
<1>1. caller.todo \in SUBSET Params /\ callback.todo \in SUBSET Params
  BY DEF TypeOK
<1>2. CASE ManagedToNative
  <2>1. First(caller.todo) \in caller.todo
    BY <1>1, <1>2, FirstIn DEF ManagedToNative
  <2>2. QED
    BY <1>2, <2>1 DEF ManagedToNative
<1>3. CASE CallbackToNative
  <2>1. First(callback.todo) \in callback.todo
    BY <1>1, <1>3, FirstIn DEF CallbackToNative
  <2>2. QED
    BY <1>3, <2>1 DEF CallbackToNative
<1>4. CASE NativeToManaged
  <2>1. First(caller.todo) \in Params
    BY <1>1, <1>4, FirstIn DEF NativeToManaged
  <2>2. QED
    BY <1>4, <2>1 DEF NativeToManaged
<1>5. CASE CallbackToManaged
  <2>1. First(callback.todo) \in Params
    BY <1>1, <1>5, FirstIn DEF CallbackToManaged
  <2>2. QED
    BY <1>5, <2>1 DEF CallbackToManaged
<1>6. CASE NativeCleanup
  <2>1. First(caller.todo) \in caller.todo
    BY <1>1, <1>6, FirstIn DEF NativeCleanup
  <2>2. QED
    BY <1>6, <2>1 DEF NativeCleanup
<1>7. ASSUME NEW p \in Params, NativeReads(p)
      PROVE  UNCHANGED location /\ Read(location[p])
  BY <1>7 DEF NativeReads
<1>8. CASE \/ BeginCleanup \/ CheckError \/ (\E p \in Params : NativeCallsBack(p))
           \/ ToCallback \/ Implementation \/ CallbackReturns \/ Catch
           \/ (\E p \in Params : Lose(p)) \/ LoseReceiver \/ Finished \/ UNCHANGED vars
  BY <1>8 DEF BeginCleanup, CheckError, NativeCallsBack, ToCallback, Implementation,
              CallbackReturns, Catch, Lose, LoseReceiver, Finished, vars
<1>9. QED
  BY <1>2, <1>3, <1>4, <1>5, <1>6, <1>7, <1>8, Zenon DEF Next

(* Locations never share a block.                                          *)
LEMMA OwnLocation ==
  ASSUME OwnBlocks, NEW p \in Params, NEW q \in Params, p # q,
         location[q] \in Blocks
  PROVE  /\ location[q] # location[p]
         /\ \A o \in Owners : location[q] # <<o, p>>
BY BlockFacts DEF OwnBlocks

(* What the native function writes.                                        *)
LEMMA WriteEffect ==
  ASSUME TypeOK, NEW p \in Params, NativeWrites(p)
  PROVE  /\ native = "running"
         /\ Direction(p) # "in"
         /\ Kind(p) \in {"struct", "object"}
         /\ \A q \in Params : q # p => location'[q] = location[q]
         /\ location[p] \notin {"function", "callback"} \X Params
         /\ Kind(p) = "object" => /\ location'[p] = Foreign(p)
                                  /\ memory' = memory
         /\ Kind(p) = "struct" =>
              /\ location'[p] = <<"function", p>>
              /\ memory'[<<"function", p>>] = "live"
              /\ \A b \in Blocks : b # <<"function", p>> =>
                   memory'[b] = IF b = location[p] THEN Freed(b) ELSE memory[b]
<1>1. Direction(p) # "in"
  BY DEF NativeWrites, Forwarded, LocalManagedReferenceParameters, Of
<1>2. Kind(p) \in {"struct", "object"}
  BY <1>1, SignatureFacts DEF NativeWrites, Forwarded, Of, TypeOK, All
<1>3. <<"function", p>> \in Blocks
  BY BlockFacts DEF Owners
<1>4. location' = [location EXCEPT ![p] = IF Kind(p) = "object" THEN Foreign(p)
                                          ELSE <<"function", p>>]
  BY DEF NativeWrites
<1>5. CASE Kind(p) = "object"
  BY <1>1, <1>4, <1>5 DEF NativeWrites, TypeOK
<1>6. CASE Kind(p) = "struct"
  BY <1>1, <1>3, <1>4, <1>6, ZenonT(40) DEF NativeWrites, TypeOK
<1>7. QED
  BY <1>2, <1>5, <1>6

(* Every block keeps to its parameter.                                     *)
LEMMA OwnStep ==
  ASSUME TypeOK, OwnBlocks, [Next]_vars
  PROVE  OwnBlocks'
<1> DEFINE Good(q) ==
      /\ location'[q] \in Blocks => /\ Kind(q) \in {"text", "struct"}
                                    /\ \E o \in Owners : location'[q] = <<o, q>>
      /\ \A o \in Owners : memory'[<<o, q>>] # "none" => Kind(q) \in {"text", "struct"}
<1> SUFFICES ASSUME NEW q \in Params
             PROVE  Good(q)
  BY SignatureKept DEF OwnBlocks
<1>1. /\ location[q] \in Blocks => /\ Kind(q) \in {"text", "struct"}
                                   /\ \E o \in Owners : location[q] = <<o, q>>
      /\ \A o \in Owners : memory[<<o, q>>] # "none" => Kind(q) \in {"text", "struct"}
  BY DEF OwnBlocks
<1>2. \A o \in Owners : <<o, q>> \in Blocks
  BY BlockFacts
<1>3. CASE UNCHANGED <<location, memory>>
  BY <1>1, <1>3
<1>4. ASSUME NEW p \in Params, NEW o \in Owners, ConvertTo(o, p)
      PROVE  Good(q)
  <2>1. CASE p = q
    BY <1>1, <1>4, <2>1, ConvertType, BlockFacts
  <2>2. CASE p # q
    <3>1. location'[q] = location[q]
      BY <1>4, <2>2, ConvertType
    <3>2. \A r \in Owners : <<r, q>> # <<o, p>>
      BY <2>2
    <3>3. \A r \in Owners : memory'[<<r, q>>] = memory[<<r, q>>]
      BY <1>2, <1>4, <3>2, ConvertType
    <3>4. QED
      BY <1>1, <3>1, <3>3
  <2>3. QED
    BY <2>1, <2>2
<1>5. ASSUME NEW p \in Params, UNCHANGED location, Read(location[p]) \/ Free(location[p])
      PROVE  Good(q)
  <2>1. \A o \in Owners : <<o, q>> # location[p] => memory'[<<o, q>>] = memory[<<o, q>>]
    BY <1>2, <1>5, ReadType, FreeType
  <2>2. \A o \in Owners : <<o, q>> = location[p] => location[q] \in Blocks
    BY <1>2, OwnLocation DEF OwnBlocks
  <2>3. QED
    BY <1>1, <1>5, <2>1, <2>2
<1>6. ASSUME NEW p \in Params, NativeWrites(p)
      PROVE  Good(q)
  <2>1. CASE p = q
    BY <1>1, <1>2, <1>6, <2>1, WriteEffect, BlockFacts DEF Owners
  <2>2. CASE p # q
    <3>1. location'[q] = location[q]
      BY <1>6, <2>2, WriteEffect
    <3>2. \A o \in Owners : <<o, q>> # <<"function", p>> /\ <<o, q>> # location[p]
      BY <1>2, <2>2 DEF OwnBlocks
    <3>3. \A o \in Owners : memory'[<<o, q>>] = memory[<<o, q>>]
      BY <1>2, <1>6, <3>2, WriteEffect
    <3>4. QED
      BY <1>1, <3>1, <3>3
  <2>3. QED
    BY <2>1, <2>2
<1>7. CASE Invoke
  BY <1>1, <1>7, BlockFacts DEF Invoke
<1>8. CASE Back
  BY <1>1, <1>8, BlockFacts DEF Back
<1>9. ASSUME NEW code \in {"ok", "failed"}, NativeReturns(code)
      PROVE  Good(q)
  <2>1. UNCHANGED location
    BY <1>9 DEF NativeReturns
  <2>2. \A b \in Blocks : memory[b] = "none" => memory'[b] = "none"
    BY <1>9, ZenonT(40) DEF NativeReturns, TypeOK
  <2>3. QED
    BY <1>1, <1>2, <2>1, <2>2
<1> HIDE DEF Good
<1>10. Good(q)
  <2>1. caller.todo \in SUBSET Params /\ callback.todo \in SUBSET Params
    BY DEF TypeOK
  <2>2. {"caller", "callback"} \subseteq Owners
    BY DEF Owners
  <2>3. NativeCleanup => UNCHANGED location
    BY DEF NativeCleanup
  <2>4. UNCHANGED <<location, memory>> => Good(q)
    BY <1>3
  <2>5. Invoke => Good(q)
    BY <1>7
  <2>6. Back => Good(q)
    BY <1>8
  <2>7. QED
    BY <1>4, <1>5, <1>6, <1>9, <2>1, <2>2, <2>3, <2>4, <2>5, <2>6, StepKinds
<1>11. QED
  BY <1>10

(* A block comes out of use, and is not used again.                        *)
LEMMA UseEnds ==
  ASSUME TypeOK, StageInv, [Next]_vars, NEW p \in Params, InUse(p)'
  PROVE  InUse(p)
<1> USE DEF InUse, Ended
<1>1. CASE ManagedToNative \/ Invoke \/ Back \/ BeginCleanup \/ NativeToManaged
  <2>1. CASE ManagedToNative \/ Invoke
    BY <2>1 DEF ManagedToNative, Invoke
  <2>2. CASE Back
    BY <2>2 DEF Back, Frame
  <2>3. CASE BeginCleanup
    BY <2>3 DEF BeginCleanup, Frame
  <2>4. CASE NativeToManaged
    BY <2>4, BackStep DEF NativeToManaged
  <2>5. QED
    BY <1>1, <2>1, <2>2, <2>3, <2>4
<1>2. CASE NativeCleanup
  BY <1>2 DEF NativeCleanup, TypeOK
<1>3. CASE CheckError
  BY <1>3 DEF CheckError, StageInv, Frame
<1>4. ASSUME NEW q \in Params, NativeReads(q) \/ NativeWrites(q) \/ NativeCallsBack(q)
      PROVE  InUse(p)
  BY <1>4 DEF NativeReads, NativeWrites, NativeCallsBack
<1>5. ASSUME NEW code \in {"ok", "failed"}, NativeReturns(code)
      PROVE  InUse(p)
  BY <1>5 DEF NativeReturns
<1>6. CASE ToCallback \/ CallbackToManaged \/ Implementation \/ CallbackToNative
  BY <1>6 DEF ToCallback, CallbackToManaged, Implementation, CallbackToNative
<1>7. CASE CallbackReturns
  BY <1>7 DEF CallbackReturns, Resume
<1>8. CASE Catch
  BY <1>8 DEF Catch, Resume
<1>9. ASSUME NEW q \in Params, Lose(q)
      PROVE  InUse(p)
  BY <1>9 DEF Lose
<1>10. CASE LoseReceiver \/ Finished \/ UNCHANGED vars
  BY <1>10 DEF LoseReceiver, Finished, vars
<1>11. QED
  BY <1>1, <1>2, <1>3, <1>4, <1>5, <1>6, <1>7, <1>8, <1>9, <1>10 DEF Next

(* A location in use holds a live block: the function frees what it        *)
(* replaces, a callback replaces without freeing, and the cleanup frees    *)
(* what is there.                                                          *)
LEMMA HeldStep ==
  ASSUME TypeOK, StageInv, OwnBlocks, HeldIsLive, [Next]_vars
  PROVE  HeldIsLive'
<1> SUFFICES ASSUME NEW q \in Params, location'[q] \in Blocks, InUse(q)'
             PROVE  memory'[location'[q]] = "live"
  BY DEF HeldIsLive
<1>1. InUse(q)
  BY UseEnds
<1>2. location[q] \in Blocks => memory[location[q]] = "live"
  BY <1>1 DEF HeldIsLive
<1>3. CASE UNCHANGED <<location, memory>>
  BY <1>2, <1>3
<1>4. ASSUME NEW p \in Params, NEW o \in Owners, ConvertTo(o, p)
      PROVE  memory'[location'[q]] = "live"
  <2>1. CASE p = q
    BY <1>4, <2>1, ConvertType
  <2>2. CASE p # q
    <3>1. location'[q] = location[q] /\ location[q] # <<o, p>>
      BY <1>4, <2>2, ConvertType, OwnLocation, ZenonT(40)
    <3>2. QED
      BY <1>2, <1>4, <3>1, ConvertType
  <2>3. QED
    BY <2>1, <2>2
<1>5. ASSUME NEW p \in Params, UNCHANGED location, Read(location[p])
      PROVE  memory'[location'[q]] = "live"
  BY <1>2, <1>5, ReadType DEF Used
<1>6. ASSUME NEW p \in caller.todo, NativeCleanup, Free(location[p]),
             caller' = [caller EXCEPT !.todo = @ \ {p}]
      PROVE  memory'[location'[q]] = "live"
  <2>1. p \in Params /\ p \notin caller'.todo
    BY <1>6 DEF TypeOK
  <2>2. caller'.at = "cleanup" /\ native' = native /\ native \notin {"running", "calling"}
    BY <1>6 DEF NativeCleanup, StageInv, TypeOK
  <2>3. ~InUse(p)'
    BY <2>1, <2>2 DEF InUse
  <2>4. p # q
    BY <2>3
  <2>5. location'[q] = location[q] /\ location[q] # location[p]
    BY <1>6, <2>1, <2>4, OwnLocation DEF NativeCleanup
  <2>6. QED
    BY <1>2, <1>6, <2>5, FreeType
<1>7. ASSUME NEW p \in Params, NativeWrites(p)
      PROVE  memory'[location'[q]] = "live"
  <2>1. CASE p = q
    BY <1>7, <2>1, WriteEffect, BlockFacts, ZenonT(40)
  <2>2. CASE p # q
    <3>1. /\ location'[q] = location[q] /\ location[q] # location[p]
          /\ location[q] # <<"function", p>>
      BY <1>7, <2>2, WriteEffect, OwnLocation DEF Owners
    <3>2. QED
      BY <1>2, <1>7, <3>1, WriteEffect
  <2>3. QED
    BY <2>1, <2>2
<1>8. CASE Invoke
  BY <1>2, <1>8, BlockFacts DEF Invoke
<1>9. CASE Back
  BY <1>2, <1>9, BlockFacts DEF Back
<1>10. ASSUME NEW code \in {"ok", "failed"}, NativeReturns(code)
       PROVE  memory'[location'[q]] = "live"
  <2>1. native' = "returned" /\ caller' = caller /\ native = "running"
    BY <1>10 DEF NativeReturns
  <2>2. "stale" \notin Permitted
    BY <2>1 DEF InUse, StageInv
  <2>3. UNCHANGED <<location, memory>>
    BY <1>10, <2>2 DEF NativeReturns
  <2>4. QED
    BY <1>3, <2>3
<1>11. caller.todo \in SUBSET Params /\ callback.todo \in SUBSET Params
  BY DEF TypeOK
<1>12. {"caller", "callback"} \subseteq Owners
  BY DEF Owners
<1>13. QED
  BY <1>3, <1>4, <1>5, <1>6, <1>7, <1>8, <1>9, <1>10, <1>11, <1>12, StepKinds

(* Whoever reads or frees a location does so while it is in use.           *)
LEMMA MemoryStep ==
  ASSUME TypeOK, StageInv, OwnBlocks, HeldIsLive, MemoryInv, [Next]_vars
  PROVE  MemoryInv'
<1> SUFFICES ASSUME "stale" \notin Permitted, NEW b \in Blocks
             PROVE  memory'[b] # "misused"
  BY DEF MemoryInv, MemorySafe
<1>1. memory[b] # "misused"
  BY DEF MemoryInv, MemorySafe
<1>2. CASE UNCHANGED <<location, memory>>
  BY <1>1, <1>2
<1>3. ASSUME NEW p \in Params, NEW o \in Owners, ConvertTo(o, p)
      PROVE  memory'[b] # "misused"
  BY <1>1, <1>3, ConvertType
<1>4. ASSUME NEW p \in Params, UNCHANGED location, Read(location[p]),
             NativeToManaged \/ NativeReads(p) \/ CallbackToManaged
      PROVE  memory'[b] # "misused"
  <2>1. InUse(p)
    BY <1>4 DEF NativeToManaged, NativeReads, CallbackToManaged, StageInv, InUse, Ended
  <2>2. QED
    BY <1>1, <1>4, <2>1, ReadType DEF HeldIsLive, Used
<1>5. ASSUME NEW p \in caller.todo, NativeCleanup, Free(location[p])
      PROVE  memory'[b] # "misused"
  <2>1. p \in Params /\ InUse(p)
    BY <1>5 DEF TypeOK, NativeCleanup, InUse, Ended
  <2>2. QED
    BY <1>1, <1>5, <2>1, FreeType DEF HeldIsLive, Freed
<1>6. ASSUME NEW p \in Params, NativeWrites(p)
      PROVE  memory'[b] # "misused"
  <2>1. InUse(p)
    BY <1>6, WriteEffect DEF InUse
  <2>2. location[p] \in Blocks => Freed(location[p]) = "freed"
    BY <2>1 DEF HeldIsLive, Freed
  <2>3. QED
    BY <1>1, <1>6, <2>2, WriteEffect
<1>7. CASE Invoke \/ Back
  BY <1>1, <1>7 DEF Invoke, Back
<1>8. ASSUME NEW code \in {"ok", "failed"}, NativeReturns(code)
      PROVE  memory'[b] # "misused"
  BY <1>1, <1>8 DEF NativeReturns
<1>9. caller.todo \in SUBSET Params /\ callback.todo \in SUBSET Params
  BY DEF TypeOK
<1>10. {"caller", "callback"} \subseteq Owners
  BY DEF Owners
<1>11. QED
  BY <1>2, <1>3, <1>4, <1>5, <1>6, <1>7, <1>8, <1>9, <1>10, StepKinds

(* Every live block is held by its location, unless a callback has         *)
(* converted.                                                              *)
LEMMA LiveStep ==
  ASSUME TypeOK, StageInv, OwnBlocks, PinnedInv, LiveIsHeld, [Next]_vars
  PROVE  LiveIsHeld'
<1> DEFINE Reached(q) == memory'[<<"callback", q>>] = "none"
              => \A o \in Owners : memory'[<<o, q>>] = "live" => location'[q] = <<o, q>>
           Unmade(q) == caller'.at = "toNative"
              => \A o \in Owners : o # "caller" \/ q \in caller'.todo
                                     => memory'[<<o, q>>] = "none"
<1> SUFFICES ASSUME NEW q \in Params
             PROVE  Reached(q) /\ Unmade(q)
  BY DEF LiveIsHeld
<1>1. /\ memory[<<"callback", q>>] = "none"
           => \A o \in Owners : memory[<<o, q>>] = "live" => location[q] = <<o, q>>
      /\ caller.at = "toNative"
           => \A o \in Owners : o # "caller" \/ q \in caller.todo => memory[<<o, q>>] = "none"
  BY DEF LiveIsHeld
<1>2. \A o \in Owners : <<o, q>> \in Blocks
  BY BlockFacts
<1>3. caller'.at = "toNative" =>
        /\ caller.at = "toNative" /\ native = "idle"
        /\ \/ caller' = caller
           \/ ManagedToNative /\ caller' = [caller EXCEPT !.todo = @ \ {First(caller.todo)}]
  <2>1. CASE ManagedToNative
    BY <2>1 DEF ManagedToNative, StageInv, Frame
  <2>2. CASE Invoke \/ Back \/ BeginCleanup \/ CheckError
    BY <2>2 DEF Invoke, Back, BeginCleanup, CheckError, Frame
  <2>3. CASE NativeToManaged
    BY <2>3, BackStep
  <2>4. CASE NativeCleanup
    BY <2>4 DEF NativeCleanup, TypeOK
  <2>5. CASE \/ \E p \in Params : NativeReads(p) \/ NativeWrites(p) \/ NativeCallsBack(p)
             \/ \E code \in {"ok", "failed"} : NativeReturns(code)
             \/ ToCallback \/ CallbackToManaged \/ Implementation \/ CallbackToNative
             \/ CallbackReturns \/ Catch \/ (\E p \in Params : Lose(p)) \/ LoseReceiver
             \/ Finished \/ UNCHANGED vars
    <3>1. caller' = caller
      BY <2>5 DEF NativeReads, NativeWrites, NativeCallsBack, NativeReturns, ToCallback,
                  CallbackToManaged, Implementation, CallbackToNative, CallbackReturns,
                  Catch, Lose, LoseReceiver, Finished, vars
    <3>2. QED
      BY <3>1 DEF StageInv
  <2>6. QED
    BY <2>1, <2>2, <2>3, <2>4, <2>5 DEF Next
<1>4. caller'.at = "toNative" => caller.at = "toNative" /\ caller'.todo \subseteq caller.todo
  BY <1>3 DEF TypeOK
<1>5. CASE UNCHANGED <<location, memory>>
  BY <1>1, <1>4, <1>5
<1>6. ASSUME NEW p \in Params, NEW o \in Owners, ConvertTo(o, p), p # q
      PROVE  Reached(q) /\ Unmade(q)
  <2>1. location'[q] = location[q]
    BY <1>6, ConvertType
  <2>2. \A r \in Owners : memory'[<<r, q>>] = memory[<<r, q>>]
    BY <1>2, <1>6, ConvertType
  <2>3. "callback" \in Owners
    BY DEF Owners
  <2>4. QED
    BY <1>1, <1>4, <2>1, <2>2, <2>3
<1>7. ASSUME ManagedToNative, q \in caller.todo, ConvertTo("caller", q),
             caller' = [caller EXCEPT !.todo = @ \ {q}]
      PROVE  Reached(q) /\ Unmade(q)
  <2>1. \A o \in Owners : memory[<<o, q>>] = "none"
    BY <1>1, <1>7 DEF ManagedToNative
  <2>2. q \notin caller'.todo
    BY <1>7 DEF TypeOK
  <2>3. \A o \in Owners : o # "caller" => memory'[<<o, q>>] = "none"
    BY <1>2, <1>7, <2>1, ConvertType DEF Owners
  <2>4. memory'[<<"caller", q>>] = "live" => location'[q] = <<"caller", q>>
    BY <1>2, <1>7, <2>1, ConvertType DEF Owners
  <2>5. QED
    BY <2>2, <2>3, <2>4
<1>8. ASSUME CallbackToNative, q \in callback.todo, ConvertTo("callback", q)
      PROVE  Reached(q) /\ Unmade(q)
  <2>1. caller.at = "call" /\ caller' = caller
    BY <1>8 DEF CallbackToNative, StageInv
  <2>2. CASE Kind(q) \in {"text", "struct"}
    BY <1>8, <2>1, <2>2, ConvertType DEF Owners
  <2>3. CASE Kind(q) \notin {"text", "struct"}
    <3>1. memory' = memory /\ \A o \in Owners : memory[<<o, q>>] = "none"
      BY <1>8, <2>3, ConvertType DEF Owners, OwnBlocks
    <3>2. QED
      BY <2>1, <3>1
  <2>4. QED
    BY <2>2, <2>3
<1>9. ASSUME NEW p \in Params, UNCHANGED location, Read(location[p]) \/ Free(location[p]),
             caller.at # "toNative"
      PROVE  Reached(q) /\ Unmade(q)
  <2>1. \A b \in Blocks : /\ memory'[b] = "live" => memory[b] = "live"
                          /\ memory'[b] = "none" => memory[b] = "none"
    BY <1>9, ReadType, FreeType DEF Used, Freed
  <2>2. "callback" \in Owners
    BY DEF Owners
  <2>3. QED
    BY <1>1, <1>2, <1>4, <1>9, <2>1, <2>2
<1>10. ASSUME NEW p \in Params, NativeWrites(p)
       PROVE  Reached(q) /\ Unmade(q)
  <2>1. caller.at = "call"
    BY <1>10, WriteEffect DEF StageInv
  <2>2. Unmade(q)
    BY <1>4, <2>1
  <2>3. CASE p # q
    <3>1. location'[q] = location[q]
      BY <1>10, <2>3, WriteEffect
    <3>2. \A o \in Owners : <<o, q>> # <<"function", p>> /\ <<o, q>> # location[p]
      BY <1>2, <2>3 DEF OwnBlocks
    <3>3. \A o \in Owners : memory'[<<o, q>>] = memory[<<o, q>>]
      BY <1>2, <1>10, <3>2, WriteEffect
    <3>4. "callback" \in Owners
      BY DEF Owners
    <3>5. QED
      BY <1>1, <2>2, <3>1, <3>3, <3>4
  <2>4. CASE p = q /\ Kind(q) = "object"
    BY <1>10, <2>2, <2>4, WriteEffect DEF OwnBlocks
  <2>5. CASE p = q /\ Kind(q) = "struct"
    <3>1. <<"callback", q>> # location[q]
      <4>1. <<"callback", q>> \in {"function", "callback"} \X Params
        OBVIOUS
      <4>2. location[q] \notin {"function", "callback"} \X Params
        BY <1>10, <2>5, WriteEffect
      <4>3. QED
        BY <4>1, <4>2
    <3>2. memory'[<<"callback", q>>] = memory[<<"callback", q>>]
      BY <1>2, <1>10, <2>5, <3>1, WriteEffect DEF Owners
    <3>3. ASSUME NEW o \in Owners, o # "function", memory'[<<o, q>>] = "live",
                 memory[<<"callback", q>>] = "none"
          PROVE  FALSE
      <4>1. memory'[<<o, q>>] = IF <<o, q>> = location[q] THEN Freed(<<o, q>>)
                                ELSE memory[<<o, q>>]
        BY <1>2, <1>10, <2>5, <3>3, WriteEffect
      <4>2. CASE <<o, q>> = location[q]
        BY <3>3, <4>1, <4>2 DEF Freed
      <4>3. CASE <<o, q>> # location[q]
        BY <1>1, <3>3, <4>1, <4>3
      <4>4. QED
        BY <4>2, <4>3
    <3>4. location'[q] = <<"function", q>>
      BY <1>10, <2>5, WriteEffect
    <3>5. QED
      BY <2>2, <3>2, <3>3, <3>4
  <2>6. QED
    BY <1>10, <2>3, <2>4, <2>5, WriteEffect
<1>11. CASE Invoke \/ Back
  <2>1. caller'.at # "toNative" /\ memory' = memory
    BY <1>11 DEF Invoke, Back, Frame
  <2>2. location'[q] = location[q] \/ Kind(q) = "wide"
    BY <1>11, SignatureKept DEF Invoke, Back, Of, TypeOK, PinnedInv
  <2>3. Kind(q) = "wide" => \A o \in Owners : memory[<<o, q>>] = "none"
    BY DEF OwnBlocks
  <2>4. QED
    BY <1>1, <2>1, <2>2, <2>3
<1>12. ASSUME NEW code \in {"ok", "failed"}, NativeReturns(code)
       PROVE  Reached(q) /\ Unmade(q)
  <2>1. caller.at = "call" /\ UNCHANGED location
    BY <1>12 DEF NativeReturns, StageInv
  <2>2. \A b \in Blocks : /\ memory'[b] = "live" => memory[b] = "live"
                          /\ memory'[b] = "none" => memory[b] = "none"
    BY <1>12, ZenonT(40) DEF NativeReturns, TypeOK
  <2>3. "callback" \in Owners
    BY DEF Owners
  <2>4. QED
    BY <1>1, <1>2, <1>4, <2>1, <2>2, <2>3
<1> HIDE DEF Reached, Unmade
<1>13. ASSUME NEW p \in caller.todo, ManagedToNative, ConvertTo("caller", p),
              caller' = [caller EXCEPT !.todo = @ \ {p}]
       PROVE  Reached(q) /\ Unmade(q)
  <2>1. p \in Params /\ "caller" \in Owners
    BY DEF TypeOK, Owners
  <2>2. QED
    BY <1>6, <1>7, <1>13, <2>1
<1>14. ASSUME NEW p \in callback.todo, CallbackToNative, ConvertTo("callback", p)
       PROVE  Reached(q) /\ Unmade(q)
  <2>1. p \in Params /\ "callback" \in Owners
    BY DEF TypeOK, Owners
  <2>2. QED
    BY <1>6, <1>8, <1>14, <2>1
<1>15. ASSUME NEW p \in Params, UNCHANGED location, Read(location[p]),
              NativeToManaged \/ NativeReads(p) \/ CallbackToManaged
       PROVE  Reached(q) /\ Unmade(q)
  <2>1. caller.at # "toNative"
    BY <1>15 DEF NativeToManaged, NativeReads, CallbackToManaged, StageInv
  <2>2. QED
    BY <1>9, <1>15, <2>1
<1>16. ASSUME NEW p \in caller.todo, NativeCleanup, Free(location[p])
       PROVE  Reached(q) /\ Unmade(q)
  <2>1. p \in Params /\ caller.at # "toNative" /\ UNCHANGED location
    BY <1>16 DEF TypeOK, NativeCleanup
  <2>2. QED
    BY <1>9, <1>16, <2>1
<1>17. QED
  BY <1>5, <1>10, <1>11, <1>12, <1>13, <1>14, <1>15, <1>16, StepKinds

(* The cleanup goes through the parameters once, and nobody allocates      *)
(* after it.                                                               *)
LEMMA CleanedStep ==
  ASSUME TypeOK, StageInv, OwnBlocks, CleanedUp, [Next]_vars
  PROVE  CleanedUp'
<1> DEFINE Past(q) == \/ caller.at = "cleanup" /\ q \notin caller.todo
                      \/ caller.at \in {"returned", "threw"}
           Over(q) == \/ caller'.at = "cleanup" /\ q \notin caller'.todo
                      \/ caller'.at \in {"returned", "threw"}
<1> SUFFICES ASSUME NEW q \in InRefInRefParameters, Over(q), location'[q] \in Blocks
             PROVE  memory'[location'[q]] # "live"
  BY SignatureKept DEF CleanedUp
<1>1. q \in Params
  BY ParameterSets
<1>2. Past(q) => (location[q] \in Blocks => memory[location[q]] # "live")
  BY DEF CleanedUp
<1>3. Past(q) \/ NativeCleanup
  <2>1. CASE ManagedToNative \/ Invoke \/ Back
    <3>1. caller \in [at : {"toNative", "call", "fromNative", "cleanup", "returned",
                           "threw", "aborted"}, todo : SUBSET Params]
      BY DEF TypeOK
    <3>2. CASE ManagedToNative
      BY <3>1, <3>2 DEF ManagedToNative, Frame
    <3>3. CASE Invoke \/ Back
      BY <3>3 DEF Invoke, Back, Frame
    <3>4. QED
      BY <2>1, <3>2, <3>3
  <2>2. CASE NativeToManaged
    BY <2>2, BackStep
  <2>3. CASE BeginCleanup
    BY <2>3 DEF BeginCleanup, Frame
  <2>4. CASE CheckError
    BY <2>4 DEF CheckError
  <2>5. CASE \/ \E p \in Params : NativeReads(p) \/ NativeWrites(p) \/ NativeCallsBack(p)
             \/ \E code \in {"ok", "failed"} : NativeReturns(code)
             \/ ToCallback \/ CallbackToManaged \/ Implementation \/ CallbackToNative
             \/ CallbackReturns \/ Catch \/ (\E p \in Params : Lose(p)) \/ LoseReceiver
             \/ Finished \/ UNCHANGED vars
    <3>1. caller' = caller
      BY <2>5 DEF NativeReads, NativeWrites, NativeCallsBack, NativeReturns, ToCallback,
                  CallbackToManaged, Implementation, CallbackToNative, CallbackReturns,
                  Catch, Lose, LoseReceiver, Finished, vars
    <3>2. QED
      BY <3>1
  <2>6. QED
    BY <2>1, <2>2, <2>3, <2>4, <2>5 DEF Next
<1>4. caller.at \in {"cleanup", "returned", "threw"} \/ ~Past(q)
  OBVIOUS
<1>5. CASE UNCHANGED <<location, memory>>
  <2>1. CASE Past(q)
    BY <1>2, <1>5, <2>1
  <2>2. CASE NativeCleanup
    <3>1. First(caller.todo) \in caller.todo
      BY <2>2, FirstIn DEF NativeCleanup, TypeOK
    <3>2. PICK p \in caller.todo : Free(location[p]) /\ caller' = [caller EXCEPT !.todo = @ \ {p}]
      BY <2>2, <3>1 DEF NativeCleanup
    <3>3. CASE p = q
      BY <1>5, <3>2, <3>3, FreeType DEF Freed, TypeOK
    <3>4. CASE p # q
      <4>1. Past(q)
        BY <2>2, <3>2, <3>4 DEF NativeCleanup, TypeOK
      <4>2. QED
        BY <1>2, <1>5, <4>1
    <3>5. QED
      BY <3>3, <3>4
  <2>3. QED
    BY <1>3, <2>1, <2>2
<1>6. ASSUME NEW p \in caller.todo, NativeCleanup, Free(location[p]),
             caller' = [caller EXCEPT !.todo = @ \ {p}]
      PROVE  memory'[location'[q]] # "live"
  <2>1. p \in Params /\ UNCHANGED location
    BY <1>6 DEF TypeOK, NativeCleanup
  <2>2. CASE p = q
    BY <1>6, <2>1, <2>2, FreeType DEF Freed
  <2>3. CASE p # q
    <3>1. Past(q)
      BY <1>6, <2>3 DEF NativeCleanup, TypeOK
    <3>2. location[q] # location[p]
      BY <1>1, <2>1, <2>3, OwnLocation
    <3>3. QED
      BY <1>2, <1>6, <2>1, <3>1, <3>2, FreeType
  <2>4. QED
    BY <2>2, <2>3
<1>7. ASSUME NEW p \in Params, UNCHANGED location, Read(location[p]),
             NativeToManaged \/ NativeReads(p) \/ CallbackToManaged
      PROVE  memory'[location'[q]] # "live"
  <2>1. caller.at \in {"call", "fromNative"}
    BY <1>7 DEF NativeToManaged, NativeReads, CallbackToManaged, StageInv
  <2>2. ~NativeCleanup
    BY <2>1 DEF NativeCleanup
  <2>3. QED
    BY <1>3, <2>1, <2>2
<1>8. CASE ManagedToNative \/ CallbackToNative \/ Invoke \/ Back
  <2>1. caller.at \in {"toNative", "call"}
    BY <1>8 DEF ManagedToNative, CallbackToNative, Invoke, Back, StageInv
  <2>2. ~NativeCleanup
    BY <2>1 DEF NativeCleanup
  <2>3. QED
    BY <1>3, <2>1, <2>2
<1>9. CASE \/ \E p \in Params : NativeWrites(p)
           \/ \E code \in {"ok", "failed"} : NativeReturns(code)
  <2>1. caller.at = "call"
    BY <1>9 DEF NativeWrites, NativeReturns, StageInv
  <2>2. ~NativeCleanup
    BY <2>1 DEF NativeCleanup
  <2>3. QED
    BY <1>3, <2>1, <2>2
<1> HIDE DEF Past, Over
<1>10. QED
  BY <1>5, <1>6, <1>7, <1>8, <1>9, StepKinds

LEMMA PinnedStep ==
  ASSUME PinnedInv, [Next]_vars
  PROVE  PinnedInv'
<1>1. CASE Invoke \/ Back
  BY <1>1, SignatureKept DEF PinnedInv, Invoke, Back
<1>2. CASE ~Invoke /\ ~Back
  <2>1. pinned' = pinned
    BY <1>2 DEF Next, vars, ManagedToNative, NativeToManaged, BeginCleanup,
           NativeCleanup, CheckError, NativeReads, NativeWrites, NativeReturns,
           NativeCallsBack, ToCallback, CallbackToManaged, Implementation,
           CallbackToNative, CallbackReturns, Catch, Lose, LoseReceiver, Finished
  <2>2. QED
    BY <2>1, SignatureKept DEF PinnedInv
<1>3. QED
  BY <1>1, <1>2

(* The locations as they are converted, pinned and replaced.               *)
LEMMA ConversionsStep ==
  ASSUME TypeOK, StageInv, PinnedInv, Conversions, [Next]_vars
  PROVE  Conversions'
<1> DEFINE Good(q) ==
      /\ location'[q] = Characters(q) => q \in pinned'
      /\ location'[q] = Wrapper(q) => q \in Of({"object"}, {"in"})
      /\ Direction(q) # "out" /\ ((caller'.at = "toNative" /\ q \notin caller'.todo)
                                  \/ caller'.at = "call") =>
           /\ Kind(q) \in {"text", "struct"} => location'[q] \in Blocks
           /\ Kind(q) = "object" => location'[q] = Wrapper(q)
           /\ Kind(q) = "wide" /\ caller'.at = "call" => location'[q] = Characters(q)
<1> SUFFICES ASSUME NEW q \in Params
             PROVE  Good(q)
  BY SignatureKept DEF Conversions, Converted
<1>1. /\ location[q] = Characters(q) => q \in pinned
      /\ location[q] = Wrapper(q) => q \in Of({"object"}, {"in"})
      /\ Direction(q) # "out" /\ Converted(q) =>
           /\ Kind(q) \in {"text", "struct"} => location[q] \in Blocks
           /\ Kind(q) = "object" => location[q] = Wrapper(q)
           /\ Kind(q) = "wide" /\ caller.at = "call" => location[q] = Characters(q)
  BY DEF Conversions
<1>2. Direction(q) # "out" <=> q \in InRefInRefParameters
  BY SignatureFacts DEF InRefInRefParameters, Of, TypeOK
<1>3. CASE ManagedToNative
  <2>1. CASE caller' = Frame("aborted", {}) /\ UNCHANGED <<location, memory>>
    BY <1>1, <1>3, <2>1 DEF ManagedToNative, Frame
  <2>2. CASE \E p \in caller.todo : ConvertTo("caller", p)
                                    /\ caller' = [caller EXCEPT !.todo = @ \ {p}]
    <3>1. PICK p \in caller.todo : ConvertTo("caller", p)
                                   /\ caller' = [caller EXCEPT !.todo = @ \ {p}]
      BY <2>2
    <3>2. /\ p \in Params /\ "caller" \in Owners
          /\ p \in InRefInRefParameters
          /\ caller.at = "toNative" /\ caller'.at = "toNative"
          /\ caller'.todo = caller.todo \ {p}
          /\ pinned' = pinned
      BY <1>3 , <3>1 DEF TypeOK, Owners, StageInv, ManagedToNative
    <3>3. CASE p = q
      <4>1. Kind(q) \in {"text", "struct", "wide", "object"}
        BY SignatureFacts DEF TypeOK, All
      <4>2. CASE Kind(q) \in {"text", "struct"}
        <5>1. location'[q] = <<"caller", q>> /\ <<"caller", q>> \in Blocks
          BY <3>1, <3>2, <3>3, <4>2, ConvertType, BlockFacts
        <5>2. location'[q] \notin {Characters(q), Wrapper(q)}
          BY <5>1, BlockFacts
        <5>3. QED
          BY <3>2, <4>2, <5>1, <5>2
      <4>3. CASE Kind(q) = "wide"
        BY <3>1, <3>2, <3>3, <4>3, ConvertType, PointerFacts
      <4>4. CASE Kind(q) = "object"
        <5>1. location'[q] = Wrapper(q)
          BY <3>1, <3>2, <3>3, <4>4, ConvertType
        <5>2. q \in Of({"object"}, {"in"})
          BY <1>2, <3>2, <3>3, <4>4, SignatureFacts DEF Of, TypeOK
        <5>3. QED
          BY <3>2, <4>4, <5>1, <5>2, PointerFacts
      <4>5. QED
        BY <4>1, <4>2, <4>3, <4>4
    <3>4. CASE p # q
      <4>1. location'[q] = location[q]
        BY <3>1, <3>2, <3>4, ConvertType
      <4>2. QED
        BY <1>1, <3>2, <3>4, <4>1 DEF Converted
    <3>5. QED
      BY <3>3, <3>4
  <2>3. QED
    <3>1. caller.todo \in SUBSET Params
      BY DEF TypeOK
    <3>2. First(caller.todo) \in caller.todo
      BY <1>3, <3>1, FirstIn DEF ManagedToNative
    <3>3. QED
      BY <1>3, <2>1, <2>2, <3>2 DEF ManagedToNative
<1>4. CASE Invoke
  <2>1. /\ caller.at = "toNative" /\ caller.todo = {} /\ caller'.at = "call"
        /\ pinned' = Of({"wide"}, {"in"})
        /\ location'[q] = IF q \in pinned' THEN Characters(q) ELSE location[q]
    BY <1>4 DEF Invoke, Frame
  <2>2. Kind(q) = "wide" => q \in pinned'
    BY <2>1, SignatureFacts DEF Of, TypeOK
  <2>3. q \in pinned' => Kind(q) = "wide"
    BY <2>1 DEF Of
  <2>4. location[q] = Characters(q) => q \in pinned'
    BY <1>1, <2>1 DEF PinnedInv
  <2>5. Converted(q)
    BY <2>1 DEF Converted
  <2>6. CASE q \in pinned'
    BY <2>1, <2>3, <2>6, PointerFacts
  <2>7. CASE q \notin pinned'
    BY <1>1, <2>1, <2>2, <2>4, <2>5, <2>7
  <2>8. QED
    BY <2>6, <2>7
<1>5. CASE Back
  <2>1. /\ caller'.at = "fromNative"
        /\ location'[q] = IF q \in pinned THEN Null ELSE location[q]
    BY <1>5 DEF Back, Frame
  <2>2. QED
    BY <1>1, <2>1, PointerFacts
<1>6. ASSUME NEW p \in callback.todo, CallbackToNative, ConvertTo("callback", p)
      PROVE  Good(q)
  <2>1. /\ p \in Params /\ "callback" \in Owners
        /\ p \in LocalManagedReferenceParameters
        /\ caller.at = "call" /\ caller' = caller /\ pinned' = pinned
    BY <1>6 DEF TypeOK, Owners, CallbackToNative, StageInv
  <2>2. CASE p = q
    <3>1. /\ Kind(q) \in {"text", "struct", "object"}
          /\ Kind(q) = "object" => Direction(q) = "out"
      BY <2>1, <2>2, SignatureFacts DEF LocalManagedReferenceParameters, Of, TypeOK, All
    <3>2. CASE Kind(q) \in {"text", "struct"}
      <4>1. location'[q] = <<"callback", q>> /\ <<"callback", q>> \in Blocks
        BY <1>6, <2>1, <2>2, <3>2, ConvertType, BlockFacts
      <4>2. location'[q] \notin {Characters(q), Wrapper(q)}
        BY <4>1, BlockFacts
      <4>3. QED
        BY <2>1, <3>2, <4>1, <4>2
    <3>3. CASE Kind(q) = "object"
      <4>1. location'[q] = Foreign(q)
        BY <1>6, <2>1, <2>2, <3>3, ConvertType
      <4>2. QED
        BY <2>1, <3>1, <3>3, <4>1, PointerFacts
    <3>4. QED
      BY <3>1, <3>2, <3>3
  <2>3. CASE p # q
    <3>1. location'[q] = location[q]
      BY <1>6, <2>1, <2>3, ConvertType
    <3>2. QED
      BY <1>1, <2>1, <3>1 DEF Converted
  <2>4. QED
    BY <2>2, <2>3
<1>7. ASSUME NEW p \in Params, NativeWrites(p)
      PROVE  Good(q)
  <2>1. caller' = caller /\ pinned' = pinned /\ caller.at = "call"
    BY <1>7 DEF NativeWrites, StageInv
  <2>2. CASE p = q /\ Kind(q) = "object"
    <3>1. Direction(q) = "out" /\ location'[q] = Foreign(q)
      BY <1>7, <2>2, WriteEffect, SignatureFacts DEF TypeOK
    <3>2. QED
      BY <3>1, PointerFacts
  <2>3. CASE p = q /\ Kind(q) = "struct"
    <3>1. location'[q] = <<"function", q>> /\ <<"function", q>> \in Blocks
      BY <1>7, <2>3, WriteEffect, BlockFacts DEF Owners
    <3>2. location'[q] \notin {Characters(q), Wrapper(q)}
      BY <3>1, BlockFacts
    <3>3. QED
      BY <2>3, <3>1, <3>2
  <2>4. CASE p # q
    <3>1. location'[q] = location[q]
      BY <1>7, <2>4, WriteEffect
    <3>2. QED
      BY <1>1, <2>1, <3>1 DEF Converted
  <2>5. QED
    BY <1>7, <2>2, <2>3, <2>4, WriteEffect
<1>8. CASE NativeToManaged \/ NativeCleanup
  <2>1. caller'.at \notin {"toNative", "call"} /\ UNCHANGED <<location, pinned>>
    BY <1>8, BackStep DEF NativeToManaged, NativeCleanup, TypeOK
  <2>2. QED
    BY <1>1, <2>1
<1>9. CASE BeginCleanup \/ CheckError
  <2>1. caller'.at \notin {"toNative", "call"} /\ UNCHANGED <<location, pinned>>
    BY <1>9 DEF BeginCleanup, CheckError, Frame
  <2>2. QED
    BY <1>1, <2>1
<1>10. CASE CallbackToNative
  <2>1. CASE \E p \in callback.todo : ConvertTo("callback", p)
    BY <1>6, <1>10, <2>1
  <2>2. CASE UNCHANGED <<location, memory>>
    <3>1. UNCHANGED <<caller, pinned>>
      BY <1>10 DEF CallbackToNative
    <3>2. QED
      BY <1>1, <2>2, <3>1 DEF Converted
  <2>3. QED
    <3>1. callback.todo \in SUBSET Params
      BY DEF TypeOK
    <3>2. First(callback.todo) \in callback.todo
      BY <1>10, <3>1, FirstIn DEF CallbackToNative
    <3>3. QED
      BY <1>10, <2>1, <2>2, <3>2 DEF CallbackToNative
<1>11. CASE \/ \E p \in Params : NativeReads(p) \/ NativeCallsBack(p)
            \/ \E code \in {"ok", "failed"} : NativeReturns(code)
            \/ ToCallback \/ CallbackToManaged \/ Implementation
            \/ CallbackReturns \/ Catch \/ (\E p \in Params : Lose(p)) \/ LoseReceiver
            \/ Finished \/ UNCHANGED vars
  <2>1. UNCHANGED <<caller, location, pinned>>
    BY <1>11 DEF NativeReads, NativeCallsBack, NativeReturns, ToCallback,
                 CallbackToManaged, Implementation, CallbackReturns, Catch, Lose, LoseReceiver,
                 Finished, vars
  <2>2. QED
    BY <1>1, <2>1 DEF Converted
<1> HIDE DEF Good
<1>12. QED
  BY <1>3, <1>4, <1>5, <1>7, <1>8, <1>9, <1>10, <1>11 DEF Next

(* An argument is used for the last time in its cleanup.                   *)
LEMMA AliveStep ==
  ASSUME TypeOK, StageInv, KeptAlive, [Next]_vars
  PROVE  KeptAlive'
<1> SUFFICES ASSUME "dispose" \notin Permitted, caller'.at \in {"toNative", "call"},
                    NEW q \in Of({"object"}, {"in"})
             PROVE  object'[q] = "alive"
  BY SignatureKept DEF KeptAlive
<1>1. caller.at \in {"toNative", "call"}
  <2>1. CASE ManagedToNative \/ Invoke
    BY <2>1 DEF ManagedToNative, Invoke
  <2>2. CASE Back \/ BeginCleanup \/ CheckError
    BY <2>2 DEF Back, BeginCleanup, CheckError, Frame
  <2>3. CASE NativeToManaged \/ NativeCleanup
    BY <2>3, BackStep DEF NativeCleanup, TypeOK
  <2>4. CASE \/ \E p \in Params : NativeReads(p) \/ NativeWrites(p) \/ NativeCallsBack(p)
             \/ \E code \in {"ok", "failed"} : NativeReturns(code)
             \/ ToCallback \/ CallbackToManaged \/ Implementation \/ CallbackToNative
             \/ CallbackReturns \/ Catch \/ (\E p \in Params : Lose(p)) \/ LoseReceiver
             \/ Finished \/ UNCHANGED vars
    <3>1. caller' = caller
      BY <2>4 DEF NativeReads, NativeWrites, NativeCallsBack, NativeReturns, ToCallback,
                  CallbackToManaged, Implementation, CallbackToNative, CallbackReturns,
                  Catch, Lose, LoseReceiver, Finished, vars
    <3>2. QED
      BY <3>1
  <2>5. QED
    BY <2>1, <2>2, <2>3, <2>4 DEF Next
<1>2. object[q] = "alive"
  BY <1>1 DEF KeptAlive
<1>3. ASSUME NEW p \in Params
      PROVE  ~Lose(p)
  BY <1>1 DEF Lose, LoseReceiver, StillUsed, Ended
<1>4. object' = object
  BY <1>3 DEF Next, vars, ManagedToNative, Invoke, Back, NativeToManaged, BeginCleanup,
         NativeCleanup, CheckError, NativeReads, NativeWrites, NativeReturns,
         NativeCallsBack, ToCallback, CallbackToManaged, Implementation,
         CallbackToNative, CallbackReturns, Catch, LoseReceiver, Finished
<1>5. QED
  BY <1>2, <1>4

(* An exception is caught once, and its code answered; the function        *)
(* returns once, and its code is checked after that.                       *)
LEMMA CodeStep ==
  ASSUME TypeOK, StageInv, CodeInv, [Next]_vars
  PROVE  CodeInv'
<1> USE DEF CodeInv
<1>1. /\ callback \in [at : {"none", "find", "toManaged", "toNative", "catch", "done",
                             "raised", "crossed"}, todo : SUBSET Params, target : Params]
      /\ caller \in [at : {"toNative", "call", "fromNative", "cleanup", "returned",
                           "threw", "aborted"}, todo : SUBSET Params]
      /\ exception \in {"none", "failure", "success"}
      /\ result \in {"ok", "failed"}
  BY DEF TypeOK
<1>2. CASE ManagedToNative \/ NativeToManaged \/ NativeCleanup
  <2>1. UNCHANGED <<rule, callback, exception, answer, result>>
    BY <1>2 DEF ManagedToNative, NativeToManaged, NativeCleanup
  <2>2. caller'.at \notin {"returned", "threw"}
    BY <1>1, <1>2, BackStep DEF ManagedToNative, NativeCleanup, Frame
  <2>3. QED
    BY <2>1, <2>2
<1>3. CASE Invoke \/ Back \/ BeginCleanup
  BY <1>3 DEF Invoke, Back, BeginCleanup, Frame
<1>4. CASE CheckError
  <2>1. /\ caller'.at = IF rule = "checked" /\ result = "failed" THEN "threw" ELSE "returned"
        /\ UNCHANGED <<rule, callback, exception, answer, result>>
    BY <1>4 DEF CheckError, Failing, Frame
  <2>2. QED
    BY <1>1, <2>1
<1>5. CASE \/ \E p \in Params : NativeReads(p) \/ NativeWrites(p)
           \/ (\E p \in Params : Lose(p)) \/ LoseReceiver \/ Finished \/ UNCHANGED vars
  <2>1. UNCHANGED <<rule, caller, callback, exception, answer, result>>
    BY <1>5 DEF NativeReads, NativeWrites, Lose, LoseReceiver, Finished, vars
  <2>2. QED
    BY <2>1
<1>6. ASSUME NEW p \in Params, NativeCallsBack(p)
      PROVE  CodeInv'
  <2>1. /\ callback = Target /\ callback'.at = "find"
        /\ UNCHANGED <<rule, caller, exception, answer, result>>
    BY <1>6 DEF NativeCallsBack
  <2>2. QED
    BY <2>1 DEF Target
<1>7. ASSUME NEW code \in {"ok", "failed"}, NativeReturns(code)
      PROVE  CodeInv'
  <2>1. caller.at = "call" /\ UNCHANGED <<rule, caller, callback, exception, answer>>
    BY <1>7 DEF NativeReturns, StageInv
  <2>2. QED
    BY <2>1
<1>8. CASE ToCallback
  <2>1. callback.at = "find" /\ callback'.at \in {"toManaged", "crossed"}
        /\ UNCHANGED <<rule, caller, exception, answer, result>>
    BY <1>1, <1>8 DEF ToCallback
  <2>2. QED
    BY <2>1
<1>9. CASE CallbackToManaged \/ Implementation \/ CallbackToNative
  <2>1. /\ callback.at \in {"toManaged", "toNative"}
        /\ UNCHANGED <<rule, caller, answer, result>>
    BY <1>9 DEF CallbackToManaged, Implementation, CallbackToNative
  <2>2. \/ callback'.at \in {"toManaged", "toNative"} /\ exception' = exception
        \/ callback'.at = "catch"
    BY <1>1, <1>9 DEF CallbackToManaged, Implementation, CallbackToNative, Throw
  <2>3. QED
    BY <2>1, <2>2
<1>10. CASE CallbackReturns
  <2>1. /\ callback.at = "toNative" /\ callback'.at = "done"
        /\ UNCHANGED <<rule, caller, exception, result>>
    BY <1>1, <1>10 DEF CallbackReturns, Resume
  <2>2. QED
    BY <2>1
<1>11. CASE Catch
  <2>1. UNCHANGED <<rule, caller, exception, result>>
    BY <1>11 DEF Catch
  <2>2. \/ /\ callback'.at = "raised"
           /\ answer' = IF exception = "failure" /\ rule # "none" THEN "failed" ELSE "ok"
        \/ callback'.at = "crossed"
    BY <1>1, <1>11 DEF Catch, Resume
  <2>3. QED
    BY <2>1, <2>2
<1>12. QED
  BY <1>2, <1>3, <1>4, <1>5, <1>6, <1>7, <1>8, <1>9, <1>10, <1>11 DEF Next

(* What ToCallback looks for is alive while the function runs, and nothing *)
(* but that and RaiseException throws outside the try.                     *)
LEMMA CrossStep ==
  ASSUME TypeOK, StageInv, KeptAlive, CrossInv, [Next]_vars
  PROVE  CrossInv'
<1> SUFFICES ASSUME {"retain", "dispose", "raise"} \cap Permitted = {}
             PROVE  native' # "late" /\ callback'.at # "crossed"
  BY DEF CrossInv
<1>1. native # "late" /\ callback.at # "crossed"
  BY DEF CrossInv
<1>2. callback \in [at : {"none", "find", "toManaged", "toNative", "catch", "done",
                          "raised", "crossed"}, todo : SUBSET Params, target : Params]
  BY DEF TypeOK
<1>3. CASE \/ ManagedToNative \/ Invoke \/ Back \/ NativeToManaged \/ BeginCleanup
           \/ NativeCleanup \/ CheckError
           \/ (\E p \in Params : NativeReads(p) \/ NativeWrites(p) \/ Lose(p))
           \/ (\E code \in {"ok", "failed"} : NativeReturns(code))
           \/ LoseReceiver \/ Finished \/ UNCHANGED vars
  <2>1. callback' = callback /\ native' \in {native, "running", "returned"}
    BY <1>3 DEF ManagedToNative, Invoke, Back, NativeToManaged, BeginCleanup,
         NativeCleanup, CheckError, NativeReads, NativeWrites, NativeReturns, Lose,
         LoseReceiver, Finished, vars
  <2>2. QED
    BY <1>1, <2>1
<1>4. ASSUME NEW p \in Params, NativeCallsBack(p)
      PROVE  native' # "late" /\ callback'.at # "crossed"
  BY <1>4 DEF NativeCallsBack
<1>5. CASE ToCallback
  <2>1. native = "calling" /\ caller.at = "call"
    BY <1>1, <1>5 DEF ToCallback, StageInv
  <2>2. object[callback.target] = "alive"
    BY <1>5, <2>1 DEF ToCallback, StageInv, KeptAlive
  <2>3. QED
    BY <1>1, <1>2, <1>5, <2>2 DEF ToCallback
<1>6. CASE CallbackToManaged \/ Implementation \/ CallbackToNative
  <2>1. /\ native' = native
        /\ callback'.at \in {callback.at, "toNative", "catch"}
    BY <1>2, <1>6 DEF CallbackToManaged, Implementation, CallbackToNative, Throw
  <2>2. QED
    BY <1>1, <2>1
<1>7. CASE CallbackReturns \/ Catch
  <2>1. /\ native' \in {"running", "returned", native}
        /\ callback'.at \in {"done", "raised"}
    BY <1>2, <1>7 DEF CallbackReturns, Catch, Resume
  <2>2. QED
    BY <1>1, <2>1
<1>8. QED
  BY <1>3, <1>4, <1>5, <1>6, <1>7 DEF Next

(* The invariant of every step.                                            *)
CallInv ==
  /\ TypeOK
  /\ StageInv
  /\ OwnBlocks
  /\ HeldIsLive
  /\ MemoryInv
  /\ LiveIsHeld
  /\ CleanedUp
  /\ PinnedInv
  /\ Conversions
  /\ KeptAlive
  /\ CodeInv
  /\ CrossInv

LEMMA CallInvInit == Init => CallInv
<1> SUFFICES ASSUME Init PROVE CallInv
  OBVIOUS
<1> USE DEF Init
<1>1. TypeOK
  BY InitType
<1>2. StageInv
  BY DEF StageInv, Frame, Target
<1>3. OwnBlocks /\ LiveIsHeld /\ HeldIsLive
  BY BlockFacts DEF OwnBlocks, LiveIsHeld, HeldIsLive
<1>4. MemoryInv
  BY DEF MemoryInv, MemorySafe
<1>5. CleanedUp
  BY DEF CleanedUp, Frame
<1>6. PinnedInv
  BY DEF PinnedInv
<1>7. Conversions
  <2> SUFFICES ASSUME NEW p \in Params
               PROVE  /\ Null \notin {Characters(p), Wrapper(p)}
                      /\ Converted(p) => Direction(p) = "out"
    BY DEF Conversions
  <2>1. Null \notin {Characters(p), Wrapper(p)}
    BY PointerFacts
  <2>2. Direction(p) \in {"in", "ref", "out"}
    BY SignatureFacts
  <2>3. p \notin InRefInRefParameters => Direction(p) = "out"
    BY <2>2, SignatureFacts DEF InRefInRefParameters, Of
  <2>4. QED
    BY <2>1, <2>3 DEF Converted, Frame
<1>8. KeptAlive
  BY ParameterSets DEF KeptAlive
<1>9. CodeInv /\ CrossInv
  BY DEF CodeInv, CrossInv, Target, Frame
<1>10. QED
  BY <1>1, <1>2, <1>3, <1>4, <1>5, <1>6, <1>7, <1>8, <1>9 DEF CallInv

LEMMA CallInvStep == CallInv /\ [Next]_vars => CallInv'
BY TypeStep, StageStep, OwnStep, HeldStep, MemoryStep, LiveStep, CleanedStep, PinnedStep,
   ConversionsStep, AliveStep, CodeStep, CrossStep DEF CallInv

LEMMA CallInvHolds == Spec => []CallInv
BY CallInvInit, CallInvStep, PTL DEF Spec

(* MemorySafe: whatever the function and a callback replace, and whatever  *)
(* throws, the generated code and the native function use no block that is *)
(* not live; a failing function leaves no freed pointer behind.            *)
THEOREM MemoryIsSafe == ASSUME "stale" \notin Permitted
                        PROVE  Spec => []MemorySafe
<1>1. CallInv => MemorySafe
  BY DEF CallInv, MemoryInv
<1>2. QED
  BY <1>1, CallInvHolds, PTL

(* CallLeavesNothing: whatever goes wrong, a call that returns, or throws  *)
(* as the function failed, has freed all it converted and what was put in  *)
(* its place, save what the conversion of a callback overwrote.            *)
THEOREM NothingIsLeft == Spec => []CallLeavesNothing
<1>1. CallInv => CallLeavesNothing
  <2> SUFFICES ASSUME CallInv, caller.at \in {"returned", "threw"},
                      NEW p \in InRefInRefParameters
               PROVE  /\ location[p] \in Blocks => memory[location[p]] # "live"
                      /\ Left(p) # {} => memory[<<"callback", p>>] # "none"
    BY DEF CallLeavesNothing
  <2>1. location[p] \in Blocks => memory[location[p]] # "live"
    BY DEF CallInv, CleanedUp
  <2>2. ASSUME NEW o \in Owners, memory[<<o, p>>] = "live",
               memory[<<"callback", p>>] = "none"
        PROVE  FALSE
    <3>1. location[p] = <<o, p>>
      BY <2>2, ParameterSets DEF CallInv, LiveIsHeld
    <3>2. QED
      BY <2>1, <2>2, <3>1, ParameterSets, BlockFacts
  <2>3. QED
    BY <2>1, <2>2 DEF Left
<1>2. QED
  BY <1>1, CallInvHolds, PTL

(* ArgumentsUsable: the native function may use its arguments as long as   *)
(* it runs, whenever the collector runs, unless another thread disposes of *)
(* them.                                                                   *)
THEOREM ArgumentsStayUsable == ASSUME "dispose" \notin Permitted
                               PROVE  Spec => []ArgumentsUsable
<1>1. CallInv => ArgumentsUsable
  <2> SUFFICES ASSUME CallInv, native \in {"running", "calling"}, NEW p \in Params
               PROVE  Usable(p)
    BY DEF ArgumentsUsable
  <2>1. caller.at = "call" /\ InUse(p) /\ Converted(p)
    BY DEF CallInv, StageInv, InUse, Converted
  <2>2. location[p] \in Blocks => memory[location[p]] = "live"
    BY <2>1 DEF CallInv, HeldIsLive
  <2>3. location[p] = Characters(p) => p \in pinned
    BY DEF CallInv, Conversions
  <2>4. location[p] = Wrapper(p) => object[p] = "alive"
    BY <2>1 DEF CallInv, Conversions, KeptAlive
  <2>5. location[p] \notin Blocks \cup {Characters(p), Wrapper(p)} => Direction(p) = "out"
    BY <2>1, SignatureFacts DEF CallInv, Conversions, TypeOK, All
  <2>6. QED
    BY <2>2, <2>3, <2>4, <2>5, BlockFacts, PointerFacts DEF Usable
<1>2. QED
  BY <1>1, CallInvHolds, PTL

(* FailureArrives: no exception of a callback unwinds native frames, and   *)
(* native code is told of each that has a failing code; what the function  *)
(* makes of it is thrown if it fails and is checked, and else the call     *)
(* returns.  Native code keeps no callback without a reference, nobody     *)
(* disposes of it, and RaiseException does not throw.  The function need   *)
(* not pass on what it is told, nor need its code be checked.              *)
THEOREM FailuresArrive == ASSUME {"retain", "dispose", "raise"} \cap Permitted = {}
                          PROVE  Spec => []FailureArrives
<1>1. CallInv => FailureArrives
  <2> SUFFICES ASSUME CallInv
               PROVE  FailureArrives
    OBVIOUS
  <2>1. callback.at # "crossed"
    BY DEF CallInv, CrossInv
  <2>2. exception = "failure" /\ callback.at # "catch" => callback.at = "raised"
    BY <2>1 DEF CallInv, CodeInv
  <2>3. QED
    BY <2>1, <2>2 DEF FailureArrives, NothingCrosses, CallInv, CodeInv
<1>2. QED
  BY <1>1, CallInvHolds, PTL
=============================================================================
