----------------------------- MODULE GeneratedCall -----------------------------
(***************************************************************************)
(* One call of a method that SharpGen generates: its C# body converts the  *)
(* arguments, calls the native function, converts the results, frees what  *)
(* it allocated and checks the returned code, which its rule says what     *)
(* becomes of: a failure that is "checked" is thrown, a code is "returned" *)
(* to the caller or "dropped", as a parameter is returned in its place, or *)
(* there is "none".  The native function may call a managed object it was  *)
(* given, through the function generated for callbacks, which forwards the *)
(* same parameters; the garbage collector runs at any time.                *)
(*                                                                         *)
(* A parameter is a kind (how its marshaller treats it) and a direction:   *)
(* "text" is converted to a block of native memory, "wide" is pinned where *)
(* it is, "struct" holds a text, "object" is an interface.  A parameter    *)
(* has one location, what the native function reads and writes.            *)
(***************************************************************************)
EXTENDS Naturals

CONSTANTS
  Arity,      \* parameters of the method
  Permitted   \* what may go wrong, members of Mishaps

Mishaps == {"convert",   \* a conversion throws (no memory, no such wrapper)
            "dispose",   \* another thread disposes of an argument
            "retain",    \* native code keeps a callback without a reference
            "hresult",   \* an exception has an HResult that is no failure
            "stale",     \* a failing function leaves a freed pointer behind
            "raise"}     \* RaiseException throws

ASSUME ArityAssumption == Arity \in Nat \ {0}
ASSUME PermittedAssumption == Permitted \subseteq Mishaps

VARIABLES
  signature,  \* kind and direction of every parameter
  rule,       \* what becomes of the code the method returns
  caller,     \* the generated method: stage, and parameters it has yet to do
  native,     \* the native function
  callback,   \* the function generated for callbacks, likewise, and its target
  location,   \* what every parameter's native location holds
  memory,     \* blocks of native memory
  object,     \* the managed objects that are arguments
  receiver,   \* the object whose method is called
  pinned,     \* parameters whose characters cannot be moved
  exception,  \* what the managed implementation threw
  answer,     \* code the callback returned to native code
  result      \* code the native function returns

vars == <<signature, rule, caller, native, callback, location, memory, object,
          receiver, pinned, exception, answer, result>>

-----------------------------------------------------------------------------
Params == 1..Arity

(* MarshalledElementFactory makes no text that is out and no interface     *)
(* that is ref: such pointers are left to the user.  What is generated for *)
(* a wide text that is ref does not compile.                               *)
Parameter == {<<"wide", "in">>} \cup ({"text"} \X {"in", "ref"})
             \cup ({"object"} \X {"in", "out"}) \cup ({"struct"} \X {"in", "ref", "out"})
Kind(p) == signature[p][1]
Direction(p) == signature[p][2]
Of(kinds, directions) == {p \in Params : Kind(p) \in kinds /\ Direction(p) \in directions}
All == {"text", "wide", "struct", "object"}

(* InRefInRefParameters and LocalManagedReferenceParameters.               *)
InRefInRefParameters == Of(All, {"in", "ref"})
LocalManagedReferenceParameters == Of(All, {"ref", "out"})

(* The parameters of the object's own method, when the function calls it.  *)
(* A method for callbacks takes a text that is ref for the address of a    *)
(* pointer, which is not what the caller passes: it is left out.           *)
Forwarded(S) == S \ Of({"text"}, {"ref"})

(* A block is named after who allocates it and for which parameter: each   *)
(* does so once in a call.                                                 *)
Owners == {"caller", "function", "callback"}
Blocks == Owners \X Params
Null == <<>>
Characters(p) == <<"characters", p>>
Wrapper(p) == <<"wrapper", p>>
Foreign(p) == <<"foreign", p>>
Pointers == {Null} \cup Blocks \cup ({"characters", "wrapper", "foreign"} \X Params)

First(S) == CHOOSE p \in S : \A q \in S : p <= q

(* Using a block that is not live is undefined: it stays misused.          *)
Freed(b) == IF memory[b] = "live" THEN "freed" ELSE "misused"
Used(b) == IF memory[b] = "live" THEN "live" ELSE "misused"

Read(q) == IF q \in Blocks THEN memory' = [memory EXCEPT ![q] = Used(q)]
                           ELSE UNCHANGED memory
Free(q) == IF q \in Blocks THEN memory' = [memory EXCEPT ![q] = Freed(q)]
                           ELSE UNCHANGED memory

(* Marshal.StringTo.., __MarshalTo, NativePointer or ToCallbackPtr.        *)
ConvertTo(owner, p) ==
  IF Kind(p) \in {"text", "struct"}
  THEN /\ location' = [location EXCEPT ![p] = <<owner, p>>]
       /\ memory' = [memory EXCEPT ![<<owner, p>>] = "live"]
  ELSE /\ location' = [location EXCEPT ![p] =
                         CASE Kind(p) = "wide" -> Null
                           [] Kind(p) = "object" /\ owner = "caller" -> Wrapper(p)
                           [] OTHER -> Foreign(p)]
       /\ UNCHANGED memory

-----------------------------------------------------------------------------
Frame(at, todo) == [at |-> at, todo |-> todo]
Target == [at |-> "none", todo |-> {}, target |-> 1]

Init ==
  /\ signature \in [Params -> Parameter]
  /\ rule \in {"checked", "returned", "dropped", "none"}
  /\ caller = Frame("toNative", InRefInRefParameters)
  /\ native = "idle"
  /\ callback = Target
  /\ location = [p \in Params |-> Null]
  /\ memory = [b \in Blocks |-> "none"]
  /\ object = [p \in Params |-> IF p \in Of({"object"}, {"in"}) THEN "alive" ELSE "none"]
  /\ receiver = "alive"
  /\ pinned = {}
  /\ exception = "none"
  /\ answer = "none"
  /\ result = "ok"

(* The body that CallableCodeGenerator writes.  There is no try: what a    *)
(* conversion throws leaves the method at once.                            *)
ManagedToNative ==
  /\ caller.at = "toNative"
  /\ caller.todo # {}
  /\ LET p == First(caller.todo)
     IN  \/ /\ ConvertTo("caller", p)
            /\ caller' = [caller EXCEPT !.todo = @ \ {p}]
         \/ /\ "convert" \in Permitted
            /\ caller' = Frame("aborted", {})
            /\ UNCHANGED <<location, memory>>
  /\ UNCHANGED <<signature, rule, native, callback, object, receiver, pinned,
                 exception, answer, result>>

(* The fixed statements are nested around the call: the address of the     *)
(* characters is taken, and holds, for the time of the call.               *)
Invoke ==
  /\ caller.at = "toNative"
  /\ caller.todo = {}
  /\ caller' = Frame("call", {})
  /\ pinned' = Of({"wide"}, {"in"})
  /\ location' = [p \in Params |-> IF p \in pinned' THEN Characters(p) ELSE location[p]]
  /\ native' = "running"
  /\ UNCHANGED <<signature, rule, callback, memory, object, receiver, exception,
                 answer, result>>

Back ==
  /\ caller.at = "call"
  /\ native = "returned"
  /\ caller' = Frame("fromNative", LocalManagedReferenceParameters)
  /\ pinned' = {}
  /\ location' = [p \in Params |-> IF p \in pinned THEN Null ELSE location[p]]
  /\ UNCHANGED <<signature, rule, native, callback, memory, object, receiver,
                 exception, answer, result>>

NativeToManaged ==
  /\ caller.at = "fromNative"
  /\ caller.todo # {}
  /\ LET p == First(caller.todo)
     IN  /\ Read(location[p])
         /\ \/ caller' = [caller EXCEPT !.todo = @ \ {p}]
            \/ "convert" \in Permitted /\ caller' = Frame("aborted", {})
  /\ UNCHANGED <<signature, rule, native, callback, location, object, receiver,
                 pinned, exception, answer, result>>

BeginCleanup ==
  /\ caller.at = "fromNative"
  /\ caller.todo = {}
  /\ caller' = Frame("cleanup", InRefInRefParameters)
  /\ UNCHANGED <<signature, rule, native, callback, location, memory, object,
                 receiver, pinned, exception, answer, result>>

(* Seeded fault: the cleanup frees what the conversion allocated.          *)
FreeConverted ==
  /\ caller.at = "cleanup"
  /\ caller.todo # {}
  /\ LET p == First(caller.todo)
     IN  /\ Free(IF location[p] = Null THEN Null ELSE <<"caller", p>>)
         /\ caller' = [caller EXCEPT !.todo = @ \ {p}]
  /\ UNCHANGED <<signature, rule, native, callback, location, object, receiver,
                 pinned, exception, answer, result>>

(* FreeHGlobal, FreeCoTaskMem, FreeBSTR or __MarshalFree of what the       *)
(* location holds now, GC.KeepAlive of an object, nothing when pinned.     *)
NativeCleanup ==
  /\ caller.at = "cleanup"
  /\ caller.todo # {}
  /\ LET p == First(caller.todo)
     IN  /\ Free(location[p])
         /\ caller' = [caller EXCEPT !.todo = @ \ {p}]
  /\ UNCHANGED <<signature, rule, native, callback, location, object, receiver,
                 pinned, exception, answer, result>>

(* IsReturnTypeResult && CheckReturnType.                                  *)
Failing == rule = "checked" /\ result = "failed"

(* Seeded fault: the code is checked as soon as it is there.               *)
CheckBeforeCleanup ==
  /\ caller.at = "cleanup"
  /\ caller.todo = {} \/ Failing
  /\ caller' = Frame(IF Failing THEN "threw" ELSE "returned", {})
  /\ UNCHANGED <<signature, rule, native, callback, location, memory, object,
                 receiver, pinned, exception, answer, result>>

CheckError ==
  /\ caller.at = "cleanup"
  /\ caller.todo = {}
  /\ caller' = Frame(IF Failing THEN "threw" ELSE "returned", {})
  /\ UNCHANGED <<signature, rule, native, callback, location, memory, object,
                 receiver, pinned, exception, answer, result>>

Ended == caller.at \in {"returned", "threw", "aborted"}

-----------------------------------------------------------------------------
(* The native function, as the generated code expects it: it reads what it *)
(* is given, fills in what is out, and replaces what is ref after freeing  *)
(* the old value.  It cannot replace a text, which is passed by value.     *)
NativeReads(p) ==
  /\ native = "running"
  /\ Direction(p) # "out"
  /\ Read(location[p])
  /\ UNCHANGED <<signature, rule, caller, native, callback, location, object,
                 receiver, pinned, exception, answer, result>>

NativeWrites(p) ==
  /\ native = "running"
  /\ p \in Forwarded(LocalManagedReferenceParameters)
  /\ location[p] \notin ({"function", "callback"} \X Params)
  /\ IF Kind(p) = "object"
     THEN /\ location' = [location EXCEPT ![p] = Foreign(p)]
          /\ UNCHANGED memory
     ELSE /\ location' = [location EXCEPT ![p] = <<"function", p>>]
          /\ memory' = [b \in Blocks |-> IF b = <<"function", p>> THEN "live"
                                         ELSE IF b = location[p] THEN Freed(b)
                                         ELSE memory[b]]
  /\ UNCHANGED <<signature, rule, caller, native, callback, object, receiver,
                 pinned, exception, answer, result>>

(* It succeeds or fails, whatever the callback has answered.               *)
NativeReturns(code) ==
  /\ native = "running"
  /\ rule = "none" => code = "ok"
  /\ native' = "returned"
  /\ result' = code
  /\ memory' \in {memory} \cup
       {[memory EXCEPT ![b] = "freed"] :
          b \in {b \in {"function"} \X Of({"struct"}, {"out"}) :
                   /\ "stale" \in Permitted
                   /\ code = "failed"
                   /\ memory[b] = "live"}}
  /\ UNCHANGED <<signature, rule, caller, callback, location, object, receiver,
                 pinned, exception, answer>>

(* The function calls an object it was given, once in the call; code that  *)
(* has kept the pointer may do so when the call is over.                   *)
NativeCallsBack(p) ==
  /\ \/ native = "running"
     \/ native = "returned" /\ "retain" \in Permitted /\ Ended
  /\ callback = Target
  /\ p \in Of({"object"}, {"in"})
  /\ callback' = [at |-> "find", todo |-> {}, target |-> p]
  /\ native' = IF native = "running" THEN "calling" ELSE "late"
  /\ UNCHANGED <<signature, rule, caller, location, memory, object, receiver,
                 pinned, exception, answer, result>>

-----------------------------------------------------------------------------
(* The function that ShadowCallbackGenerator writes.                       *)

(* ToCallback stands before the try: what it throws goes to native code.   *)
ToCallback ==
  /\ callback.at = "find"
  /\ callback' = IF object[callback.target] = "alive"
                 THEN [callback EXCEPT !.at = "toManaged",
                         !.todo = IF native = "calling"
                                  THEN Forwarded(InRefInRefParameters) ELSE {}]
                 ELSE [callback EXCEPT !.at = "crossed"]
  /\ UNCHANGED <<signature, rule, caller, native, location, memory, object,
                 receiver, pinned, exception, answer, result>>

Throw(hresult) ==
  /\ exception' = hresult
  /\ callback' = [callback EXCEPT !.at = "catch", !.todo = {}]

CallbackToManaged ==
  /\ callback.at = "toManaged"
  /\ callback.todo # {}
  /\ LET p == First(callback.todo)
     IN  \/ /\ Read(location[p])
            /\ callback' = [callback EXCEPT !.todo = @ \ {p}]
            /\ UNCHANGED exception
         \/ /\ "convert" \in Permitted
            /\ Throw("failure")
            /\ UNCHANGED memory
  /\ UNCHANGED <<signature, rule, caller, native, location, object, receiver,
                 pinned, answer, result>>

(* The implementation returns, or throws any exception.                    *)
Implementation ==
  /\ callback.at = "toManaged"
  /\ callback.todo = {}
  /\ \/ /\ callback' = [callback EXCEPT !.at = "toNative",
                          !.todo = IF native = "calling"
                                   THEN Forwarded(LocalManagedReferenceParameters) ELSE {}]
        /\ UNCHANGED exception
     \/ Throw("failure")
     \/ "hresult" \in Permitted /\ Throw("success")
  /\ UNCHANGED <<signature, rule, caller, native, location, memory, object,
                 receiver, pinned, answer, result>>

(* What a ref location held is not freed.                                  *)
CallbackToNative ==
  /\ callback.at = "toNative"
  /\ callback.todo # {}
  /\ LET p == First(callback.todo)
     IN  \/ /\ ConvertTo("callback", p)
            /\ callback' = [callback EXCEPT !.todo = @ \ {p}]
            /\ UNCHANGED exception
         \/ /\ "convert" \in Permitted
            /\ Throw("failure")
            /\ UNCHANGED <<location, memory>>
  /\ UNCHANGED <<signature, rule, caller, native, object, receiver, pinned,
                 answer, result>>

Resume(at, code) ==
  /\ callback' = [callback EXCEPT !.at = at]
  /\ native' = IF native = "calling" THEN "running" ELSE "returned"
  /\ answer' = code

CallbackReturns ==
  /\ callback.at = "toNative"
  /\ callback.todo = {}
  /\ Resume("done", "ok")
  /\ UNCHANGED <<signature, rule, caller, location, memory, object, receiver,
                 pinned, exception, result>>

(* Seeded fault: the code of the exception is returned as it is.           *)
CatchRaw ==
  /\ callback.at = "catch"
  /\ Resume("raised", exception)
  /\ UNCHANGED <<signature, rule, caller, location, memory, object, receiver,
                 pinned, exception, result>>

(* Seeded fault: a failed callback answers the default code.               *)
CatchDefault ==
  /\ callback.at = "catch"
  /\ Resume("raised", "ok")
  /\ UNCHANGED <<signature, rule, caller, location, memory, object, receiver,
                 pinned, exception, result>>

(* The implementation is told (IExceptionCallback), in the catch itself;   *)
(* the code is the exception's HResult, of which the negative are failures,*)
(* or the default of whatever else is returned.                            *)
Catch ==
  /\ callback.at = "catch"
  /\ \/ Resume("raised", IF exception = "failure" /\ rule # "none" THEN "failed" ELSE "ok")
     \/ /\ "raise" \in Permitted
        /\ callback' = [callback EXCEPT !.at = "crossed"]
        /\ UNCHANGED <<native, answer>>
  /\ UNCHANGED <<signature, rule, caller, location, memory, object, receiver,
                 pinned, exception, result>>

-----------------------------------------------------------------------------
(* Seeded fault: an argument is used for the last time in its conversion.  *)
UsedUntilConverted(p) == caller.at = "toNative" /\ p \in caller.todo

(* An argument is used for the last time where its cleanup keeps it alive. *)
StillUsed(p) == ~Ended /\ (caller.at = "cleanup" => p \in caller.todo)

(* The collector takes an object nobody uses, or another thread disposes   *)
(* of it: the wrapper is freed, the native object released.                *)
Lose(p) ==
  /\ object[p] = "alive"
  /\ \/ /\ ~StillUsed(p)
        /\ ~(callback.target = p /\ callback.at \in {"toManaged", "toNative", "catch"})
     \/ "dispose" \in Permitted
  /\ object' = [object EXCEPT ![p] = "gone"]
  /\ UNCHANGED <<signature, rule, caller, native, callback, location, memory,
                 receiver, pinned, exception, answer, result>>

(* Once NativePointer is read nothing in the method uses the object whose  *)
(* method it is: the collector may take it, and what the pointer points to *)
(* is then released.  When the call is over that is nothing to it.         *)
LoseReceiver ==
  /\ caller.at = "call"
  /\ receiver = "alive"
  /\ receiver' = "gone"
  /\ UNCHANGED <<signature, rule, caller, native, callback, location, memory,
                 object, pinned, exception, answer, result>>

Finished ==
  /\ Ended \/ callback.at = "crossed"
  /\ callback.at \notin {"find", "toManaged", "toNative", "catch"}
  /\ UNCHANGED vars

Next ==
  \/ ManagedToNative \/ Invoke \/ Back \/ NativeToManaged \/ BeginCleanup
  \/ NativeCleanup \/ CheckError
  \/ \E p \in Params : NativeReads(p) \/ NativeWrites(p) \/ NativeCallsBack(p)
  \/ \E code \in {"ok", "failed"} : NativeReturns(code)
  \/ ToCallback \/ CallbackToManaged \/ Implementation \/ CallbackToNative
  \/ CallbackReturns \/ Catch
  \/ \E p \in Params : Lose(p)
  \/ LoseReceiver
  \/ Finished

Spec == Init /\ [][Next]_vars

-----------------------------------------------------------------------------
(* Properties.                                                             *)

(* Every variable holds a value of the generated code's locals.            *)
TypeOK ==
  /\ signature \in [Params -> Parameter]
  /\ rule \in {"checked", "returned", "dropped", "none"}
  /\ caller \in [at : {"toNative", "call", "fromNative", "cleanup", "returned",
                       "threw", "aborted"}, todo : SUBSET Params]
  /\ native \in {"idle", "running", "calling", "returned", "late"}
  /\ callback \in [at : {"none", "find", "toManaged", "toNative", "catch", "done",
                         "raised", "crossed"},
                   todo : SUBSET Params, target : Params]
  /\ location \in [Params -> Pointers]
  /\ memory \in [Blocks -> {"none", "live", "freed", "misused"}]
  /\ object \in [Params -> {"none", "alive", "gone"}]
  /\ receiver \in {"alive", "gone"}
  /\ pinned \subseteq Params
  /\ exception \in {"none", "failure", "success"}
  /\ answer \in {"none", "ok", "failed"}
  /\ result \in {"ok", "failed"}

(* Whatever was replaced by the function or by a callback on the way, no   *)
(* side reads a block that is not live, and none is freed twice.           *)
MemorySafe == \A b \in Blocks : memory[b] # "misused"

(* All the time the native function runs, what it was given is usable: the *)
(* blocks live, the characters pinned, the objects not collected, though   *)
(* the generated code does not use them any more before it returns.        *)
Usable(p) ==
  CASE location[p] \in Blocks -> memory[location[p]] = "live"
    [] location[p] = Characters(p) -> p \in pinned
    [] location[p] = Wrapper(p) -> object[p] = "alive"
    [] OTHER -> Direction(p) = "out" \/ location[p] = Foreign(p)
ArgumentsUsable == native \in {"running", "calling"} => \A p \in Params : Usable(p)

(* A call that returns, or throws since the function failed, has freed     *)
(* what it allocated and what was put in its place; only what a callback's *)
(* own conversion overwrote is left.                                       *)
Left(p) == {o \in Owners : memory[<<o, p>>] = "live"}
CallLeavesNothing ==
  caller.at \in {"returned", "threw"}
    => \A p \in InRefInRefParameters :
         /\ location[p] \in Blocks => memory[location[p]] # "live"
         /\ Left(p) # {} => memory[<<"callback", p>>] # "none"

(* No exception of a callback unwinds native frames.                       *)
NothingCrosses == callback.at # "crossed"

(* An exception of the managed implementation, or of a conversion of the   *)
(* callback, does not leave it as an exception: native code is told by a   *)
(* code, if there is one, and told nothing else later.  Whatever it makes  *)
(* of that, its own code is thrown when it is a failure that is checked,   *)
(* and otherwise the call returns.                                         *)
FailureArrives ==
  /\ NothingCrosses
  /\ exception = "failure" /\ callback.at # "catch" /\ rule # "none" => answer = "failed"
  /\ caller.at = "returned" /\ rule = "checked" => result = "ok"
  /\ caller.at = "threw" => rule = "checked" /\ result = "failed"

(* A call that returns or throws has freed every block it allocated.       *)
CallLeavesNothingAtAll ==
  Ended => \A p \in Params : memory[<<"caller", p>>] # "live"

(* What a function returned by an out parameter is freed as well.          *)
ReceivedIsFreed ==
  caller.at = "returned" => \A p \in Params : memory[<<"function", p>>] # "live"

(* Result.cs, line 176: the associated result code.  What an exception     *)
(* becomes is a failure.                                                   *)
ExceptionIsFailure == callback.at = "raised" /\ rule # "none" => answer = "failed"

(* Who calls a method that fails is told, by an exception or a code.       *)
FailureIsTold == caller.at = "returned" /\ result = "failed" => rule = "returned"

(* What the native function is called on is there as long as it runs.      *)
ReceiverUsable == native \in {"running", "calling"} => receiver = "alive"
=============================================================================
