--------------------------- MODULE IncrementalBuild ---------------------------
(***************************************************************************)
(* What SharpGenTask promises to the projects that use the bindings,       *)
(* without mutex, marker, caches or steps: a build either leaves bindings  *)
(* of the inputs as they are, in one step, or leaves nothing that a later  *)
(* build would trust; and what a build reported is still so when it        *)
(* returns, whatever other builds do.                                      *)
(***************************************************************************)
EXTENDS Naturals

CONSTANTS
  Builders,    \* who builds the profile
  Files,       \* the inputs the user edits
  MaxEdits(_)  \* the last version of an input

VARIABLES
  sources,   \* the versions of the inputs
  bindings,  \* the versions the trusted bindings were made from, or Nothing
  build      \* how far every builder is

Nothing == [f \in Files |-> 0]   \* no bindings, or bindings nobody trusts
absVars == <<sources, bindings, build>>

AbsTypeOK ==
  /\ sources \in [Files -> Nat]
  /\ bindings \in [Files -> Nat]
  /\ build \in [Builders -> {"none", "running", "succeeded"}]

AbsInit ==
  /\ sources = [f \in Files |-> 1]
  /\ bindings = Nothing
  /\ build = [b \in Builders |-> "none"]

Begin(b) ==
  /\ build[b] = "none"
  /\ build' = [build EXCEPT ![b] = "running"]
  /\ UNCHANGED <<sources, bindings>>

(* A build that regenerates withdraws what was there, but never under the  *)
(* hands of a build that reported success and has not returned yet.        *)
Withdraw(b) ==
  /\ build[b] = "running"
  /\ \A o \in Builders : build[o] # "succeeded"
  /\ bindings' = Nothing
  /\ UNCHANGED <<sources, build>>

(* Success, with or without work: the bindings are those of the inputs.    *)
Succeed(b) ==
  /\ build[b] = "running"
  /\ build' = [build EXCEPT ![b] = "succeeded"]
  /\ bindings' = sources
  /\ UNCHANGED sources

(* A build returns, fails or is killed.                                    *)
End(b) ==
  /\ build[b] # "none"
  /\ build' = [build EXCEPT ![b] = "none"]
  /\ UNCHANGED <<sources, bindings>>

Change(f) ==
  /\ \A b \in Builders : build[b] = "none"
  /\ sources[f] < MaxEdits(f)
  /\ sources' = [sources EXCEPT ![f] = @ + 1]
  /\ UNCHANGED <<bindings, build>>

AbsNext ==
  \/ \E b \in Builders : Begin(b) \/ Withdraw(b) \/ Succeed(b) \/ End(b)
  \/ \E f \in Files : Change(f)

AbsSpec == AbsInit /\ [][AbsNext]_absVars
=============================================================================
