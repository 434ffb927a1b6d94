----------------------------- MODULE TypeRegistry -----------------------------
(***************************************************************************)
(* The rules of the loaded configurations meet in the type registry, in    *)
(* the order of their registration: all define their C# types, then all    *)
(* bind C++ names to C# types, and what is not bound by then gets a type   *)
(* made from C++.  One C++ name is followed.                               *)
(***************************************************************************)
EXTENDS ConfigFile

CONSTANTS
  Types,         \* names of C# types
  Primitives,    \* those of primitive types, and pointers to them
  RuntimeTypes,  \* those that Type.GetType knows
  NoBinding      \* the file does not bind the name

Rule == [to : Types, override : BOOLEAN]

(* A project's files may define types and bind the name.                   *)
ASSUME RulesAssumption ==
  \A x \in Projects : /\ x.defines \in [Files -> SUBSET Types]
                      /\ x.binds \in [Files -> Rule \cup {NoBinding}]
ASSUME FundamentalAssumption == Primitives \cup RuntimeTypes \subseteq Types

States == {"absent", "defined", "undefined", "fundamental"}

VARIABLES
  type,    \* _mapDefinedCSharpType: what every name stands for
  bound,   \* _mapCppNameToCSharpType of the C++ name
  turn     \* the next configuration

registryVars == <<type, bound, turn>>
vars == <<configVars, registryVars>>

-----------------------------------------------------------------------------
Unbound == [by |-> 0, to |-> "", was |-> "absent"]
Generated == [by |-> 1, to |-> "generated", was |-> "defined"]

Init ==
  /\ ConfigInit
  /\ type = [t \in Types |-> "absent"]
  /\ bound = Unbound
  /\ turn = 1

Load == ConfigNext /\ UNCHANGED registryVars

HasRules(c) == configs[c].file # Root
Binding(c) == IF HasRules(c) THEN project.binds[configs[c].file] ELSE NoBinding
Defined(c) == IF HasRules(c) THEN project.defines[configs[c].file] ELSE {}
IsTurn(at) == phase = at /\ turn <= Len(registered)

(* What ImportType returns: a primitive type whatever is defined, what the *)
(* name stands for, a type of the runtime, or else an undefined type.  A   *)
(* primitive type is not entered into the dictionary, the others are.      *)
Imported(t) ==
  IF t \in Primitives THEN "fundamental"
  ELSE IF type[t] # "absent" THEN type[t]
  ELSE IF t \in RuntimeTypes THEN "fundamental" ELSE "undefined"
Import(t) == type' = IF t \in Primitives THEN type ELSE [type EXCEPT ![t] = Imported(t)]

(* Seeded fault: bindings are registered along with the definitions.       *)
DefineAndBind ==
  /\ IsTurn("define")
  /\ LET c == registered[turn]
         rule == Binding(c)
         known == [t \in Types |-> IF t \in Defined(c) /\ type[t] = "absent"
                                   THEN "defined" ELSE type[t]]
     IN  /\ type' = IF rule = NoBinding \/ known[rule.to] # "absent" THEN known
                    ELSE [known EXCEPT ![rule.to] = Imported(rule.to)]
         /\ bound' = IF rule # NoBinding /\ (bound = Unbound \/ rule.override)
                     THEN [by |-> c, to |-> rule.to, was |-> type'[rule.to]]
                     ELSE bound
  /\ turn' = turn + 1
  /\ UNCHANGED configVars

(* ProcessDefines: what a name stands for first stays.                     *)
Define ==
  /\ IsTurn("define")
  /\ type' = [t \in Types |-> IF t \in Defined(registered[turn]) /\ type[t] = "absent"
                              THEN "defined" ELSE type[t]]
  /\ turn' = turn + 1
  /\ UNCHANGED <<configVars, bound>>

NextPhase(from, to) ==
  /\ phase = from
  /\ turn > Len(registered)
  /\ phase' = to
  /\ turn' = 1
  /\ UNCHANGED <<project, configs, stack, registered, errors, type, bound>>

Defines == NextPhase("define", "bind")
Bindings == NextPhase("bind", "prepare")

(* Seeded fault: the last binding takes priority.                          *)
BindLast ==
  /\ IsTurn("bind")
  /\ LET rule == Binding(registered[turn])
     IN  IF rule = NoBinding
         THEN UNCHANGED <<type, bound>>
         ELSE /\ Import(rule.to)
              /\ bound' = [by |-> registered[turn], to |-> rule.to, was |-> Imported(rule.to)]
  /\ turn' = turn + 1
  /\ UNCHANGED configVars

(* RegisterBindings: the target is imported in any case; the first binding *)
(* takes priority over a later one that does not override.                 *)
Bind ==
  /\ IsTurn("bind")
  /\ LET rule == Binding(registered[turn])
     IN  IF rule = NoBinding
         THEN UNCHANGED <<type, bound>>
         ELSE /\ Import(rule.to)
              /\ bound' = IF bound = Unbound \/ rule.override
                          THEN [by  |-> registered[turn], to |-> rule.to,
                                was |-> Imported(rule.to)]
                          ELSE bound
  /\ turn' = turn + 1
  /\ UNCHANGED configVars

(* PrepareTransform: a name that is bound has its mapping already.         *)
Prepare ==
  /\ phase = "prepare"
  /\ bound' = IF bound = Unbound THEN Generated ELSE bound
  /\ phase' = "done"
  /\ UNCHANGED <<project, configs, stack, registered, errors, type, turn>>

Terminated == phase \in {"done", "failed", "overflow"} /\ UNCHANGED vars

Next == Load \/ Define \/ Defines \/ Bind \/ Bindings \/ Prepare \/ Terminated

(* The task runs on one thread, which goes on.                             *)
Spec == Init /\ [][Next]_vars /\ WF_vars(Next)

-----------------------------------------------------------------------------
(* Properties.                                                             *)

(* The variables hold what the dictionaries of configurations and types    *)
(* can; every parent was loaded before its includes.                       *)
TypeOK ==
  /\ ConfigTypeOK
  /\ type \in [Types -> States]
  /\ bound \in [by : Nat, to : Types \cup {"", "generated"},
                was : States]
  /\ turn \in 1..(Len(registered) + 1)

(* The configurations that a configuration includes, at any depth.         *)
Above[c \in DOMAIN configs] ==
  IF c = 1 THEN {} ELSE {configs[c].parent} \cup Above[configs[c].parent]

(* TypeRegistry.cs, line 212: the first binding takes priority.  In terms  *)
(* of the files: the binding of a file stands against those of the files   *)
(* that include it, an override stands against any without, and against    *)
(* the overrides of the files it includes; what nobody binds is generated. *)
Binders == {c \in Registered : Binding(c) # NoBinding}
Overrides == {c \in Binders : Binding(c).override}
PriorityFollowsIncludes ==
  phase = "done" =>
    IF Binders = {} THEN bound = Generated
    ELSE /\ bound.by \in Binders
         /\ bound.to = Binding(bound.by).to
         /\ IF Overrides = {}
            THEN \A c \in Binders : bound.by \notin Above[c]
            ELSE /\ bound.by \in Overrides
                 /\ \A c \in Overrides : c \notin Above[bound.by]

(* TransformManager.cs, line 459: otherwise we'll get undefined types for  *)
(* types we've mapped.  A name is bound to an undefined type only when no  *)
(* file that was loaded defines it, wherever in the includes it stands.    *)
NothingDefinedIsUndefined ==
  bound.was = "undefined" => \A c \in Registered : bound.to \notin Defined(c)
=============================================================================
