------------------------------ MODULE ConfigFile ------------------------------
(***************************************************************************)
(* The mapping files of a project.  A file includes others, each of which  *)
(* is loaded, with what it includes, before the file is registered under   *)
(* its identifier; a file that is included twice is loaded twice.  What    *)
(* goes wrong is logged, the file is left out, and loading goes on; the    *)
(* dependencies a file declares are verified in the end.                   *)
(*                                                                         *)
(* A configuration is one load of a file.  It is known by its number, in   *)
(* the order of the loads: 1 is the root, which is in memory only.         *)
(***************************************************************************)
EXTENDS Naturals, Sequences, FiniteSets

CONSTANTS
  Files,      \* paths of mapping files
  Root,       \* the configuration of the task
  Ids,        \* identifiers that files give themselves
  NoId,       \* no identifier: the file gets a new one at every load
  RootId,     \* identifier of the root
  Projects,   \* sets of mapping files, see Project
  MaxDepth    \* bound: depth of the stack at which the process dies

(* How a file is named where it is included.                               *)
Spellings == {"plain", "absolute", "variable"}

(* What a project's files contain: the files they include, their           *)
(* identifiers and dependencies, and whether they can be read at all.      *)
IsProject(x) ==
  /\ x.includes \in [Files \cup {Root} -> Seq([file : Files, spelling : Spellings])]
  /\ x.id \in [Files -> Ids \cup {NoId, RootId}]
  /\ x.depends \in [Files -> SUBSET Ids]
  /\ x.unreadable \subseteq Files

ASSUME ProjectAssumption == \A x \in Projects : IsProject(x)
ASSUME RootAssumption == Root \notin Files /\ {NoId, RootId} \cap Ids = {}
ASSUME DepthAssumption ==
  /\ IsFiniteSet(Files)
  /\ MaxDepth \in Nat /\ MaxDepth > Cardinality(Files) + 1

VARIABLES
  project,     \* what the files contain
  configs,     \* the configurations loaded: file, parent, spelling, References
  stack,       \* those being loaded: [config, next], the innermost last
  registered,  \* mapIdToFile, in the order of registration
  errors,      \* Logger.HasErrors
  phase        \* where the task is

configVars == <<project, configs, stack, registered, errors, phase>>

-----------------------------------------------------------------------------
Config(file, parent, spelling) ==
  [file |-> file, parent |-> parent, spelling |-> spelling, references |-> <<>>]
Frame(c) == [config |-> c, next |-> 1]

Top == stack[Len(stack)]
Includes(c) == project.includes[configs[c].file]
Entry == Includes(Top.config)[Top.next]

(* Id: that of the file; a file without one gets a GUID at each load.      *)
Given(i) == <<"given", i>>
NewGuid(c) == <<"new", c>>
Key(c) == LET f == configs[c].file
          IN  IF f = Root THEN Given(RootId)
              ELSE IF project.id[f] = NoId THEN NewGuid(c) ELSE Given(project.id[f])
Depends(c) == {Given(i) : i \in project.depends[configs[c].file]}
Registered == {registered[n] : n \in DOMAIN registered}
Keys == {Key(c) : c \in Registered}

(* AbsoluteFilePath, once loaded: the path as it was written, a variable   *)
(* in it not expanded, relative to that of the parent unless it is rooted. *)
PathFound[c \in DOMAIN configs] ==
  IF c = 1 THEN TRUE
  ELSE \/ configs[c].spelling = "absolute"
       \/ configs[c].spelling = "plain" /\ PathFound[configs[c].parent]

(* Reached from the root by References.                                    *)
Linked[c \in DOMAIN configs] ==
  IF c = 1 THEN TRUE
  ELSE LET up == configs[c].parent
       IN  /\ \E n \in DOMAIN configs[up].references : configs[up].references[n] = c
           /\ Linked[up]

ConfigInit ==
  /\ project \in Projects
  /\ configs = <<Config(Root, 0, "plain")>>
  /\ stack = <<Frame(1)>>
  /\ registered = <<>>
  /\ errors = FALSE
  /\ phase = "load"

-----------------------------------------------------------------------------
Loading == phase = "load" /\ stack # <<>>
Expects == Loading /\ Top.next <= Len(Includes(Top.config))

(* Seeded fault: the file is tried again.                                  *)
LoadRetries ==
  /\ Expects
  /\ Entry.file \in project.unreadable
  /\ errors' = TRUE
  /\ UNCHANGED <<project, configs, stack, registered, phase>>

(* Load: a file that is not there, or cannot be parsed.                    *)
LoadFails ==
  /\ Expects
  /\ Entry.file \in project.unreadable
  /\ errors' = TRUE
  /\ stack' = [stack EXCEPT ![Len(stack)].next = @ + 1]
  /\ UNCHANGED <<project, configs, registered, phase>>

(* Seeded fault: the configuration is its own parent.                      *)
LoadAsOwnParent ==
  /\ Expects
  /\ Entry.file \notin project.unreadable
  /\ Len(stack) < MaxDepth
  /\ configs' = Append(configs, Config(Entry.file, Len(configs) + 1, Entry.spelling))
  /\ stack' = Append(stack, Frame(Len(configs')))
  /\ UNCHANGED <<project, registered, errors, phase>>

(* Load: nothing remembers that the file is being loaded already.          *)
LoadInclude ==
  /\ Expects
  /\ Entry.file \notin project.unreadable
  /\ Len(stack) < MaxDepth
  /\ configs' = Append(configs, Config(Entry.file, Top.config, Entry.spelling))
  /\ stack' = Append(stack, Frame(Len(configs')))
  /\ UNCHANGED <<project, registered, errors, phase>>

Overflow ==
  /\ Expects
  /\ Entry.file \notin project.unreadable
  /\ Len(stack) = MaxDepth
  /\ phase' = "overflow"
  /\ UNCHANGED <<project, configs, stack, registered, errors>>

(* The end of PostLoad: the identifier is new; the parent refers to the    *)
(* configuration and goes on with its next include.                        *)
Loaded == Loading /\ Top.next > Len(Includes(Top.config))
Pop == LET n == Len(stack)
       IN  stack' = IF n = 1 THEN <<>>
                    ELSE [SubSeq(stack, 1, n - 1) EXCEPT ![n - 1].next = @ + 1]

Register ==
  /\ Loaded
  /\ Key(Top.config) \notin Keys
  /\ registered' = Append(registered, Top.config)
  /\ configs' = IF Top.config = 1 THEN configs
                ELSE [configs EXCEPT ![configs[Top.config].parent].references =
                        Append(@, Top.config)]
  /\ Pop
  /\ UNCHANGED <<project, errors, phase>>

(* The dictionary refuses an identifier it has: Load logs the exception    *)
(* and drops the configuration, not those it has included.  At the root    *)
(* nothing catches it.                                                     *)
RegisterTwice ==
  /\ Loaded
  /\ Key(Top.config) \in Keys
  /\ errors' = TRUE
  /\ phase' = IF Top.config = 1 THEN "failed" ELSE phase
  /\ Pop
  /\ UNCHANGED <<project, configs, registered>>

(* Seeded fault: the dependencies are not verified.                        *)
VerifyNothing ==
  /\ phase = "load"
  /\ stack = <<>>
  /\ phase' = "record"
  /\ UNCHANGED <<project, configs, stack, registered, errors>>

(* Verify follows the References.                                          *)
Verify ==
  /\ phase = "load"
  /\ stack = <<>>
  /\ errors' = (errors \/ \E c \in (DOMAIN configs) \ {1} :
                            Linked[c] /\ ~(Depends(c) \subseteq Keys))
  /\ phase' = "record"
  /\ UNCHANGED <<project, configs, stack, registered>>

(* ExecuteImpl: the files loaded are recorded as inputs, by their absolute *)
(* paths, and a path that leads nowhere throws.  Then the errors logged so *)
(* far end the task.                                                       *)
RecordInputs ==
  /\ phase = "record"
  /\ phase' = IF (\E c \in Registered : ~PathFound[c]) \/ errors THEN "failed" ELSE "define"
  /\ UNCHANGED <<project, configs, stack, registered, errors>>

ConfigNext == \/ LoadFails \/ LoadInclude \/ Overflow \/ Register
              \/ RegisterTwice \/ Verify \/ RecordInputs

-----------------------------------------------------------------------------
(* Properties.                                                             *)

ConfigTypeOK ==
  /\ IsProject(project)
  /\ \A c \in DOMAIN configs :
       /\ configs[c].file \in Files \cup {Root}
       /\ configs[c].parent \in 0..(c - 1)
       /\ configs[c].spelling \in Spellings
       /\ \A n \in DOMAIN configs[c].references : configs[c].references[n] \in DOMAIN configs
  /\ Len(stack) <= MaxDepth
  /\ \A n \in DOMAIN stack : stack[n].config \in DOMAIN configs
  /\ Registered \subseteq DOMAIN configs
  /\ errors \in BOOLEAN
  /\ phase \in {"load", "record", "define", "bind", "prepare", "done", "failed", "overflow"}

(* docs/getting-started.rst, line 42: depends help ensure that all         *)
(* dependencies are correctly loaded.  A task that goes on has loaded      *)
(* every file its files include, in their order, has no two under one      *)
(* identifier, and everything they depend on; what verification reaches    *)
(* and what the transformations use is the same.                           *)
GoesOn == phase \in {"define", "bind", "prepare", "done"}
CleanLoadIsWhole ==
  GoesOn =>
    /\ Registered = {c \in DOMAIN configs : Linked[c]}
    /\ Cardinality(Keys) = Len(registered)
    /\ \A c \in Registered :
         /\ [n \in DOMAIN configs[c].references |-> configs[configs[c].references[n]].file]
              = [n \in DOMAIN Includes(c) |-> Includes(c)[n].file]
         /\ c # 1 => Depends(c) \subseteq Keys

(* Every file of some set includes one of the set.                         *)
Included(f) == {project.includes[f][n].file : n \in DOMAIN project.includes[f]}
Cyclic == \E S \in SUBSET Files : S # {} /\ \A f \in S : Included(f) \cap S # {}

(* However files fail on the way, the task's loading comes to an end, and  *)
(* not with that of the process, unless files include one another.         *)
LoadingEnds == ~Cyclic => <>(phase \in {"define", "failed"})

(* config-features.rst, line 29: a variable may stand in any element       *)
(* value.  A file that is included through one is no reason to fail.       *)
VariableIsAllowed ==
  phase = "failed" => errors \/ \A c \in Registered : configs[c].spelling # "variable"

(* A file whose rules apply twice was loaded twice.                        *)
RulesApplyOnce ==
  GoesOn => \A c, d \in Registered : configs[c].file = configs[d].file => c = d

(* No set of mapping files ends the process.                               *)
ProcessSurvives == phase # "overflow"
=============================================================================
