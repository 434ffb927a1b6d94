--------------------------- MODULE TypeRegistryProofs ---------------------------
(***************************************************************************)
(* Proofs about the loading of mapping files and their rules, for any      *)
(* files, however they include one another.                                *)
(***************************************************************************)
EXTENDS TypeRegistry, SequenceTheorems, FiniteSetTheorems, WellFoundedInduction, TLAPS

(* The configurations, the stack and the dictionary are sequences that     *)
(* refer to one another; every configuration but the root has a parent     *)
(* that was made before it.                                                *)
ConfigRecord == [file : Files \cup {Root}, parent : Nat, spelling : Spellings,
                 references : Seq(Nat)]
FrameRecord == [config : Nat \ {0}, next : Nat \ {0}]

OldParents ==
  \A c \in DOMAIN configs : /\ configs[c].parent \in 0..(c - 1)
                            /\ c # 1 => configs[c].parent # 0
OwnReferences ==
  \A c \in DOMAIN configs : \A n \in DOMAIN configs[c].references :
    configs[c].references[n] \in DOMAIN configs
ConfigsInv == configs \in Seq(ConfigRecord) /\ OldParents /\ OwnReferences
StackInv == /\ stack \in Seq(FrameRecord)
            /\ \A n \in DOMAIN stack : stack[n].config \in DOMAIN configs
            /\ Len(stack) <= MaxDepth
RegisteredInv == /\ registered \in Seq(Nat)
                 /\ \A n \in DOMAIN registered : registered[n] \in DOMAIN configs
StateInv == /\ project \in Projects
            /\ errors \in BOOLEAN
            /\ phase \in {"load", "record", "define", "bind", "prepare", "done",
                          "failed", "overflow"}
LoadInv == ConfigsInv /\ StackInv /\ RegisteredInv /\ StateInv

(* What the rules have made of the types: a definition that was met stays, *)
(* and all were met when the first name is bound.                          *)
Bound == [by : Nat, to : Types \cup {"", "generated"}, was : States]
TurnInv == turn \in 1..(Len(registered) + 1)
TypesInv == type \in [Types -> States] /\ bound \in Bound /\ TurnInv

AreDefined(c) == \A t \in Defined(c) : type[t] = "defined"
DefinedInv ==
  /\ phase \in {"load", "record", "define"}
       => bound = Unbound /\ \A t \in Types : type[t] \in {"absent", "defined"}
  /\ phase \in {"load", "record"} => turn = 1
  /\ phase = "define" => \A n \in 1..(turn - 1) : AreDefined(registered[n])
  /\ phase \in {"bind", "prepare"} => \A n \in DOMAIN registered : AreDefined(registered[n])
  /\ NothingDefinedIsUndefined

-----------------------------------------------------------------------------
LEMMA ConfigFacts ==
  ASSUME ConfigsInv, NEW c \in DOMAIN configs
  PROVE  /\ c \in Nat /\ c \in 1..Len(configs)
         /\ configs[c] \in ConfigRecord
         /\ configs[c].file \in Files \cup {Root}
         /\ configs[c].references \in Seq(Nat)
         /\ configs[c].parent \in Nat
         /\ c # 1 => configs[c].parent \in DOMAIN configs
<1>1. configs \in Seq(ConfigRecord) /\ DOMAIN configs = 1..Len(configs) /\ Len(configs) \in Nat
  BY DEF ConfigsInv
<1>2. configs[c] \in ConfigRecord /\ c \in Nat /\ c \in 1..Len(configs)
  BY <1>1
<1>3. configs[c].parent \in 0..(c - 1) /\ (c # 1 => configs[c].parent # 0)
  BY DEF ConfigsInv, OldParents
<1>4. c # 1 => configs[c].parent \in DOMAIN configs
  BY <1>1, <1>2, <1>3
<1>5. QED
  BY <1>2, <1>4 DEF ConfigRecord

LEMMA TopFacts ==
  ASSUME StackInv, stack # <<>>
  PROVE  /\ Len(stack) \in DOMAIN stack /\ Len(stack) \in Nat \ {0}
         /\ Top \in FrameRecord
         /\ Top.config \in DOMAIN configs
         /\ Top.config \in Nat \ {0} /\ Top.next \in Nat \ {0}
<1>1. stack \in Seq(FrameRecord)
  BY DEF StackInv
<1>2. Len(stack) \in DOMAIN stack /\ Len(stack) \in Nat \ {0}
  BY <1>1
<1>3. stack[Len(stack)] \in FrameRecord
  BY <1>1, <1>2
<1>4. QED
  BY <1>2, <1>3 DEF StackInv, Top, FrameRecord

(* The includes of a configuration are files.                              *)
LEMMA EntryFacts ==
  ASSUME LoadInv, Expects
  PROVE  Entry.file \in Files /\ Entry.spelling \in Spellings
<1>1. stack # <<>> /\ Top.next <= Len(Includes(Top.config))
  BY DEF Expects, Loading
<1>2. Top.config \in DOMAIN configs /\ Top.next \in Nat \ {0}
  BY <1>1, TopFacts DEF LoadInv
<1>3. configs[Top.config].file \in Files \cup {Root}
  BY <1>2, ConfigFacts DEF LoadInv
<1>4. IsProject(project)
  BY ProjectAssumption DEF LoadInv, StateInv
<1> DEFINE S == [file : Files, spelling : Spellings]
           s == Includes(Top.config)
<1>5. s \in Seq(S)
  BY <1>3, <1>4 DEF IsProject, Includes
<1> HIDE DEF S, s
<1>6. Top.next \in 1..Len(s)
  BY <1>1, <1>2, <1>5 DEF s
<1>7. s[Top.next] \in S
  BY <1>5, <1>6
<1>8. QED
  BY <1>7 DEF S, s, Entry

-----------------------------------------------------------------------------
(* Steps of the loading.                                                   *)
LEMMA NextFrame ==
  ASSUME NEW s \in Seq(FrameRecord), s # <<>>
  PROVE  LET n == Len(s)
             t == [s EXCEPT ![n].next = @ + 1]
         IN  /\ t \in Seq(FrameRecord) /\ Len(t) = Len(s)
             /\ \A i \in DOMAIN t : /\ i \in DOMAIN s /\ t[i].config = s[i].config
                                    /\ t[i].next = IF i = n THEN s[i].next + 1 ELSE s[i].next
<1> DEFINE n == Len(s)
           e == [s[n] EXCEPT !.next = s[n].next + 1]
           t == [s EXCEPT ![n] = e]
<1>1. n \in 1..Len(s) /\ s[n] \in FrameRecord
  BY EmptySeq
<1>2. e \in FrameRecord /\ e.config = s[n].config /\ e.next = s[n].next + 1
  <2>1. s[n].config \in Nat \ {0} /\ s[n].next \in Nat \ {0}
        /\ s[n] = [config |-> s[n].config, next |-> s[n].next]
    BY <1>1 DEF FrameRecord
  <2>2. e = [config |-> s[n].config, next |-> s[n].next + 1]
    BY <2>1
  <2>3. QED
    BY <2>1, <2>2 DEF FrameRecord
<1>3. t = [s EXCEPT ![n].next = @ + 1]
  OBVIOUS
<1> HIDE DEF e
<1>4. t \in Seq(FrameRecord) /\ Len(t) = Len(s) /\ DOMAIN t = DOMAIN s
      /\ \A i \in 1..Len(s) : t[i] = IF i = n THEN e ELSE s[i]
  BY <1>1, <1>2, ExceptSeq
<1>5. QED
  BY <1>2, <1>3, <1>4

LEMMA PopStep ==
  ASSUME StackInv, stack # <<>>, Pop, DOMAIN configs' = DOMAIN configs
  PROVE  StackInv'
<1> DEFINE n == Len(stack)
           s == SubSeq(stack, 1, n - 1)
<1>1. stack \in Seq(FrameRecord) /\ n \in Nat \ {0} /\ n <= MaxDepth /\ MaxDepth \in Nat
  BY TopFacts, DepthAssumption DEF StackInv
<1>5. \A i \in 1..n : stack[i] \in FrameRecord
  BY <1>1, ElementOfSeq
<1>2. CASE n = 1
  <2>1. stack' = <<>>
    BY <1>2 DEF Pop
  <2>2. QED
    BY <1>1, <2>1 DEF StackInv
<1>3. CASE n # 1
  <2> HIDE DEF n
  <2>1. 1 \in Int /\ n - 1 \in Int /\ 1 <= n - 1 /\ \A i \in 1..(n - 1) : stack[i] \in FrameRecord
    BY <1>1, <1>3, <1>5
  <2>2. /\ s \in Seq(FrameRecord) /\ Len(s) = n - 1 /\ s # <<>>
        /\ \A i \in 1..Len(s) : s[i] = stack[i]
    BY <1>1, <2>1, SubSeqProperties
  <2>3. stack' = [s EXCEPT ![Len(s)].next = @ + 1]
    BY <1>3, <2>2 DEF Pop, n
  <2> HIDE DEF s
  <2>4. /\ stack' \in Seq(FrameRecord) /\ Len(stack') = Len(s)
        /\ \A i \in DOMAIN stack' : i \in DOMAIN s /\ stack'[i].config = s[i].config
    BY <2>2, <2>3, NextFrame
  <2>5. \A i \in DOMAIN stack' : stack'[i].config \in DOMAIN configs
    <3>1. \A i \in DOMAIN stack : stack[i].config \in DOMAIN configs
      BY DEF StackInv
    <3>2. \A i \in DOMAIN s : i \in DOMAIN stack /\ s[i] = stack[i]
      BY <1>1, <2>2 DEF n
    <3>3. QED
      BY <2>4, <3>1, <3>2
  <2>6. QED
    BY <1>1, <2>2, <2>4, <2>5 DEF StackInv
<1>4. QED
  BY <1>2, <1>3

LEMMA IncludeStep ==
  ASSUME LoadInv, LoadInclude
  PROVE  LoadInv'
<1> DEFINE c == Config(Entry.file, Top.config, Entry.spelling)
           n == Len(configs)
<1>1. Expects /\ stack # <<>> /\ Len(stack) < MaxDepth
      /\ UNCHANGED <<project, registered, errors, phase>>
  BY DEF LoadInclude, Expects, Loading
<1>2. Top.config \in DOMAIN configs
  BY <1>1, TopFacts DEF LoadInv
<1>3. configs \in Seq(ConfigRecord) /\ n \in Nat /\ DOMAIN configs = 1..n
  BY DEF LoadInv, ConfigsInv
<1>4. c \in ConfigRecord /\ c.parent = Top.config /\ c.references = <<>>
  BY <1>1, <1>2, <1>3, EntryFacts DEF Config, ConfigRecord
<1>5. configs' = Append(configs, c) /\ stack' = Append(stack, Frame(Len(configs')))
  BY DEF LoadInclude
<1> HIDE DEF c
<1>6. /\ configs' \in Seq(ConfigRecord) /\ Len(configs') = n + 1
      /\ \A i \in 1..n : configs'[i] = configs[i]
      /\ configs'[n + 1] = c
  BY <1>3, <1>4, <1>5, AppendProperties
<1>7. DOMAIN configs' = 1..(n + 1)
  BY <1>6
<1>8. ConfigsInv'
  <2>1. ASSUME NEW i \in 1..(n + 1)
        PROVE  /\ configs'[i].parent \in 0..(i - 1)
               /\ i # 1 => configs'[i].parent # 0
               /\ \A m \in DOMAIN configs'[i].references :
                    configs'[i].references[m] \in 1..(n + 1)
    <3>1. CASE i = n + 1
      BY <1>2, <1>3, <1>4, <1>6, <3>1
    <3>2. CASE i \in 1..n
      <4>1. i \in DOMAIN configs /\ configs'[i] = configs[i]
        BY <1>3, <1>6, <3>2
      <4>2. /\ configs[i].parent \in 0..(i - 1)
            /\ i # 1 => configs[i].parent # 0
            /\ \A m \in DOMAIN configs[i].references : configs[i].references[m] \in 1..n
        BY <1>3, <4>1 DEF LoadInv, ConfigsInv, OldParents, OwnReferences
      <4>3. \A m \in 1..n : m \in 1..(n + 1)
        BY <1>3
      <4>4. QED
        BY <4>1, <4>2, <4>3
    <3>3. QED
      BY <1>3, <3>1, <3>2
  <2>2. QED
    BY <1>6, <1>7, <2>1 DEF ConfigsInv, OldParents, OwnReferences
<1>9. StackInv'
  <2>1. Frame(n + 1) \in FrameRecord /\ Frame(n + 1).config = n + 1
    BY <1>3 DEF Frame, FrameRecord
  <2>2. stack \in Seq(FrameRecord) /\ Len(stack) \in Nat
    BY DEF LoadInv, StackInv
  <2>3. /\ stack' \in Seq(FrameRecord) /\ Len(stack') = Len(stack) + 1
        /\ \A i \in 1..Len(stack) : stack'[i] = stack[i]
        /\ stack'[Len(stack) + 1] = Frame(n + 1)
    BY <1>5, <1>6, <2>1, <2>2, AppendProperties
  <2>4. ASSUME NEW i \in DOMAIN stack'
        PROVE  stack'[i].config \in DOMAIN configs'
    <3>1. i \in 1..Len(stack) \/ i = Len(stack) + 1
      BY <2>2, <2>3
    <3>2. CASE i \in 1..Len(stack)
      <4>1. stack'[i] = stack[i] /\ stack[i].config \in DOMAIN configs
        BY <2>2, <2>3, <3>2 DEF LoadInv, StackInv
      <4>2. QED
        BY <1>3, <1>7, <4>1
    <3>3. CASE i = Len(stack) + 1
      BY <1>3, <1>7, <2>1, <2>3, <3>3
    <3>4. QED
      BY <3>1, <3>2, <3>3
  <2>5. Len(stack') <= MaxDepth
    BY <1>1, <2>2, <2>3, DepthAssumption
  <2>6. QED
    BY <2>3, <2>4, <2>5 DEF StackInv
<1>10. RegisteredInv'
  <2>1. \A i \in DOMAIN configs : i \in DOMAIN configs'
    BY <1>3, <1>7
  <2>2. QED
    BY <1>1, <2>1 DEF LoadInv, RegisteredInv
<1>11. StateInv'
  BY <1>1 DEF LoadInv, StateInv
<1>12. QED
  BY <1>8, <1>9, <1>10, <1>11 DEF LoadInv

LEMMA RegisterStep ==
  ASSUME LoadInv, Register
  PROVE  LoadInv' /\ Len(registered') = Len(registered) + 1
<1> DEFINE c == Top.config
           up == configs[c].parent
           e == [configs[up] EXCEPT !.references = Append(configs[up].references, c)]
<1>1. stack # <<>> /\ Pop /\ UNCHANGED <<project, errors, phase>>
  BY DEF Register, Loaded, Loading
<1>2. c \in DOMAIN configs /\ c \in Nat
  BY <1>1, TopFacts DEF LoadInv
<1>3. configs \in Seq(ConfigRecord) /\ DOMAIN configs = 1..Len(configs) /\ Len(configs) \in Nat
  BY DEF LoadInv, ConfigsInv
<1>4. ConfigsInv' /\ DOMAIN configs' = DOMAIN configs
  <2>1. CASE c = 1
    <3>1. configs' = configs
      BY <2>1 DEF Register
    <3>2. QED
      BY <3>1 DEF LoadInv, ConfigsInv, OldParents, OwnReferences
  <2>2. CASE c # 1
    <3>1. up \in DOMAIN configs
      BY <1>2, <2>2, ConfigFacts DEF LoadInv
    <3>2. up \in 1..Len(configs) /\ configs[up] \in ConfigRecord
          /\ configs[up].references \in Seq(Nat)
      BY <3>1, ConfigFacts DEF LoadInv
    <3>3. /\ configs' = [configs EXCEPT ![up].references = Append(@, c)]
      BY <2>2 DEF Register
    <3> DEFINE r == configs[up].references
    <3>14. r \in Seq(Nat) /\ c \in Nat
      BY <1>2, <3>2
    <3> HIDE DEF r, c
    <3>4. /\ Append(r, c) \in Seq(Nat) /\ Len(Append(r, c)) = Len(r) + 1
          /\ \A i \in 1..Len(r) : Append(r, c)[i] = r[i]
          /\ Append(r, c)[Len(r) + 1] = c
      BY <3>14, AppendProperties
    <3>5. \A i \in DOMAIN r : r[i] \in DOMAIN configs
      BY <3>1 DEF LoadInv, ConfigsInv, OwnReferences, r
    <3> HIDE DEF up
    <3>6. \A i \in DOMAIN Append(r, c) : Append(r, c)[i] \in DOMAIN configs
      BY <1>2, <3>14, <3>4, <3>5
    <3>7. configs' = [configs EXCEPT ![up] = e]
      BY <3>3
    <3>8. e \in ConfigRecord /\ e.references = Append(r, c) /\ e.parent = configs[up].parent
      BY <3>2, <3>4 DEF ConfigRecord, r
    <3> HIDE DEF e
    <3>9. /\ configs' \in Seq(ConfigRecord) /\ Len(configs') = Len(configs)
          /\ \A i \in 1..Len(configs) : configs'[i] = IF i = up THEN e ELSE configs[i]
      BY <1>3, <3>2, <3>7, <3>8, ExceptSeq
    <3>10. DOMAIN configs' = DOMAIN configs
      BY <1>3, <3>9
    <3>11. OldParents'
      BY <1>3, <3>8, <3>9, <3>10 DEF LoadInv, ConfigsInv, OldParents
    <3>12. OwnReferences'
      BY <1>3, <3>6, <3>8, <3>9, <3>10 DEF LoadInv, ConfigsInv, OwnReferences
    <3>13. QED
      BY <3>9, <3>10, <3>11, <3>12 DEF ConfigsInv
  <2>3. QED
    BY <2>1, <2>2
<1>5. StackInv'
  BY <1>1, <1>4, PopStep DEF LoadInv
<1>6. RegisteredInv' /\ Len(registered') = Len(registered) + 1
  <2>1. registered \in Seq(Nat) /\ Len(registered) \in Nat
    BY DEF LoadInv, RegisteredInv
  <2>2. registered' = Append(registered, c)
    BY DEF Register
  <2> HIDE DEF c
  <2>3. /\ registered' \in Seq(Nat) /\ Len(registered') = Len(registered) + 1
        /\ \A i \in 1..Len(registered) : registered'[i] = registered[i]
        /\ registered'[Len(registered) + 1] = c
    BY <1>2, <2>1, <2>2, AppendProperties
  <2>4. \A i \in DOMAIN registered' : registered'[i] \in DOMAIN configs
    <3>1. \A i \in 1..Len(registered) : registered[i] \in DOMAIN configs
      BY <2>1 DEF LoadInv, RegisteredInv
    <3>2. \A i \in DOMAIN registered' : i \in 1..Len(registered) \/ i = Len(registered) + 1
      BY <2>1, <2>3
    <3>3. QED
      BY <1>2, <2>3, <3>1, <3>2 DEF c
  <2>5. QED
    BY <1>4, <2>3, <2>4 DEF RegisteredInv
<1>7. StateInv'
  BY <1>1 DEF LoadInv, StateInv
<1>8. QED
  BY <1>4, <1>5, <1>6, <1>7 DEF LoadInv

LEMMA LoadStep ==
  ASSUME LoadInv, ConfigNext
  PROVE  LoadInv'
<1>1. CASE LoadInclude
  BY <1>1, IncludeStep
<1>2. CASE Register
  BY <1>2, RegisterStep
<1>3. CASE LoadFails
  <2>1. stack \in Seq(FrameRecord) /\ stack # <<>>
        /\ stack' = [stack EXCEPT ![Len(stack)].next = @ + 1]
        /\ UNCHANGED <<project, configs, registered, phase>> /\ errors' = TRUE
    BY <1>3 DEF LoadFails, Expects, Loading, LoadInv, StackInv
  <2>2. /\ stack' \in Seq(FrameRecord) /\ Len(stack') = Len(stack)
        /\ \A i \in DOMAIN stack' : i \in DOMAIN stack /\ stack'[i].config = stack[i].config
    BY <2>1, NextFrame
  <2>3. StackInv'
    BY <2>1, <2>2 DEF LoadInv, StackInv
  <2>4. QED
    BY <2>1, <2>3 DEF LoadInv, ConfigsInv, OldParents, OwnReferences, RegisteredInv, StateInv
<1>4. CASE RegisterTwice
  <2>1. stack # <<>> /\ Pop /\ UNCHANGED <<project, configs, registered>> /\ errors' = TRUE
        /\ phase' \in {"failed", phase}
    BY <1>4 DEF RegisterTwice, Loaded, Loading
  <2>2. StackInv'
    BY <2>1, PopStep DEF LoadInv
  <2>3. QED
    BY <2>1, <2>2 DEF LoadInv, ConfigsInv, OldParents, OwnReferences, RegisteredInv, StateInv
<1>5. CASE Overflow \/ Verify \/ RecordInputs
  <2>1. UNCHANGED <<project, configs, stack, registered>> /\ errors' \in BOOLEAN
        /\ phase' \in {"overflow", "record", "failed", "define"}
    BY <1>5 DEF Overflow, Verify, RecordInputs, LoadInv, StateInv
  <2>2. QED
    BY <2>1 DEF LoadInv, ConfigsInv, OldParents, OwnReferences, StackInv, RegisteredInv, StateInv
<1>6. QED
  BY <1>1, <1>2, <1>3, <1>4, <1>5 DEF ConfigNext

-----------------------------------------------------------------------------
(* Steps of the rules.                                                     *)
LEMMA LengthFacts ==
  ASSUME LoadInv
  PROVE  Len(registered) \in Nat /\ DOMAIN registered = 1..Len(registered)
BY DEF LoadInv, RegisteredInv

LEMMA TurnFacts ==
  ASSUME LoadInv, TurnInv
  PROVE  turn \in Nat /\ 1 <= turn /\ turn <= Len(registered) + 1
         /\ (turn <= Len(registered) => turn \in DOMAIN registered)
BY LengthFacts DEF TurnInv

LEMMA BoundType ==
  /\ Unbound \in Bound /\ Unbound.was = "absent"
  /\ Generated \in Bound /\ Generated.was = "defined"
  /\ \A c \in Nat, t \in Types, s \in States :
       LET new == [by |-> c, to |-> t, was |-> s]
       IN  new \in Bound /\ new.to = t /\ new.was = s
BY DEF Bound, Unbound, Generated, States

LEMMA RuleFacts ==
  ASSUME LoadInv, NEW n \in DOMAIN registered
  PROVE  /\ registered[n] \in Nat
         /\ Defined(registered[n]) \subseteq Types
         /\ Binding(registered[n]) \in Rule \cup {NoBinding}
<1> DEFINE c == registered[n]
           f == configs[c].file
<1>1. c \in DOMAIN configs /\ registered \in Seq(Nat)
  BY DEF LoadInv, RegisteredInv
<1>2. f \in Files \cup {Root} /\ c \in Nat
  BY <1>1, ConfigFacts DEF LoadInv
<1>3. project.defines \in [Files -> SUBSET Types] /\ project.binds \in [Files -> Rule \cup {NoBinding}]
  BY RulesAssumption DEF LoadInv, StateInv
<1>4. Defined(c) \subseteq Types
  BY <1>2, <1>3 DEF Defined, HasRules
<1>5. Binding(c) \in Rule \cup {NoBinding}
  BY <1>2, <1>3 DEF Binding, HasRules
<1>6. QED
  BY <1>2, <1>4, <1>5

(* The rules that were loaded stay what they are.                          *)
LEMMA SameRules ==
  ASSUME UNCHANGED <<project, configs>>
  PROVE  /\ \A c : HasRules(c)' <=> HasRules(c)
         /\ \A c : Defined(c)' = Defined(c)
         /\ \A c : Binding(c)' = Binding(c)
BY DEF Defined, Binding, HasRules

Inv == LoadInv /\ TypesInv /\ DefinedInv

LEMMA ImportStep ==
  ASSUME TypesInv, NEW t \in Types, Import(t)
  PROVE  /\ type' \in [Types -> States]
         /\ \A u \in Types : type[u] = "defined" => type'[u] = "defined"
         /\ Imported(t) \in States
         /\ Imported(t) = "undefined" => type[t] # "defined"
BY DEF TypesInv, Import, Imported, States

(* Everything but the loading leaves the configurations alone.             *)
LEMMA RulesLoad ==
  ASSUME LoadInv, UNCHANGED <<project, configs, stack, registered, errors>>,
         phase' \in {phase, "bind", "prepare", "done"}
  PROVE  LoadInv'
BY DEF LoadInv, ConfigsInv, OldParents, OwnReferences, StackInv, RegisteredInv, StateInv

LEMMA DefineStep ==
  ASSUME Inv, Define
  PROVE  Inv'
<1>1. phase = "define" /\ turn \in DOMAIN registered /\ turn \in Nat /\ Len(registered) \in Nat
      /\ DOMAIN registered = 1..Len(registered)
  BY LengthFacts, TurnFacts DEF Inv, Define, IsTurn, TypesInv
<1>2. /\ type' = [t \in Types |-> IF t \in Defined(registered[turn]) /\ type[t] = "absent"
                                  THEN "defined" ELSE type[t]]
      /\ turn' = turn + 1
      /\ UNCHANGED <<project, configs, stack, registered, errors, phase, bound>>
  BY DEF Define, configVars
<1>3. LoadInv'
  BY <1>2, RulesLoad DEF Inv
<1>4. type \in [Types -> States] /\ bound = Unbound
      /\ \A t \in Types : type[t] \in {"absent", "defined"}
  BY <1>1 DEF Inv, TypesInv, DefinedInv
<1>5. TypesInv'
  <2>1. type' \in [Types -> States]
    BY <1>2, <1>4 DEF States
  <2>2. TurnInv'
    BY <1>1, <1>2 DEF TurnInv
  <2>3. bound' \in Bound
    BY <1>2, <1>4, BoundType
  <2>4. QED
    BY <2>1, <2>2, <2>3 DEF TypesInv
<1>6. \A n \in DOMAIN registered : Defined(registered[n]) \subseteq Types
  BY RuleFacts DEF Inv
<1>7. \A n \in 1..(turn' - 1) : AreDefined(registered[n])'
  <2>1. SUFFICES ASSUME NEW n \in 1..turn, NEW t \in Defined(registered[n])
                 PROVE  type'[t] = "defined"
    BY <1>1, <1>2, SameRules DEF AreDefined
  <2>2. n \in DOMAIN registered /\ t \in Types
    BY <1>1, <1>6, <2>1
  <2>3. CASE n = turn
    BY <1>2, <1>4, <2>1, <2>2, <2>3 DEF States
  <2>4. CASE n # turn
    <3>1. AreDefined(registered[n])
      BY <1>1, <2>1, <2>4 DEF Inv, DefinedInv
    <3>2. QED
      BY <1>2, <2>1, <2>2, <3>1 DEF AreDefined
  <2>5. QED
    BY <2>3, <2>4
<1>8. DefinedInv'
  <2>1. \A t \in Types : type'[t] \in {"absent", "defined"}
    BY <1>2, <1>4
  <2>2. NothingDefinedIsUndefined'
    BY <1>2, <1>4, BoundType DEF NothingDefinedIsUndefined
  <2>3. QED
    BY <1>1, <1>2, <1>4, <1>7, <2>1, <2>2 DEF DefinedInv
<1>9. QED
  BY <1>3, <1>5, <1>8 DEF Inv

LEMMA BindStep ==
  ASSUME Inv, Bind
  PROVE  Inv'
<1> DEFINE c == registered[turn]
           rule == Binding(c)
<1>1. phase = "bind" /\ turn \in DOMAIN registered /\ turn \in Nat /\ Len(registered) \in Nat
      /\ DOMAIN registered = 1..Len(registered)
  BY LengthFacts, TurnFacts DEF Inv, Bind, IsTurn, TypesInv
<1>2. turn' = turn + 1 /\ UNCHANGED <<project, configs, stack, registered, errors, phase>>
  BY DEF Bind, configVars
<1>3. LoadInv'
  BY <1>2, RulesLoad DEF Inv
<1>4. rule \in Rule \cup {NoBinding} /\ c \in Nat
  BY <1>1, RuleFacts DEF Inv
<1>5. TypesInv /\ DefinedInv
  BY DEF Inv
<1>6. \A n \in DOMAIN registered : AreDefined(registered[n]) /\ Defined(registered[n]) \subseteq Types
  BY <1>1, <1>5, RuleFacts DEF Inv, DefinedInv
<1>7. ASSUME \A u \in Types : type[u] = "defined" => type'[u] = "defined"
      PROVE  \A n \in DOMAIN registered : AreDefined(registered[n])'
  BY <1>2, <1>6, <1>7, SameRules DEF AreDefined
<1>11. TurnInv'
  BY <1>1, <1>2 DEF TurnInv
<1>8. CASE rule = NoBinding
  <2>1. UNCHANGED <<type, bound>>
    BY <1>8 DEF Bind
  <2>2. TypesInv'
    BY <1>5, <1>11, <2>1 DEF TypesInv
  <2>3. NothingDefinedIsUndefined'
    BY <1>2, <1>5, <2>1, SameRules DEF DefinedInv, NothingDefinedIsUndefined, Registered
  <2>4. DefinedInv'
    BY <1>1, <1>2, <1>7, <2>1, <2>3 DEF DefinedInv
  <2>5. QED
    BY <1>3, <2>2, <2>4 DEF Inv
<1>9. CASE rule # NoBinding
  <2> DEFINE new == [by |-> c, to |-> rule.to, was |-> Imported(rule.to)]
  <2>1. rule.to \in Types
    BY <1>4, <1>9 DEF Rule
  <2>2. Import(rule.to) /\ bound' \in {new, bound}
    BY <1>9 DEF Bind
  <2>3. /\ type' \in [Types -> States]
        /\ \A u \in Types : type[u] = "defined" => type'[u] = "defined"
        /\ Imported(rule.to) \in States
        /\ Imported(rule.to) = "undefined" => type[rule.to] # "defined"
    BY <1>5, <2>1, <2>2, ImportStep
  <2>4. TypesInv'
    <3>1. new \in Bound
      BY <1>4, <2>1, <2>3, BoundType
    <3>2. bound' \in Bound
      BY <1>5, <2>2, <3>1 DEF TypesInv
    <3>3. QED
      BY <1>11, <2>3, <3>2 DEF TypesInv
  <2>5. NothingDefinedIsUndefined'
    <3>1. CASE bound' = bound
      BY <1>2, <1>5, <3>1, SameRules DEF DefinedInv, NothingDefinedIsUndefined, Registered
    <3>2. CASE bound' = new
      <4>1. SUFFICES ASSUME Imported(rule.to) = "undefined", NEW n \in DOMAIN registered
                     PROVE  rule.to \notin Defined(registered[n])
        BY <1>2, <3>2, SameRules DEF NothingDefinedIsUndefined, Registered
      <4>2. QED
        BY <1>6, <2>3, <4>1 DEF AreDefined
    <3>3. QED
      BY <2>2, <3>1, <3>2
  <2>6. DefinedInv'
    BY <1>1, <1>2, <1>7, <2>3, <2>5 DEF DefinedInv
  <2>7. QED
    BY <1>3, <2>4, <2>6 DEF Inv
<1>10. QED
  BY <1>8, <1>9

LEMMA LoadsStep ==
  ASSUME Inv, Load
  PROVE  Inv'
<1>1. LoadInv'
  BY LoadStep DEF Load, Inv
<1>2. UNCHANGED <<type, bound, turn>>
  BY DEF Load, registryVars
<1>3. /\ phase \in {"load", "record"}
      /\ phase' \in {phase, "record", "define", "failed", "overflow"}
  BY DEF Load, ConfigNext, LoadFails, LoadInclude, Overflow, Register, RegisterTwice, Verify,
         RecordInputs, Expects, Loaded, Loading
<1>4. bound = Unbound /\ turn = 1 /\ \A t \in Types : type[t] \in {"absent", "defined"}
  BY <1>3 DEF Inv, DefinedInv
<1>5. Len(registered') \in Nat
  BY <1>1 DEF LoadInv, RegisteredInv
<1>9. TurnInv'
  BY <1>2, <1>4, <1>5 DEF TurnInv
<1>6. TypesInv'
  BY <1>2, <1>9 DEF Inv, TypesInv
<1>7. DefinedInv'
  <2>1. NothingDefinedIsUndefined'
    BY <1>2, <1>4, BoundType DEF NothingDefinedIsUndefined
  <2>2. phase' = "define" => \A n \in 1..(turn' - 1) : AreDefined(registered[n])'
    BY <1>2, <1>4
  <2>3. QED
    BY <1>2, <1>3, <1>4, <2>1, <2>2 DEF DefinedInv
<1>8. QED
  BY <1>1, <1>6, <1>7 DEF Inv

LEMMA InvStep ==
  ASSUME Inv, [Next]_vars
  PROVE  Inv'
<1>1. CASE Load
  BY <1>1, LoadsStep
<1>2. CASE Define
  BY <1>2, DefineStep
<1>3. CASE Bind
  BY <1>3, BindStep
<1>4. Len(registered) \in Nat /\ DOMAIN registered = 1..Len(registered)
      /\ turn \in Nat /\ 1 <= turn /\ turn <= Len(registered) + 1
  BY LengthFacts, TurnFacts DEF Inv, TypesInv
<1>5. CASE Defines \/ Bindings
  <2>1. /\ UNCHANGED <<project, configs, stack, registered, errors, type, bound>>
        /\ turn' = 1 /\ turn > Len(registered)
        /\ \/ phase = "define" /\ phase' = "bind"
           \/ phase = "bind" /\ phase' = "prepare"
    BY <1>5 DEF Defines, Bindings, NextPhase
  <2>2. LoadInv'
    BY <2>1, RulesLoad DEF Inv
  <2>9. TurnInv'
    BY <1>4, <2>1 DEF TurnInv
  <2>3. TypesInv'
    BY <2>1, <2>9 DEF Inv, TypesInv
  <2>10. \A n \in DOMAIN registered : n \in 1..(turn - 1)
    BY <1>4, <2>1
  <2>4. \A n \in DOMAIN registered : AreDefined(registered[n])
    BY <2>1, <2>10 DEF Inv, DefinedInv
  <2>5. \A n \in DOMAIN registered : AreDefined(registered[n])'
    BY <2>1, <2>4, SameRules DEF AreDefined
  <2>6. NothingDefinedIsUndefined'
    BY <2>1, SameRules DEF Inv, DefinedInv, NothingDefinedIsUndefined, Registered
  <2>7. DefinedInv'
    BY <2>1, <2>5, <2>6 DEF DefinedInv
  <2>8. QED
    BY <2>2, <2>3, <2>7 DEF Inv
<1>6. CASE Prepare
  <2>1. /\ UNCHANGED <<project, configs, stack, registered, errors, type, turn>>
        /\ phase' = "done"
        /\ bound' = Generated \/ bound' = bound
    BY <1>6 DEF Prepare
  <2>2. LoadInv'
    BY <2>1, RulesLoad DEF Inv
  <2>3. TypesInv'
    BY <2>1, BoundType DEF Inv, TypesInv, TurnInv
  <2>4. NothingDefinedIsUndefined'
    BY <2>1, SameRules, BoundType DEF Inv, DefinedInv, NothingDefinedIsUndefined, Registered
  <2>5. DefinedInv'
    BY <2>1, <2>4 DEF DefinedInv
  <2>6. QED
    BY <2>2, <2>3, <2>5 DEF Inv
<1>7. CASE UNCHANGED vars
  <2>1. UNCHANGED <<project, configs, stack, registered, errors, phase, type, bound, turn>>
    BY <1>7 DEF vars, configVars, registryVars
  <2>2. LoadInv'
    BY <2>1, RulesLoad DEF Inv
  <2>3. TypesInv'
    BY <2>1 DEF Inv, TypesInv, TurnInv
  <2>4. NothingDefinedIsUndefined'
    BY <2>1, SameRules DEF Inv, DefinedInv, NothingDefinedIsUndefined, Registered
  <2>5. \A n \in DOMAIN registered : AreDefined(registered[n])' <=> AreDefined(registered[n])
    BY <2>1, SameRules DEF AreDefined
  <2>6. \A n \in 1..(turn - 1) : n \in DOMAIN registered
    BY <1>4
  <2>7. DefinedInv'
    BY <2>1, <2>4, <2>5, <2>6 DEF Inv, DefinedInv
  <2>8. QED
    BY <2>2, <2>3, <2>7 DEF Inv
<1>8. QED
  BY <1>1, <1>2, <1>3, <1>5, <1>6, <1>7 DEF Next, Terminated

LEMMA InvInit ==
  ASSUME Init
  PROVE  Inv
<1> DEFINE c == Config(Root, 0, "plain")
<1>1. /\ project \in Projects /\ configs = <<c>> /\ stack = <<Frame(1)>> /\ registered = <<>>
      /\ errors = FALSE /\ phase = "load"
      /\ type = [t \in Types |-> "absent"] /\ bound = Unbound /\ turn = 1
  BY DEF Init, ConfigInit
<1>2. c \in ConfigRecord /\ c.parent = 0 /\ c.references = <<>>
  BY DEF Config, ConfigRecord, Spellings
<1> HIDE DEF c
<1>3. configs \in Seq(ConfigRecord) /\ DOMAIN configs = {1} /\ configs[1] = c
  BY <1>1, <1>2
<1>4. ConfigsInv
  BY <1>2, <1>3 DEF ConfigsInv, OldParents, OwnReferences
<1>5. Frame(1) \in FrameRecord /\ Frame(1).config = 1
  BY DEF Frame, FrameRecord
<1>6. Cardinality(Files) \in Nat
  BY DepthAssumption, FS_CardinalityType
<1>7. StackInv
  <2>1. stack \in Seq(FrameRecord) /\ Len(stack) = 1 /\ DOMAIN stack = {1} /\ stack[1] = Frame(1)
    BY <1>1, <1>5
  <2>2. 1 <= MaxDepth
    BY <1>6, DepthAssumption
  <2>3. QED
    BY <1>3, <1>5, <2>1, <2>2 DEF StackInv
<1>8. RegisteredInv /\ StateInv
  <2>1. registered \in Seq(Nat) /\ DOMAIN registered = {} /\ Len(registered) = 0
    BY <1>1
  <2>2. QED
    BY <1>1, <2>1 DEF RegisteredInv, StateInv
<1>9. TypesInv
  <2>1. TurnInv
    BY <1>1 DEF TurnInv
  <2>2. type \in [Types -> States]
    BY <1>1 DEF States
  <2>3. QED
    BY <1>1, <2>1, <2>2, BoundType DEF TypesInv
<1>10. DefinedInv
  BY <1>1, BoundType DEF DefinedInv, NothingDefinedIsUndefined
<1>11. QED
  BY <1>4, <1>7, <1>8, <1>9, <1>10 DEF Inv, LoadInv

LEMMA InvHolds == Spec => []Inv
<1>1. Init => Inv
  BY InvInit
<1>2. Inv /\ [Next]_vars => Inv'
  BY InvStep
<1>3. QED
  BY <1>1, <1>2, PTL DEF Spec

(* TypeOK: configurations, stack, dictionary and registry hold what they   *)
(* can, every parent is older than its includes, and the registry meets    *)
(* only configurations that were loaded.                                   *)
THEOREM TypeCorrect == Spec => []TypeOK
<1>1. Inv => TypeOK
  <2> SUFFICES ASSUME Inv
               PROVE  TypeOK
    OBVIOUS
  <2>1. IsProject(project)
    BY ProjectAssumption DEF Inv, LoadInv, StateInv
  <2>2. ASSUME NEW c \in DOMAIN configs
        PROVE  /\ configs[c].file \in Files \cup {Root}
               /\ configs[c].parent \in 0..(c - 1)
               /\ configs[c].spelling \in Spellings
               /\ \A n \in DOMAIN configs[c].references : configs[c].references[n] \in DOMAIN configs
    BY ConfigFacts DEF Inv, LoadInv, ConfigsInv, OldParents, OwnReferences, ConfigRecord
  <2>3. ConfigTypeOK
    BY <2>1, <2>2 DEF ConfigTypeOK, Inv, LoadInv, StackInv, RegisteredInv, StateInv, Registered
  <2>4. QED
    BY <2>3 DEF TypeOK, Inv, TypesInv, TurnInv, Bound, States
<1>2. QED
  BY <1>1, InvHolds, PTL

(* Run: all files' types are defined before the first name is bound.       *)
(* However files include one another and wherever a type is defined, a     *)
(* name is bound to an undefined type only when no file that was loaded    *)
(* defines it.                                                             *)
THEOREM DefinedFirst == Spec => []NothingDefinedIsUndefined
<1>1. Inv => NothingDefinedIsUndefined
  BY DEF Inv, DefinedInv
<1>2. QED
  BY <1>1, InvHolds, PTL
-----------------------------------------------------------------------------
(* The configurations above one and the links from the root are functions  *)
(* that refer to themselves.  Each has a solution that does not: a         *)
(* configuration is above another when it is in every set that has the     *)
(* parent of that one and, of all it has, the parents; and the links are   *)
(* whole when some such set has no other.                                  *)
HasParents(S) == \A c \in S : c # 1 => configs[c].parent \in S

LEMMA AboveStep ==
  ASSUME ConfigsInv
  PROVE  Above = [c \in DOMAIN configs |->
                    IF c = 1 THEN {} ELSE {configs[c].parent} \cup Above[configs[c].parent]]
<1> DEFINE P(c) == configs[c].parent
           Sets(c) == {S \in SUBSET DOMAIN configs : HasParents(S) /\ P(c) \in S}
           In(c) == {d \in DOMAIN configs : \A S \in Sets(c) : d \in S}
           F == [c \in DOMAIN configs |-> IF c = 1 THEN {} ELSE In(c)]
           Of(A) == [c \in DOMAIN configs |-> IF c = 1 THEN {} ELSE {P(c)} \cup A[P(c)]]
<1>1. \A c \in DOMAIN configs : c # 1 => P(c) \in DOMAIN configs
  BY ConfigFacts
<1>2. ASSUME NEW c \in DOMAIN configs, c # 1
      PROVE  In(c) = {P(c)} \cup F[P(c)]
  <2> DEFINE p == P(c)
             T == {p} \cup F[p]
  <2>1. p \in DOMAIN configs
    BY <1>1, <1>2
  <2>2. T \subseteq DOMAIN configs /\ F[p] = (IF p = 1 THEN {} ELSE In(p))
    BY <2>1
  <2>3. HasParents(T)
    <3>1. CASE p = 1
      BY <2>2, <3>1 DEF HasParents
    <3>2. CASE p # 1
      <4>1. F[p] = In(p) /\ P(p) \in In(p)
        BY <1>1, <2>1, <2>2, <3>2
      <4>2. ASSUME NEW x \in In(p), x # 1
            PROVE  P(x) \in In(p)
        <5>1. x \in DOMAIN configs /\ P(x) \in DOMAIN configs
          BY <1>1, <4>2
        <5>2. \A S \in Sets(p) : P(x) \in S
          BY <4>2 DEF HasParents
        <5>3. QED
          BY <5>1, <5>2
      <4>3. QED
        BY <4>1, <4>2 DEF HasParents
    <3>3. QED
      BY <3>1, <3>2
  <2>4. In(c) \subseteq T
    <3>1. T \in Sets(c)
      BY <2>2, <2>3
    <3>2. QED
      BY <3>1
  <2>5. T \subseteq In(c)
    <3>1. p \in In(c)
      BY <2>1
    <3>2. ASSUME p # 1
          PROVE  In(p) \subseteq In(c)
      <4>1. \A S \in Sets(c) : S \in Sets(p)
        BY <3>2 DEF HasParents
      <4>2. QED
        BY <4>1
    <3>3. QED
      BY <2>2, <3>1, <3>2
  <2>6. QED
    BY <2>4, <2>5
<1>3. F = Of(F)
  <2> DEFINE G == Of(F)
  <2>1. \A c \in DOMAIN configs : F[c] = G[c]
    BY <1>2
  <2> HIDE DEF In
  <2>2. F = [c \in DOMAIN configs |-> F[c]] /\ G = [c \in DOMAIN configs |-> G[c]]
    OBVIOUS
  <2>3. F = G
    <3> HIDE DEF F, G
    <3> QED BY <2>1, <2>2
  <2>4. QED
    BY <2>3
<1> HIDE DEF F
<1>4. QED
  BY <1>3, Zenon DEF Above

(* A set of configurations that has their parents has all above them.      *)
LEMMA Smallest ==
  ASSUME NEW S, S \subseteq Nat, S # {}
  PROVE  \E i \in S : \A j \in S : i <= j
<1> DEFINE Less == {ss \in Nat \X Nat : ss[1] < ss[2]}
<1>1. IsWellFoundedOn(Less, Nat)
  BY NatLessThanWellFounded DEF OpToRel
<1>2. PICK i \in S : \A j \in S : <<j, i>> \notin Less
  <2> HIDE DEF Less
  <2> QED
    BY <1>1, WFMin
<1>3. ASSUME NEW j \in S
      PROVE  i <= j
  <2>1. ~(j < i)
    BY <1>2
  <2>2. QED
    BY <2>1
<1>4. QED
  BY <1>3

LEMMA AboveWithin ==
  ASSUME ConfigsInv, NEW S, HasParents(S),
         NEW c \in DOMAIN configs, c # 1 => configs[c].parent \in S
  PROVE  Above[c] \subseteq S
<1> DEFINE Enters(d) == d # 1 => configs[d].parent \in S
           Leaves == {d \in DOMAIN configs : Enters(d) /\ ~(Above[d] \subseteq S)}
<1>1. SUFFICES ASSUME Leaves # {}
               PROVE  FALSE
  OBVIOUS
<1>2. Leaves \subseteq Nat
  BY ConfigFacts
<1>3. PICK d \in Leaves : \A e \in Leaves : d <= e
  <2> HIDE DEF Leaves
  <2> QED BY <1>1, <1>2, Smallest
<1> DEFINE p == configs[d].parent
<1>4. d \in DOMAIN configs /\ Enters(d) /\ ~(Above[d] \subseteq S)
  OBVIOUS
<1>5. d # 1 /\ Above[d] = {p} \cup Above[p] /\ p \in S
  <2>1. Above[d] = IF d = 1 THEN {} ELSE {p} \cup Above[p]
    BY <1>4, AboveStep
  <2>2. QED
    BY <1>4, <2>1
<1>6. p \in DOMAIN configs /\ p < d /\ p \in Nat /\ d \in Nat
  BY <1>4, <1>5, ConfigFacts DEF ConfigsInv, OldParents
<1>7. Enters(p)
  BY <1>5, <1>6 DEF HasParents
<1>8. p \notin Leaves
  <2>1. \A e \in Leaves : d <= e
    BY <1>3
  <2> HIDE DEF Leaves
  <2>2. QED
    BY <1>6, <2>1
<1>9. Above[p] \subseteq S
  BY <1>6, <1>7, <1>8
<1>10. QED
  BY <1>4, <1>5, <1>9

IsReferenced(c) == \E n \in DOMAIN configs[configs[c].parent].references :
                     configs[configs[c].parent].references[n] = c

LEMMA LinkedStep ==
  ASSUME ConfigsInv
  PROVE  Linked = [c \in DOMAIN configs |->
                     IF c = 1 THEN TRUE
                     ELSE LET up == configs[c].parent
                          IN  /\ \E n \in DOMAIN configs[up].references :
                                   configs[up].references[n] = c
                              /\ Linked[up]]
<1> DEFINE P(c) == configs[c].parent
           Whole(S) == HasParents(S) /\ \A c \in S : c # 1 => IsReferenced(c)
           Sets(c) == {S \in SUBSET DOMAIN configs : Whole(S) /\ c \in S}
           F == [c \in DOMAIN configs |-> Sets(c) # {}]
           Of(L) == [c \in DOMAIN configs |->
                       IF c = 1 THEN TRUE
                       ELSE LET up == configs[c].parent
                            IN  /\ \E n \in DOMAIN configs[up].references :
                                     configs[up].references[n] = c
                                /\ L[up]]
<1>1. \A c \in DOMAIN configs : c # 1 => P(c) \in DOMAIN configs
  BY ConfigFacts
<1>2. ASSUME NEW c \in DOMAIN configs, c # 1
      PROVE  F[c] = (IsReferenced(c) /\ F[P(c)])
  <2>1. ASSUME NEW S \in Sets(c)
        PROVE  IsReferenced(c) /\ S \in Sets(P(c))
    BY <1>2, <2>1 DEF HasParents
  <2>2. ASSUME IsReferenced(c), NEW S \in Sets(P(c))
        PROVE  S \cup {c} \in Sets(c)
    BY <1>2, <2>2 DEF HasParents
  <2>3. F[c] = (Sets(c) # {}) /\ F[P(c)] = (Sets(P(c)) # {})
    BY <1>1, <1>2
  <2> HIDE DEF Sets, F
  <2>4. QED
    BY <2>1, <2>2, <2>3
<1>3. ASSUME NEW c \in DOMAIN configs, c = 1
      PROVE  F[c] = TRUE
  <2>1. {1} \in Sets(1)
    BY <1>3 DEF HasParents
  <2>2. QED
    BY <1>3, <2>1
<1>4. F = Of(F)
  <2> DEFINE G == Of(F)
  <2>1. \A c \in DOMAIN configs : F[c] = G[c]
    <3> HIDE DEF F
    <3> QED BY <1>2, <1>3 DEF IsReferenced
  <2>2. F = [c \in DOMAIN configs |-> F[c]] /\ G = [c \in DOMAIN configs |-> G[c]]
    OBVIOUS
  <2>3. F = G
    <3> HIDE DEF F, G
    <3> QED BY <2>1, <2>2
  <2>4. QED
    BY <2>3
<1> HIDE DEF F
<1>5. QED
  BY <1>4, Zenon DEF Linked

(* When every configuration is among its parent's references, all are      *)
(* linked to the root.                                                     *)
LEMMA AllLinked ==
  ASSUME ConfigsInv, \A c \in DOMAIN configs : c # 1 => IsReferenced(c)
  PROVE  \A c \in DOMAIN configs : Linked[c]
<1> DEFINE Cut == {c \in DOMAIN configs : ~Linked[c]}
<1>1. SUFFICES ASSUME Cut # {}
               PROVE  FALSE
  OBVIOUS
<1>2. Cut \subseteq Nat
  BY ConfigFacts
<1>3. PICK d \in Cut : \A e \in Cut : d <= e
  <2> HIDE DEF Cut
  <2> QED BY <1>1, <1>2, Smallest
<1> DEFINE p == configs[d].parent
<1>4. d \in DOMAIN configs /\ ~Linked[d]
  OBVIOUS
<1>5. d # 1 /\ ~Linked[p]
  <2>1. Linked[d] = IF d = 1 THEN TRUE ELSE IsReferenced(d) /\ Linked[p]
    BY <1>4, LinkedStep, Zenon DEF IsReferenced
  <2>2. QED
    BY <1>4, <2>1
<1>6. p \in DOMAIN configs /\ p < d /\ p \in Nat /\ d \in Nat
  BY <1>4, <1>5, ConfigFacts DEF ConfigsInv, OldParents
<1>7. p \in Cut
  BY <1>5, <1>6
<1>8. d <= p
  <2> HIDE DEF Cut
  <2> QED BY <1>3, <1>7
<1>9. QED
  BY <1>6, <1>8

-----------------------------------------------------------------------------
(* Steps of the loading, in full.                                          *)
LEMMA SeqFacts ==
  ASSUME LoadInv
  PROVE  /\ Len(configs) \in Nat /\ DOMAIN configs = 1..Len(configs)
         /\ Len(stack) \in Nat /\ DOMAIN stack = 1..Len(stack)
         /\ Len(registered) \in Nat /\ DOMAIN registered = 1..Len(registered)
         /\ \A n \in DOMAIN stack : /\ stack[n].config \in DOMAIN configs
                                    /\ stack[n].config \in Nat /\ stack[n].next \in Nat \ {0}
         /\ \A n \in DOMAIN registered : /\ registered[n] \in DOMAIN configs
                                         /\ registered[n] \in Nat
         /\ stack = <<>> <=> Len(stack) = 0
<1>1. configs \in Seq(ConfigRecord) /\ stack \in Seq(FrameRecord) /\ registered \in Seq(Nat)
  BY DEF LoadInv, ConfigsInv, StackInv, RegisteredInv
<1>2. \A n \in DOMAIN stack : stack[n] \in FrameRecord
  BY <1>1, ElementOfSeq
<1>3. \A n \in DOMAIN stack : stack[n].config \in Nat /\ stack[n].next \in Nat \ {0}
  BY <1>2 DEF FrameRecord
<1>4. \A n \in DOMAIN registered : registered[n] \in Nat
  BY <1>1, ElementOfSeq
<1>5. QED
  BY <1>1, <1>3, <1>4, EmptySeq DEF LoadInv, StackInv, RegisteredInv

LEMMA PopFrames ==
  ASSUME StackInv, stack # <<>>, Pop
  PROVE  /\ Len(stack) \in Nat \ {0} /\ DOMAIN stack = 1..Len(stack)
         /\ Len(stack') = Len(stack) - 1 /\ DOMAIN stack' = 1..(Len(stack) - 1)
         /\ \A i \in 1..(Len(stack) - 1) :
              /\ stack'[i].config = stack[i].config
              /\ stack'[i].next = IF i = Len(stack) - 1 THEN stack[i].next + 1 ELSE stack[i].next
<1> DEFINE n == Len(stack)
           s == SubSeq(stack, 1, n - 1)
<1>1. stack \in Seq(FrameRecord) /\ n \in Nat \ {0}
  BY TopFacts DEF StackInv
<1>2. \A i \in 1..n : stack[i] \in FrameRecord
  BY <1>1, ElementOfSeq
<1>3. CASE n = 1
  <2>1. stack' = <<>>
    BY <1>3 DEF Pop
  <2>2. QED
    BY <1>1, <1>3, <2>1
<1>4. CASE n # 1
  <2> HIDE DEF n
  <2>1. 1 \in Int /\ n - 1 \in Int /\ 1 <= n - 1 /\ \A i \in 1..(n - 1) : stack[i] \in FrameRecord
    BY <1>1, <1>2, <1>4
  <2>2. /\ s \in Seq(FrameRecord) /\ Len(s) = n - 1 /\ s # <<>>
        /\ \A i \in 1..Len(s) : s[i] = stack[i]
    BY <1>1, <2>1, SubSeqProperties
  <2>3. stack' = [s EXCEPT ![Len(s)].next = @ + 1]
    BY <1>4, <2>2 DEF Pop, n
  <2> HIDE DEF s
  <2>4. /\ stack' \in Seq(FrameRecord) /\ Len(stack') = Len(s)
        /\ \A i \in DOMAIN stack' : /\ i \in DOMAIN s /\ stack'[i].config = s[i].config
                                    /\ stack'[i].next = IF i = Len(s) THEN s[i].next + 1
                                                        ELSE s[i].next
    BY <2>2, <2>3, NextFrame
  <2>5. DOMAIN stack' = 1..(n - 1) /\ DOMAIN stack = 1..n
    BY <1>1, <2>2, <2>4 DEF n
  <2>6. QED
    BY <1>1, <2>2, <2>4, <2>5 DEF n
<1>5. QED
  BY <1>3, <1>4

LEMMA IncludeFacts ==
  ASSUME LoadInv, LoadInclude
  PROVE  /\ Expects /\ stack # <<>> /\ Top.config \in DOMAIN configs
         /\ Len(configs') = Len(configs) + 1 /\ DOMAIN configs' = 1..(Len(configs) + 1)
         /\ \A c \in DOMAIN configs : c \in DOMAIN configs' /\ configs'[c] = configs[c]
         /\ configs'[Len(configs) + 1] = Config(Entry.file, Top.config, Entry.spelling)
         /\ Len(stack') = Len(stack) + 1 /\ DOMAIN stack' = 1..(Len(stack) + 1)
         /\ \A n \in DOMAIN stack : n \in DOMAIN stack' /\ stack'[n] = stack[n]
         /\ stack'[Len(stack) + 1] = Frame(Len(configs) + 1)
         /\ UNCHANGED <<project, registered, errors, phase>>
<1> DEFINE c == Config(Entry.file, Top.config, Entry.spelling)
           f == Frame(Len(configs) + 1)
<1>1. Expects /\ stack # <<>> /\ UNCHANGED <<project, registered, errors, phase>>
  BY DEF LoadInclude, Expects, Loading
<1>2. Top.config \in DOMAIN configs
  BY <1>1, TopFacts DEF LoadInv
<1>3. configs \in Seq(ConfigRecord) /\ Len(configs) \in Nat /\ DOMAIN configs = 1..Len(configs)
  BY DEF LoadInv, ConfigsInv
<1>4. c \in ConfigRecord
  BY <1>1, <1>2, <1>3, EntryFacts DEF Config, ConfigRecord
<1>5. configs' = Append(configs, c) /\ stack' = Append(stack, Frame(Len(configs')))
  BY DEF LoadInclude
<1> HIDE DEF c
<1>6. /\ configs' \in Seq(ConfigRecord) /\ Len(configs') = Len(configs) + 1
      /\ \A i \in 1..Len(configs) : configs'[i] = configs[i]
      /\ configs'[Len(configs) + 1] = c
  BY <1>3, <1>4, <1>5, AppendProperties
<1>7. stack \in Seq(FrameRecord) /\ Len(stack) \in Nat /\ DOMAIN stack = 1..Len(stack)
  BY DEF LoadInv, StackInv
<1>8. f \in FrameRecord
  BY <1>3 DEF Frame, FrameRecord
<1>9. stack' = Append(stack, f)
  BY <1>5, <1>6
<1> HIDE DEF f
<1>10. /\ stack' \in Seq(FrameRecord) /\ Len(stack') = Len(stack) + 1
       /\ \A i \in 1..Len(stack) : stack'[i] = stack[i]
       /\ stack'[Len(stack) + 1] = f
  BY <1>7, <1>8, <1>9, AppendProperties
<1>11. DOMAIN configs' = 1..(Len(configs) + 1) /\ DOMAIN stack' = 1..(Len(stack) + 1)
  BY <1>6, <1>10
<1>12. (\A i \in 1..Len(configs) : i \in 1..(Len(configs) + 1))
       /\ (\A i \in 1..Len(stack) : i \in 1..(Len(stack) + 1))
  BY <1>3, <1>7
<1>13. QED
  BY <1>1, <1>2, <1>3, <1>6, <1>7, <1>10, <1>11, <1>12 DEF c, f

LEMMA RegisterFacts ==
  ASSUME LoadInv, Register
  PROVE  /\ Loaded /\ stack # <<>> /\ Pop /\ Top.config \in DOMAIN configs
         /\ UNCHANGED <<project, errors, phase>>
         /\ Key(Top.config) \notin Keys
         /\ DOMAIN configs' = DOMAIN configs
         /\ \A c \in DOMAIN configs : /\ configs'[c].file = configs[c].file
                                      /\ configs'[c].parent = configs[c].parent
         /\ \A c \in DOMAIN configs :
              configs'[c].references =
                IF Top.config # 1 /\ c = configs[Top.config].parent
                THEN Append(configs[c].references, Top.config) ELSE configs[c].references
         /\ Len(registered') = Len(registered) + 1
         /\ DOMAIN registered' = 1..(Len(registered) + 1)
         /\ \A n \in DOMAIN registered : registered'[n] = registered[n]
         /\ registered'[Len(registered) + 1] = Top.config
<1> DEFINE c == Top.config
           up == configs[c].parent
<1>1. Loaded /\ stack # <<>> /\ Pop /\ UNCHANGED <<project, errors, phase>>
      /\ Key(c) \notin Keys
  BY DEF Register, Loaded, Loading
<1>2. c \in DOMAIN configs /\ c \in Nat
  BY <1>1, TopFacts DEF LoadInv
<1>3. /\ DOMAIN configs' = DOMAIN configs
      /\ \A d \in DOMAIN configs : /\ configs'[d].file = configs[d].file
                                   /\ configs'[d].parent = configs[d].parent
                                   /\ configs'[d].references =
                                        IF c # 1 /\ d = up THEN Append(configs[d].references, c)
                                        ELSE configs[d].references
  <2>1. CASE c = 1
    <3>1. configs' = configs
      BY <2>1 DEF Register
    <3>2. QED
      BY <2>1, <3>1
  <2>2. CASE c # 1
    <3>1. configs' = [configs EXCEPT ![up].references = Append(@, c)]
      BY <2>2 DEF Register
    <3>2. up \in DOMAIN configs
      BY <1>2, <2>2, ConfigFacts DEF LoadInv
    <3>3. \A d \in DOMAIN configs : configs[d] \in ConfigRecord
      BY ConfigFacts DEF LoadInv
    <3> HIDE DEF c, up
    <3>4. DOMAIN configs' = DOMAIN configs
          /\ \A d \in DOMAIN configs :
               configs'[d] = IF d = up THEN [configs[d] EXCEPT !.references = Append(@, c)]
                             ELSE configs[d]
      BY <3>1, <3>2
    <3>5. QED
      BY <2>2, <3>3, <3>4 DEF ConfigRecord
  <2>3. QED
    BY <2>1, <2>2
<1>4. registered \in Seq(Nat) /\ Len(registered) \in Nat /\ DOMAIN registered = 1..Len(registered)
  BY DEF LoadInv, RegisteredInv
<1>5. registered' = Append(registered, c)
  BY DEF Register
<1> HIDE DEF c
<1>6. /\ registered' \in Seq(Nat) /\ Len(registered') = Len(registered) + 1
      /\ \A i \in 1..Len(registered) : registered'[i] = registered[i]
      /\ registered'[Len(registered) + 1] = c
  BY <1>2, <1>4, <1>5, AppendProperties
<1>7. QED
  BY <1>1, <1>2, <1>3, <1>4, <1>6 DEF c

(* What the other steps leave alone.                                       *)
LEMMA OtherFacts ==
  ASSUME LoadInv, ConfigNext, ~LoadInclude, ~Register
  PROVE  /\ UNCHANGED <<project, configs, registered>>
         /\ \/ LoadFails \/ RegisterTwice
            \/ (Overflow \/ Verify \/ RecordInputs) /\ stack' = stack
BY DEF ConfigNext, LoadFails, RegisterTwice, Overflow, Verify, RecordInputs

-----------------------------------------------------------------------------
(* Where the configurations stand.  Those being loaded are a chain from    *)
(* the root, each the parent of the next, and none of them is registered;  *)
(* so what stands above a configuration is registered after it, or never.  *)
ChainInv ==
  /\ 1 \in DOMAIN configs
  /\ stack # <<>> => stack[1].config = 1
  /\ \A n \in DOMAIN stack : n # 1 => configs[stack[n].config].parent = stack[n - 1].config
  /\ \A m, n \in DOMAIN stack : m < n => stack[m].config < stack[n].config
StackedAreNew ==
  \A n \in DOMAIN stack, m \in DOMAIN registered : stack[n].config # registered[m]
AboveAreLater ==
  \A n \in DOMAIN registered : registered[n] # 1 =>
    \E S \in SUBSET DOMAIN configs :
      /\ configs[registered[n]].parent \in S
      /\ HasParents(S)
      /\ \A m \in 1..n : registered[m] \notin S
PlaceInv == ChainInv /\ StackedAreNew /\ AboveAreLater

LEMMA PopChain ==
  ASSUME LoadInv, ChainInv, stack # <<>>, Pop, DOMAIN configs' = DOMAIN configs,
         \A c \in DOMAIN configs : configs'[c].parent = configs[c].parent
  PROVE  ChainInv'
<1> DEFINE k == Len(stack)
<1>1. /\ k \in Nat \ {0} /\ DOMAIN stack = 1..k /\ DOMAIN stack' = 1..(k - 1)
      /\ \A n \in 1..(k - 1) : stack'[n].config = stack[n].config
      /\ Len(stack') = k - 1
  BY PopFrames DEF LoadInv
<1>2. \A n \in 1..(k - 1) : n \in DOMAIN stack
  BY <1>1
<1>3. \A n \in DOMAIN stack : stack[n].config \in DOMAIN configs
  BY SeqFacts
<1> HIDE DEF k
<1>4. 1 \in DOMAIN configs'
  BY DEF ChainInv
<1>5. stack' # <<>> => stack'[1].config = 1
  <2>1. SUFFICES ASSUME stack' # <<>>
                 PROVE  stack'[1].config = 1
    OBVIOUS
  <2>2. k - 1 # 0
    <3>1. stack' \in Seq(FrameRecord)
      BY PopStep DEF LoadInv, StackInv
    <3>2. QED
      BY <1>1, <2>1, <3>1, EmptySeq
  <2>3. 1 \in 1..(k - 1)
    BY <1>1, <2>2
  <2>4. QED
    BY <1>1, <2>3 DEF ChainInv
<1>6. ASSUME NEW n \in DOMAIN stack', n # 1
      PROVE  configs'[stack'[n].config].parent = stack'[n - 1].config
  <2>1. n \in 1..(k - 1) /\ n - 1 \in 1..(k - 1) /\ n \in DOMAIN stack
    BY <1>1, <1>6
  <2>2. QED
    BY <1>1, <1>3, <1>6, <2>1 DEF ChainInv
<1>7. \A m, n \in DOMAIN stack' : m < n => stack'[m].config < stack'[n].config
  BY <1>1, <1>2 DEF ChainInv
<1>8. QED
  BY <1>4, <1>5, <1>6, <1>7 DEF ChainInv

LEMMA IncludePlaces ==
  ASSUME LoadInv, PlaceInv, LoadInclude
  PROVE  PlaceInv'
<1> DEFINE k == Len(stack)
           new == Len(configs) + 1
<1>1. /\ k \in Nat \ {0} /\ DOMAIN stack = 1..k /\ DOMAIN stack' = 1..(k + 1)
      /\ \A n \in DOMAIN stack : n \in DOMAIN stack' /\ stack'[n] = stack[n]
      /\ stack'[k + 1].config = new
  BY SeqFacts, IncludeFacts DEF Frame
<1>2. /\ new \in Nat /\ DOMAIN configs = 1..(new - 1) /\ DOMAIN configs' = 1..new
      /\ \A c \in DOMAIN configs : c \in DOMAIN configs' /\ configs'[c] = configs[c]
      /\ configs'[new].parent = stack[k].config
  BY SeqFacts, IncludeFacts DEF Config, Top
<1>3. registered' = registered /\ stack # <<>>
  BY IncludeFacts
<1>4. \A n \in DOMAIN stack : stack[n].config \in DOMAIN configs /\ stack[n].config \in Nat
  BY SeqFacts
<1>5. \A n \in DOMAIN registered : registered[n] \in DOMAIN configs
  BY SeqFacts
<1> HIDE DEF k, new
<1>6. ChainInv'
  <2>1. 1 \in DOMAIN configs'
    BY <1>2 DEF PlaceInv, ChainInv
  <2>2. stack'[1].config = 1
    BY <1>1, <1>3 DEF PlaceInv, ChainInv
  <2>3. ASSUME NEW n \in DOMAIN stack', n # 1
        PROVE  configs'[stack'[n].config].parent = stack'[n - 1].config
    <3>1. CASE n = k + 1
      BY <1>1, <1>2, <3>1
    <3>2. CASE n # k + 1
      <4>1. n \in DOMAIN stack /\ n - 1 \in DOMAIN stack
        BY <1>1, <2>3, <3>2
      <4>2. QED
        BY <1>1, <1>2, <1>4, <2>3, <4>1 DEF PlaceInv, ChainInv
    <3>3. QED
      BY <3>1, <3>2
  <2>4. ASSUME NEW m \in DOMAIN stack', NEW n \in DOMAIN stack', m < n
        PROVE  stack'[m].config < stack'[n].config
    <3>1. m \in DOMAIN stack
      BY <1>1, <2>4
    <3>2. CASE n = k + 1
      BY <1>1, <1>2, <1>4, <3>1, <3>2
    <3>3. CASE n # k + 1
      <4>1. n \in DOMAIN stack
        BY <1>1, <2>4, <3>3
      <4>2. QED
        BY <1>1, <2>4, <3>1, <4>1 DEF PlaceInv, ChainInv
    <3>4. QED
      BY <3>2, <3>3
  <2>5. QED
    BY <2>1, <2>2, <2>3, <2>4 DEF ChainInv
<1>7. StackedAreNew'
  <2>1. \A n \in DOMAIN stack' : n \in DOMAIN stack \/ n = k + 1
    BY <1>1
  <2>2. new \notin DOMAIN configs
    BY <1>2
  <2>3. QED
    BY <1>1, <1>3, <1>5, <2>1, <2>2 DEF PlaceInv, StackedAreNew
<1>8. AboveAreLater'
  <2>1. SUFFICES ASSUME NEW n \in DOMAIN registered, registered[n] # 1
                 PROVE  \E S \in SUBSET DOMAIN configs' :
                          /\ configs'[registered[n]].parent \in S
                          /\ HasParents(S)'
                          /\ \A m \in 1..n : registered[m] \notin S
    BY <1>3 DEF AboveAreLater
  <2>2. PICK S \in SUBSET DOMAIN configs :
               /\ configs[registered[n]].parent \in S
               /\ HasParents(S)
               /\ \A m \in 1..n : registered[m] \notin S
    BY <2>1 DEF PlaceInv, AboveAreLater
  <2>3. HasParents(S)'
    BY <1>2, <2>2 DEF HasParents
  <2>4. S \in SUBSET DOMAIN configs' /\ configs'[registered[n]].parent \in S
    BY <1>2, <1>5, <2>2
  <2>5. QED
    BY <2>2, <2>3, <2>4
<1>9. QED
  BY <1>6, <1>7, <1>8 DEF PlaceInv

LEMMA RegisterPlaces ==
  ASSUME LoadInv, PlaceInv, Register
  PROVE  PlaceInv'
<1> DEFINE k == Len(stack)
           r == Len(registered)
           top == stack[k].config
<1>1. /\ k \in Nat \ {0} /\ DOMAIN stack = 1..k /\ DOMAIN stack' = 1..(k - 1)
      /\ \A n \in 1..(k - 1) : stack'[n].config = stack[n].config
  BY RegisterFacts, PopFrames DEF LoadInv
<1>2. /\ stack # <<>> /\ Pop /\ DOMAIN configs' = DOMAIN configs
      /\ \A c \in DOMAIN configs : configs'[c].parent = configs[c].parent
  BY RegisterFacts
<1>3. /\ r \in Nat /\ DOMAIN registered = 1..r /\ DOMAIN registered' = 1..(r + 1)
      /\ \A n \in DOMAIN registered : registered'[n] = registered[n]
      /\ registered'[r + 1] = top
  BY SeqFacts, RegisterFacts DEF Top
<1>4. /\ \A n \in DOMAIN stack : stack[n].config \in DOMAIN configs /\ stack[n].config \in Nat
      /\ \A n \in DOMAIN registered : registered[n] \in DOMAIN configs
  BY SeqFacts
<1>5. \A n \in 1..(k - 1) : n \in DOMAIN stack /\ stack[n].config < top
  BY <1>1 DEF PlaceInv, ChainInv
<1> HIDE DEF k, r, top
<1>6. ChainInv'
  BY <1>2, PopChain DEF PlaceInv
<1>7. StackedAreNew'
  <2>1. ASSUME NEW n \in DOMAIN stack', NEW m \in DOMAIN registered'
        PROVE  stack'[n].config # registered'[m]
    <3>1. n \in DOMAIN stack /\ stack'[n].config = stack[n].config /\ stack[n].config < top
          /\ stack[n].config \in Nat
      BY <1>1, <1>4, <1>5
    <3>2. CASE m = r + 1
      <4>1. top \in Nat
        BY <1>1, <1>4 DEF top
      <4>2. QED
        BY <1>3, <3>1, <3>2, <4>1
    <3>3. CASE m # r + 1
      <4>1. m \in DOMAIN registered
        BY <1>3, <3>3
      <4>2. QED
        BY <1>3, <3>1, <4>1 DEF PlaceInv, StackedAreNew
    <3>4. QED
      BY <3>2, <3>3
  <2>2. QED
    BY <2>1 DEF StackedAreNew
<1>8. \A S \in SUBSET DOMAIN configs : HasParents(S) => HasParents(S)'
  BY <1>2 DEF HasParents
<1>9. ASSUME NEW n \in DOMAIN registered', registered'[n] # 1
      PROVE  \E S \in SUBSET DOMAIN configs :
               /\ configs[registered'[n]].parent \in S
               /\ HasParents(S)
               /\ \A m \in 1..n : registered'[m] \notin S
  <2>1. CASE n \in DOMAIN registered
    <3>1. PICK S \in SUBSET DOMAIN configs :
                 /\ configs[registered[n]].parent \in S
                 /\ HasParents(S)
                 /\ \A m \in 1..n : registered[m] \notin S
      BY <1>3, <1>9, <2>1 DEF PlaceInv, AboveAreLater
    <3>2. \A m \in 1..n : m \in DOMAIN registered
      BY <1>3, <2>1
    <3>3. QED
      BY <1>3, <2>1, <3>1, <3>2
  <2>2. CASE n \notin DOMAIN registered
    <3> DEFINE S == {stack[i].config : i \in 1..(k - 1)}
    <3>1. n = r + 1 /\ registered'[n] = top /\ top # 1
      BY <1>3, <1>9, <2>2
    <3>2. k # 1
      BY <1>2, <3>1 DEF PlaceInv, ChainInv, top
    <3>3. k \in DOMAIN stack /\ k - 1 \in 1..(k - 1)
      BY <1>1, <3>2
    <3>4. configs[top].parent = stack[k - 1].config
      BY <3>2, <3>3 DEF PlaceInv, ChainInv, top
    <3>5. configs[top].parent \in S
      BY <3>3, <3>4
    <3>6. HasParents(S)
      <4>1. SUFFICES ASSUME NEW i \in 1..(k - 1), stack[i].config # 1
                     PROVE  configs[stack[i].config].parent \in S
        BY DEF HasParents
      <4>2. i # 1
        BY <1>2, <4>1 DEF PlaceInv, ChainInv
      <4>3. i \in DOMAIN stack /\ i - 1 \in 1..(k - 1)
        BY <1>1, <4>2
      <4>4. configs[stack[i].config].parent = stack[i - 1].config
        BY <4>2, <4>3 DEF PlaceInv, ChainInv
      <4>5. QED
        BY <4>3, <4>4
    <3>7. ASSUME NEW m \in 1..n
          PROVE  registered'[m] \notin S
      <4>1. SUFFICES ASSUME NEW i \in 1..(k - 1)
                     PROVE  registered'[m] # stack[i].config
        OBVIOUS
      <4>2. i \in DOMAIN stack /\ stack[i].config < top /\ stack[i].config \in Nat
        BY <1>4, <1>5
      <4>3. CASE m = r + 1
        <5>1. top \in Nat
          BY <1>1, <1>4 DEF top
        <5>2. QED
          BY <1>3, <4>2, <4>3, <5>1
      <4>4. CASE m # r + 1
        <5>1. m \in DOMAIN registered
          BY <1>3, <3>1, <4>4
        <5>2. QED
          BY <1>3, <4>2, <5>1 DEF PlaceInv, StackedAreNew
      <4>5. QED
        BY <4>3, <4>4
    <3>8. S \in SUBSET DOMAIN configs
      BY <1>4, <1>5
    <3> HIDE DEF S
    <3>9. QED
      BY <3>1, <3>5, <3>6, <3>7, <3>8
  <2>3. QED
    BY <2>1, <2>2
<1>10. AboveAreLater'
  <2>1. SUFFICES ASSUME NEW n \in DOMAIN registered', registered'[n] # 1
                 PROVE  \E S \in SUBSET DOMAIN configs' :
                          /\ configs'[registered'[n]].parent \in S
                          /\ HasParents(S)'
                          /\ \A m \in 1..n : registered'[m] \notin S
    BY DEF AboveAreLater
  <2>2. PICK S \in SUBSET DOMAIN configs :
               /\ configs[registered'[n]].parent \in S
               /\ HasParents(S)
               /\ \A m \in 1..n : registered'[m] \notin S
    BY <1>9, <2>1
  <2>3. registered'[n] \in DOMAIN configs
    <3>1. n = r + 1 \/ n \in DOMAIN registered
      BY <1>3
    <3>2. top \in DOMAIN configs
      BY <1>1, <1>4 DEF top
    <3>3. QED
      BY <1>3, <1>4, <3>1, <3>2
  <2>4. HasParents(S)'
    BY <1>8, <2>2
  <2>5. QED
    BY <1>2, <2>2, <2>3, <2>4
<1>11. QED
  BY <1>6, <1>7, <1>10 DEF PlaceInv

(* A frame's next include, and all that is no frame and no configuration,  *)
(* does not matter to the places.                                          *)
LEMMA SamePlaces ==
  ASSUME PlaceInv, UNCHANGED <<configs, registered>>, DOMAIN stack' = DOMAIN stack,
         stack' # <<>> => stack # <<>>,
         \A n \in DOMAIN stack : stack'[n].config = stack[n].config, ConfigsInv, LoadInv
  PROVE  PlaceInv'
<1>1. \A n \in DOMAIN stack : n # 1 => n - 1 \in DOMAIN stack
  BY SeqFacts
<1>2. 1 \in DOMAIN stack \/ stack = <<>>
  BY SeqFacts
<1>3. ChainInv'
  BY <1>1, <1>2 DEF PlaceInv, ChainInv
<1>4. StackedAreNew'
  BY DEF PlaceInv, StackedAreNew
<1>5. AboveAreLater'
  BY DEF PlaceInv, AboveAreLater, HasParents
<1>6. QED
  BY <1>3, <1>4, <1>5 DEF PlaceInv

LEMMA LoadPlaces ==
  ASSUME LoadInv, PlaceInv, ConfigNext
  PROVE  PlaceInv'
<1>1. CASE LoadInclude
  BY <1>1, IncludePlaces
<1>2. CASE Register
  BY <1>2, RegisterPlaces
<1>3. CASE ~LoadInclude /\ ~Register
  <2>1. /\ UNCHANGED <<configs, registered>>
        /\ \/ LoadFails \/ RegisterTwice
           \/ (Overflow \/ Verify \/ RecordInputs) /\ stack' = stack
    BY <1>3, OtherFacts
  <2>2. CASE LoadFails
    <3>1. stack \in Seq(FrameRecord) /\ stack # <<>>
          /\ stack' = [stack EXCEPT ![Len(stack)].next = @ + 1]
      BY <2>2 DEF LoadFails, Expects, Loading, LoadInv, StackInv
    <3>2. /\ stack' \in Seq(FrameRecord) /\ Len(stack') = Len(stack)
          /\ \A i \in DOMAIN stack' : i \in DOMAIN stack /\ stack'[i].config = stack[i].config
      BY <3>1, NextFrame
    <3>3. DOMAIN stack' = DOMAIN stack
      BY <3>1, <3>2
    <3>4. QED
      BY <2>1, <3>1, <3>2, <3>3, SamePlaces DEF LoadInv
  <2>3. CASE RegisterTwice
    <3>1. stack # <<>> /\ Pop
      BY <2>3 DEF RegisterTwice, Loaded, Loading
    <3>2. ChainInv'
      BY <2>1, <3>1, PopChain DEF PlaceInv
    <3>3. /\ Len(stack) \in Nat \ {0} /\ DOMAIN stack = 1..Len(stack)
          /\ DOMAIN stack' = 1..(Len(stack) - 1)
          /\ \A n \in 1..(Len(stack) - 1) : stack'[n].config = stack[n].config
      BY <3>1, PopFrames DEF LoadInv
    <3>4. \A n \in DOMAIN stack' : n \in DOMAIN stack /\ stack'[n].config = stack[n].config
      BY <3>3
    <3>5. StackedAreNew'
      BY <2>1, <3>4 DEF PlaceInv, StackedAreNew
    <3>6. AboveAreLater'
      BY <2>1 DEF PlaceInv, AboveAreLater, HasParents
    <3>7. QED
      BY <3>2, <3>5, <3>6 DEF PlaceInv
  <2>4. CASE stack' = stack
    BY <2>1, <2>4, SamePlaces DEF LoadInv
  <2>5. QED
    BY <2>1, <2>2, <2>3, <2>4
<1>4. QED
  BY <1>1, <1>2, <1>3

-----------------------------------------------------------------------------
(* Who wins among the rules for the name that were met: an override that   *)
(* was met last, or the binding that was met first if none overrides.      *)
Rules(n) == {m \in 1..n : Binding(registered[m]) # NoBinding}
Forcing(n) == {m \in Rules(n) : Binding(registered[m]).override}
Wins(n, b) ==
  \E m \in Rules(n) :
    /\ b.by = registered[m]
    /\ b.to = Binding(registered[m]).to
    /\ Forcing(n) = {} => \A i \in Rules(n) : m <= i
    /\ Forcing(n) # {} => m \in Forcing(n) /\ \A i \in Forcing(n) : i <= m
Settled(n, nobody) == IF Rules(n) = {} THEN bound = nobody ELSE Wins(n, bound)
WinnerInv ==
  /\ phase = "bind" => Settled(turn - 1, Unbound)
  /\ phase = "prepare" => Settled(Len(registered), Unbound)
  /\ phase = "done" => Settled(Len(registered), Generated)

LEMMA WinnerBound ==
  ASSUME LoadInv, NEW n, n \in 0..Len(registered), NEW b, Wins(n, b)
  PROVE  b # Unbound
<1>1. PICK m \in Rules(n) : b.by = registered[m]
  BY DEF Wins
<1>2. m \in 1..n /\ n \in Nat /\ n <= Len(registered)
  BY SeqFacts DEF Rules
<1>3. m \in DOMAIN registered
  BY <1>2, SeqFacts
<1>4. registered[m] # 0
  BY <1>3, SeqFacts
<1>5. Unbound.by = 0
  BY DEF Unbound
<1>6. QED
  BY <1>1, <1>4, <1>5

(* The rules met so far and the next one.                                  *)
LEMMA NextRule ==
  ASSUME NEW k \in Nat
  PROVE  LET rule == Binding(registered[k + 1])
         IN  /\ rule = NoBinding => Rules(k + 1) = Rules(k) /\ Forcing(k + 1) = Forcing(k)
             /\ rule # NoBinding => Rules(k + 1) = Rules(k) \cup {k + 1}
             /\ rule # NoBinding /\ rule.override => Forcing(k + 1) = Forcing(k) \cup {k + 1}
             /\ rule # NoBinding /\ ~rule.override => Forcing(k + 1) = Forcing(k)
<1>1. 1..(k + 1) = (1..k) \cup {k + 1} /\ k + 1 \notin 1..k
  BY SMT
<1>2. QED
  BY <1>1 DEF Rules, Forcing

(* The files and their order make the rules.                               *)
LEMMA SameWinners ==
  ASSUME UNCHANGED <<project, configs, registered>>, NEW n, NEW b
  PROVE  /\ Rules(n)' = Rules(n) /\ Forcing(n)' = Forcing(n)
         /\ Wins(n, b)' <=> Wins(n, b)
<1>1. \A c : Binding(c)' = Binding(c)
  BY SameRules
<1>2. Rules(n)' = Rules(n) /\ Forcing(n)' = Forcing(n)
  BY <1>1 DEF Rules, Forcing
<1>3. QED
  BY <1>1, <1>2 DEF Wins

LEMMA BindWinner ==
  ASSUME Inv, WinnerInv, Bind
  PROVE  WinnerInv'
<1> DEFINE k == turn - 1
           c == registered[turn]
           rule == Binding(c)
<1>1. phase = "bind" /\ turn \in DOMAIN registered /\ turn \in 1..Len(registered)
      /\ Len(registered) \in Nat
  BY LengthFacts, TurnFacts DEF Inv, Bind, IsTurn, TypesInv
<1>2. turn' = turn + 1 /\ UNCHANGED <<project, configs, registered, phase>>
  BY DEF Bind, configVars
<1>3. k \in Nat /\ k + 1 = turn /\ turn' - 1 = turn /\ k \in 0..Len(registered)
  BY <1>1, <1>2
<1>4. Settled(k, Unbound)
  BY <1>1 DEF WinnerInv
<1>5. /\ rule = NoBinding => Rules(turn) = Rules(k) /\ Forcing(turn) = Forcing(k)
      /\ rule # NoBinding => Rules(turn) = Rules(k) \cup {turn}
      /\ rule # NoBinding /\ rule.override => Forcing(turn) = Forcing(k) \cup {turn}
      /\ rule # NoBinding /\ ~rule.override => Forcing(turn) = Forcing(k)
  <2>1. LET r == Binding(registered[k + 1])
        IN  /\ r = NoBinding => Rules(k + 1) = Rules(k) /\ Forcing(k + 1) = Forcing(k)
            /\ r # NoBinding => Rules(k + 1) = Rules(k) \cup {k + 1}
            /\ r # NoBinding /\ r.override => Forcing(k + 1) = Forcing(k) \cup {k + 1}
            /\ r # NoBinding /\ ~r.override => Forcing(k + 1) = Forcing(k)
    <3> HIDE DEF k
    <3> QED BY <1>3, NextRule
  <2>2. QED
    BY <1>3, <2>1
<1>6. \A m \in Rules(k) : m \in Nat /\ m < turn /\ m <= turn
  BY <1>1, <1>3 DEF Rules
<1>7. Forcing(k) \subseteq Rules(k) /\ turn <= turn
  BY <1>1 DEF Forcing
<1> HIDE DEF k
<1>8. IF Rules(turn) = {} THEN bound' = Unbound ELSE Wins(turn, bound')
  <2>1. CASE rule = NoBinding
    <3>1. bound' = bound
      BY <2>1 DEF Bind
    <3>2. QED
      BY <1>4, <1>5, <2>1, <3>1 DEF Settled, Wins
  <2>2. CASE rule # NoBinding /\ (bound = Unbound \/ rule.override)
    <3>1. bound'.by = c /\ bound'.to = rule.to
      BY <2>2 DEF Bind
    <3>2. turn \in Rules(turn)
      BY <1>5, <2>2
    <3>3. CASE rule.override
      <4>1. turn \in Forcing(turn) /\ \A i \in Forcing(turn) : i <= turn
        BY <1>5, <1>6, <1>7, <2>2, <3>3
      <4>2. QED
        BY <3>1, <3>2, <4>1 DEF Wins
    <3>4. CASE ~rule.override
      <4>1. Rules(k) = {}
        BY <1>3, <1>4, <2>2, <3>4, WinnerBound DEF Settled, Inv
      <4>2. Rules(turn) = {turn} /\ Forcing(turn) = {}
        BY <1>5, <1>7, <2>2, <3>4, <4>1
      <4>3. QED
        BY <1>7, <3>1, <3>2, <4>2 DEF Wins
    <3>5. QED
      BY <3>3, <3>4
  <2>3. CASE rule # NoBinding /\ bound # Unbound /\ ~rule.override
    <3>1. bound' = bound
      BY <2>3 DEF Bind
    <3>2. Wins(k, bound)
      BY <1>4, <2>3 DEF Settled
    <3>3. PICK m \in Rules(k) :
                 /\ bound.by = registered[m]
                 /\ bound.to = Binding(registered[m]).to
                 /\ Forcing(k) = {} => \A i \in Rules(k) : m <= i
                 /\ Forcing(k) # {} => m \in Forcing(k) /\ \A i \in Forcing(k) : i <= m
      BY <3>2 DEF Wins
    <3>4. Rules(turn) = Rules(k) \cup {turn} /\ Forcing(turn) = Forcing(k)
      BY <1>5, <2>3
    <3>5. Forcing(turn) = {} => \A i \in Rules(turn) : m <= i
      BY <1>6, <3>3, <3>4
    <3>6. Wins(turn, bound)
      BY <3>3, <3>4, <3>5 DEF Wins
    <3>7. QED
      BY <3>1, <3>4, <3>6
  <2>4. QED
    BY <2>1, <2>2, <2>3
<1>9. PICK t \in Nat : t = turn /\ turn' - 1 = t
  BY <1>1, <1>3
<1>10. PICK b : b = bound'
  OBVIOUS
<1>11. Rules(t)' = Rules(t) /\ (Wins(t, b)' <=> Wins(t, b))
  BY <1>2, SameWinners
<1>12. Settled(turn - 1, Unbound)' <=> IF Rules(t)' = {} THEN b = Unbound ELSE Wins(t, b)'
  BY <1>9, <1>10 DEF Settled, Unbound
<1>13. QED
  BY <1>1, <1>2, <1>8, <1>9, <1>10, <1>11, <1>12 DEF WinnerInv

LEMMA SameSettled ==
  ASSUME UNCHANGED <<project, configs, registered>>, NEW n, NEW nobody
  PROVE  Settled(n, nobody)' <=> IF Rules(n) = {} THEN bound' = nobody ELSE Wins(n, bound')
<1>1. PICK b : b = bound'
  OBVIOUS
<1>2. Rules(n)' = Rules(n) /\ (Wins(n, b)' <=> Wins(n, b))
  BY SameWinners
<1>3. Settled(n, nobody)' <=> IF Rules(n)' = {} THEN b = nobody ELSE Wins(n, b)'
  BY <1>1 DEF Settled
<1>4. QED
  BY <1>1, <1>2, <1>3

LEMMA WinnerStep ==
  ASSUME Inv, WinnerInv, [Next]_vars
  PROVE  WinnerInv'
<1>0. Len(registered) \in Nat /\ turn \in 1..(Len(registered) + 1)
  BY LengthFacts DEF Inv, TypesInv, TurnInv
<1> DEFINE k == Len(registered)
<1>1. CASE Load
  <2>1. phase' \notin {"bind", "prepare", "done"}
    BY <1>1 DEF Load, ConfigNext, LoadFails, LoadInclude, Overflow, Register, RegisterTwice,
                Verify, RecordInputs, Expects, Loaded, Loading
  <2>2. QED
    BY <2>1 DEF WinnerInv
<1>2. CASE Define
  <2>1. phase' = "define"
    BY <1>2 DEF Define, IsTurn, configVars
  <2>2. QED
    BY <2>1 DEF WinnerInv
<1>3. CASE Defines
  <2>1. phase = "define" /\ phase' = "bind" /\ turn' = 1 /\ bound' = bound
    BY <1>3 DEF Defines, NextPhase
  <2>2. bound = Unbound
    BY <2>1 DEF Inv, DefinedInv
  <2>3. Settled(turn - 1, Unbound)'
    <3>1. turn' - 1 = 0 /\ 1..0 = {}
      BY <2>1
    <3>2. QED
      BY <2>1, <2>2, <3>1 DEF Settled, Rules, Unbound
  <2>4. QED
    BY <2>1, <2>3 DEF WinnerInv
<1>4. CASE Bind
  BY <1>4, BindWinner
<1>5. CASE Bindings
  <2>1. /\ phase = "bind" /\ phase' = "prepare" /\ turn > Len(registered)
        /\ UNCHANGED <<project, configs, registered, bound>>
    BY <1>5 DEF Bindings, NextPhase
  <2>2. turn - 1 = Len(registered)
    BY <1>0, <2>1
  <2>3. Settled(Len(registered), Unbound)
    BY <2>1, <2>2 DEF WinnerInv
  <2>4. Settled(k, Unbound)'
    <3>1. PICK n : n = k /\ n = k'
      BY <2>1
    <3>2. Settled(n, Unbound)' <=> IF Rules(n) = {} THEN bound' = Unbound ELSE Wins(n, bound')
      BY <2>1, SameSettled
    <3>3. QED
      BY <2>1, <2>3, <3>1, <3>2 DEF Settled, Unbound
  <2>5. QED
    BY <2>1, <2>4 DEF WinnerInv
<1>6. CASE Prepare
  <2>1. /\ phase = "prepare" /\ phase' = "done"
        /\ UNCHANGED <<project, configs, registered>>
        /\ bound' = IF bound = Unbound THEN Generated ELSE bound
    BY <1>6 DEF Prepare
  <2>2. Settled(Len(registered), Unbound)
    BY <2>1 DEF WinnerInv
  <2>3. IF Rules(Len(registered)) = {} THEN bound' = Generated
        ELSE Wins(Len(registered), bound')
    <3>1. CASE Rules(Len(registered)) = {}
      BY <2>1, <2>2, <3>1 DEF Settled
    <3>2. CASE Rules(Len(registered)) # {}
      <4>1. Wins(Len(registered), bound)
        BY <2>2, <3>2 DEF Settled
      <4>2. Len(registered) \in 0..Len(registered)
        BY <1>0
      <4>3. bound # Unbound
        BY <4>1, <4>2, WinnerBound DEF Inv
      <4>4. QED
        BY <2>1, <3>2, <4>1, <4>3
    <3>3. QED
      BY <3>1, <3>2
  <2>4. Settled(k, Generated)'
    <3>1. PICK n : n = k /\ n = k'
      BY <2>1
    <3>2. Settled(n, Generated)' <=> IF Rules(n) = {} THEN bound' = Generated ELSE Wins(n, bound')
      BY <2>1, SameSettled
    <3>3. QED
      BY <2>3, <3>1, <3>2 DEF Settled, Generated
  <2>5. QED
    BY <2>1, <2>4 DEF WinnerInv
<1>7. CASE UNCHANGED vars
  <2>1. UNCHANGED <<project, configs, registered, phase, bound, turn>>
    BY <1>7 DEF vars, configVars, registryVars
  <2>2. \A c : Binding(c)' = Binding(c)
    BY <2>1, SameRules
  <2>3. Settled(turn - 1, Unbound)' <=> Settled(turn - 1, Unbound)
    BY <2>1, <2>2 DEF Settled, Wins, Rules, Forcing, Unbound
  <2>4. Settled(Len(registered), Unbound)' <=> Settled(Len(registered), Unbound)
    BY <2>1, <2>2 DEF Settled, Wins, Rules, Forcing, Unbound
  <2>5. Settled(Len(registered), Generated)' <=> Settled(Len(registered), Generated)
    BY <2>1, <2>2 DEF Settled, Wins, Rules, Forcing, Generated
  <2>6. QED
    BY <2>1, <2>3, <2>4, <2>5 DEF WinnerInv
<1>8. QED
  BY <1>1, <1>2, <1>3, <1>4, <1>5, <1>6, <1>7 DEF Next, Terminated

LEMMA PlaceStep ==
  ASSUME Inv, PlaceInv, [Next]_vars
  PROVE  PlaceInv'
<1>1. CASE Load
  BY <1>1, LoadPlaces DEF Load, Inv
<1>2. CASE ~Load
  <2>1. UNCHANGED <<configs, registered, stack>>
    BY <1>2 DEF Next, Define, Defines, Bind, Bindings, NextPhase, Prepare, Terminated, vars,
                configVars
  <2>2. QED
    BY <2>1, SamePlaces DEF Inv, LoadInv
<1>3. QED
  BY <1>1, <1>2

LEMMA PlaceInit ==
  ASSUME Init
  PROVE  PlaceInv /\ WinnerInv
<1>1. /\ configs = <<Config(Root, 0, "plain")>> /\ stack = <<Frame(1)>> /\ registered = <<>>
      /\ phase = "load"
  BY DEF Init, ConfigInit
<1>2. DOMAIN configs = {1} /\ DOMAIN stack = {1} /\ stack[1].config = 1 /\ DOMAIN registered = {}
  BY <1>1 DEF Frame
<1>3. ChainInv
  BY <1>2 DEF ChainInv
<1>4. QED
  BY <1>1, <1>2, <1>3 DEF PlaceInv, StackedAreNew, AboveAreLater, WinnerInv

LEMMA PlacesHold == Spec => [](Inv /\ PlaceInv /\ WinnerInv)
<1>1. Init => Inv /\ PlaceInv /\ WinnerInv
  BY InvInit, PlaceInit
<1>2. Inv /\ PlaceInv /\ WinnerInv /\ [Next]_vars => (Inv /\ PlaceInv /\ WinnerInv)'
  BY InvStep, PlaceStep, WinnerStep
<1>3. QED
  BY <1>1, <1>2, PTL DEF Spec

(* What stands above a configuration was not registered before it.         *)
LEMMA AboveLater ==
  ASSUME LoadInv, PlaceInv, NEW n \in DOMAIN registered, NEW m \in 1..n
  PROVE  registered[m] \notin Above[registered[n]]
<1> DEFINE c == registered[n]
<1>1. c \in DOMAIN configs
  BY SeqFacts
<1>2. CASE c = 1
  <2>1. Above[c] = {}
    BY <1>1, <1>2, AboveStep DEF LoadInv
  <2>2. QED
    BY <2>1
<1>3. CASE c # 1
  <2>1. PICK S \in SUBSET DOMAIN configs :
               /\ configs[c].parent \in S
               /\ HasParents(S)
               /\ \A i \in 1..n : registered[i] \notin S
    BY <1>3 DEF PlaceInv, AboveAreLater
  <2>2. Above[c] \subseteq S
    BY <1>1, <2>1, AboveWithin DEF LoadInv
  <2>3. QED
    BY <2>1, <2>2
<1>4. QED
  BY <1>2, <1>3

(* Run: what the C++ name means follows from where the files stand.  For   *)
(* any files that include one another in any way, the binding of a file    *)
(* stands against those of the files that include it, and its override     *)
(* gives way to theirs; a name that no file binds is generated.            *)
THEOREM IncludesGivePriority == Spec => []PriorityFollowsIncludes
<1>1. Inv /\ PlaceInv /\ WinnerInv => PriorityFollowsIncludes
  <2> SUFFICES ASSUME LoadInv, PlaceInv, WinnerInv, phase = "done"
               PROVE  IF Binders = {} THEN bound = Generated
                      ELSE /\ bound.by \in Binders
                           /\ bound.to = Binding(bound.by).to
                           /\ IF Overrides = {}
                              THEN \A c \in Binders : bound.by \notin Above[c]
                              ELSE /\ bound.by \in Overrides
                                   /\ \A c \in Overrides : c \notin Above[bound.by]
    BY DEF PriorityFollowsIncludes, Inv
  <2> DEFINE k == Len(registered)
  <2>1. Settled(k, Generated) /\ k \in Nat /\ DOMAIN registered = 1..k
    BY SeqFacts DEF WinnerInv
  <2> HIDE DEF k
  <2>2. /\ \A m \in Rules(k) : m \in DOMAIN registered /\ registered[m] \in Binders
        /\ \A c \in Binders : \E m \in Rules(k) : c = registered[m]
    BY <2>1 DEF Rules, Binders, Registered
  <2>3. /\ \A m \in Forcing(k) : m \in Rules(k) /\ registered[m] \in Overrides
        /\ \A c \in Overrides : \E m \in Forcing(k) : c = registered[m]
    BY <2>2 DEF Forcing, Overrides
  <2>4. CASE Rules(k) = {}
    BY <2>1, <2>2, <2>4 DEF Settled
  <2>5. CASE Rules(k) # {}
    <3>1. PICK m \in Rules(k) :
                 /\ bound.by = registered[m]
                 /\ bound.to = Binding(registered[m]).to
                 /\ Forcing(k) = {} => \A i \in Rules(k) : m <= i
                 /\ Forcing(k) # {} => m \in Forcing(k) /\ \A i \in Forcing(k) : i <= m
      BY <2>1, <2>5 DEF Settled, Wins
    <3>2. \A i \in Rules(k) : i \in DOMAIN registered /\ i \in Nat /\ 1 <= i
      BY <2>1 DEF Rules
    <3>3. ASSUME NEW i \in Rules(k), NEW j \in Rules(k), i <= j
          PROVE  registered[i] \notin Above[registered[j]]
      <4>1. i \in 1..j /\ j \in DOMAIN registered
        BY <3>2, <3>3
      <4>2. QED
        BY <4>1, AboveLater
    <3>4. CASE Forcing(k) = {}
      <4>1. Overrides = {} /\ Binders # {}
        BY <2>2, <2>3, <3>1, <3>4
      <4>2. \A c \in Binders : bound.by \notin Above[c]
        BY <2>2, <3>1, <3>3, <3>4
      <4>3. QED
        BY <2>2, <3>1, <4>1, <4>2
    <3>5. CASE Forcing(k) # {}
      <4>1. Overrides # {} /\ Binders # {} /\ bound.by \in Overrides
        BY <2>2, <2>3, <3>1, <3>5
      <4>2. \A c \in Overrides : c \notin Above[bound.by]
        BY <2>3, <3>1, <3>3, <3>5
      <4>3. QED
        BY <2>2, <3>1, <4>1, <4>2
    <3>6. QED
      BY <3>4, <3>5
  <2>6. QED
    BY <2>4, <2>5
<1>2. QED
  BY <1>1, PlacesHold, PTL

-----------------------------------------------------------------------------
(* A load without errors.  As long as nothing was logged every             *)
(* configuration is being loaded or is registered; a registered one is     *)
(* among its parent's references; and references are the includes that     *)
(* have been met, all of them once a configuration is registered.          *)
Refers(c, k) ==
  /\ Len(configs[c].references) = k
  /\ \A n \in 1..k : configs[configs[c].references[n]].file = Includes(c)[n].file

AllKept == \A c \in DOMAIN configs : c \in Registered \/ \E n \in DOMAIN stack : stack[n].config = c
AllReferenced == \A c \in Registered : c # 1 => IsReferenced(c)
AllIncluded == \A c \in Registered : Refers(c, Len(Includes(c)))
FramesInclude ==
  \A n \in DOMAIN stack :
    LET c == stack[n].config
        next == stack[n].next
    IN  /\ Refers(c, next - 1)
        /\ next <= Len(Includes(c)) + 1
        /\ n # Len(stack) => /\ next <= Len(Includes(c))
                             /\ configs[stack[n + 1].config].file = Includes(c)[next].file
WholeInv == ~errors => AllKept /\ AllReferenced /\ AllIncluded /\ FramesInclude

KeysDiffer ==
  \A m, n \in DOMAIN registered : m < n => Key(registered[m]) # Key(registered[n])

(* Verification comes when nothing is left to load, and from then on       *)
(* nothing is loaded.                                                      *)
Verified == phase \in {"record", "define", "bind", "prepare", "done"}
VerifiedInv ==
  /\ Verified => stack = <<>>
  /\ GoesOn => ~errors
  /\ Verified /\ ~errors => \A c \in DOMAIN configs : c # 1 => Depends(c) \subseteq Keys

CleanInv == WholeInv /\ KeysDiffer /\ VerifiedInv

LEMMA IncludesFacts ==
  ASSUME LoadInv, NEW c \in DOMAIN configs
  PROVE  /\ Len(Includes(c)) \in Nat /\ DOMAIN Includes(c) = 1..Len(Includes(c))
         /\ Len(configs[c].references) \in Nat
         /\ DOMAIN configs[c].references = 1..Len(configs[c].references)
         /\ \A n \in DOMAIN configs[c].references : configs[c].references[n] \in DOMAIN configs
<1>1. configs[c].file \in Files \cup {Root} /\ configs[c].references \in Seq(Nat)
  BY ConfigFacts DEF LoadInv
<1>2. IsProject(project)
  BY ProjectAssumption DEF LoadInv, StateInv
<1>3. Includes(c) \in Seq([file : Files, spelling : Spellings])
  BY <1>1, <1>2 DEF IsProject, Includes
<1>4. QED
  BY <1>1, <1>3 DEF LoadInv, ConfigsInv, OwnReferences

LEMMA SameFile ==
  ASSUME NEW c, project' = project, configs'[c].file = configs[c].file
  PROVE  Key(c)' = Key(c) /\ Includes(c)' = Includes(c) /\ Depends(c)' = Depends(c)
BY DEF Key, Includes, Depends

LEMMA RefersStays ==
  ASSUME LoadInv, NEW c \in DOMAIN configs, NEW k, Refers(c, k),
         project' = project, configs'[c].references = configs[c].references,
         \A d \in DOMAIN configs : configs'[d].file = configs[d].file
  PROVE  Len(configs'[c].references) = k
         /\ \A n \in 1..k : configs'[configs'[c].references[n]].file = Includes(c)'[n].file
<1>1. Includes(c)' = Includes(c)
  BY SameFile
<1>2. \A n \in 1..k : configs[c].references[n] \in DOMAIN configs
  BY IncludesFacts DEF Refers
<1>3. QED
  BY <1>1, <1>2 DEF Refers

LEMMA IncludeWhole ==
  ASSUME LoadInv, WholeInv, LoadInclude
  PROVE  WholeInv'
<1> DEFINE k == Len(stack)
           new == Len(configs) + 1
<1>1. SUFFICES ASSUME ~errors
               PROVE  (AllKept /\ AllReferenced /\ AllIncluded /\ FramesInclude)'
  BY IncludeFacts DEF WholeInv
<1>2. AllKept /\ AllReferenced /\ AllIncluded /\ FramesInclude
  BY <1>1 DEF WholeInv
<1>3. /\ k \in Nat \ {0} /\ DOMAIN stack = 1..k /\ DOMAIN stack' = 1..(k + 1) /\ Len(stack') = k + 1
      /\ \A n \in DOMAIN stack : n \in DOMAIN stack' /\ stack'[n] = stack[n]
      /\ stack'[k + 1].config = new /\ stack'[k + 1].next = 1
  BY SeqFacts, IncludeFacts DEF Frame
<1>4. /\ new \in Nat \ {0} /\ DOMAIN configs = 1..(new - 1) /\ DOMAIN configs' = 1..new
      /\ \A c \in DOMAIN configs : c \in DOMAIN configs' /\ configs'[c] = configs[c]
      /\ configs'[new].references = <<>> /\ configs'[new].file = Entry.file
  BY SeqFacts, IncludeFacts DEF Config
<1>5. registered' = registered /\ project' = project /\ Expects
  BY IncludeFacts
<1>6. /\ \A n \in DOMAIN stack : stack[n].config \in DOMAIN configs
      /\ \A c \in Registered : c \in DOMAIN configs
  BY SeqFacts DEF Registered
<1>7. LoadInv'
  BY IncludeStep
<1>8. \A c \in DOMAIN configs : Includes(c)' = Includes(c)
  BY <1>4, <1>5, SameFile
<1>9. Registered' = Registered
  BY <1>5 DEF Registered
<1>10. ASSUME NEW c \in DOMAIN configs, NEW i, Refers(c, i)
       PROVE  Refers(c, i)'
  <2>1. \A d \in DOMAIN configs : configs'[d].file = configs[d].file
    BY <1>4
  <2>2. configs'[c].references = configs[c].references
    BY <1>4
  <2>3. QED
    BY <1>5, <1>10, <2>1, <2>2, RefersStays DEF Refers
<1> HIDE DEF k, new
<1>11. AllKept'
  <2>1. ASSUME NEW c \in DOMAIN configs'
        PROVE  c \in Registered \/ \E n \in DOMAIN stack' : stack'[n].config = c
    <3>1. CASE c = new
      BY <1>3, <3>1
    <3>2. CASE c \in DOMAIN configs
      BY <1>2, <1>3, <3>2 DEF AllKept
    <3>3. QED
      BY <1>4, <3>1, <3>2
  <2>2. QED
    BY <1>9, <2>1 DEF AllKept
<1>12. AllReferenced'
  <2>1. \A c \in DOMAIN configs : c # 1 => configs[c].parent \in DOMAIN configs
    BY ConfigFacts DEF LoadInv
  <2>2. \A c \in Registered : c # 1 => IsReferenced(c)'
    BY <1>2, <1>4, <1>6, <2>1 DEF AllReferenced, IsReferenced
  <2>3. QED
    BY <1>9, <2>2 DEF AllReferenced
<1>13. AllIncluded'
  BY <1>2, <1>6, <1>8, <1>9, <1>10 DEF AllIncluded
<1>14. FramesInclude'
  <2>1. ASSUME NEW n \in DOMAIN stack', NEW c, c = stack'[n].config, NEW next, next = stack'[n].next
        PROVE  /\ Refers(c, next - 1)'
               /\ next <= Len(Includes(c)') + 1
               /\ n # k + 1 => /\ next <= Len(Includes(c)')
                               /\ configs'[stack'[n + 1].config].file = Includes(c)'[next].file
    <3>1. CASE n = k + 1
      <4>1. c = new /\ next = 1 /\ c \in DOMAIN configs'
        BY <1>3, <1>4, <2>1, <3>1
      <4>2. Len(Includes(c)') \in Nat
        BY <1>7, <4>1, IncludesFacts
      <4>3. Refers(c, 0)'
        BY <1>4, <4>1 DEF Refers
      <4>4. QED
        BY <3>1, <4>1, <4>2, <4>3
    <3>2. CASE n # k + 1
      <4>1. n \in DOMAIN stack /\ stack'[n] = stack[n] /\ c \in DOMAIN configs
            /\ c = stack[n].config /\ next = stack[n].next
        BY <1>3, <1>6, <2>1, <3>2
      <4>2. Refers(c, next - 1) /\ next <= Len(Includes(c)) + 1
        BY <1>2, <4>1 DEF FramesInclude
      <4>3. next <= Len(Includes(c)) /\ configs'[stack'[n + 1].config].file = Includes(c)[next].file
        <5>1. CASE n = k
          <6>1. c = Top.config /\ next = Top.next
            BY <4>1, <5>1 DEF Top, k
          <6>2. QED
            BY <1>3, <1>4, <1>5, <5>1, <6>1 DEF Expects, Entry
        <5>2. CASE n # k
          <6>1. n + 1 \in DOMAIN stack
            BY <1>3, <4>1, <5>2
          <6>2. stack'[n + 1] = stack[n + 1] /\ stack[n + 1].config \in DOMAIN configs
            BY <1>3, <1>6, <6>1
          <6>3. next <= Len(Includes(c)) /\ configs[stack[n + 1].config].file = Includes(c)[next].file
            BY <1>2, <4>1, <5>2 DEF FramesInclude, k
          <6>4. QED
            BY <1>4, <6>2, <6>3
        <5>3. QED
          BY <5>1, <5>2
      <4>4. Refers(c, next - 1)' /\ Includes(c)' = Includes(c)
        BY <1>8, <1>10, <4>1, <4>2
      <4>5. QED
        BY <4>2, <4>3, <4>4
    <3>3. QED
      BY <3>1, <3>2
  <2>2. QED
    BY <1>3, <2>1 DEF FramesInclude
<1>15. QED
  BY <1>11, <1>12, <1>13, <1>14

LEMMA RegisterWhole ==
  ASSUME LoadInv, PlaceInv, WholeInv, Register
  PROVE  WholeInv'
<1> DEFINE k == Len(stack)
           r == Len(registered)
<1>1. SUFFICES ASSUME ~errors
               PROVE  (AllKept /\ AllReferenced /\ AllIncluded /\ FramesInclude)'
  BY RegisterFacts DEF WholeInv
<1>2. AllKept /\ AllReferenced /\ AllIncluded /\ FramesInclude
  BY <1>1 DEF WholeInv
<1>3. /\ k \in Nat \ {0} /\ DOMAIN stack = 1..k
      /\ Len(stack') = k - 1 /\ DOMAIN stack' = 1..(k - 1)
      /\ \A n \in 1..(k - 1) :
           /\ stack'[n].config = stack[n].config
           /\ stack'[n].next = IF n = k - 1 THEN stack[n].next + 1 ELSE stack[n].next
  BY RegisterFacts, PopFrames DEF LoadInv
<1>4. PICK top \in DOMAIN configs : top = stack[k].config
  BY RegisterFacts DEF Top
<1>5. /\ stack # <<>> /\ Loaded /\ project' = project /\ DOMAIN configs' = DOMAIN configs
      /\ \A c \in DOMAIN configs : /\ configs'[c].file = configs[c].file
                                   /\ configs'[c].parent = configs[c].parent
                                   /\ configs'[c].references =
                                        IF top # 1 /\ c = configs[top].parent
                                        THEN Append(configs[c].references, top)
                                        ELSE configs[c].references
  BY <1>4, RegisterFacts DEF Top
<1>6. /\ r \in Nat /\ DOMAIN registered = 1..r /\ DOMAIN registered' = 1..(r + 1)
      /\ \A n \in DOMAIN registered : registered'[n] = registered[n]
      /\ registered'[r + 1] = top
  BY <1>4, SeqFacts, RegisterFacts DEF Top
<1>7. /\ \A n \in DOMAIN stack : /\ stack[n].config \in DOMAIN configs
                                 /\ stack[n].config \in Nat /\ stack[n].next \in Nat \ {0}
      /\ \A c \in Registered : c \in DOMAIN configs
  BY SeqFacts DEF Registered
<1>8. stack[k].next > Len(Includes(top))
  BY <1>4, <1>5 DEF Loaded, Top
<1> HIDE DEF k, r
<1>9. Registered' = Registered \cup {top}
  BY <1>6 DEF Registered
<1>10. \A c \in DOMAIN configs : Includes(c)' = Includes(c)
  BY <1>5, SameFile
<1>11. ASSUME NEW c \in DOMAIN configs, NEW i, Refers(c, i), top = 1 \/ c # configs[top].parent
       PROVE  Refers(c, i)'
  <2>1. \A d \in DOMAIN configs : configs'[d].file = configs[d].file
    BY <1>5
  <2>2. configs'[c].references = configs[c].references
    BY <1>5, <1>11
  <2>3. QED
    BY <1>5, <1>11, <2>1, <2>2, RefersStays DEF Refers
<1>12. /\ top # 1 => k # 1 /\ k - 1 \in DOMAIN stack /\ configs[top].parent = stack[k - 1].config
       /\ top = 1 => k = 1
  <2>1. k \in DOMAIN stack /\ (k # 1 => k - 1 \in DOMAIN stack /\ 1 \in DOMAIN stack /\ 1 < k)
    BY <1>3
  <2>2. stack[1].config = 1 /\ (k # 1 => stack[1].config < stack[k].config)
    BY <1>5, <2>1 DEF PlaceInv, ChainInv
  <2>3. QED
    BY <1>4, <2>1, <2>2 DEF PlaceInv, ChainInv
<1>13. \A m, n \in DOMAIN stack : m # n => stack[m].config # stack[n].config
  <2>1. \A m, n \in DOMAIN stack : m < n => stack[m].config # stack[n].config
    BY <1>7 DEF PlaceInv, ChainInv
  <2>2. QED
    BY <1>3, <2>1
<1>14. \A n \in DOMAIN stack : stack[n].config \notin Registered
  BY DEF PlaceInv, StackedAreNew, Registered
<1>15. AllKept'
  <2>1. ASSUME NEW c \in DOMAIN configs, c \notin Registered, c # top
        PROVE  \E n \in DOMAIN stack' : stack'[n].config = c
    <3>1. PICK n \in DOMAIN stack : stack[n].config = c
      BY <1>2, <2>1 DEF AllKept
    <3>2. n \in 1..(k - 1)
      BY <1>3, <1>4, <2>1, <3>1
    <3>3. QED
      BY <1>3, <3>1, <3>2
  <2>2. QED
    BY <1>5, <1>9, <2>1 DEF AllKept
<1>16. AllReferenced'
  <2>1. ASSUME NEW c \in Registered \cup {top}, c # 1
        PROVE  IsReferenced(c)'
    <3> DEFINE p == configs[c].parent
               s == configs[p].references
    <3>1. c \in DOMAIN configs /\ configs'[c].parent = p
      BY <1>5, <1>7, <2>1
    <3>2. p \in DOMAIN configs
      BY <2>1, <3>1, ConfigFacts DEF LoadInv
    <3>3. s \in Seq(Nat) /\ top \in Nat /\ p \in Nat
      BY <1>4, <3>2, ConfigFacts DEF LoadInv
    <3>4. configs'[p].references \in {s, Append(s, top)}
      BY <1>5, <3>2
    <3> HIDE DEF s, p
    <3>5. /\ Len(s) \in Nat /\ DOMAIN s = 1..Len(s)
          /\ Append(s, top) \in Seq(Nat) /\ Len(Append(s, top)) = Len(s) + 1
          /\ \A i \in 1..Len(s) : Append(s, top)[i] = s[i]
          /\ Append(s, top)[Len(s) + 1] = top
      BY <3>3, AppendProperties
    <3>6. DOMAIN Append(s, top) = 1..(Len(s) + 1)
      BY <3>5
    <3>7. CASE c \in Registered
      <4>1. PICK n \in DOMAIN s : s[n] = c
        BY <1>2, <2>1, <3>7 DEF AllReferenced, IsReferenced, s, p
      <4>2. n \in DOMAIN configs'[p].references /\ configs'[p].references[n] = c
        <5>1. CASE configs'[p].references = s
          BY <4>1, <5>1
        <5>2. CASE configs'[p].references = Append(s, top)
          BY <3>5, <3>6, <4>1, <5>2
        <5>3. QED
          BY <3>4, <5>1, <5>2
      <4>3. QED
        BY <3>1, <4>2 DEF IsReferenced
    <3>8. CASE c = top
      <4>1. configs'[p].references = Append(s, top)
        BY <1>5, <2>1, <3>2, <3>8 DEF p, s
      <4>2. Len(s) + 1 \in DOMAIN configs'[p].references
            /\ configs'[p].references[Len(s) + 1] = c
        BY <3>5, <3>6, <3>8, <4>1
      <4>3. QED
        BY <3>1, <4>2 DEF IsReferenced
    <3>9. QED
      BY <2>1, <3>7, <3>8
  <2>2. QED
    BY <1>9, <2>1 DEF AllReferenced
<1>17. AllIncluded'
  <2>1. ASSUME NEW c \in Registered \cup {top}
        PROVE  Refers(c, Len(Includes(c)))'
    <3>1. c \in DOMAIN configs
      BY <1>7, <2>1
    <3>2. Refers(c, Len(Includes(c)))
      <4>1. CASE c \in Registered
        BY <1>2, <4>1 DEF AllIncluded
      <4>2. CASE c = top
        <5>1. k \in DOMAIN stack
          BY <1>3
        <5>2. Refers(top, stack[k].next - 1) /\ stack[k].next <= Len(Includes(top)) + 1
          BY <1>2, <1>4, <5>1 DEF FramesInclude
        <5>3. Len(Includes(top)) \in Nat /\ stack[k].next \in Nat
          BY <1>4, <1>7, <5>1, IncludesFacts
        <5>4. stack[k].next - 1 = Len(Includes(top))
          BY <1>8, <5>2, <5>3
        <5>5. QED
          BY <4>2, <5>2, <5>4
      <4>3. QED
        BY <2>1, <4>1, <4>2
    <3>3. top = 1 \/ c # configs[top].parent
      <4>1. SUFFICES ASSUME top # 1
                     PROVE  c # stack[k - 1].config
        BY <1>12
      <4>2. k - 1 \in DOMAIN stack /\ k \in DOMAIN stack /\ k - 1 # k
        BY <1>3, <1>12, <4>1
      <4>3. stack[k - 1].config \notin Registered /\ stack[k - 1].config # top
        BY <1>4, <1>13, <1>14, <4>2
      <4>4. QED
        BY <2>1, <4>3
    <3>4. Refers(c, Len(Includes(c)))' <=>
            /\ Len(configs'[c].references) = Len(Includes(c))
            /\ \A n \in 1..Len(Includes(c)) :
                 configs'[configs'[c].references[n]].file = Includes(c)[n].file
      BY <1>10, <3>1 DEF Refers
    <3>5. /\ \A d \in DOMAIN configs : configs'[d].file = configs[d].file
          /\ configs'[c].references = configs[c].references
      BY <1>5, <3>1, <3>3
    <3>6. QED
      BY <1>5, <1>10, <3>1, <3>2, <3>4, <3>5, RefersStays
  <2>2. QED
    BY <1>9, <2>1 DEF AllIncluded
<1>18. FramesInclude'
  <2>1. ASSUME NEW n \in DOMAIN stack', NEW c, c = stack'[n].config, NEW next, next = stack'[n].next
        PROVE  /\ Refers(c, next - 1)'
               /\ next <= Len(Includes(c)') + 1
               /\ n # k - 1 => /\ next <= Len(Includes(c)')
                               /\ configs'[stack'[n + 1].config].file = Includes(c)'[next].file
    <3>1. n \in 1..(k - 1) /\ n \in DOMAIN stack /\ n # k /\ n + 1 \in DOMAIN stack
          /\ c = stack[n].config /\ c \in DOMAIN configs
      BY <1>3, <1>7, <2>1
    <3>2. Includes(c)' = Includes(c)
      BY <1>10, <3>1
    <3>3. /\ Refers(c, stack[n].next - 1)
          /\ stack[n].next <= Len(Includes(c))
          /\ configs[stack[n + 1].config].file = Includes(c)[stack[n].next].file
          /\ stack[n].next \in Nat \ {0} /\ Len(Includes(c)) \in Nat
      <4>1. n # Len(stack)
        BY <3>1 DEF k
      <4>2. QED
        BY <1>2, <1>7, <3>1, <4>1, IncludesFacts DEF FramesInclude
    <3>4. CASE n = k - 1
      <4> DEFINE s == configs[c].references
      <4>1. next = stack[n].next + 1 /\ top # 1 /\ c = configs[top].parent
        BY <1>3, <1>12, <2>1, <3>1, <3>4
      <4>2. configs'[c].references = Append(s, top)
        BY <1>5, <3>1, <4>1
      <4>3. s \in Seq(Nat) /\ top \in Nat /\ Len(s) \in Nat /\ DOMAIN s = 1..Len(s)
            /\ \A i \in DOMAIN s : s[i] \in DOMAIN configs
        BY <1>4, <3>1, ConfigFacts, IncludesFacts DEF LoadInv
      <4>4. Len(s) = stack[n].next - 1 /\ \A i \in DOMAIN s : configs[s[i]].file = Includes(c)[i].file
        BY <3>3, <4>3 DEF Refers
      <4>5. configs[top].file = Includes(c)[stack[n].next].file
        BY <1>3, <1>4, <3>3, <3>4
      <4> HIDE DEF s
      <4>6. /\ Len(Append(s, top)) = Len(s) + 1
            /\ \A i \in 1..Len(s) : Append(s, top)[i] = s[i]
            /\ Append(s, top)[Len(s) + 1] = top
        BY <4>3, AppendProperties
      <4>7. ASSUME NEW i \in 1..(next - 1)
            PROVE  configs'[Append(s, top)[i]].file = Includes(c)[i].file
        <5>1. CASE i \in DOMAIN s
          BY <1>5, <4>3, <4>4, <4>6, <5>1
        <5>2. CASE i \notin DOMAIN s
          <6>1. i = Len(s) + 1 /\ i = stack[n].next
            BY <3>3, <4>1, <4>3, <4>4, <4>7, <5>2
          <6>2. QED
            BY <1>4, <1>5, <4>5, <4>6, <6>1
        <5>3. QED
          BY <5>1, <5>2
      <4>8. Len(Append(s, top)) = next - 1
        BY <3>3, <4>1, <4>4, <4>6
      <4>9. Refers(c, next - 1)'
        BY <3>2, <4>2, <4>7, <4>8 DEF Refers
      <4>10. next <= Len(Includes(c)) + 1
        BY <3>3, <4>1
      <4>11. QED
        BY <3>2, <3>4, <4>9, <4>10
    <3>5. CASE n # k - 1
      <4>1. next = stack[n].next /\ n + 1 \in 1..(k - 1)
        BY <1>3, <2>1, <3>1, <3>5
      <4>2. stack'[n + 1].config = stack[n + 1].config /\ stack[n + 1].config \in DOMAIN configs
        BY <1>3, <1>7, <3>1, <4>1
      <4>3. top = 1 \/ c # configs[top].parent
        BY <1>3, <1>12, <1>13, <3>1, <3>5
      <4>4. Refers(c, next - 1)'
        BY <1>11, <3>1, <3>3, <4>1, <4>3
      <4>5. next <= Len(Includes(c)) + 1
        BY <3>3, <4>1
      <4>6. QED
        BY <1>5, <3>2, <3>3, <4>1, <4>2, <4>4, <4>5
    <3>6. QED
      BY <3>4, <3>5
  <2>2. QED
    BY <1>3, <2>1 DEF FramesInclude
<1>19. QED
  BY <1>15, <1>16, <1>17, <1>18

LEMMA SameWhole ==
  ASSUME UNCHANGED <<project, configs, stack, registered>>, WholeInv,
         errors' = FALSE => errors = FALSE, errors' \in BOOLEAN, errors \in BOOLEAN
  PROVE  WholeInv'
<1>1. SUFFICES ASSUME ~errors'
               PROVE  (AllKept /\ AllReferenced /\ AllIncluded /\ FramesInclude)'
  BY DEF WholeInv
<1>2. AllKept /\ AllReferenced /\ AllIncluded /\ FramesInclude
  BY <1>1 DEF WholeInv
<1>3. Registered' = Registered /\ \A c : Includes(c)' = Includes(c)
  BY DEF Registered, Includes
<1>4. AllKept'
  BY <1>2, <1>3 DEF AllKept
<1>5. AllReferenced'
  BY <1>2, <1>3 DEF AllReferenced, IsReferenced
<1>6. AllIncluded'
  BY <1>2, <1>3 DEF AllIncluded, Refers
<1>7. FramesInclude'
  BY <1>2, <1>3, SMTT(30) DEF FramesInclude, Refers
<1>8. QED
  BY <1>4, <1>5, <1>6, <1>7

LEMMA WholeStep ==
  ASSUME Inv, PlaceInv, WholeInv, [Next]_vars
  PROVE  WholeInv'
<1>1. CASE Load
  <2>1. ConfigNext /\ LoadInv /\ errors \in BOOLEAN
    BY <1>1 DEF Load, Inv, LoadInv, StateInv
  <2>2. CASE LoadInclude
    BY <2>1, <2>2, IncludeWhole
  <2>3. CASE Register
    BY <2>1, <2>3, RegisterWhole
  <2>4. CASE LoadFails \/ RegisterTwice
    BY <2>4 DEF LoadFails, RegisterTwice, WholeInv
  <2>5. CASE Overflow \/ Verify \/ RecordInputs
    <3>1. /\ UNCHANGED <<project, configs, stack, registered>>
          /\ errors' \in BOOLEAN /\ (errors' = FALSE => errors = FALSE)
      BY <2>1, <2>5 DEF Overflow, Verify, RecordInputs
    <3>2. QED
      BY <2>1, <3>1, SameWhole
  <2>6. QED
    BY <2>1, <2>2, <2>3, <2>4, <2>5 DEF ConfigNext
<1>2. CASE ~Load
  <2>1. UNCHANGED <<project, configs, stack, registered, errors>>
    BY <1>2 DEF Next, Define, Defines, Bind, Bindings, NextPhase, Prepare, Terminated, vars,
                configVars
  <2>2. QED
    BY <2>1, SameWhole DEF Inv, LoadInv, StateInv
<1>3. QED
  BY <1>1, <1>2

LEMMA SameKeys ==
  ASSUME LoadInv, project' = project, registered' = registered,
         DOMAIN configs \subseteq DOMAIN configs',
         \A c \in DOMAIN configs : configs'[c].file = configs[c].file
  PROVE  /\ \A n \in DOMAIN registered : Key(registered[n])' = Key(registered[n])
         /\ \A c \in DOMAIN configs : Depends(c)' = Depends(c)
         /\ Keys' = Keys
<1>1. \A c \in DOMAIN configs : Key(c)' = Key(c) /\ Depends(c)' = Depends(c)
  BY SameFile
<1>2. \A n \in DOMAIN registered : registered[n] \in DOMAIN configs
  BY SeqFacts
<1>3. QED
  BY <1>1, <1>2 DEF Keys, Registered

LEMMA KeysStep ==
  ASSUME Inv, KeysDiffer, [Next]_vars
  PROVE  KeysDiffer'
<1>1. LoadInv
  BY DEF Inv
<1>2. CASE Load /\ Register
  <2> DEFINE r == Len(registered)
             top == Top.config
  <2>1. /\ r \in Nat /\ DOMAIN registered = 1..r /\ DOMAIN registered' = 1..(r + 1)
        /\ \A n \in DOMAIN registered : registered'[n] = registered[n]
        /\ registered'[r + 1] = top
        /\ top \in DOMAIN configs /\ Key(top) \notin Keys /\ project' = project
        /\ \A c \in DOMAIN configs : configs'[c].file = configs[c].file
        /\ \A n \in DOMAIN registered : registered[n] \in DOMAIN configs
    BY <1>1, <1>2, SeqFacts, RegisterFacts
  <2>2. \A c \in DOMAIN configs : Key(c)' = Key(c)
    BY <2>1, SameFile
  <2>3. PICK t \in DOMAIN configs : t = top
    BY <2>1
  <2> HIDE DEF r, top
  <2>4. \A n \in DOMAIN registered : Key(registered[n]) # Key(t)
    BY <2>1, <2>3 DEF Keys, Registered
  <2>5. ASSUME NEW m \in DOMAIN registered', NEW n \in DOMAIN registered', m < n
        PROVE  Key(registered[m])' # Key(registered[n])'
    <3>1. m \in DOMAIN registered /\ (n \in DOMAIN registered \/ n = r + 1)
      BY <2>1, <2>5
    <3>2. PICK c \in DOMAIN configs : c = registered[m] /\ c = registered'[m]
      BY <2>1, <3>1
    <3>3. CASE n \in DOMAIN registered
      <4>1. PICK d \in DOMAIN configs : d = registered[n] /\ d = registered'[n]
        BY <2>1, <3>3
      <4>2. Key(c) # Key(d)
        BY <2>5, <3>1, <3>2, <3>3, <4>1 DEF KeysDiffer
      <4>3. Key(c)' # Key(d)'
        BY <2>2, <4>2
      <4>4. QED
        BY <3>2, <4>1, <4>3
    <3>4. CASE n = r + 1
      <4>1. t = registered'[n]
        BY <2>1, <2>3, <3>4
      <4>2. Key(c) # Key(t)
        BY <2>4, <3>1, <3>2
      <4>3. Key(c)' # Key(t)'
        BY <2>2, <4>2
      <4>4. QED
        BY <3>2, <4>1, <4>3
    <3>5. QED
      BY <3>1, <3>3, <3>4
  <2>6. QED
    BY <2>5 DEF KeysDiffer
<1>3. CASE ~(Load /\ Register)
  <2>1. project' = project /\ registered' = registered /\ DOMAIN configs \subseteq DOMAIN configs'
        /\ \A c \in DOMAIN configs : configs'[c].file = configs[c].file
    <3>1. CASE Load /\ LoadInclude
      BY <1>1, <3>1, IncludeFacts
    <3>2. CASE Load /\ ~LoadInclude
      BY <1>1, <1>3, <3>2, OtherFacts DEF Load
    <3>3. CASE ~Load
      BY <3>3 DEF Next, Define, Defines, Bind, Bindings, NextPhase, Prepare, Terminated, vars,
                  configVars
    <3>4. QED
      BY <3>1, <3>2, <3>3
  <2>2. \A n \in DOMAIN registered : Key(registered[n])' = Key(registered[n])
    BY <1>1, <2>1, SameKeys
  <2>3. QED
    BY <2>1, <2>2 DEF KeysDiffer
<1>4. QED
  BY <1>2, <1>3

(* When nothing is being loaded and no error was logged, what verification *)
(* reaches is all there is.                                                *)
LEMMA AllRegistered ==
  ASSUME LoadInv, WholeInv, ~errors, stack = <<>>
  PROVE  /\ Registered = DOMAIN configs
         /\ \A c \in DOMAIN configs : Linked[c]
<1>1. AllKept /\ AllReferenced
  BY DEF WholeInv
<1>2. DOMAIN stack = {}
  BY SeqFacts
<1>3. Registered \subseteq DOMAIN configs
  BY SeqFacts DEF Registered
<1>4. Registered = DOMAIN configs
  BY <1>1, <1>2, <1>3 DEF AllKept
<1>5. QED
  BY <1>1, <1>4, AllLinked DEF LoadInv, AllReferenced

LEMMA VerifiedStep ==
  ASSUME Inv, WholeInv, VerifiedInv, [Next]_vars
  PROVE  VerifiedInv'
<1>1. LoadInv /\ errors \in BOOLEAN
  BY DEF Inv, LoadInv, StateInv
<1>2. CASE Load /\ ~Verify /\ ~RecordInputs
  <2>1. phase' \notin {"record", "define", "bind", "prepare", "done"}
    BY <1>2 DEF Load, ConfigNext, LoadFails, LoadInclude, Overflow, Register, RegisterTwice,
                Expects, Loaded, Loading
  <2>2. QED
    BY <2>1 DEF VerifiedInv, Verified, GoesOn
<1>3. CASE Verify
  <2>1. /\ phase' = "record" /\ stack = <<>>
        /\ errors' = (errors \/ \E c \in (DOMAIN configs) \ {1} :
                                  Linked[c] /\ ~(Depends(c) \subseteq Keys))
        /\ UNCHANGED <<project, configs, stack, registered>>
    BY <1>3 DEF Verify
  <2>2. ASSUME ~errors'
        PROVE  \A c \in DOMAIN configs : c # 1 => Depends(c) \subseteq Keys
    <3>1. ~errors /\ \A c \in (DOMAIN configs) \ {1} : Linked[c] => Depends(c) \subseteq Keys
      BY <2>1, <2>2
    <3>2. QED
      BY <1>1, <2>1, <3>1, AllRegistered
  <2>3. Keys' = Keys /\ \A c \in DOMAIN configs : Depends(c)' = Depends(c)
    BY <1>1, <2>1, SameKeys
  <2>4. QED
    BY <2>1, <2>2, <2>3 DEF VerifiedInv, Verified, GoesOn
<1>4. CASE ~Load \/ RecordInputs
  <2>1. /\ UNCHANGED <<project, configs, stack, registered, errors>>
        /\ \/ phase' \in {phase, "failed"}
           \/ phase' \in {"bind", "prepare", "done"} /\ GoesOn
           \/ phase = "record" /\ phase' = "define" /\ ~errors
    BY <1>4 DEF Next, Define, Defines, Bind, Bindings, NextPhase, Prepare, Terminated, vars,
                configVars, RecordInputs, Verified, GoesOn, IsTurn
  <2>2. Keys' = Keys /\ \A c \in DOMAIN configs : Depends(c)' = Depends(c)
    BY <1>1, <2>1, SameKeys
  <2>3. Verified' => Verified
    BY <2>1 DEF Verified, GoesOn
  <2>4. GoesOn' => ~errors'
    BY <2>1 DEF VerifiedInv, Verified, GoesOn
  <2>5. QED
    BY <2>1, <2>2, <2>3, <2>4 DEF VerifiedInv
<1>5. QED
  BY <1>2, <1>3, <1>4

LEMMA CleanInit ==
  ASSUME Init
  PROVE  CleanInv
<1> DEFINE c == Config(Root, 0, "plain")
<1>1. /\ project \in Projects /\ configs = <<c>> /\ stack = <<Frame(1)>> /\ registered = <<>>
      /\ errors = FALSE /\ phase = "load"
  BY DEF Init, ConfigInit
<1>2. /\ DOMAIN configs = {1} /\ configs[1].references = <<>>
      /\ DOMAIN stack = {1} /\ Len(stack) = 1 /\ stack[1].config = 1 /\ stack[1].next = 1
      /\ DOMAIN registered = {}
  BY <1>1 DEF Frame, Config
<1>3. Registered = {}
  BY <1>2 DEF Registered
<1>4. LoadInv
  BY InvInit DEF Inv
<1>5. AllKept /\ AllReferenced /\ AllIncluded
  BY <1>2, <1>3 DEF AllKept, AllReferenced, AllIncluded
<1>6. FramesInclude
  <2>1. Len(Includes(1)) \in Nat
    BY <1>2, <1>4, IncludesFacts
  <2>2. Refers(1, 0)
    BY <1>2 DEF Refers
  <2>3. QED
    BY <1>2, <2>1, <2>2 DEF FramesInclude
<1>7. KeysDiffer
  BY <1>2 DEF KeysDiffer
<1>8. QED
  BY <1>1, <1>5, <1>6, <1>7 DEF CleanInv, WholeInv, VerifiedInv, Verified, GoesOn

LEMMA CleanHolds == Spec => [](Inv /\ PlaceInv /\ CleanInv)
<1>1. Init => Inv /\ PlaceInv /\ CleanInv
  BY InvInit, PlaceInit, CleanInit
<1>2. Inv /\ PlaceInv /\ CleanInv /\ [Next]_vars => (Inv /\ PlaceInv /\ CleanInv)'
  BY InvStep, PlaceStep, WholeStep, KeysStep, VerifiedStep DEF CleanInv
<1>3. QED
  BY <1>1, <1>2, PTL DEF Spec

LEMMA CountKeys ==
  ASSUME LoadInv, KeysDiffer
  PROVE  Cardinality(Keys) = Len(registered)
<1> DEFINE k == Len(registered)
           f == [n \in 1..k |-> Key(registered[n])]
<1>1. k \in Nat /\ DOMAIN registered = 1..k
  BY SeqFacts
<1>2. Keys = {Key(registered[n]) : n \in 1..k}
  BY <1>1 DEF Keys, Registered
<1>3. \A m, n \in 1..k : f[m] = f[n] => m = n
  <2>1. \A m, n \in 1..k : m < n => f[m] # f[n]
    BY <1>1 DEF KeysDiffer
  <2> HIDE DEF f
  <2>2. QED
    BY <1>1, <2>1
<1>4. f \in Bijection(1..k, Keys)
  <2>1. f \in [1..k -> Keys] /\ \A x \in Keys : \E n \in 1..k : f[n] = x
    BY <1>2
  <2>2. f \in Surjection(1..k, Keys)
    BY <2>1 DEF Surjection
  <2>3. f \in Injection(1..k, Keys)
    <3> HIDE DEF f
    <3> QED BY <1>3, <2>1 DEF Injection, IsInjective
  <2>4. QED
    BY <2>2, <2>3 DEF Bijection
<1>5. ExistsBijection(1..k, Keys)
  BY <1>4 DEF ExistsBijection
<1>6. QED
  <2> HIDE DEF k
  <2>1. Cardinality(Keys) = k
    BY <1>1, <1>5, FS_CountingElements
  <2>2. QED
    BY <2>1 DEF k

(* Run: a load without errors is whole.  A task that goes on has loaded    *)
(* every file its files include, in their order, and registered it under   *)
(* an identifier of its own, with everything it depends on; what           *)
(* verification reaches and what the transformations use is the same.      *)
THEOREM LoadedIsWhole == Spec => []CleanLoadIsWhole
<1>1. Inv /\ PlaceInv /\ CleanInv => CleanLoadIsWhole
  <2> SUFFICES ASSUME LoadInv, WholeInv, KeysDiffer, VerifiedInv, GoesOn
               PROVE  /\ Registered = {c \in DOMAIN configs : Linked[c]}
                      /\ Cardinality(Keys) = Len(registered)
                      /\ \A c \in Registered :
                           /\ [n \in DOMAIN configs[c].references |->
                                 configs[configs[c].references[n]].file]
                                = [n \in DOMAIN Includes(c) |-> Includes(c)[n].file]
                           /\ c # 1 => Depends(c) \subseteq Keys
    BY DEF CleanLoadIsWhole, Inv, CleanInv
  <2>1. ~errors /\ stack = <<>> /\ \A c \in DOMAIN configs : c # 1 => Depends(c) \subseteq Keys
    BY DEF VerifiedInv, Verified, GoesOn
  <2>2. Registered = DOMAIN configs /\ \A c \in DOMAIN configs : Linked[c]
    BY <2>1, AllRegistered
  <2>3. Registered = {c \in DOMAIN configs : Linked[c]}
    BY <2>2
  <2>4. Cardinality(Keys) = Len(registered)
    BY CountKeys
  <2>5. ASSUME NEW c \in Registered
        PROVE  [n \in DOMAIN configs[c].references |-> configs[configs[c].references[n]].file]
                 = [n \in DOMAIN Includes(c) |-> Includes(c)[n].file]
    <3>1. Refers(c, Len(Includes(c)))
      BY <2>1 DEF WholeInv, AllIncluded
    <3>2. DOMAIN configs[c].references = DOMAIN Includes(c)
          /\ DOMAIN Includes(c) = 1..Len(Includes(c))
      BY <2>2, <3>1, IncludesFacts DEF Refers
    <3>3. QED
      BY <3>1, <3>2 DEF Refers
  <2>6. QED
    BY <2>1, <2>2, <2>3, <2>4, <2>5
<1>2. QED
  BY <1>1, CleanHolds, PTL

(* A file that is included several times is loaded as often, and without   *)
(* an identifier registered as often, its rules with it.  When every file  *)
(* gives itself an identifier this cannot happen: the dictionary refuses   *)
(* the second, and the task does not go on with it.                        *)
AllIdentified == \A x \in Projects : \A f \in Files : x.id[f] # NoId

THEOREM IdentifiedCountOnce ==
  ASSUME AllIdentified
  PROVE  Spec => []RulesApplyOnce
<1>1. Inv /\ PlaceInv /\ CleanInv => RulesApplyOnce
  <2> SUFFICES ASSUME LoadInv, KeysDiffer, NEW c \in Registered, NEW d \in Registered,
                      configs[c].file = configs[d].file
               PROVE  c = d
    BY DEF RulesApplyOnce, Inv, CleanInv
  <2>1. PICK m \in DOMAIN registered : registered[m] = c
    BY DEF Registered
  <2>2. PICK n \in DOMAIN registered : registered[n] = d
    BY DEF Registered
  <2>3. c \in DOMAIN configs /\ configs[c].file \in Files \cup {Root}
    BY <2>1, SeqFacts, ConfigFacts DEF LoadInv
  <2>4. project \in Projects
    BY DEF LoadInv, StateInv
  <2>5. Key(c) = Key(d)
    BY <2>3, <2>4 DEF Key, AllIdentified
  <2>6. ~(m < n) /\ ~(n < m)
    BY <2>1, <2>2, <2>5 DEF KeysDiffer
  <2>7. m \in Nat /\ n \in Nat
    BY SeqFacts
  <2>8. QED
    BY <2>1, <2>2, <2>6, <2>7
<1>2. QED
  BY <1>1, CleanHolds, PTL

LEMMA PathStep ==
  ASSUME ConfigsInv
  PROVE  PathFound = [c \in DOMAIN configs |->
                        IF c = 1 THEN TRUE
                        ELSE \/ configs[c].spelling = "absolute"
                             \/ configs[c].spelling = "plain" /\ PathFound[configs[c].parent]]
<1> DEFINE P(c) == configs[c].parent
           Rooted(c) == configs[c].spelling = "absolute"
           Plain(c) == configs[c].spelling = "plain"
           Sets(c) == {S \in SUBSET DOMAIN configs :
                         c \in S /\ (\A d \in S : d # 1 /\ ~Rooted(d) => Plain(d) /\ P(d) \in S)}
           F == [c \in DOMAIN configs |-> Sets(c) # {}]
           Of(L) == [c \in DOMAIN configs |->
                       IF c = 1 THEN TRUE ELSE Rooted(c) \/ (Plain(c) /\ L[P(c)])]
<1>1. \A c \in DOMAIN configs : c # 1 => P(c) \in DOMAIN configs
  BY ConfigFacts
<1>2. ASSUME NEW c \in DOMAIN configs, c # 1, ~Rooted(c)
      PROVE  F[c] = (Plain(c) /\ F[P(c)])
  <2>1. ASSUME NEW S \in Sets(c)
        PROVE  Plain(c) /\ S \in Sets(P(c))
    BY <1>2, <2>1
  <2>2. ASSUME Plain(c), NEW S \in Sets(P(c))
        PROVE  S \cup {c} \in Sets(c)
    BY <1>2, <2>2
  <2>3. F[c] = (Sets(c) # {}) /\ F[P(c)] = (Sets(P(c)) # {})
    BY <1>1, <1>2
  <2> HIDE DEF Sets, F
  <2>4. QED
    BY <2>1, <2>2, <2>3
<1>3. ASSUME NEW c \in DOMAIN configs, c = 1 \/ Rooted(c)
      PROVE  F[c] = TRUE
  <2>1. {c} \in Sets(c)
    BY <1>3
  <2>2. QED
    BY <1>3, <2>1
<1>4. F = Of(F)
  <2> DEFINE G == Of(F)
  <2>1. \A c \in DOMAIN configs : F[c] = G[c]
    <3> HIDE DEF F
    <3> QED BY <1>2, <1>3
  <2>2. F = [c \in DOMAIN configs |-> F[c]] /\ G = [c \in DOMAIN configs |-> G[c]]
    OBVIOUS
  <2>3. F = G
    <3> HIDE DEF F, G
    <3> QED BY <2>1, <2>2
  <2>4. QED
    BY <2>3
<1> HIDE DEF F
<1>5. QED
  BY <1>4, Zenon DEF PathFound

(* A path without a variable, below paths without one, leads to its file.  *)
LEMMA FixedPaths ==
  ASSUME ConfigsInv, \A c \in DOMAIN configs : c # 1 => configs[c].spelling \in {"plain", "absolute"}
  PROVE  \A c \in DOMAIN configs : PathFound[c]
<1> DEFINE Lost == {c \in DOMAIN configs : ~PathFound[c]}
<1>1. SUFFICES ASSUME Lost # {}
               PROVE  FALSE
  OBVIOUS
<1>2. Lost \subseteq Nat
  BY ConfigFacts
<1>3. PICK d \in Lost : \A e \in Lost : d <= e
  <2> HIDE DEF Lost
  <2> QED BY <1>1, <1>2, Smallest
<1> DEFINE p == configs[d].parent
<1>4. d \in DOMAIN configs /\ ~PathFound[d]
  OBVIOUS
<1>5. d # 1 /\ ~PathFound[p]
  <2>1. PathFound[d] = IF d = 1 THEN TRUE
                       ELSE \/ configs[d].spelling = "absolute"
                            \/ configs[d].spelling = "plain" /\ PathFound[p]
    BY <1>4, PathStep, Zenon
  <2>2. QED
    BY <1>4, <2>1
<1>6. p \in DOMAIN configs /\ p < d /\ p \in Nat /\ d \in Nat
  BY <1>4, <1>5, ConfigFacts DEF ConfigsInv, OldParents
<1>7. p \in Lost
  BY <1>5, <1>6
<1>8. d <= p
  <2> HIDE DEF Lost
  <2> QED BY <1>3, <1>7
<1>9. QED
  BY <1>6, <1>8

(* ExecuteImpl records the files loaded by their paths.  Run               *)
(* MappingVariable fails there without an error of the mapping files;      *)
(* nothing else does: a task that fails and has logged no error has        *)
(* registered a file whose path has a variable in it.                      *)
SilentInv == phase = "failed" /\ ~errors => \E c \in Registered : configs[c].spelling = "variable"

THEOREM OnlyVariablesFailSilently ==
  Spec => [](phase = "failed" /\ ~errors => \E c \in Registered : configs[c].spelling = "variable")
<1>1. Init => SilentInv
  BY DEF Init, ConfigInit, SilentInv
<1>2. Inv /\ PlaceInv /\ CleanInv /\ SilentInv /\ [Next]_vars => SilentInv'
  <2> SUFFICES ASSUME LoadInv, CleanInv, SilentInv, [Next]_vars
               PROVE  SilentInv'
    BY DEF Inv
  <2>1. CASE Load /\ RecordInputs
    <3>1. /\ phase = "record" /\ UNCHANGED <<configs, registered, errors>>
          /\ phase' = IF (\E c \in Registered : ~PathFound[c]) \/ errors THEN "failed" ELSE "define"
      BY <2>1 DEF RecordInputs
    <3>2. SUFFICES ASSUME ~errors, NEW c \in Registered, ~PathFound[c]
                   PROVE  \E d \in Registered : configs[d].spelling = "variable"
      BY <3>1 DEF SilentInv, Registered
    <3>3. Registered = DOMAIN configs
      BY <3>1, <3>2, AllRegistered DEF CleanInv, VerifiedInv, Verified
    <3>4. PICK d \in DOMAIN configs : configs[d].spelling \notin {"plain", "absolute"}
      BY <3>2, <3>3, FixedPaths DEF LoadInv
    <3>5. configs[d].spelling \in Spellings
      BY ConfigFacts DEF LoadInv, ConfigRecord
    <3>6. QED
      BY <3>3, <3>4, <3>5 DEF Spellings
  <2>2. CASE Load /\ RegisterTwice
    BY <2>2 DEF RegisterTwice, SilentInv
  <2>3. CASE ~(Load /\ (RecordInputs \/ RegisterTwice))
    <3>1. \/ phase' # "failed"
          \/ phase = "failed" /\ UNCHANGED <<configs, registered, errors>>
      BY <2>3 DEF Next, Load, ConfigNext, LoadFails, LoadInclude, Overflow, Register, Verify,
                  Expects, Loaded, Loading, Define, Defines, Bind, Bindings, NextPhase, IsTurn,
                  Prepare, Terminated, vars, configVars
    <3>2. QED
      BY <3>1 DEF SilentInv, Registered
  <2>4. QED
    BY <2>1, <2>2, <2>3
<1>3. QED
  BY <1>1, <1>2, CleanHolds, PTL DEF Spec, SilentInv

-----------------------------------------------------------------------------
(* The stack of the process.  Each file that is being loaded is included   *)
(* by the one before it, so a stack that is deeper than there are files    *)
(* has a file twice, and what stands between the two is a cycle.           *)
FileOf(n) == configs[stack[n].config].file
IncludedInv ==
  \A n \in DOMAIN stack :
    n # 1 => FileOf(n) \in Files /\ FileOf(n) \in Included(FileOf(n - 1))
CycleInv == phase = "overflow" => Cyclic

(* A stack that is not deeper, of the same configurations.                 *)
LEMMA SameIncluded ==
  ASSUME LoadInv, IncludedInv, project' = project,
         NEW j \in Nat, DOMAIN stack' = 1..j, j <= Len(stack),
         \A n \in 1..j : stack'[n].config = stack[n].config,
         \A c \in DOMAIN configs : configs'[c].file = configs[c].file
  PROVE  IncludedInv'
<1>1. /\ Len(stack) \in Nat /\ DOMAIN stack = 1..Len(stack)
      /\ \A n \in DOMAIN stack : stack[n].config \in DOMAIN configs
  BY SeqFacts
<1>2. \A n \in 1..j : n \in DOMAIN stack
  BY <1>1
<1>3. \A n \in 1..j : configs'[stack'[n].config].file = configs[stack[n].config].file
  BY <1>1, <1>2
<1>4. ASSUME NEW n \in 1..j, n # 1
      PROVE  (FileOf(n) \in Files /\ FileOf(n) \in Included(FileOf(n - 1)))'
  <2>1. n \in DOMAIN stack /\ n - 1 \in 1..j
    BY <1>2, <1>4
  <2>2. FileOf(n) \in Files /\ FileOf(n) \in Included(FileOf(n - 1))
    BY <1>4, <2>1 DEF IncludedInv
  <2>3. FileOf(n)' = FileOf(n) /\ FileOf(n - 1)' = FileOf(n - 1)
    BY <1>3, <1>4, <2>1 DEF FileOf
  <2>4. QED
    BY <2>2, <2>3 DEF Included
<1>5. QED
  BY <1>4 DEF IncludedInv

LEMMA IncludeIncluded ==
  ASSUME LoadInv, IncludedInv, LoadInclude
  PROVE  IncludedInv'
<1> DEFINE k == Len(stack)
           new == Len(configs) + 1
<1>1. /\ k \in Nat \ {0} /\ DOMAIN stack = 1..k /\ DOMAIN stack' = 1..(k + 1)
      /\ \A n \in DOMAIN stack : stack'[n] = stack[n]
      /\ stack'[k + 1].config = new
      /\ \A n \in DOMAIN stack : stack[n].config \in DOMAIN configs
  BY SeqFacts, IncludeFacts DEF Frame
<1>2. /\ \A c \in DOMAIN configs : configs'[c] = configs[c]
      /\ configs'[new].file = Entry.file
      /\ project' = project /\ Expects
  BY IncludeFacts DEF Config
<1>3. Entry.file \in Files
  BY <1>2, EntryFacts
<1>4. Entry.file \in Included(FileOf(k))
  <2>1. Top.config \in DOMAIN configs /\ Top.next \in Nat \ {0}
    BY IncludeFacts, TopFacts DEF LoadInv
  <2>2. Top.next \in DOMAIN Includes(Top.config)
    BY <1>2, <2>1, IncludesFacts DEF Expects
  <2>3. QED
    BY <2>2 DEF Included, Includes, Entry, FileOf, Top
<1> HIDE DEF k, new
<1>5. ASSUME NEW n \in 1..(k + 1), n # 1
      PROVE  (FileOf(n) \in Files /\ FileOf(n) \in Included(FileOf(n - 1)))'
  <2>1. n - 1 \in DOMAIN stack /\ FileOf(n - 1)' = FileOf(n - 1)
    <3>1. n - 1 \in DOMAIN stack
      BY <1>1, <1>5
    <3>2. QED
      BY <1>1, <1>2, <3>1 DEF FileOf
  <2>2. FileOf(n)' \in Files /\ FileOf(n)' \in Included(FileOf(n - 1))
    <3>1. CASE n = k + 1
      <4>1. FileOf(n)' = Entry.file /\ n - 1 = k
        BY <1>1, <1>2, <3>1 DEF FileOf
      <4>2. QED
        BY <1>3, <1>4, <4>1
    <3>2. CASE n # k + 1
      <4>1. n \in DOMAIN stack
        BY <1>1, <1>5, <3>2
      <4>2. FileOf(n)' = FileOf(n)
        BY <1>1, <1>2, <4>1 DEF FileOf
      <4>3. QED
        BY <1>5, <4>1, <4>2 DEF IncludedInv
    <3>3. QED
      BY <3>1, <3>2
  <2>3. QED
    BY <1>2, <2>1, <2>2 DEF Included
<1>6. QED
  BY <1>1, <1>5 DEF IncludedInv

LEMMA IncludedStep ==
  ASSUME Inv, IncludedInv, [Next]_vars
  PROVE  IncludedInv'
<1>1. LoadInv /\ Len(stack) \in Nat /\ DOMAIN stack = 1..Len(stack)
  BY SeqFacts DEF Inv
<1>2. CASE Load /\ LoadInclude
  BY <1>1, <1>2, IncludeIncluded
<1>3. CASE Load /\ (Register \/ RegisterTwice)
  <2>1. /\ stack # <<>> /\ Pop /\ project' = project
        /\ \A c \in DOMAIN configs : configs'[c].file = configs[c].file
    <3>1. CASE Register
      BY <1>1, <3>1, RegisterFacts
    <3>2. CASE RegisterTwice
      BY <3>2 DEF RegisterTwice, Loaded, Loading
    <3>3. QED
      BY <1>3, <3>1, <3>2
  <2>2. /\ Len(stack) \in Nat \ {0} /\ DOMAIN stack' = 1..(Len(stack) - 1)
        /\ \A n \in 1..(Len(stack) - 1) : stack'[n].config = stack[n].config
    BY <1>1, <2>1, PopFrames DEF LoadInv
  <2>3. PICK j \in Nat : j = Len(stack) - 1
    BY <2>2
  <2>4. DOMAIN stack' = 1..j /\ j <= Len(stack)
        /\ \A n \in 1..j : stack'[n].config = stack[n].config
    BY <2>2, <2>3
  <2>5. QED
    BY <1>1, <2>1, <2>4, SameIncluded
<1>4. CASE Load /\ LoadFails
  <2>1. stack \in Seq(FrameRecord) /\ stack # <<>> /\ UNCHANGED <<project, configs>>
        /\ stack' = [stack EXCEPT ![Len(stack)].next = @ + 1]
    BY <1>1, <1>4 DEF LoadFails, Expects, Loading, LoadInv, StackInv
  <2>2. /\ stack' \in Seq(FrameRecord) /\ Len(stack') = Len(stack)
        /\ \A n \in DOMAIN stack' : stack'[n].config = stack[n].config
    BY <2>1, NextFrame
  <2>3. DOMAIN stack' = 1..Len(stack)
    BY <2>2
  <2>4. PICK j \in Nat : j = Len(stack)
    BY <1>1
  <2>5. DOMAIN stack' = 1..j /\ j <= Len(stack)
        /\ \A n \in 1..j : stack'[n].config = stack[n].config
    BY <2>2, <2>3, <2>4
  <2>6. QED
    BY <1>1, <2>1, <2>5, SameIncluded
<1>5. CASE UNCHANGED <<project, configs, stack>>
  <2>1. PICK j \in Nat : j = Len(stack)
    BY <1>1
  <2>2. DOMAIN stack' = 1..j /\ j <= Len(stack)
        /\ \A n \in 1..j : stack'[n].config = stack[n].config
    BY <1>1, <1>5, <2>1
  <2>3. QED
    BY <1>1, <1>5, <2>2, SameIncluded
<1>6. ~(Load /\ (LoadInclude \/ Register \/ RegisterTwice \/ LoadFails))
        => UNCHANGED <<project, configs, stack>>
  BY DEF Load, ConfigNext, Overflow, Verify, RecordInputs, Next, Define, Defines, Bind, Bindings,
         NextPhase, Prepare, Terminated, vars, configVars
<1>7. QED
  BY <1>2, <1>3, <1>4, <1>5, <1>6

LEMMA DeepIsCyclic ==
  ASSUME LoadInv, IncludedInv, Len(stack) = MaxDepth
  PROVE  Cyclic
<1> DEFINE k == Len(stack)
           f == [n \in 2..k |-> FileOf(n)]
<1>1. k \in Nat /\ DOMAIN stack = 1..k
  BY SeqFacts
<1>2. Cardinality(Files) \in Nat /\ IsFiniteSet(Files) /\ k > Cardinality(Files) + 1
  BY DepthAssumption, FS_CardinalityType
<1> HIDE DEF k
<1>3. IsFiniteSet(2..k) /\ Cardinality(2..k) = k - 1
  <2>1. Cardinality(2..k) = IF 2 > k THEN 0 ELSE k - 2 + 1
    BY <1>1, FS_Interval
  <2>2. QED
    BY <1>1, <1>2, <2>1, FS_Interval
<1>4. \A n \in 2..k : FileOf(n) \in Files /\ FileOf(n) \in Included(FileOf(n - 1))
  BY <1>1 DEF IncludedInv
<1>5. f \in [2..k -> Files]
  BY <1>4
<1>6. \E m, n \in 2..k : m # n /\ f[m] = f[n]
  <2>1. Cardinality(Files) < Cardinality(2..k)
    BY <1>1, <1>2, <1>3
  <2> HIDE DEF f
  <2>2. QED
    BY <1>2, <1>3, <1>5, <2>1, FS_PigeonHole
<1>7. PICK a, b \in 2..k : a < b /\ FileOf(a) = FileOf(b)
  <2>1. PICK m, n \in 2..k : m # n /\ FileOf(m) = FileOf(n)
    BY <1>6
  <2>2. m < n \/ n < m
    BY <1>1, <2>1
  <2>3. QED
    BY <2>1, <2>2
<1> DEFINE S == {FileOf(n) : n \in a..(b - 1)}
<1>8. S \in SUBSET Files /\ S # {}
  <2>1. \A n \in a..(b - 1) : n \in 2..k
    BY <1>1, <1>7
  <2>2. a \in a..(b - 1)
    BY <1>1, <1>7
  <2>3. QED
    BY <1>4, <2>1, <2>2
<1>9. ASSUME NEW n \in a..(b - 1)
      PROVE  Included(FileOf(n)) \cap S # {}
  <2>1. n + 1 \in 2..k /\ (n + 1) - 1 = n /\ (n + 1 \in a..(b - 1) \/ n + 1 = b) /\ a \in a..(b - 1)
    BY <1>1, <1>7, <1>9
  <2>2. FileOf(n + 1) \in Included(FileOf(n))
    BY <1>4, <2>1
  <2>3. FileOf(n + 1) \in S
    BY <1>7, <2>1
  <2>4. QED
    BY <2>2, <2>3
<1>10. \A x \in S : Included(x) \cap S # {}
  BY <1>9
<1> HIDE DEF S
<1>11. QED
  BY <1>8, <1>10 DEF Cyclic

(* PostLoad of ConfigFile.cs loads what a file includes and remembers      *)
(* nothing of the files it is in.  With a stack that is deeper than there  *)
(* are files it ends the process only when some files include one another: *)
(* however a project without such a cycle fails, it fails with a message.  *)
THEOREM OnlyCyclesOverflow == Spec => [](phase = "overflow" => Cyclic)
<1>1. Init => Inv /\ IncludedInv /\ CycleInv
  <2> SUFFICES ASSUME Init
               PROVE  IncludedInv /\ CycleInv
    BY InvInit
  <2>1. stack = <<Frame(1)>> /\ phase = "load"
    BY DEF Init, ConfigInit
  <2>2. DOMAIN stack = {1}
    BY <2>1
  <2>3. QED
    BY <2>1, <2>2 DEF IncludedInv, CycleInv
<1>2. Inv /\ IncludedInv /\ CycleInv /\ [Next]_vars => (Inv /\ IncludedInv /\ CycleInv)'
  <2> SUFFICES ASSUME Inv, IncludedInv, CycleInv, [Next]_vars
               PROVE  CycleInv'
    BY InvStep, IncludedStep
  <2>1. project' = project
    BY DEF Next, Load, ConfigNext, LoadFails, LoadInclude, Overflow, Register, RegisterTwice, Verify,
           RecordInputs, Define, Defines, Bind, Bindings, NextPhase, Prepare, Terminated, vars,
           configVars
  <2>2. Cyclic' <=> Cyclic
    BY <2>1 DEF Cyclic, Included
  <2>3. CASE Load /\ Overflow
    <3>1. Cyclic
      BY <2>3, DeepIsCyclic DEF Overflow, Inv
    <3>2. QED
      BY <2>2, <3>1 DEF CycleInv
  <2>4. CASE ~(Load /\ Overflow)
    <3>1. phase' = "overflow" => phase = "overflow"
      BY <2>4 DEF Next, Load, ConfigNext, LoadFails, LoadInclude, Register, RegisterTwice, Verify,
                  RecordInputs, Define, Defines, Bind, Bindings, NextPhase, Prepare, Terminated,
                  vars, configVars
    <3>2. QED
      BY <2>2, <3>1 DEF CycleInv
  <2>5. QED
    BY <2>3, <2>4
<1>3. QED
  BY <1>1, <1>2, PTL DEF Spec, CycleInv
=============================================================================
