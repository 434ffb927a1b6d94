--------------------------- MODULE ExtensionsProofs ---------------------------
(***************************************************************************)
(* Proofs about Extensions, for any files, projects and threads, however   *)
(* often files are replaced and projects built.                            *)
(***************************************************************************)
EXTENDS Extensions, TLAPS

(* A caller of the loader that has an identity has that of its path, which *)
(* is recorded for good; what it has found, and is not the loader's yet,   *)
(* is of that identity.                                                    *)
CallerOf(t) ==
  LET i == call[t].identity
      p == call[t].path
  IN  /\ call[t].at \in {"register", "returned"} => i \in Identities
      /\ call[t].at \in {"load", "cache", "register", "returned"} /\ i \in Identities
           => identityAt[p] = i
      /\ call[t].at \in {"cache", "register", "returned"} => call[t].found # NoAssembly
      /\ call[t].at = "returned" => call[t].found = assemblyOf[i]

CallerInv == \A t \in Callers : CallerOf(t)

(* What a reference keeps is the loader's.                                 *)
ReferenceInv ==
  \A p \in Paths :
    references[p].assembly # NoAssembly
      => /\ identityAt[p] \in Identities
         /\ references[p].assembly = assemblyOf[identityAt[p]]

(* The building thread loads for the extension it is at, whose names it    *)
(* has read; every assembly was loaded after the names.                    *)
MainOf == call[Main].at # "idle" => /\ build.at = "resolve"
                                    /\ call[Main].path \in build.todo
                                    /\ references[call[Main].path].names # Absent
NamesFirst == \A p \in Paths : references[p].assembly # NoAssembly => references[p].names # Absent

MainInv == MainOf /\ NamesFirst

(* Of the extensions of the project, the build has yet to do some, and has *)
(* made the providers of the others, or reported an error.                 *)
Made(p) == {e \in build.providers : e[1] = p}
DoneOf(p) ==
  /\ p \in build.todo => Made(p) = {}
  /\ p \in build.listed \ build.todo /\ ~build.errors
       => references[p].names # Absent /\ Made(p) = {p} \X Names(p)

ProgressInv ==
  /\ build.at = "none" => build.providers = {}
  /\ build.at = "loaded" => /\ build.providers = {}
                            /\ \A p \in build.listed : references[p].known
  /\ build.at = "resolve" => \A p \in Paths : DoneOf(p)

-----------------------------------------------------------------------------
(* What identifies an assembly is told from what does not.                 *)
LEMMA NoAssemblyType == NoAssembly \notin Assemblies
BY DEF NoAssembly, Assemblies

LEMMA IdleType == Idle \in Call /\ Idle.at = "idle"
<1>1. (CHOOSE p \in Paths : TRUE) \in Paths
  BY PathAssumption
<1>2. QED
  BY <1>1 DEF Idle, Call

LEMMA NoBuildType == NoBuild \in Build
BY DEF NoBuild, Build

(* An identity that is recorded for a path is not replaced.                *)
LEMMA IdentityType ==
  ASSUME TypeOK, NEW p \in Paths
  PROVE  /\ GetOrAddIdentity(p) \in Identities \cup {Null}
         /\ identityAt[p] \in Identities => GetOrAddIdentity(p) = identityAt[p]
<1>1. ReadIdentity(p) \in Identities \cup {Null}
  BY IdentityAssumption DEF ReadIdentity, Readable, TypeOK
<1>2. Unknown \notin Identities
  BY IdentityAssumption DEF Unknown
<1>3. QED
  BY <1>1, <1>2 DEF GetOrAddIdentity, TypeOK

LEMMA LookUpType ==
  ASSUME TypeOK, NEW t \in Callers, NEW p \in Paths, NEW i \in Identities \cup {Null},
         LookUp(t, p, i)
  PROVE  /\ call' \in [Callers -> Call]
         /\ \A u \in Callers : u # t => call'[u] = call[u]
         /\ call'[t].path = p /\ call'[t].identity = i
         /\ call'[t].at \in {"load", "register"}
         /\ call'[t].at = "register" => /\ i \in Identities
                                        /\ call'[t].found = assemblyOf[i]
                                        /\ call'[t].found # NoAssembly
<1> DEFINE found == IF i \in Identities THEN assemblyOf[i] ELSE NoAssembly
           c == [at |-> IF found = NoAssembly THEN "load" ELSE "register",
                 path |-> p, identity |-> i, found |-> found]
<1>1. found \in Assemblies \cup {NoAssembly}
  BY DEF TypeOK
<1>2. found # NoAssembly => i \in Identities /\ found = assemblyOf[i]
  OBVIOUS
<1>3. call' = [call EXCEPT ![t] = c]
  BY DEF LookUp
<1> HIDE DEF found
<1>4. c \in Call /\ c.path = p /\ c.identity = i /\ c.found = found
      /\ c.at \in {"load", "register"} /\ (c.at = "register" => found # NoAssembly)
  BY <1>1 DEF Call
<1> HIDE DEF c
<1>5. call \in [Callers -> Call]
  BY DEF TypeOK
<1>6. QED
  BY <1>2, <1>3, <1>4, <1>5

(* What the loading of a file changes.                                     *)
LEMMA LoadType ==
  ASSUME TypeOK, NEW t \in Callers, LoadFile(t)
  PROVE  /\ call' \in [Callers -> Call]
         /\ \A u \in Callers : u # t => call'[u] = call[u]
         /\ call'[t].path = call[t].path /\ call'[t].identity = call[t].identity
         /\ call'[t].at \in {"cache", "threw"}
         /\ call'[t].at = "cache" => call'[t].found # NoAssembly
<1> DEFINE p == call[t].path
           a == <<p, file[p]>>
<1>1. call \in [Callers -> Call] /\ p \in Paths /\ call[t] \in Call
  BY DEF TypeOK, Call
<1>2. CASE Readable(p)
  <2>1. call' = [call EXCEPT ![t] = [call[t] EXCEPT !.at = "cache", !.found = a]]
    BY <1>2 DEF LoadFile
  <2>2. a \in Assemblies /\ a # NoAssembly
    BY <1>1, <1>2, NoAssemblyType DEF Assemblies, Readable
  <2> HIDE DEF p, a
  <2>3. [call[t] EXCEPT !.at = "cache", !.found = a] \in Call
    BY <1>1, <2>2 DEF Call
  <2>4. /\ call'[t] = [call[t] EXCEPT !.at = "cache", !.found = a]
        /\ \A u \in Callers : u # t => call'[u] = call[u]
        /\ call' \in [Callers -> Call]
    BY <1>1, <2>1, <2>3
  <2>5. call'[t].at = "cache" /\ call'[t].found = a
        /\ call'[t].path = call[t].path /\ call'[t].identity = call[t].identity
    BY <1>1, <2>4 DEF Call
  <2>6. QED
    BY <2>2, <2>4, <2>5
<1>3. CASE ~Readable(p)
  <2>1. call' = [call EXCEPT ![t].at = "threw"]
    BY <1>3 DEF LoadFile
  <2>2. QED
    BY <1>1, <2>1 DEF Call
<1>4. QED
  BY <1>2, <1>3

(* What is recorded for the path of the assembly that was loaded.          *)
LEMMA CacheType ==
  ASSUME TypeOK, NEW t \in Callers, CachePath(t), call[t].found # NoAssembly
  PROVE  /\ call' \in [Callers -> Call]
         /\ identityAt' \in [Paths -> Identities \cup {Unknown, Null}]
         /\ \A u \in Callers : u # t => call'[u] = call[u]
         /\ call'[t].path = call[t].path /\ call'[t].found = call[t].found
         /\ \A p \in Paths : identityAt[p] \in Identities => identityAt'[p] = identityAt[p]
         /\ call'[t].at = "register" /\ call'[t].identity \in Identities
         /\ identityAt'[call[t].path] = call'[t].identity
<1> DEFINE p == call[t].path
           i == IF identityAt[p] \in Identities THEN identityAt[p]
                ELSE IF call[t].identity \in Identities THEN call[t].identity
                ELSE IdentityOf(call[t].found[2])
<1>1. call \in [Callers -> Call] /\ p \in Paths /\ call[t] \in Call
      /\ identityAt \in [Paths -> Identities \cup {Unknown, Null}]
  BY DEF TypeOK, Call
<1>2. i \in Identities /\ (identityAt[p] \in Identities => i = identityAt[p])
  <2>1. call[t].found \in Paths \X (Contents \ Broken)
    BY <1>1 DEF Call, Assemblies
  <2>2. call[t].found[2] \in Contents \ Broken
    BY <2>1
  <2>3. QED
    BY <2>2, IdentityAssumption
<1>3. /\ call' = [call EXCEPT ![t] = [call[t] EXCEPT !.at = "register", !.identity = i]]
      /\ identityAt' = [identityAt EXCEPT ![p] = i]
  BY DEF CachePath
<1> HIDE DEF p, i
<1>4. [call[t] EXCEPT !.at = "register", !.identity = i] \in Call
  BY <1>1, <1>2 DEF Call
<1>5. /\ call'[t] = [call[t] EXCEPT !.at = "register", !.identity = i]
      /\ \A u \in Callers : u # t => call'[u] = call[u]
      /\ call' \in [Callers -> Call]
  BY <1>1, <1>3, <1>4
<1>6. call'[t].at = "register" /\ call'[t].identity = i
      /\ call'[t].path = call[t].path /\ call'[t].found = call[t].found
  BY <1>1, <1>5 DEF Call
<1>7. /\ identityAt'[p] = i /\ \A q \in Paths : q # p => identityAt'[q] = identityAt[q]
      /\ identityAt' \in [Paths -> Identities \cup {Unknown, Null}]
  BY <1>1, <1>2, <1>3
<1>8. QED
  BY <1>2, <1>5, <1>6, <1>7 DEF p

LEMMA RegisterType ==
  ASSUME TypeOK, NEW t \in Callers, Register(t), call[t].identity \in Identities
  PROVE  /\ call' \in [Callers -> Call]
         /\ assemblyOf' \in [Identities -> Assemblies \cup {NoAssembly}]
         /\ \A u \in Callers : u # t => call'[u] = call[u]
         /\ call'[t].at = "returned"
         /\ call'[t].path = call[t].path
         /\ call'[t].identity = call[t].identity
         /\ call'[t].found = assemblyOf'[call[t].identity]
         /\ call'[t].found \in {call[t].found, assemblyOf[call[t].identity]}
         /\ call[t].found # NoAssembly => call'[t].found # NoAssembly
         /\ \A i \in Identities : assemblyOf[i] # NoAssembly => assemblyOf'[i] = assemblyOf[i]
<1> DEFINE i == call[t].identity
           a == IF assemblyOf[i] = NoAssembly THEN call[t].found ELSE assemblyOf[i]
<1>1. call \in [Callers -> Call] /\ call[t] \in Call /\ i \in Identities
      /\ assemblyOf \in [Identities -> Assemblies \cup {NoAssembly}]
  BY DEF TypeOK
<1>2. a \in Assemblies \cup {NoAssembly} /\ (assemblyOf[i] # NoAssembly => a = assemblyOf[i])
      /\ (call[t].found # NoAssembly => a # NoAssembly) /\ a \in {call[t].found, assemblyOf[i]}
  BY <1>1 DEF Call
<1>3. /\ assemblyOf' = [assemblyOf EXCEPT ![i] = a]
      /\ call' = [call EXCEPT ![t] = [call[t] EXCEPT !.at = "returned", !.found = a]]
  BY DEF Register
<1> HIDE DEF a
<1>4. [call[t] EXCEPT !.at = "returned", !.found = a] \in Call
  BY <1>1, <1>2 DEF Call
<1>5. call'[t] = [call[t] EXCEPT !.at = "returned", !.found = a]
      /\ (\A u \in Callers : u # t => call'[u] = call[u]) /\ call' \in [Callers -> Call]
  BY <1>1, <1>3, <1>4
<1>6. call'[t].at = "returned" /\ call'[t].path = call[t].path
      /\ call'[t].identity = i /\ call'[t].found = a
  BY <1>1, <1>5 DEF Call
<1>7. QED
  BY <1>1, <1>2, <1>3, <1>5, <1>6

-----------------------------------------------------------------------------
(* Types.                                                                  *)
ReferenceType == [known : BOOLEAN, names : (Contents \ Broken) \cup {Absent},
                  assembly : Assemblies \cup {NoAssembly}]
FileType == file \in [Paths -> Contents \cup {Absent}] /\ changes \in 0..MaxChanges
LoaderType == /\ identityAt \in [Paths -> Identities \cup {Unknown, Null}]
              /\ assemblyOf \in [Identities -> Assemblies \cup {NoAssembly}]
              /\ call \in [Callers -> Call]
DriverType == /\ references \in [Paths -> ReferenceType]
              /\ build \in Build
              /\ builds \in 0..MaxBuilds

LEMMA TypeParts == TypeOK <=> FileType /\ LoaderType /\ DriverType
BY DEF TypeOK, FileType, LoaderType, DriverType, ReferenceType

LEMMA IdleCall ==
  ASSUME LoaderType, NEW t \in Callers, call' = [call EXCEPT ![t] = Idle]
  PROVE  call' \in [Callers -> Call] /\ call'[t] = Idle
         /\ \A u \in Callers : u # t => call'[u] = call[u]
BY IdleType DEF LoaderType

(* What looking for an assembly changes.                                   *)
LEMMA SearchType ==
  ASSUME TypeOK, NEW t \in Callers, NEW p \in Paths,
         identityAt' = [identityAt EXCEPT ![p] = GetOrAddIdentity(p)],
         LookUp(t, p, GetOrAddIdentity(p)) \/ UNCHANGED call,
         UNCHANGED assemblyOf
  PROVE  /\ LoaderType'
         /\ identityAt'[p] = GetOrAddIdentity(p)
         /\ \A q \in Paths : identityAt[q] \in Identities => identityAt'[q] = identityAt[q]
<1>1. GetOrAddIdentity(p) \in Identities \cup {Null}
      /\ (identityAt[p] \in Identities => GetOrAddIdentity(p) = identityAt[p])
  BY IdentityType
<1>2. identityAt \in [Paths -> Identities \cup {Unknown, Null}] /\ call \in [Callers -> Call]
      /\ assemblyOf \in [Identities -> Assemblies \cup {NoAssembly}]
  BY DEF TypeOK
<1> DEFINE i == GetOrAddIdentity(p)
<1>3. call' \in [Callers -> Call]
  <2>1. CASE LookUp(t, p, GetOrAddIdentity(p))
    BY <1>1, <2>1, LookUpType
  <2>2. CASE UNCHANGED call
    BY <1>2, <2>2
  <2>3. QED
    BY <2>1, <2>2
<1>4. identityAt' = [identityAt EXCEPT ![p] = i] /\ i \in Identities \cup {Null}
      /\ (identityAt[p] \in Identities => i = identityAt[p])
  BY <1>1
<1> HIDE DEF i
<1>5. /\ identityAt' \in [Paths -> Identities \cup {Unknown, Null}] /\ identityAt'[p] = i
      /\ \A q \in Paths : identityAt[q] \in Identities => identityAt'[q] = identityAt[q]
  BY <1>2, <1>4
<1>6. QED
  BY <1>2, <1>3, <1>5 DEF i, LoaderType

(* The loader's variables keep their types, and what is recorded stays.    *)
Recorded ==
  /\ \A p \in Paths : identityAt[p] \in Identities => identityAt'[p] = identityAt[p]
  /\ \A i \in Identities : assemblyOf[i] # NoAssembly => assemblyOf'[i] = assemblyOf[i]

LEMMA LoaderStep ==
  ASSUME TypeOK, CallerInv, [Next]_vars
  PROVE  LoaderType' /\ Recorded
<1>1. LoaderType
  BY TypeParts
<1>2. ASSUME NEW p \in Paths, GetAssembly(p)
      PROVE  LoaderType' /\ Recorded
  <2>1. Main \in Callers
    BY DEF Callers
  <2>2. LoaderType' /\ \A q \in Paths : identityAt[q] \in Identities => identityAt'[q] = identityAt[q]
    BY <1>2, <2>1, SearchType DEF GetAssembly, LoadFromPath
  <2>3. QED
    BY <1>2, <2>2 DEF GetAssembly, LoadFromPath, Recorded
<1>3. ASSUME NEW t \in Resolvers, NEW i \in Identities, Request(t, i)
      PROVE  LoaderType' /\ Recorded
  <2>1. t \in Callers
    BY DEF Callers
  <2>2. PICK p \in Paths : /\ identityAt' = [identityAt EXCEPT ![p] = GetOrAddIdentity(p)]
                           /\ IF GetOrAddIdentity(p) = i THEN LookUp(t, p, i) ELSE UNCHANGED call
    BY <1>3 DEF Request
  <2>3. UNCHANGED assemblyOf
    BY <1>3 DEF Request
  <2>4. LoaderType' /\ \A q \in Paths : identityAt[q] \in Identities => identityAt'[q] = identityAt[q]
    BY <2>1, <2>2, <2>3, SearchType
  <2>5. QED
    BY <2>3, <2>4 DEF Recorded
<1>4. ASSUME NEW t \in Callers, LoadFile(t)
      PROVE  LoaderType' /\ Recorded
  <2>1. UNCHANGED <<identityAt, assemblyOf>>
    BY <1>4 DEF LoadFile
  <2>2. QED
    BY <1>1, <1>4, <2>1, LoadType DEF LoaderType, Recorded
<1>14. ASSUME NEW t \in Callers, CachePath(t)
       PROVE  LoaderType' /\ Recorded
  <2>1. call[t].found # NoAssembly
    BY <1>14 DEF CallerInv, CallerOf, CachePath
  <2>2. UNCHANGED assemblyOf
    BY <1>14 DEF CachePath
  <2>3. QED
    BY <1>1, <1>14, <2>1, <2>2, CacheType DEF LoaderType, Recorded
<1>5. ASSUME NEW t \in Callers, Register(t)
      PROVE  LoaderType' /\ Recorded
  <2>1. call[t].identity \in Identities
    BY <1>5 DEF CallerInv, CallerOf, Register
  <2>2. UNCHANGED identityAt
    BY <1>5 DEF Register
  <2>3. QED
    BY <1>1, <1>5, <2>1, <2>2, RegisterType DEF LoaderType, Recorded
<1>6. ASSUME NEW t \in Callers, call' = [call EXCEPT ![t] = Idle], UNCHANGED <<identityAt, assemblyOf>>
      PROVE  LoaderType' /\ Recorded
  BY <1>1, <1>6, IdleCall DEF LoaderType, Recorded
<1>7. CASE UNCHANGED <<identityAt, assemblyOf, call>>
  BY <1>1, <1>7 DEF LoaderType, Recorded
<1>8. ASSUME NEW t \in Callers, Answered(t)
      PROVE  LoaderType' /\ Recorded
  BY <1>6, <1>8 DEF Answered
<1>9. CASE LoadFails \/ KeepAssembly
  <2>1. Main \in Callers
    BY DEF Callers
  <2>2. QED
    BY <1>6, <1>9, <2>1 DEF LoadFails, KeepAssembly
<1>10. CASE UNCHANGED vars \/ ResolveExtensibilityPoints \/ EndBuild
            \/ \E j \in Projects : LoadExtensions(j)
  BY <1>7, <1>10 DEF vars, ResolveExtensibilityPoints, EndBuild, LoadExtensions
<1>11. CASE \E p \in Paths : ReadTypeNames(p) \/ NothingDeclared(p) \/ CreateProviders(p)
  BY <1>7, <1>11 DEF ReadTypeNames, NothingDeclared, CreateProviders
<1>12. CASE \E p \in Paths, c \in Contents \cup {Absent} : Replace(p, c)
  BY <1>7, <1>12 DEF Replace
<1>13. QED
  BY <1>2, <1>3, <1>4, <1>5, <1>8, <1>9, <1>10, <1>11, <1>12, <1>14 DEF Next, Resolve

LEMMA FileStep ==
  ASSUME TypeOK, [Next]_vars
  PROVE  FileType'
<1>1. FileType /\ BoundAssumption
  BY TypeParts, BoundAssumption DEF BoundAssumption
<1>2. ASSUME NEW p \in Paths, NEW c \in Contents \cup {Absent}, Replace(p, c)
      PROVE  FileType'
  BY <1>1, <1>2 DEF Replace, FileType, BoundAssumption
<1>3. CASE UNCHANGED <<file, changes>>
  BY <1>1, <1>3 DEF FileType
<1>4. CASE UNCHANGED vars \/ (\E j \in Projects : LoadExtensions(j)) \/ ResolveExtensibilityPoints
           \/ LoadFails \/ KeepAssembly \/ EndBuild
  BY <1>3, <1>4 DEF vars, LoadExtensions, ResolveExtensibilityPoints, LoadFails, KeepAssembly, EndBuild
<1>5. CASE \E p \in Paths : Resolve(p)
  BY <1>3, <1>5 DEF Resolve, ReadTypeNames, NothingDeclared, GetAssembly, CreateProviders
<1>6. CASE \/ \E t \in Callers : LoadFile(t) \/ CachePath(t) \/ Register(t) \/ Answered(t)
           \/ \E t \in Resolvers, i \in Identities : Request(t, i)
  BY <1>3, <1>6 DEF LoadFile, CachePath, Register, Answered, Request
<1>7. QED
  BY <1>2, <1>4, <1>5, <1>6 DEF Next

(* An extension that is skipped or fails is done with.                     *)
LEMMA SkipType ==
  ASSUME DriverType, NEW p \in Paths, Skip(p) \/ Fail(p)
  PROVE  /\ build' \in Build
         /\ build'.at = build.at /\ build'.listed = build.listed
         /\ build'.providers = build.providers
         /\ build'.todo = build.todo \ {p}
         /\ build'.errors = IF Fail(p) THEN TRUE ELSE build.errors
<1>1. build \in Build
  BY DEF DriverType
<1>2. CASE Fail(p)
  <2>1. build' = [build EXCEPT !.todo = build.todo \ {p}, !.errors = TRUE]
    BY <1>2 DEF Fail
  <2>2. QED
    BY <1>1, <1>2, <2>1 DEF Build
<1>3. CASE Skip(p) /\ ~Fail(p)
  <2>1. build' = [build EXCEPT !.todo = build.todo \ {p}]
    BY <1>3 DEF Skip
  <2>2. QED
    BY <1>1, <1>3, <2>1 DEF Build
<1>4. QED
  BY <1>2, <1>3

(* What reading the names of an extension changes, when it can be read.    *)
LEMMA ReadType ==
  ASSUME TypeOK, NEW p \in Paths, ReadTypeNames(p)
  PROVE  \/ Fail(p) /\ UNCHANGED references
         \/ /\ UNCHANGED build
            /\ references' \in [Paths -> ReferenceType]
            /\ references'[p].names # Absent
            /\ \A q \in Paths : /\ references'[q].assembly = references[q].assembly
                                /\ references'[q].known = references[q].known
                                /\ q # p => references'[q] = references[q]
<1>1. CASE ~Readable(p)
  BY <1>1 DEF ReadTypeNames
<1>2. CASE Readable(p)
  <2>1. references' = [references EXCEPT ![p].names = file[p]] /\ UNCHANGED build
    BY <1>2 DEF ReadTypeNames
  <2>2. file[p] \in Contents \ Broken /\ file[p] # Absent
    BY <1>2, AbsentAssumption DEF Readable
  <2>3. references \in [Paths -> ReferenceType]
    BY TypeParts DEF DriverType
  <2>4. QED
    BY <2>1, <2>2, <2>3 DEF ReferenceType
<1>3. QED
  BY <1>1, <1>2

LEMMA KeepType ==
  ASSUME TypeOK, KeepAssembly
  PROVE  /\ references' \in [Paths -> ReferenceType]
         /\ call[Main].path \in Paths
         /\ references'[call[Main].path].assembly = call[Main].found
         /\ \A q \in Paths : /\ references'[q].names = references[q].names
                             /\ references'[q].known = references[q].known
                             /\ q # call[Main].path => references'[q] = references[q]
<1>1. references \in [Paths -> ReferenceType]
  BY TypeParts DEF DriverType
<1>2. call[Main] \in Call
  BY DEF TypeOK, Callers
<1> DEFINE p == call[Main].path
           a == call[Main].found
<1>3. p \in Paths /\ a \in Assemblies \cup {NoAssembly}
  BY <1>2 DEF Call
<1>4. references' = [references EXCEPT ![p].assembly = a]
  BY DEF KeepAssembly
<1> HIDE DEF p, a
<1>5. /\ references' \in [Paths -> ReferenceType]
      /\ references'[p].assembly = a
      /\ \A q \in Paths : /\ references'[q].names = references[q].names
                          /\ references'[q].known = references[q].known
                          /\ q # p => references'[q] = references[q]
  BY <1>1, <1>3, <1>4 DEF ReferenceType
<1>6. QED
  BY <1>3, <1>5 DEF p, a

LEMMA ProjectType ==
  ASSUME TypeOK, NEW j \in Projects, LoadExtensions(j)
  PROVE  /\ build' \in Build
         /\ build'.at = "loaded" /\ build'.providers = {} /\ build'.listed \subseteq Paths
         /\ references' \in [Paths -> ReferenceType]
         /\ \A q \in Paths : /\ references'[q].names = references[q].names
                             /\ references'[q].assembly = references[q].assembly
                             /\ q \in build'.listed => references'[q].known
<1>1. Listed(j) \subseteq Paths /\ file \in [Paths -> Contents \cup {Absent}]
      /\ references \in [Paths -> ReferenceType]
  BY ListedAssumption, TypeParts DEF DriverType, TypeOK
<1>2. build' = [NoBuild EXCEPT !.at = "loaded", !.listed = Listed(j), !.recorded = file]
  BY DEF LoadExtensions
<1>3. build' \in Build /\ build'.at = "loaded" /\ build'.providers = {} /\ build'.listed = Listed(j)
  BY <1>1, <1>2, NoBuildType DEF Build, NoBuild
<1>4. references' = [p \in Paths |-> IF p \in build'.listed
                                     THEN [references[p] EXCEPT !.known = TRUE]
                                     ELSE references[p]]
  BY DEF LoadExtensions
<1>5. /\ references' \in [Paths -> ReferenceType]
      /\ \A q \in Paths : /\ references'[q].names = references[q].names
                          /\ references'[q].assembly = references[q].assembly
                          /\ q \in build'.listed => references'[q].known
  BY <1>1, <1>4 DEF ReferenceType
<1>6. QED
  BY <1>1, <1>3, <1>5

(* What making the providers of an extension changes: with every name of a *)
(* provider found and cast, they are all there or there was an error.      *)
LEMMA CreateType ==
  ASSUME TypeOK, NEW p \in Paths, CreateProviders(p)
  PROVE  /\ build' \in Build
         /\ build'.at = build.at /\ build'.listed = build.listed
         /\ build'.todo = build.todo \ {p}
         /\ build.errors => build'.errors
         /\ \A q \in Paths : q # p => Made(q)' = Made(q)
         /\ ~build'.errors /\ Made(p) = {}
            /\ (\A c \in Contents \ Broken : CastableOf(c) = TypesOf(c))
              => Made(p)' = {p} \X Names(p)
<1> DEFINE a == references[p].assembly[2]
           names == Names(p)
           there == TypesOf(a)
           All == UNION {TypesOf(c) : c \in Contents \ Broken}
<1>1. build \in Build /\ references[p] \in ReferenceType /\ references[p].assembly # NoAssembly
  BY TypeParts DEF DriverType, CreateProviders
<1>2. a \in Contents \ Broken
  BY <1>1 DEF ReferenceType, Assemblies
<1>3. there \subseteq All
  BY <1>2
<1>4. PICK thrown \in SUBSET (names \cap there) :
        build' = [build EXCEPT
                    !.todo = build.todo \ {p},
                    !.providers = build.providers
                                    \cup ({p} \X (((names \cap there) \ thrown) \cap CastableOf(a))),
                    !.errors = \/ build.errors
                               \/ thrown # {}
                               \/ ~(names \subseteq there)
                               \/ ((names \cap there) \ thrown) \cap CastableOf(a) = {}]
  BY DEF CreateProviders
<1> DEFINE created == ((names \cap there) \ thrown) \cap CastableOf(a)
           failed == \/ build.errors \/ thrown # {} \/ ~(names \subseteq there) \/ created = {}
<1>5. created \subseteq All /\ failed \in BOOLEAN
  BY <1>1, <1>3 DEF Build
<1>6. (\A c \in Contents \ Broken : CastableOf(c) = TypesOf(c)) /\ ~failed => created = names
  BY <1>2
<1>7. build.errors => failed
  OBVIOUS
<1> HIDE DEF failed, created, All, there
<1>8. build' = [build EXCEPT !.todo = build.todo \ {p},
                             !.providers = build.providers \cup ({p} \X created),
                             !.errors = failed]
  BY <1>4 DEF created, failed, there
<1>9. build.providers \subseteq Paths \X All
  BY <1>1 DEF Build, All
<1>10. {p} \X created \subseteq Paths \X All
  BY <1>5
<1>11. /\ build'.at = build.at /\ build'.listed = build.listed
       /\ build'.todo = build.todo \ {p}
       /\ build'.errors = failed
       /\ build'.providers = build.providers \cup ({p} \X created)
  BY <1>1, <1>8 DEF Build
<1>12. build' \in Build
  BY <1>1, <1>5, <1>8, <1>9, <1>10 DEF Build, All
<1>13. \A q \in Paths : q # p => Made(q)' = Made(q)
  BY <1>11 DEF Made
<1>14. Made(p) = {} => Made(p)' = {p} \X created
  <2>1. \A e \in {p} \X created : e[1] = p
    OBVIOUS
  <2>2. QED
    BY <1>11, <2>1 DEF Made
<1>15. QED
  BY <1>6, <1>7, <1>11, <1>12, <1>13, <1>14

LEMMA DriverStep ==
  ASSUME TypeOK, [Next]_vars
  PROVE  DriverType'
<1>1. DriverType /\ references \in [Paths -> ReferenceType] /\ build \in Build /\ builds \in 0..MaxBuilds
      /\ MaxBuilds \in Nat
  BY TypeParts, BoundAssumption DEF DriverType
<1>2. CASE UNCHANGED <<references, build, builds>>
  BY <1>1, <1>2 DEF DriverType
<1>3. ASSUME NEW j \in Projects, LoadExtensions(j)
      PROVE  DriverType'
  <2>1. builds' \in 0..MaxBuilds
    BY <1>1, <1>3 DEF LoadExtensions
  <2>2. QED
    BY <1>3, <2>1, ProjectType DEF DriverType
<1>4. CASE ResolveExtensibilityPoints
  <2>1. build' \in Build
    BY <1>1, <1>4 DEF ResolveExtensibilityPoints, Build
  <2>2. QED
    BY <1>1, <1>4, <2>1 DEF ResolveExtensibilityPoints, DriverType
<1>5. ASSUME NEW p \in Paths, ReadTypeNames(p)
      PROVE  DriverType'
  <2>1. build' \in Build /\ references' \in [Paths -> ReferenceType]
    BY <1>1, <1>5, ReadType, SkipType
  <2>2. QED
    BY <1>1, <1>5, <2>1 DEF ReadTypeNames, DriverType
<1>6. ASSUME NEW p \in Paths, NothingDeclared(p)
      PROVE  DriverType'
  BY <1>1, <1>6, SkipType DEF NothingDeclared, DriverType
<1>7. ASSUME NEW p \in Paths, CreateProviders(p)
      PROVE  DriverType'
  BY <1>1, <1>7, CreateType DEF CreateProviders, DriverType
<1>8. CASE LoadFails
  <2>1. call[Main].path \in Paths
    BY DEF TypeOK, Callers, Call
  <2>2. QED
    BY <1>1, <1>8, <2>1, SkipType DEF LoadFails, DriverType
<1>9. CASE KeepAssembly
  BY <1>1, <1>9, KeepType DEF KeepAssembly, DriverType
<1>10. CASE EndBuild
  BY <1>1, <1>10, NoBuildType DEF EndBuild, DriverType
<1>11. CASE UNCHANGED vars \/ \E p \in Paths : GetAssembly(p)
  BY <1>2, <1>11 DEF vars, GetAssembly
<1>12. CASE \/ \E t \in Callers : LoadFile(t) \/ CachePath(t) \/ Register(t) \/ Answered(t)
            \/ \E t \in Resolvers, i \in Identities : Request(t, i)
            \/ \E p \in Paths, c \in Contents \cup {Absent} : Replace(p, c)
  BY <1>2, <1>12 DEF LoadFile, CachePath, Register, Answered, Request, Replace
<1>13. QED
  BY <1>3, <1>4, <1>5, <1>6, <1>7, <1>8, <1>9, <1>10, <1>11, <1>12 DEF Next, Resolve

LEMMA TypeStep ==
  ASSUME TypeOK, CallerInv, [Next]_vars
  PROVE  TypeOK'
<1>1. FileType' /\ LoaderType' /\ DriverType'
  BY FileStep, LoaderStep, DriverStep
<1>2. QED
  BY <1>1 DEF TypeOK, FileType, LoaderType, DriverType, ReferenceType

-----------------------------------------------------------------------------
(* Steps keep the invariant.                                               *)
LEMMA CallerKept ==
  ASSUME CallerInv, Recorded, LoaderType, NEW t \in Callers, call'[t] = call[t]
  PROVE  CallerOf(t)'
<1>1. CallerOf(t) /\ call[t].path \in Paths
  BY DEF CallerInv, LoaderType, Call
<1>2. QED
  BY <1>1 DEF CallerOf, Recorded

LEMMA IdleCaller ==
  ASSUME NEW t \in Callers, call'[t].at \in {"idle", "threw"}
  PROVE  CallerOf(t)'
BY DEF CallerOf

LEMMA CallerStep ==
  ASSUME TypeOK, CallerInv, [Next]_vars
  PROVE  CallerInv'
<1>1. LoaderType /\ LoaderType' /\ Recorded
  BY TypeParts, LoaderStep
<1>2. ASSUME NEW t \in Callers, CallerOf(t)', \A u \in Callers : u # t => call'[u] = call[u]
      PROVE  CallerInv'
  <2>1. ASSUME NEW u \in Callers
        PROVE  CallerOf(u)'
    BY <1>1, <1>2, CallerKept
  <2>2. QED
    BY <2>1 DEF CallerInv
<1>3. CASE UNCHANGED call
  <2>1. ASSUME NEW u \in Callers
        PROVE  CallerOf(u)'
    BY <1>1, <1>3, CallerKept
  <2>2. QED
    BY <2>1 DEF CallerInv
<1>4. ASSUME NEW t \in Callers, NEW p \in Paths,
             identityAt' = [identityAt EXCEPT ![p] = GetOrAddIdentity(p)],
             LookUp(t, p, GetOrAddIdentity(p)), UNCHANGED assemblyOf
      PROVE  CallerInv'
  <2>1. GetOrAddIdentity(p) \in Identities \cup {Null}
    BY IdentityType
  <2>2. /\ \A u \in Callers : u # t => call'[u] = call[u]
        /\ call'[t].path = p /\ call'[t].identity = GetOrAddIdentity(p)
        /\ call'[t].at \in {"load", "register"}
        /\ call'[t].at = "register" => /\ GetOrAddIdentity(p) \in Identities
                                       /\ call'[t].found # NoAssembly
    BY <1>4, <2>1, LookUpType
  <2>3. identityAt'[p] = GetOrAddIdentity(p)
    BY <1>4, SearchType
  <2>4. CallerOf(t)'
    BY <2>2, <2>3 DEF CallerOf
  <2>5. QED
    BY <1>2, <2>2, <2>4
<1>5. ASSUME NEW p \in Paths, GetAssembly(p)
      PROVE  CallerInv'
  BY <1>4, <1>5 DEF GetAssembly, LoadFromPath, Callers
<1>6. ASSUME NEW t \in Resolvers, NEW i \in Identities, Request(t, i)
      PROVE  CallerInv'
  <2>1. t \in Callers /\ UNCHANGED assemblyOf
    BY <1>6 DEF Callers, Request
  <2>2. PICK p \in Paths : /\ identityAt' = [identityAt EXCEPT ![p] = GetOrAddIdentity(p)]
                           /\ IF GetOrAddIdentity(p) = i THEN LookUp(t, p, i) ELSE UNCHANGED call
    BY <1>6 DEF Request
  <2>3. QED
    BY <1>3, <1>4, <2>1, <2>2
<1>7. ASSUME NEW t \in Callers, LoadFile(t)
      PROVE  CallerInv'
  <2>1. CallerOf(t) /\ call[t].at = "load" /\ UNCHANGED identityAt
    BY <1>7 DEF CallerInv, LoadFile
  <2>2. CallerOf(t)' /\ \A u \in Callers : u # t => call'[u] = call[u]
    BY <1>7, <2>1, LoadType DEF CallerOf
  <2>3. QED
    BY <1>2, <2>2
<1>14. ASSUME NEW t \in Callers, CachePath(t)
       PROVE  CallerInv'
  <2>1. call[t].found # NoAssembly
    BY <1>14 DEF CallerInv, CallerOf, CachePath
  <2>2. CallerOf(t)' /\ \A u \in Callers : u # t => call'[u] = call[u]
    BY <1>14, <2>1, CacheType DEF CallerOf
  <2>3. QED
    BY <1>2, <2>2
<1>8. ASSUME NEW t \in Callers, Register(t)
      PROVE  CallerInv'
  <2>1. CallerOf(t) /\ call[t].at = "register" /\ UNCHANGED identityAt
    BY <1>8 DEF CallerInv, Register
  <2>2. call[t].identity \in Identities /\ identityAt[call[t].path] = call[t].identity
        /\ call[t].found # NoAssembly
    BY <2>1 DEF CallerOf
  <2>3. CallerOf(t)' /\ \A u \in Callers : u # t => call'[u] = call[u]
    BY <1>8, <2>1, <2>2, RegisterType DEF CallerOf
  <2>4. QED
    BY <1>2, <2>3
<1>9. ASSUME NEW t \in Callers, call' = [call EXCEPT ![t] = Idle]
      PROVE  CallerInv'
  <2>1. CallerOf(t)' /\ \A u \in Callers : u # t => call'[u] = call[u]
    BY <1>1, <1>9, IdleCall, IdleType, IdleCaller
  <2>2. QED
    BY <1>2, <2>1
<1>10. CASE \/ LoadFails \/ KeepAssembly
            \/ \E t \in Callers : Answered(t)
  BY <1>9, <1>10 DEF LoadFails, KeepAssembly, Answered, Callers
<1>11. CASE UNCHANGED vars \/ ResolveExtensibilityPoints \/ EndBuild
            \/ \E j \in Projects : LoadExtensions(j)
  BY <1>3, <1>11 DEF vars, ResolveExtensibilityPoints, EndBuild, LoadExtensions
<1>12. CASE \/ \E p \in Paths : ReadTypeNames(p) \/ NothingDeclared(p) \/ CreateProviders(p)
            \/ \E p \in Paths, c \in Contents \cup {Absent} : Replace(p, c)
  BY <1>3, <1>12 DEF ReadTypeNames, NothingDeclared, CreateProviders, Replace
<1>13. QED
  BY <1>5, <1>6, <1>7, <1>8, <1>10, <1>11, <1>12, <1>14 DEF Next, Resolve

LEMMA ReferenceStep ==
  ASSUME TypeOK, CallerInv, ReferenceInv, [Next]_vars
  PROVE  ReferenceInv'
<1>1. Recorded
  BY LoaderStep
<1>2. CASE \A p \in Paths : references'[p].assembly = references[p].assembly
  BY <1>1, <1>2 DEF ReferenceInv, Recorded
<1>3. CASE KeepAssembly
  <2>1. CallerOf(Main) /\ call[Main].at = "returned" /\ UNCHANGED <<identityAt, assemblyOf>>
    BY <1>3 DEF CallerInv, Callers, KeepAssembly
  <2>2. /\ call[Main].identity \in Identities
        /\ identityAt[call[Main].path] = call[Main].identity
        /\ call[Main].found = assemblyOf[call[Main].identity]
    BY <2>1 DEF CallerOf
  <2>3. QED
    BY <1>3, <2>1, <2>2, KeepType DEF ReferenceInv
<1>4. CASE \E j \in Projects : LoadExtensions(j)
  BY <1>2, <1>4, ProjectType
<1>5. CASE \E p \in Paths : ReadTypeNames(p)
  BY <1>2, <1>5, ReadType
<1>6. CASE UNCHANGED references
  BY <1>2, <1>6
<1>7. CASE UNCHANGED vars \/ ResolveExtensibilityPoints \/ EndBuild \/ LoadFails
  BY <1>6, <1>7 DEF vars, ResolveExtensibilityPoints, EndBuild, LoadFails
<1>8. CASE \/ \E p \in Paths : NothingDeclared(p) \/ CreateProviders(p) \/ GetAssembly(p)
           \/ \E p \in Paths, c \in Contents \cup {Absent} : Replace(p, c)
  BY <1>6, <1>8 DEF NothingDeclared, CreateProviders, GetAssembly, Replace
<1>9. CASE \/ \E t \in Callers : LoadFile(t) \/ CachePath(t) \/ Register(t) \/ Answered(t)
           \/ \E t \in Resolvers, i \in Identities : Request(t, i)
  BY <1>6, <1>9 DEF LoadFile, CachePath, Register, Answered, Request
<1>10. QED
  BY <1>3, <1>4, <1>5, <1>7, <1>8, <1>9 DEF Next, Resolve

(* The building thread is left alone by the resolvers.                     *)
LEMMA ResolversStep ==
  ASSUME TypeOK, NEW t \in Resolvers,
         \/ LoadFile(t) \/ Answered(t)
         \/ CachePath(t) /\ call[t].found # NoAssembly
         \/ Register(t) /\ call[t].identity \in Identities
         \/ \E i \in Identities : Request(t, i)
  PROVE  call'[Main] = call[Main]
<1>1. t \in Callers /\ Main \in Callers /\ Main # t /\ LoaderType
  BY MainAssumption, TypeParts DEF Callers
<1>2. CASE \/ LoadFile(t)
           \/ CachePath(t) /\ call[t].found # NoAssembly
           \/ Register(t) /\ call[t].identity \in Identities
  BY <1>1, <1>2, LoadType, CacheType, RegisterType
<1>3. CASE Answered(t)
  BY <1>1, <1>3, IdleCall DEF Answered
<1>4. ASSUME NEW i \in Identities, Request(t, i)
      PROVE  call'[Main] = call[Main]
  <2>1. PICK p \in Paths : IF GetOrAddIdentity(p) = i THEN LookUp(t, p, i) ELSE UNCHANGED call
    BY <1>4 DEF Request
  <2>2. QED
    BY <1>1, <2>1, LookUpType
<1>5. QED
  BY <1>2, <1>3, <1>4

LEMMA MainStep ==
  ASSUME TypeOK, CallerInv, MainInv, [Next]_vars
  PROVE  MainInv'
<1>1. MainOf /\ NamesFirst /\ LoaderType /\ DriverType /\ Main \in Callers /\ call[Main].path \in Paths
  BY TypeParts DEF MainInv, Callers, TypeOK, Call
<1>2. CASE call'[Main] = call[Main] /\ UNCHANGED <<build, references>>
  BY <1>1, <1>2 DEF MainInv, MainOf, NamesFirst
<1>3. CASE call'[Main].at = "idle" /\ UNCHANGED references
  BY <1>1, <1>3 DEF MainInv, MainOf, NamesFirst
<1>4. ASSUME NEW j \in Projects, LoadExtensions(j)
      PROVE  MainInv'
  <2>1. call[Main].at = "idle" /\ UNCHANGED call
    BY <1>1, <1>4 DEF LoadExtensions, MainOf
  <2>2. QED
    BY <1>1, <1>4, <2>1, ProjectType DEF MainInv, MainOf, NamesFirst
<1>5. CASE ResolveExtensibilityPoints
  BY <1>1, <1>3, <1>5 DEF ResolveExtensibilityPoints, MainOf
<1>6. ASSUME NEW p \in Paths, ReadTypeNames(p)
      PROVE  MainInv'
  <2>1. call'[Main].at = "idle"
    BY <1>6 DEF ReadTypeNames
  <2>2. CASE UNCHANGED references
    BY <1>3, <2>1, <2>2
  <2>3. CASE ~UNCHANGED references
    <3>1. \A q \in Paths : /\ references'[q].assembly = references[q].assembly
                           /\ references[q].names # Absent => references'[q].names # Absent
      BY <1>6, <2>3, ReadType
    <3>2. QED
      BY <1>1, <2>1, <3>1 DEF MainInv, MainOf, NamesFirst
  <2>4. QED
    BY <2>2, <2>3
<1>7. CASE \E p \in Paths : NothingDeclared(p) \/ CreateProviders(p)
  BY <1>3, <1>7 DEF NothingDeclared, CreateProviders
<1>8. ASSUME NEW p \in Paths, GetAssembly(p)
      PROVE  MainInv'
  <2>1. GetOrAddIdentity(p) \in Identities \cup {Null}
    BY IdentityType
  <2>2. call'[Main].path = p
    BY <1>1, <1>8, <2>1, LookUpType DEF GetAssembly, LoadFromPath
  <2>3. build.at = "resolve" /\ p \in build.todo /\ references[p].names # Absent
        /\ UNCHANGED <<build, references>>
    BY <1>8 DEF GetAssembly
  <2>4. MainOf'
    BY <2>2, <2>3 DEF MainOf
  <2>5. QED
    BY <1>1, <2>3, <2>4 DEF MainInv, NamesFirst
<1>9. CASE LoadFails
  BY <1>1, <1>3, <1>9, IdleCall, IdleType DEF LoadFails
<1>10. CASE KeepAssembly
  <2>1. call'[Main].at = "idle"
    BY <1>1, <1>10, IdleCall, IdleType DEF KeepAssembly
  <2>2. references[call[Main].path].names # Absent
    BY <1>1, <1>10 DEF KeepAssembly, MainOf
  <2>3. \A q \in Paths : /\ references'[q].names = references[q].names
                         /\ q # call[Main].path => references'[q] = references[q]
    BY <1>10, KeepType
  <2>4. QED
    BY <1>1, <2>1, <2>2, <2>3 DEF MainInv, MainOf, NamesFirst
<1>11. CASE EndBuild
  BY <1>1, <1>3, <1>11 DEF EndBuild
<1>12. CASE UNCHANGED vars \/ \E p \in Paths, c \in Contents \cup {Absent} : Replace(p, c)
  BY <1>2, <1>12 DEF vars, Replace
<1>13. ASSUME NEW t \in Callers, LoadFile(t) \/ CachePath(t) \/ Register(t) \/ Answered(t)
       PROVE  MainInv'
  <2>1. UNCHANGED <<build, references>>
    BY <1>13 DEF LoadFile, CachePath, Register, Answered
  <2>2. /\ Register(t) => call[t].identity \in Identities
        /\ CachePath(t) => call[t].found # NoAssembly
    BY DEF CallerInv, CallerOf, Register, CachePath
  <2>3. CASE t \in Resolvers
    <3>1. call'[Main] = call[Main]
      <4>1. CASE LoadFile(t)
        BY <2>3, <4>1, ResolversStep
      <4>2. CASE Register(t)
        BY <2>2, <2>3, <4>2, ResolversStep
      <4>3. CASE Answered(t)
        BY <2>3, <4>3, ResolversStep
      <4>4. CASE CachePath(t)
        BY <2>2, <2>3, <4>4, ResolversStep
      <4>5. QED
        BY <1>13, <4>1, <4>2, <4>3, <4>4
    <3>2. QED
      BY <1>2, <2>1, <3>1
  <2>4. CASE t \notin Resolvers
    <3>1. t = Main /\ ~Answered(t)
      BY <2>4 DEF Callers, Answered
    <3>2. call'[Main].path = call[Main].path /\ call[Main].at # "idle"
      BY <1>1, <1>13, <2>2, <3>1, LoadType, CacheType, RegisterType
         DEF LoadFile, CachePath, Register
    <3>3. QED
      BY <1>1, <2>1, <3>2 DEF MainInv, MainOf, NamesFirst
  <2>5. QED
    BY <2>3, <2>4
<1>14. ASSUME NEW t \in Resolvers, NEW i \in Identities, Request(t, i)
       PROVE  MainInv'
  <2>1. call'[Main] = call[Main]
    BY <1>14, ResolversStep
  <2>2. UNCHANGED <<build, references>>
    BY <1>14 DEF Request
  <2>3. QED
    BY <1>2, <2>1, <2>2
<1>15. QED
  BY <1>4, <1>5, <1>6, <1>7, <1>8, <1>9, <1>10, <1>11, <1>12, <1>13, <1>14 DEF Next, Resolve

(* Every name of a provider that a file declares can be created and cast:  *)
(* otherwise an extension whose other providers are fine loses this one    *)
(* without an error.                                                       *)
AllCast == \A c \in Contents \ Broken : CastableOf(c) = TypesOf(c)

LEMMA DoneKept ==
  ASSUME NEW p \in Paths, DoneOf(p), build'.listed = build.listed,
         build'.todo = build.todo, build.errors => build'.errors,
         Made(p)' = Made(p), references'[p].names = references[p].names
  PROVE  DoneOf(p)'
<1>1. Names(p)' = Names(p)
  BY DEF Names
<1>2. QED
  BY <1>1 DEF DoneOf

(* One extension is done with, the others are not looked at.               *)
LEMMA DoneBut ==
  ASSUME ProgressInv, build.at = "resolve", build'.at = "resolve", NEW p \in Paths,
         build'.listed = build.listed, build'.todo = build.todo \ {p},
         build.errors => build'.errors, UNCHANGED references,
         \A q \in Paths : q # p => Made(q)' = Made(q),
         ~build'.errors => references[p].names # Absent /\ Made(p)' = {p} \X Names(p)
  PROVE  ProgressInv'
<1>1. ASSUME NEW q \in Paths
      PROVE  DoneOf(q)'
  <2>1. DoneOf(q) /\ Names(q)' = Names(q)
    BY DEF ProgressInv, Names
  <2>2. QED
    BY <2>1 DEF DoneOf
<1>2. QED
  BY <1>1 DEF ProgressInv

LEMMA ProgressStep ==
  ASSUME TypeOK, MainInv, ProgressInv, [Next]_vars, AllCast
  PROVE  ProgressInv'
<1>1. DriverType /\ build \in Build
  BY TypeParts DEF DriverType
<1>2. CASE UNCHANGED <<build, references>>
  <2>1. ASSUME NEW p \in Paths, DoneOf(p)
        PROVE  DoneOf(p)'
    BY <1>2, <2>1 DEF DoneOf, Made, Names
  <2>2. QED
    BY <1>2, <2>1 DEF ProgressInv
<1>3. CASE UNCHANGED build /\ \A p \in Paths : /\ references'[p].names = references[p].names
                                               /\ references'[p].known = references[p].known
  <2>1. ASSUME NEW p \in Paths, DoneOf(p)
        PROVE  DoneOf(p)'
    BY <1>3, <2>1 DEF DoneOf, Made, Names
  <2>2. build.listed \subseteq Paths
    BY <1>1 DEF Build
  <2>3. QED
    BY <1>3, <2>1, <2>2 DEF ProgressInv
<1>4. ASSUME NEW j \in Projects, LoadExtensions(j)
      PROVE  ProgressInv'
  BY <1>4, ProjectType DEF ProgressInv
<1>5. CASE ResolveExtensibilityPoints
  <2>1. /\ build'.at = "resolve" /\ build'.listed = build.listed /\ UNCHANGED references
        /\ build'.providers = build.providers
        /\ build'.todo = {p \in Paths : references[p].known}
    BY <1>1, <1>5 DEF ResolveExtensibilityPoints, Build
  <2>2. build.providers = {} /\ \A p \in build.listed : references[p].known
    BY <1>5 DEF ResolveExtensibilityPoints, ProgressInv
  <2>3. ASSUME NEW p \in Paths
        PROVE  DoneOf(p)'
    <3>1. Made(p)' = {}
      BY <2>1, <2>2 DEF Made
    <3>2. p \notin build'.listed \ build'.todo
      BY <2>1, <2>2
    <3>3. QED
      BY <3>1, <3>2 DEF DoneOf
  <2>4. QED
    BY <2>1, <2>3 DEF ProgressInv
<1>6. ASSUME NEW p \in Paths, Skip(p), build.at = "resolve", UNCHANGED references,
             p \in build.todo, references[p].names # Absent, Names(p) = {}
      PROVE  ProgressInv'
  <2>1. /\ build'.at = build.at /\ build'.listed = build.listed
        /\ build'.providers = build.providers
        /\ build'.todo = build.todo \ {p}
        /\ build.errors => build'.errors
    BY <1>1, <1>6, SkipType
  <2>2. \A q \in Paths : Made(q)' = Made(q)
    BY <2>1 DEF Made
  <2>3. Made(p) = {}
    BY <1>6 DEF ProgressInv, DoneOf
  <2>4. QED
    BY <1>6, <2>1, <2>2, <2>3, DoneBut
<1>16. ASSUME NEW p \in Paths, Fail(p), build.at = "resolve", UNCHANGED references
       PROVE  ProgressInv'
  <2>1. /\ build'.at = build.at /\ build'.listed = build.listed
        /\ build'.providers = build.providers
        /\ build'.todo = build.todo \ {p}
        /\ build'.errors
    BY <1>1, <1>16, SkipType
  <2>2. \A q \in Paths : Made(q)' = Made(q)
    BY <2>1 DEF Made
  <2>3. QED
    BY <1>16, <2>1, <2>2, DoneBut
<1>7. ASSUME NEW p \in Paths, ReadTypeNames(p)
      PROVE  ProgressInv'
  <2>1. build.at = "resolve" /\ p \in build.todo
    BY <1>7 DEF ReadTypeNames
  <2>2. CASE Fail(p) /\ UNCHANGED references
    BY <1>16, <2>1, <2>2
  <2>3. CASE UNCHANGED build /\ \A q \in Paths : q # p => references'[q] = references[q]
    <3>1. ASSUME NEW q \in Paths
          PROVE  DoneOf(q)'
      <4>1. DoneOf(q)
        BY <2>1 DEF ProgressInv
      <4>2. CASE q = p
        BY <2>1, <2>3, <4>1, <4>2 DEF DoneOf, Made
      <4>3. CASE q # p
        BY <2>3, <4>1, <4>3, DoneKept DEF Made
      <4>4. QED
        BY <4>2, <4>3
    <3>2. QED
      BY <2>1, <2>3, <3>1 DEF ProgressInv
  <2>4. QED
    BY <1>7, <2>2, <2>3, ReadType
<1>8. ASSUME NEW p \in Paths, NothingDeclared(p)
      PROVE  ProgressInv'
  BY <1>6, <1>8 DEF NothingDeclared
<1>9. ASSUME NEW p \in Paths, CreateProviders(p)
      PROVE  ProgressInv'
  <2>1. /\ build.at = "resolve" /\ p \in build.todo /\ UNCHANGED references
        /\ references[p].assembly # NoAssembly
    BY <1>9 DEF CreateProviders
  <2>2. references[p].names # Absent /\ Made(p) = {}
    BY <2>1 DEF MainInv, NamesFirst, ProgressInv, DoneOf
  <2>3. /\ build'.at = build.at /\ build'.listed = build.listed
        /\ build'.todo = build.todo \ {p}
        /\ build.errors => build'.errors
        /\ \A q \in Paths : q # p => Made(q)' = Made(q)
        /\ ~build'.errors => Made(p)' = {p} \X Names(p)
    BY <1>9, <2>2, CreateType DEF AllCast
  <2>4. QED
    BY <2>1, <2>2, <2>3, DoneBut
<1>10. CASE LoadFails
  <2>1. call[Main].path \in Paths
    BY DEF TypeOK, Callers, Call
  <2>2. build.at = "resolve" /\ call[Main].path \in build.todo
    BY <1>10 DEF MainInv, MainOf, LoadFails
  <2>3. QED
    BY <1>10, <1>16, <2>1, <2>2 DEF LoadFails
<1>11. CASE KeepAssembly
  BY <1>3, <1>11, KeepType DEF KeepAssembly
<1>12. CASE EndBuild
  BY <1>12 DEF EndBuild, NoBuild, ProgressInv
<1>13. CASE UNCHANGED vars \/ \E p \in Paths : GetAssembly(p)
  BY <1>2, <1>13 DEF vars, GetAssembly
<1>14. CASE \/ \E t \in Callers : LoadFile(t) \/ CachePath(t) \/ Register(t) \/ Answered(t)
            \/ \E t \in Resolvers, i \in Identities : Request(t, i)
            \/ \E p \in Paths, c \in Contents \cup {Absent} : Replace(p, c)
  BY <1>2, <1>14 DEF LoadFile, CachePath, Register, Answered, Request, Replace
<1>15. QED
  BY <1>4, <1>5, <1>7, <1>8, <1>9, <1>10, <1>11, <1>12, <1>13, <1>14 DEF Next, Resolve

-----------------------------------------------------------------------------
LEMMA Start ==
  ASSUME Init
  PROVE  TypeOK /\ CallerInv /\ ReferenceInv /\ MainInv /\ ProgressInv
<1>1. /\ file \in [Paths -> Contents \cup {Absent}] /\ changes = 0
      /\ references = [p \in Paths |-> NotReferenced]
      /\ identityAt = [p \in Paths |-> Unknown]
      /\ assemblyOf = [i \in Identities |-> NoAssembly]
      /\ call = [t \in Callers |-> Idle]
      /\ build = NoBuild /\ builds = 0
  BY DEF Init
<1>2. NotReferenced \in ReferenceType /\ NotReferenced.assembly = NoAssembly
  BY DEF NotReferenced, ReferenceType
<1>3. FileType /\ LoaderType /\ DriverType
  BY <1>1, <1>2, IdleType, NoBuildType, BoundAssumption
     DEF FileType, LoaderType, DriverType
<1>4. TypeOK
  BY <1>3, TypeParts
<1>5. \A t \in Callers : call[t].at = "idle"
  BY <1>1, IdleType
<1>6. CallerInv
  BY <1>5 DEF CallerInv, CallerOf
<1>7. ReferenceInv /\ MainInv
  BY <1>1, <1>2, <1>5 DEF ReferenceInv, MainInv, MainOf, NamesFirst, Callers
<1>8. ProgressInv
  BY <1>1 DEF ProgressInv, NoBuild
<1>9. QED
  BY <1>4, <1>6, <1>7, <1>8

(* Every variable holds what the driver's and the loader's fields can: the *)
(* caches by path and by identity (LoadFromPathUncheckedCore), the         *)
(* references, the build in progress.                                      *)
THEOREM TypeCorrect == Spec => []TypeOK
<1>1. Init => TypeOK /\ CallerInv
  BY Start
<1>2. TypeOK /\ CallerInv /\ [Next]_vars => TypeOK' /\ CallerInv'
  BY TypeStep, CallerStep
<1>3. QED
  BY <1>1, <1>2, PTL DEF Spec

(* AddToCache and LoadFromPathUncheckedCore: of an identity the process    *)
(* has one assembly, the one that was registered first, and everybody is   *)
(* answered that one, for any number of threads, paths and replaced files. *)
THEOREM OneAssembly == Spec => []OneAssemblyPerIdentity
<1>1. Init => TypeOK /\ CallerInv /\ ReferenceInv
  BY Start
<1>2. TypeOK /\ CallerInv /\ ReferenceInv /\ [Next]_vars
        => TypeOK' /\ CallerInv' /\ ReferenceInv'
  BY TypeStep, CallerStep, ReferenceStep
<1>3. CallerInv /\ ReferenceInv => OneAssemblyPerIdentity
  BY DEF CallerInv, CallerOf, ReferenceInv, OneAssemblyPerIdentity
<1>4. QED
  BY <1>1, <1>2, <1>3, PTL DEF Spec

(* ResolveExtensibilityPoints: when every provider a file declares can be  *)
(* cast to IDocProvider, a build without errors has all the providers of   *)
(* every extension it lists, however long the process lives.               *)
THEOREM Served ==
  ASSUME AllCast
  PROVE  Spec => []ServedOrReported
<1> DEFINE Inv == TypeOK /\ CallerInv /\ MainInv /\ ProgressInv
<1>1. Init => Inv
  BY Start
<1>2. Inv /\ [Next]_vars => Inv'
  BY TypeStep, CallerStep, MainStep, ProgressStep
<1>3. Inv => ServedOrReported
  <2>1. SUFFICES ASSUME Inv, Resolved, ~build.errors, NEW p \in build.listed
                 PROVE  /\ references[p].names # Absent
                        /\ {e \in build.providers : e[1] = p} = {p} \X Names(p)
    BY DEF ServedOrReported
  <2>2. p \in Paths
    BY <2>1 DEF TypeOK, Build
  <2>3. DoneOf(p) /\ p \notin build.todo
    BY <2>1, <2>2 DEF ProgressInv, Resolved
  <2>4. QED
    BY <2>1, <2>3 DEF DoneOf, Made
<1>4. QED
  BY <1>1, <1>2, <1>3, PTL DEF Spec
=============================================================================
