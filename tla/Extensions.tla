------------------------------ MODULE Extensions ------------------------------
(***************************************************************************)
(* The extensions (assemblies with documentation providers) of an MSBuild  *)
(* process.  The driver and its loader are singletons: they live as long   *)
(* as the process, which builds one project after the other, while the     *)
(* files of the extensions may be replaced.  Providers run queries on      *)
(* threads of their own, whose missing dependencies the runtime asks the   *)
(* loader for: the loader is used by several callers at once.              *)
(*                                                                         *)
(* A file's content is one build of an assembly.  An assembly in memory is *)
(* the pair of the path it was loaded from and its content.                *)
(***************************************************************************)
EXTENDS Naturals, FiniteSets

CONSTANTS
  Paths,          \* absolute paths that projects and providers name
  Contents,       \* builds of assemblies that may be found at a path
  Absent,         \* no file
  Broken,         \* contents that are no assembly
  Identities,     \* name and version of assemblies
  IdentityOf(_),  \* identity of a content that is not broken
  TypesOf(_),     \* names of the providers a content declares
  CastableOf(_),  \* those that implement this SharpGen's IDocProvider
  Resolvers,      \* threads that need a dependency
  Main,           \* the thread that builds
  Projects,       \* what the process builds
  Listed(_),      \* ExtensionAssemblies of a project, those with an absolute path
  MaxBuilds,      \* bound: builds of the process
  MaxChanges      \* bound: times a file is replaced

ASSUME BrokenAssumption == Broken \subseteq Contents
ASSUME AbsentAssumption == Absent \notin Contents
ASSUME PathAssumption == Paths # {}
ASSUME IdentityAssumption ==
  /\ \A c \in Contents \ Broken : IdentityOf(c) \in Identities
  /\ {"unknown", "null"} \cap Identities = {}
ASSUME MainAssumption == Main \notin Resolvers
ASSUME ListedAssumption == \A j \in Projects : Listed(j) \subseteq Paths
ASSUME BoundAssumption == MaxBuilds \in Nat /\ MaxChanges \in Nat

VARIABLES
  file,        \* content at every path
  changes,     \* times a file was replaced
  references,  \* extensionReferences of the driver, by path
  identityAt,  \* _loadedAssemblyIdentitiesByPath
  assemblyOf,  \* _loadedAssembliesByIdentity
  call,        \* what every thread is doing in the loader
  build,       \* the build in progress
  builds       \* builds started

vars == <<file, changes, references, identityAt, assemblyOf, call, build, builds>>

-----------------------------------------------------------------------------
Callers == Resolvers \cup {Main}
Assemblies == Paths \X (Contents \ Broken)
NoAssembly == <<>>

(* A reference of the driver: the content its type names were read from    *)
(* (Absent: not read yet) and its assembly, both kept once they are known. *)
NotReferenced == [known |-> FALSE, names |-> Absent, assembly |-> NoAssembly]
Names(p) == TypesOf(references[p].names)

\* An identity that was looked for in vain is remembered as null.
Unknown == "unknown"
Null == "null"

Idle == [at |-> "idle", path |-> CHOOSE p \in Paths : TRUE, identity |-> Null,
         found |-> NoAssembly]
NoBuild == [at |-> "none", listed |-> {}, recorded |-> [p \in Paths |-> Absent],
            todo |-> {}, providers |-> {}, errors |-> FALSE]

Readable(p) == file[p] \in Contents \ Broken
ReadIdentity(p) == IF Readable(p) THEN IdentityOf(file[p]) ELSE Null

Init ==
  /\ file \in [Paths -> Contents \cup {Absent}]
  /\ changes = 0
  /\ references = [p \in Paths |-> NotReferenced]
  /\ identityAt = [p \in Paths |-> Unknown]
  /\ assemblyOf = [i \in Identities |-> NoAssembly]
  /\ call = [t \in Callers |-> Idle]
  /\ build = NoBuild
  /\ builds = 0

-----------------------------------------------------------------------------
(* The loader.                                                             *)

(* GetOrAddAssemblyIdentity: what is remembered of a path, null included,  *)
(* is not read again.                                                      *)
GetOrAddIdentity(p) == IF identityAt[p] = Unknown THEN ReadIdentity(p) ELSE identityAt[p]

(* LoadFromPathUncheckedCore under the lock, from where the identity is    *)
(* known: an assembly of that identity is taken, whatever its path.        *)
LookUp(t, p, identity) ==
  LET found == IF identity \in Identities THEN assemblyOf[identity] ELSE NoAssembly
  IN  call' = [call EXCEPT ![t] =
                 [at       |-> IF found = NoAssembly THEN "load" ELSE "register",
                  path     |-> p,
                  identity |-> identity,
                  found    |-> found]]

LoadFromPath(t, p) ==
  /\ LET identity == GetOrAddIdentity(p)
     IN  /\ identityAt' = [identityAt EXCEPT ![p] = identity]
         /\ LookUp(t, p, identity)
  /\ UNCHANGED assemblyOf

(* LoadFromPathImpl, outside the lock: the runtime reads the file that is  *)
(* there now, or throws.                                                   *)
LoadFile(t) ==
  /\ call[t].at = "load"
  /\ LET p == call[t].path
     IN  call' = IF Readable(p)
                 THEN [call EXCEPT ![t] = [@ EXCEPT !.at = "cache", !.found = <<p, file[p]>>]]
                 ELSE [call EXCEPT ![t].at = "threw"]
  /\ UNCHANGED <<file, changes, references, identityAt, assemblyOf, build, builds>>

(* AddToCache(path), under the lock again: an identity that the path has   *)
(* by now is taken; else the one looked for, or that of what was loaded.   *)
CachePath(t) ==
  /\ call[t].at = "cache"
  /\ LET p == call[t].path
         identity == IF identityAt[p] \in Identities THEN identityAt[p]
                     ELSE IF call[t].identity \in Identities THEN call[t].identity
                     ELSE IdentityOf(call[t].found[2])
     IN  /\ call' = [call EXCEPT ![t] = [@ EXCEPT !.at = "register", !.identity = identity]]
         /\ identityAt' = [identityAt EXCEPT ![p] = identity]
  /\ UNCHANGED <<file, changes, references, assemblyOf, build, builds>>

(* Seeded fault: the assembly just loaded is recorded and answered, though *)
(* another thread was faster.                                              *)
RegisterAlways(t) ==
  /\ call[t].at = "register"
  /\ assemblyOf' = [assemblyOf EXCEPT ![call[t].identity] = call[t].found]
  /\ call' = [call EXCEPT ![t].at = "returned"]
  /\ UNCHANGED <<file, changes, references, identityAt, build, builds>>

(* AddToCache: the first assembly of an identity stays, and is answered.   *)
Register(t) ==
  /\ call[t].at = "register"
  /\ LET i == call[t].identity
         first == IF assemblyOf[i] = NoAssembly THEN call[t].found ELSE assemblyOf[i]
     IN  /\ assemblyOf' = [assemblyOf EXCEPT ![i] = first]
         /\ call' = [call EXCEPT ![t] = [@ EXCEPT !.at = "returned", !.found = first]]
  /\ UNCHANGED <<file, changes, references, identityAt, build, builds>>

(* Load(displayName), on behalf of a provider that exists already: one of  *)
(* the candidate files is looked at, and loaded when its identity is the   *)
(* requested one; an assembly loaded before is answered at once.           *)
Request(t, i) ==
  /\ t \in Resolvers
  /\ call[t].at = "idle"
  /\ build.providers # {}
  /\ assemblyOf[i] = NoAssembly
  /\ \E p \in Paths :
       LET identity == GetOrAddIdentity(p)
       IN  /\ identityAt' = [identityAt EXCEPT ![p] = identity]
           /\ IF identity = i THEN LookUp(t, p, i) ELSE UNCHANGED call
  /\ UNCHANGED <<file, changes, references, assemblyOf, build, builds>>

Answered(t) ==
  /\ t \in Resolvers
  /\ call[t].at \in {"returned", "threw"}
  /\ call' = [call EXCEPT ![t] = Idle]
  /\ UNCHANGED <<file, changes, references, identityAt, assemblyOf, build, builds>>

-----------------------------------------------------------------------------
(* The driver.                                                             *)

(* LoadExtensions adds the references of the project to those of the       *)
(* process; one that is known keeps what it read before.  A relative path  *)
(* is left out with a warning.  Execute then records the metadata of the   *)
(* files as they are now in the inputs cache.                              *)
LoadExtensions(j) ==
  /\ build.at = "none"
  /\ builds < MaxBuilds
  /\ builds' = builds + 1
  /\ build' = [NoBuild EXCEPT !.at = "loaded", !.listed = Listed(j), !.recorded = file]
  /\ references' = [p \in Paths |->
                      IF p \in build'.listed THEN [references[p] EXCEPT !.known = TRUE]
                                             ELSE references[p]]
  /\ UNCHANGED <<file, changes, identityAt, assemblyOf, call>>

(* DocumentModule, much later in the same build: the references of the     *)
(* process, not of the project.                                            *)
ResolveExtensibilityPoints ==
  /\ build.at = "loaded"
  /\ build' = [build EXCEPT !.at = "resolve",
                            !.todo = {p \in Paths : references[p].known}]
  /\ UNCHANGED <<file, changes, references, identityAt, assemblyOf, call, builds>>

Skip(p) == build' = [build EXCEPT !.todo = @ \ {p}]
Fail(p) == build' = [build EXCEPT !.todo = @ \ {p}, !.errors = TRUE]

(* Seeded fault: a file that cannot be read declares nothing.              *)
ReadAnything(p) ==
  /\ call[Main].at = "idle"
  /\ build.at = "resolve"
  /\ p \in build.todo
  /\ references[p].names = Absent
  /\ references' = [references EXCEPT ![p].names = file[p]]
  /\ UNCHANGED <<file, changes, identityAt, assemblyOf, call, build, builds>>

(* GetExtensionTypeNameMap, once in the life of the reference.  An         *)
(* extension without providers is done with.                               *)
ReadTypeNames(p) ==
  /\ call[Main].at = "idle"
  /\ build.at = "resolve"
  /\ p \in build.todo
  /\ references[p].names = Absent
  /\ IF Readable(p)
     THEN /\ references' = [references EXCEPT ![p].names = file[p]]
          /\ UNCHANGED build
     ELSE Fail(p) /\ UNCHANGED references
  /\ UNCHANGED <<file, changes, identityAt, assemblyOf, call, builds>>

NothingDeclared(p) ==
  /\ call[Main].at = "idle"
  /\ build.at = "resolve"
  /\ p \in build.todo
  /\ references[p].names # Absent
  /\ Names(p) = {}
  /\ Skip(p)
  /\ UNCHANGED <<file, changes, references, identityAt, assemblyOf, call, builds>>

GetAssembly(p) ==
  /\ call[Main].at = "idle"
  /\ build.at = "resolve"
  /\ p \in build.todo
  /\ references[p].names # Absent
  /\ Names(p) # {}
  /\ references[p].assembly = NoAssembly
  /\ LoadFromPath(Main, p)
  /\ UNCHANGED <<file, changes, references, build, builds>>

(* Seeded fault: a load that fails is skipped.                             *)
LoadFailsSilently ==
  /\ call[Main].at = "threw"
  /\ Skip(call[Main].path)
  /\ call' = [call EXCEPT ![Main] = Idle]
  /\ UNCHANGED <<file, changes, references, identityAt, assemblyOf, builds>>

LoadFails ==
  /\ call[Main].at = "threw"
  /\ Fail(call[Main].path)
  /\ call' = [call EXCEPT ![Main] = Idle]
  /\ UNCHANGED <<file, changes, references, identityAt, assemblyOf, builds>>

KeepAssembly ==
  /\ call[Main].at = "returned"
  /\ references' = [references EXCEPT ![call[Main].path].assembly = call[Main].found]
  /\ call' = [call EXCEPT ![Main] = Idle]
  /\ UNCHANGED <<file, changes, identityAt, assemblyOf, build, builds>>

(* Seeded fault: a name the assembly does not have is no error.            *)
CreateWhatIsThere(p) ==
  /\ call[Main].at = "idle"
  /\ build.at = "resolve"
  /\ p \in build.todo
  /\ references[p].assembly # NoAssembly
  /\ LET names == Names(p)
         there == TypesOf(references[p].assembly[2])
     IN  build' = [build EXCEPT !.todo = @ \ {p},
                                !.providers = @ \cup ({p} \X (names \cap there))]
  /\ UNCHANGED <<file, changes, references, identityAt, assemblyOf, call, builds>>

(* GetAnalyzersForTypeNames: a provider of every name, an error for every  *)
(* name the assembly does not have or whose constructor throws.  What is   *)
(* no IDocProvider is an error only when there is nothing else.            *)
CreateProviders(p) ==
  /\ call[Main].at = "idle"
  /\ build.at = "resolve"
  /\ p \in build.todo
  /\ references[p].assembly # NoAssembly
  /\ LET names == Names(p)
         there == TypesOf(references[p].assembly[2])
     IN  \E thrown \in SUBSET (names \cap there) :
           LET created == ((names \cap there) \ thrown)
                            \cap CastableOf(references[p].assembly[2])
           IN  build' = [build EXCEPT
                           !.todo = @ \ {p},
                           !.providers = @ \cup ({p} \X created),
                           !.errors = \/ @
                                      \/ thrown # {}
                                      \/ ~(names \subseteq there)
                                      \/ created = {}]
  /\ UNCHANGED <<file, changes, references, identityAt, assemblyOf, call, builds>>

(* The providers are applied and the build goes on; a project's build ends *)
(* when its resolvers have been answered.                                  *)
EndBuild ==
  /\ build.at = "resolve"
  /\ build.todo = {}
  /\ \A t \in Callers : call[t].at = "idle"
  /\ build' = NoBuild
  /\ UNCHANGED <<file, changes, references, identityAt, assemblyOf, call, builds>>

(* Somebody builds the extension, cleans it, or updates a package.         *)
Replace(p, c) ==
  /\ changes < MaxChanges
  /\ c # file[p]
  /\ changes' = changes + 1
  /\ file' = [file EXCEPT ![p] = c]
  /\ UNCHANGED <<references, identityAt, assemblyOf, call, build, builds>>

Resolve(p) == \/ ReadTypeNames(p) \/ NothingDeclared(p)
              \/ GetAssembly(p) \/ CreateProviders(p)
Next ==
  \/ \E j \in Projects : LoadExtensions(j)
  \/ ResolveExtensibilityPoints
  \/ \E p \in Paths : Resolve(p)
  \/ LoadFails \/ KeepAssembly \/ EndBuild
  \/ \E t \in Callers : LoadFile(t) \/ CachePath(t) \/ Register(t) \/ Answered(t)
  \/ \E t \in Resolvers, i \in Identities : Request(t, i)
  \/ \E p \in Paths, c \in Contents \cup {Absent} : Replace(p, c)

Spec == Init /\ [][Next]_vars

-----------------------------------------------------------------------------
(* Properties.                                                             *)

Call == [at : {"idle", "load", "cache", "register", "returned", "threw"}, path : Paths,
         identity : Identities \cup {Null}, found : Assemblies \cup {NoAssembly}]
Build == [at : {"none", "loaded", "resolve"}, listed : SUBSET Paths,
          recorded : [Paths -> Contents \cup {Absent}], todo : SUBSET Paths,
          providers : SUBSET (Paths \X UNION {TypesOf(c) : c \in Contents \ Broken}),
          errors : BOOLEAN]

(* Every variable holds a value the driver's and the loader's fields can.  *)
TypeOK ==
  /\ file \in [Paths -> Contents \cup {Absent}]
  /\ changes \in 0..MaxChanges
  /\ references \in [Paths -> [known : BOOLEAN, names : (Contents \ Broken) \cup {Absent},
                              assembly : Assemblies \cup {NoAssembly}]]
  /\ identityAt \in [Paths -> Identities \cup {Unknown, Null}]
  /\ assemblyOf \in [Identities -> Assemblies \cup {NoAssembly}]
  /\ call \in [Callers -> Call]
  /\ build \in Build
  /\ builds \in 0..MaxBuilds

(* Whatever threads load at the same time, and from whichever path, all    *)
(* are answered the same assembly for an identity, and every reference of  *)
(* the driver keeps that one: no provider meets a type twice.              *)
OneAssemblyPerIdentity ==
  /\ \A t \in Callers : call[t].at = "returned"
                        => call[t].found = assemblyOf[call[t].identity]
  /\ \A p \in Paths : references[p].assembly # NoAssembly
                      => references[p].assembly = assemblyOf[identityAt[p]]

(* ExtensionFileReference.cs, line 438: types that could not be cast       *)
(* generate a diagnostic.  A build in which no extension failed has every  *)
(* provider of every extension it lists, as the process first read them;   *)
(* in a long-lived process, after failed builds and replaced files too, no *)
(* extension is left out without an error.                                 *)
Resolved == build.at = "resolve" /\ build.todo = {} /\ call[Main].at = "idle"
ServedOrReported ==
  Resolved /\ ~build.errors
    => \A p \in build.listed :
         /\ references[p].names # Absent
         /\ {e \in build.providers : e[1] = p} = {p} \X Names(p)

(* ExtensibilityDriver.cs, line 97: a build is documented by the           *)
(* extensions its project lists.                                           *)
OnlyListedProviders == \A e \in build.providers : e[1] \in build.listed

(* ExtensionFileReference.cs, lines 29 and 30: what a reference has read   *)
(* of the file does not change.  The names and the assembly are those of   *)
(* one content.                                                            *)
NamesOfTheAssembly ==
  \A p \in Paths :
    references[p].assembly # NoAssembly
      => Names(p) = TypesOf(references[p].assembly[2])
=============================================================================
