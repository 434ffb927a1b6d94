----------------------------- MODULE DocProviders -----------------------------
(***************************************************************************)
(* The documentation step of a build: every element of the C# model asks   *)
(* the documentation providers of the extension assemblies, one provider   *)
(* after the other, and keeps what it learns in a cache file.              *)
(*                                                                         *)
(* The elements ask one provider concurrently.  An element's query is      *)
(* started on the build's thread; once it has waited, it continues on a    *)
(* thread of the pool.                                                     *)
(*                                                                         *)
(* An item of documentation is abstracted to the names it is listed under  *)
(* and the provider it came from.  The builds are those of one process;    *)
(* each documents the same elements for one of the projects, whose cache   *)
(* file it reads and writes.                                               *)
(***************************************************************************)
EXTENDS Naturals, Sequences

CONSTANTS
  Names,         \* C++ names
  NoName,        \* the name of an element without one
  NameOf,        \* the sequence of the elements' names, in the order they start
  Folded,        \* maps a name to its case-insensitive form
  Treat,         \* TreatFailuresAsErrors of the providers, in their order
  Silenced,      \* names whose failures the project silences
  Answers,       \* what providers may do: "item", "never", "soon", "later", "throw"
  OwnNames,      \* the names a provider may list an item under by itself
  Logs,          \* providers may log an error
  Memoise,       \* providers may answer with the item an earlier build wrote
  Projects,      \* the projects built in the process
  AllowCrash     \* the process may be killed

ASSUME NameAssumption ==
  /\ NoName \notin Names
  /\ NameOf \in Seq(Names \cup {NoName})
  /\ DOMAIN Folded = Names
  /\ Silenced \subseteq Names
  /\ OwnNames \subseteq SUBSET Names
ASSUME ProviderAssumption ==
  /\ Treat \in Seq(BOOLEAN) \ {<<>>}
  /\ Answers \subseteq {"item", "never", "soon", "later", "throw"}
ASSUME FlagAssumption ==
  Logs \in BOOLEAN /\ Memoise \in BOOLEAN /\ AllowCrash \in BOOLEAN

Elements == 1..Len(NameOf)
Providers == 1..Len(Treat)

VARIABLES
  file,      \* the cache file of every project
  written,   \* items the process has written, which are not dirty any more
  phase,     \* what the build does
  project,   \* the project it builds
  provider,  \* the provider being asked
  cache,     \* DocItemCache.DocItems
  doc,       \* the provider every element's documentation comes from, 0: none
  task,      \* the query of every element
  failures,  \* the queries in DocumentationContext.Failures, and their flag
  errors,    \* the build's logger has errors
  outcome,   \* result of the last build
  threw,     \* history: the names a provider threw for, in this build
  logged,    \* history: the providers that logged an error, in this build
  invalid,   \* history: the "internal invalid state" messages logged
  listed,    \* history: the names every project's file has ever listed
  killed     \* history: the projects whose file was being written in a kill

build == <<phase, project, provider, cache, doc, task, failures, errors>>
history == <<threw, logged, invalid>>
ledger == <<listed, killed>>
vars == <<file, written, build, outcome, history, ledger>>

-----------------------------------------------------------------------------
(* Items and the cache.                                                    *)

Item == [names : SUBSET Names, from : Providers, dirty : BOOLEAN]
NoItem == [names |-> {}, from |-> 0, dirty |-> FALSE]

(* Seeded fault: the name asked for is not added.                          *)
KeepNames(item, n) == item

(* Names is a list whose members differ in more than their case.           *)
AddName(item, n) ==
  IF \E m \in item.names : Folded[m] = Folded[n]
  THEN item
  ELSE [item EXCEPT !.names = @ \cup {n}, !.dirty = TRUE]

Hits(n) == {i \in DOMAIN cache : n \in cache[i].names}

(* Names.Contains compares the names by their characters.                  *)
Find(n) ==
  IF Hits(n) = {} THEN NoItem
  ELSE cache[CHOOSE i \in Hits(n) : \A j \in Hits(n) : i <= j]

NoFile == [state |-> "absent", items |-> <<>>]
TornFile == [state |-> "torn", items |-> <<>>]
Clean(items) == [i \in DOMAIN items |-> [items[i] EXCEPT !.dirty = FALSE]]
NamesIn(items) == UNION {items[i].names : i \in DOMAIN items}

-----------------------------------------------------------------------------
(* A query.                                                                *)

NoTask ==
  [ at           |-> "unstarted",
    retry        |-> 0,
    backoffIndex |-> 0,
    nextDelay    |-> FALSE,    \* nextDelay has a value
    asked        |-> 0,        \* queries sent to the provider
    thrown       |-> 0,        \* exceptions.Count
    found        |-> NoItem,   \* docItem
    seen         |-> {} ]      \* the failures when the task began to add its own

At(e, label) == task[e].at = label
Step(e, t) == task' = [task EXCEPT ![e] = t]

Init ==
  /\ file = [p \in Projects |-> NoFile]
  /\ written = {}
  /\ phase = "idle" /\ project \in Projects /\ provider = 0
  /\ cache = <<>> /\ doc = [e \in Elements |-> 0]
  /\ task = [e \in Elements |-> NoTask]
  /\ failures = {} /\ errors = FALSE /\ outcome = "none"
  /\ threw = {} /\ logged = {} /\ invalid = {}
  /\ listed = [p \in Projects |-> {}] /\ killed = {}

-----------------------------------------------------------------------------
(* A build reads its project's cache file; a torn one makes the JSON       *)
(* reader throw, and the build fails.                                      *)

Fresh(p) ==
  /\ project' = p
  /\ doc' = [e \in Elements |-> 0]
  /\ failures' = {} /\ errors' = FALSE
  /\ threw' = {} /\ logged' = {} /\ invalid' = {}

StartBuild(p) ==
  /\ phase = "idle" /\ file[p].state # "torn"
  /\ Fresh(p)
  /\ cache' = file[p].items /\ provider' = 1 /\ phase' = "documenting"
  /\ UNCHANGED <<file, written, task, outcome, ledger>>

ReadFails(p) ==
  /\ phase = "idle" /\ file[p].state = "torn"
  /\ Fresh(p)
  /\ outcome' = "failed"
  /\ UNCHANGED <<file, written, phase, provider, cache, task, ledger>>

-----------------------------------------------------------------------------
(* DocumentElement.                                                        *)

(* Everything the query of an element leaves alone.                        *)
Others == <<file, written, phase, project, provider, outcome, ledger>>

Started(e) == ~At(e, "unstarted")

StartUnnamed(e) ==
  /\ phase = "documenting" /\ At(e, "unstarted")
  /\ \A earlier \in 1..(e - 1) : Started(earlier)
  /\ NameOf[e] = NoName
  /\ Step(e, [NoTask EXCEPT !.at = "done"])
  /\ UNCHANGED <<Others, cache, doc, failures, errors, history>>

(* The item found is listed under the name already.                        *)
StartCached(e) ==
  /\ phase = "documenting" /\ At(e, "unstarted")
  /\ \A earlier \in 1..(e - 1) : Started(earlier)
  /\ NameOf[e] # NoName /\ Find(NameOf[e]) # NoItem
  /\ doc' = [doc EXCEPT ![e] = Find(NameOf[e]).from]
  /\ Step(e, [NoTask EXCEPT !.at = "done"])
  /\ UNCHANGED <<Others, cache, failures, errors, history>>

StartQuery(e) ==
  /\ phase = "documenting" /\ At(e, "unstarted")
  /\ \A earlier \in 1..(e - 1) : Started(earlier)
  /\ NameOf[e] # NoName /\ Find(NameOf[e]) = NoItem
  /\ Step(e, [NoTask EXCEPT !.at = "asking", !.asked = 1])
  /\ UNCHANGED <<Others, cache, doc, failures, errors, history>>

(* The query returns an item or none; exceptions are reported on the way.  *)
Leave(e, t, item) ==
  Step(e, [NoTask EXCEPT !.found = item, !.backoffIndex = t.backoffIndex,
                         !.at = IF t.thrown > 0 THEN "leaving"
                                ELSE IF item = NoItem THEN "done" ELSE "attaching"])

(* The loop goes on as long as retry <= 5.                                 *)
Reschedule(e, t) ==
  IF t.retry <= 5 THEN Step(e, [t EXCEPT !.at = "waiting"]) ELSE Leave(e, t, NoItem)

-----------------------------------------------------------------------------
(* What a provider answers.                                                *)

FindsItem(e) ==
  /\ At(e, "asking") /\ "item" \in Answers
  /\ \/ \E own \in OwnNames :
          Leave(e, task[e], [names |-> own, from |-> provider, dirty |-> TRUE])
     \/ /\ Memoise
        /\ \E item \in written :
             item.from = provider /\ NameOf[e] \in item.names /\ Leave(e, task[e], item)
  /\ UNCHANGED <<Others, cache, doc, failures, errors, history>>

Never(e) ==
  /\ At(e, "asking") /\ "never" \in Answers
  /\ Leave(e, task[e], NoItem)
  /\ UNCHANGED <<Others, cache, doc, failures, errors, history>>

(* The provider asks to be called again: the next of the five backoff      *)
(* delays is taken; when it is shorter than the delay asked for, which     *)
(* one of zero never is, five new delays are made.                         *)
Fail(e) ==
  /\ At(e, "asking")
  /\ \E tooShort \in {b \in BOOLEAN : IF b THEN "later" \in Answers
                                      ELSE {"soon", "later"} \cap Answers # {}} :
       LET t == task[e]
           index == IF t.backoffIndex >= 5 THEN 0 ELSE t.backoffIndex
       IN  Reschedule(e, [t EXCEPT !.retry = @ + 1,
                                   !.backoffIndex = IF tooShort THEN 0 ELSE index + 1,
                                   !.nextDelay = ~tooShort])
  /\ invalid' = invalid \cup {m \in {"reschedule"} : task[e].backoffIndex >= 5}
  /\ UNCHANGED <<Others, cache, doc, failures, errors, threw, logged>>

(* Seeded fault: an exception counts for one retry.                        *)
ThrowOnce(e) ==
  /\ At(e, "asking") /\ "throw" \in Answers
  /\ threw' = threw \cup {[query |-> NameOf[e], provider |-> provider]}
  /\ Reschedule(e, [task[e] EXCEPT !.retry = @ + 1, !.thrown = @ + 1])
  /\ UNCHANGED <<Others, cache, doc, failures, errors, logged, invalid>>

(* An exception counts for two retries.                                    *)
Throw(e) ==
  /\ At(e, "asking") /\ "throw" \in Answers
  /\ threw' = threw \cup {[query |-> NameOf[e], provider |-> provider]}
  /\ Reschedule(e, [task[e] EXCEPT !.retry = @ + 2, !.thrown = @ + 1])
  /\ UNCHANGED <<Others, cache, doc, failures, errors, logged, invalid>>

(* The documentation logger makes a warning of an error.                   *)
LogError(e) ==
  /\ At(e, "asking") /\ Logs
  /\ logged' = logged \cup {provider}
  /\ UNCHANGED <<Others, cache, doc, task, failures, errors, threw, invalid>>

(* Seeded fault: after an exception, no delay is ever set.                 *)
RetryWithDelay(e) ==
  /\ At(e, "waiting") /\ task[e].nextDelay
  /\ Step(e, [task[e] EXCEPT !.at = "asking", !.asked = @ + 1, !.nextDelay = FALSE])
  /\ UNCHANGED <<Others, cache, doc, failures, errors, history>>

(* The delay is over, and the provider is asked again.  The delays asked   *)
(* for are within what Task.Delay takes: a longer one makes it throw       *)
(* outside the handler, which ends the query, and with it the build.       *)
Retry(e) ==
  /\ At(e, "waiting")
  /\ LET t == task[e]
         index == IF t.backoffIndex >= 5 THEN 0 ELSE t.backoffIndex
     IN  /\ Step(e, [t EXCEPT !.at = "asking", !.asked = @ + 1,
                              !.backoffIndex = IF t.nextDelay THEN @ ELSE index + 1,
                              !.nextDelay = FALSE])
         /\ invalid' = invalid \cup
              {m \in {"delay"} : ~t.nextDelay /\ t.backoffIndex >= 5}
  /\ UNCHANGED <<Others, cache, doc, failures, errors, threw, logged>>

-----------------------------------------------------------------------------
(* The finally block adds a failure to a set that no lock protects: an     *)
(* addition that overlaps another may overwrite it.                        *)

Failure(e) == [query |-> NameOf[e], treat |-> Treat[provider]]

BeginReport(e) ==
  /\ At(e, "leaving")
  /\ Step(e, [task[e] EXCEPT !.at = "reporting", !.seen = failures])
  /\ UNCHANGED <<Others, cache, doc, failures, errors, history>>

(* Seeded fault: a set that overlapping additions leave empty.             *)
EndReportTorn(e) ==
  /\ At(e, "reporting")
  /\ failures' = IF failures = task[e].seen THEN failures \cup {Failure(e)} ELSE {}
  /\ Step(e, [task[e] EXCEPT !.seen = {},
                             !.at = IF task[e].found = NoItem THEN "done" ELSE "attaching"])
  /\ UNCHANGED <<Others, cache, doc, errors, history>>

(* Two failures are the same when their queries are.                       *)
EndReport(e) ==
  /\ At(e, "reporting")
  /\ \E present \in {failures, task[e].seen} :
       failures' = IF \E f \in present : f.query = NameOf[e]
                   THEN present ELSE present \cup {Failure(e)}
  /\ Step(e, [task[e] EXCEPT !.seen = {},
                             !.at = IF task[e].found = NoItem THEN "done" ELSE "attaching"])
  /\ UNCHANGED <<Others, cache, doc, errors, history>>

(* The item found documents the element and is added to the cache.         *)
Attach(e) ==
  /\ At(e, "attaching")
  /\ doc' = [doc EXCEPT ![e] = task[e].found.from]
  /\ cache' = Append(cache, AddName(task[e].found, NameOf[e]))
  /\ Step(e, [NoTask EXCEPT !.at = "done"])
  /\ UNCHANGED <<Others, failures, errors, history>>

-----------------------------------------------------------------------------
(* The end of a build.                                                     *)

AllDone == phase = "documenting" /\ \A e \in Elements : At(e, "done")

(* Seeded fault: off by one.                                               *)
NextUnbounded ==
  /\ AllDone /\ provider <= Len(Treat)
  /\ provider' = provider + 1
  /\ task' = [e \in Elements |-> NoTask]
  /\ UNCHANGED <<file, written, phase, project, cache, doc, failures, errors,
                 outcome, history, ledger>>

NextProvider ==
  /\ AllDone /\ provider < Len(Treat)
  /\ provider' = provider + 1
  /\ task' = [e \in Elements |-> NoTask]
  /\ UNCHANGED <<file, written, phase, project, cache, doc, failures, errors,
                 outcome, history, ledger>>

Unsilenced == {f \in failures : f.query \notin Silenced}

(* Seeded fault: the provider's flag is not looked at.                     *)
ReportAll ==
  /\ AllDone /\ provider = Len(Treat)
  /\ errors' = (Unsilenced # {})
  /\ phase' = "saving"
  /\ task' = [e \in Elements |-> NoTask]
  /\ UNCHANGED <<file, written, project, provider, cache, doc, failures, outcome,
                 history, ledger>>

(* DocumentationFailuresAsErrors has its default, true.                    *)
ReportFailures ==
  /\ AllDone /\ provider = Len(Treat)
  /\ errors' = (\E f \in Unsilenced : f.treat)
  /\ phase' = "saving"
  /\ task' = [e \in Elements |-> NoTask]
  /\ UNCHANGED <<file, written, project, provider, cache, doc, failures, outcome,
                 history, ledger>>

EndBuild ==
  /\ phase' = "idle" /\ cache' = <<>>
  /\ outcome' = IF errors THEN "failed" ELSE "ok"
  /\ UNCHANGED <<project, provider, doc, task, failures, errors, history>>

Dirty == \E i \in DOMAIN cache : cache[i].dirty

(* Seeded fault: a file that exists is never written again.                *)
TouchExisting ==
  /\ phase = "saving" /\ file[project].state = "whole"
  /\ EndBuild
  /\ UNCHANGED <<file, written, ledger>>

(* WriteIfDirty: a file that exists is only touched when no item is dirty. *)
Touch ==
  /\ phase = "saving" /\ file[project].state = "whole" /\ ~Dirty
  /\ EndBuild
  /\ UNCHANGED <<file, written, ledger>>

BeginWrite ==
  /\ phase = "saving" /\ (file[project].state = "absent" \/ Dirty)
  /\ phase' = "writing"
  /\ file' = [file EXCEPT ![project] = TornFile]
  /\ UNCHANGED <<written, project, provider, cache, doc, task, failures, errors,
                 outcome, history, ledger>>

(* What the file lists now is noted.                                       *)
Note ==
  /\ listed' = [listed EXCEPT ![project] = @ \cup NamesIn(file'[project].items)]
  /\ UNCHANGED killed

(* Seeded fault: only the dirty items are written.                         *)
WriteDirty ==
  /\ phase = "writing"
  /\ file' = [file EXCEPT ![project] =
                [state |-> "whole",
                 items |-> Clean(SelectSeq(cache, LAMBDA item : item.dirty))]]
  /\ EndBuild
  /\ Note
  /\ UNCHANGED written

EndWrite ==
  /\ phase = "writing"
  /\ file' = [file EXCEPT ![project] = [state |-> "whole", items |-> Clean(cache)]]
  /\ written' = IF Memoise THEN written \cup {Clean(cache)[i] : i \in DOMAIN cache}
                ELSE written
  /\ EndBuild
  /\ Note

(* The process is killed; the next build runs in another one.              *)
Crash ==
  /\ AllowCrash /\ phase # "idle"
  /\ Fresh(project)
  /\ phase' = "idle" /\ cache' = <<>> /\ provider' = 0 /\ written' = {}
  /\ task' = [e \in Elements |-> NoTask]
  /\ outcome' = "none"
  /\ killed' = killed \cup {p \in {project} : phase = "writing"}
  /\ UNCHANGED <<file, listed>>

-----------------------------------------------------------------------------

Document(e) ==
  \/ StartUnnamed(e)
  \/ StartCached(e)
  \/ StartQuery(e)
  \/ FindsItem(e)
  \/ Never(e)
  \/ Fail(e)
  \/ Throw(e)
  \/ Retry(e)
  \/ BeginReport(e)
  \/ EndReport(e)
  \/ Attach(e)

Finish ==
  \/ NextProvider
  \/ ReportFailures
  \/ Touch
  \/ BeginWrite
  \/ EndWrite

Next ==
  \/ \E p \in Projects : StartBuild(p) \/ ReadFails(p)
  \/ \E e \in Elements : Document(e) \/ LogError(e)
  \/ Finish
  \/ Crash

Spec == Init /\ [][Next]_vars

(* Providers complete every query; the thread pool, the timers and the     *)
(* build's thread go on.                                                   *)
FairSpec ==
  /\ Spec
  /\ \A e \in Elements : WF_vars(Document(e))
  /\ WF_vars(Finish)

-----------------------------------------------------------------------------
(* Properties.                                                             *)

Labels == {"unstarted", "asking", "waiting", "leaving", "reporting", "attaching", "done"}
File == [state : {"absent", "torn", "whole"}, items : Seq(Item)]
FailureSet == SUBSET [query : Names, treat : BOOLEAN]
Task == [at : Labels, retry : Nat, backoffIndex : Nat, nextDelay : BOOLEAN, asked : Nat,
         thrown : Nat, found : Item \cup {NoItem}, seen : FailureSet]

TypeOK ==
  /\ file \in [Projects -> File]
  /\ written \in SUBSET Item
  /\ phase \in {"idle", "documenting", "saving", "writing"}
  /\ project \in Projects /\ provider \in {0} \cup Providers
  /\ cache \in Seq(Item)
  /\ doc \in [Elements -> {0} \cup Providers]
  /\ task \in [Elements -> Task]
  /\ failures \in FailureSet
  /\ errors \in BOOLEAN /\ outcome \in {"none", "ok", "failed"}
  /\ threw \in SUBSET [query : Names, provider : Providers]
  /\ logged \in SUBSET Providers
  /\ invalid \in SUBSET {"delay", "reschedule"}
  /\ listed \in [Projects -> SUBSET Names] /\ killed \in SUBSET Projects

(* However exceptions and requests to retry alternate, an exception costs  *)
(* a question: the provider is asked at most six times for one element,    *)
(* and at most three times when all it does is throw.  No delay is taken   *)
(* from beyond the end of the backoff array, which never runs out after an *)
(* exception, when the delay is taken late.                                *)
BoundedRetries ==
  /\ \A e \in Elements : At(e, "asking") => task[e].asked + task[e].thrown <= 6
  /\ \A e \in Elements : task[e].backoffIndex <= 5
  /\ "delay" \notin invalid

(* Within a build, an element documented by one provider keeps that        *)
(* documentation when the providers after it are asked: its name is found  *)
(* in the cache by then.                                                   *)
FirstProviderWins ==
  [][\A e \in Elements : phase = "documenting" /\ phase' = "documenting" /\ doc[e] # 0
                         => doc'[e] = doc[e]]_vars

(* When a build is over, every element it has documented is found under    *)
(* its name in the project's file, whichever tasks added duplicates and    *)
(* whether the file was written or only touched.                           *)
DocumentedIsSaved ==
  phase = "idle" =>
    \A e \in Elements :
      doc[e] # 0 => /\ file[project].state = "whole"
                    /\ NameOf[e] \in NamesIn(file[project].items)

(* Whatever a project's file listed after one build it lists after every   *)
(* later one, whether that build documents anything, writes or only        *)
(* touches the file, fails, or is killed: the one way to lose a name is to *)
(* be killed while the file is being written, for nothing is kept aside.   *)
NothingForgotten ==
  \A p \in Projects :
    \/ listed[p] \subseteq NamesIn(file[p].items)
    \/ phase = "writing" /\ p = project
    \/ p \in killed

(* IDocProvider: any exception thrown by a provider that treats failures   *)
(* as errors makes the build fail, unless the project silences the name.   *)
ThrownFailsBuild ==
  phase = "idle" /\ outcome # "none"
  /\ (\E q \in threw : Treat[q.provider] /\ q.query \notin Silenced)
  => outcome = "failed"

(* A build that read its cache fails only for an exception of a provider   *)
(* that treats failures as errors, and not for a silenced one.             *)
OnlyThrownFailsBuild ==
  phase # "idle" /\ errors
  => \E q \in threw : Treat[q.provider] /\ q.query \notin Silenced

(* IDocProvider: any error logged by a provider that treats failures as    *)
(* errors makes the build fail.                                            *)
LoggedFailsBuild ==
  phase = "idle" /\ outcome # "none" /\ (\E p \in logged : Treat[p]) => outcome = "failed"

(* Every build ends, whatever the providers answer.                        *)
BuildsEnd == phase # "idle" ~> phase = "idle"
=============================================================================
