-------------------------- MODULE DocProvidersProofs --------------------------
(***************************************************************************)
(* What holds of DocProviders for all elements, names and providers.       *)
(***************************************************************************)
EXTENDS DocProviders, TLAPS, WellFoundedInduction

(* Typing of the helpers the actions are built from.                       *)
LEMMA NoItemType == NoItem \notin Item
BY DEF NoItem, Item, Providers

LEMMA NoTaskType == NoTask \in Task
BY DEF NoTask, Task, Labels, FailureSet

LEMMA StepType ==
  ASSUME task \in [Elements -> Task], NEW e \in Elements, NEW t \in Task, Step(e, t)
  PROVE  /\ task' \in [Elements -> Task]
         /\ task'[e] = t
         /\ \A other \in Elements : other # e => task'[other] = task[other]
BY DEF Step

LEMMA AddNameType ==
  ASSUME NEW item \in Item, NEW n \in Names
  PROVE  AddName(item, n) \in Item
BY DEF AddName, Item

(* Every nonempty set of numbers has a least member.                       *)
LEMMA Least ==
  ASSUME NEW S, S \subseteq Nat, S # {}
  PROVE  \E i \in S : \A j \in S : i <= j
<1> DEFINE Less == {ss \in Nat \X Nat : ss[1] < ss[2]}
<1>1. IsWellFoundedOn(Less, Nat)
  BY NatLessThanWellFounded DEF OpToRel
<1>2. PICK i \in S : \A j \in S : <<j, i>> \notin Less
  <2> HIDE DEF Less
  <2> QED
    BY <1>1, WFMin
<1>3. ASSUME NEW j \in S
      PROVE  i <= j
  <2>1. ~(j < i)
    BY <1>2
  <2>2. QED
    BY <2>1
<1>4. QED
  BY <1>3

LEMMA FindType ==
  ASSUME cache \in Seq(Item), NEW n
  PROVE  Find(n) \in Item \cup {NoItem}
<1> SUFFICES ASSUME Hits(n) # {}
             PROVE  Find(n) \in Item
  BY DEF Find
<1>1. Hits(n) \subseteq DOMAIN cache /\ DOMAIN cache \subseteq Nat
  BY DEF Hits
<1>2. \E i \in Hits(n) : \A j \in Hits(n) : i <= j
  BY <1>1, Least
<1>4. (CHOOSE k \in Hits(n) : \A j \in Hits(n) : k <= j) \in Hits(n)
  BY <1>2
<1>5. QED
  BY <1>1, <1>4 DEF Find

LEMMA CleanType ==
  ASSUME NEW items \in Seq(Item)
  PROVE  Clean(items) \in Seq(Item)
<1>1. ASSUME NEW i \in DOMAIN items
      PROVE  [items[i] EXCEPT !.dirty = FALSE] \in Item
  <2>1. items[i] \in Item
    BY <1>1
  <2>2. QED
    BY <2>1 DEF Item
<1>2. PICK n \in Nat : DOMAIN items = 1..n
  OBVIOUS
<1>3. Clean(items) \in [1..n -> Item]
  BY <1>1, <1>2 DEF Clean
<1>4. QED
  BY <1>3

LEMMA ElementNames == \A e \in Elements : NameOf[e] # NoName => NameOf[e] \in Names
BY NameAssumption DEF Elements

-----------------------------------------------------------------------------
(* Queries are in progress only while a build asks a provider, and only    *)
(* for elements with a name; an element that is being attached has an item.*)

ActiveInv ==
  /\ phase = "documenting" => provider \in Providers
  /\ phase # "documenting" => \A e \in Elements : At(e, "unstarted")
  /\ \A e \in Elements : /\ task[e].at \notin {"unstarted", "done"} => NameOf[e] \in Names
                         /\ At(e, "attaching") => task[e].found \in Item

(* The parts of the invariant a query's step can disturb.                  *)
LEMMA QueryStep ==
  ASSUME TypeOK, ActiveInv, NEW e \in Elements, NEW t \in Task, Step(e, t),
         phase = "documenting",
         t.at \notin {"unstarted", "done"} => NameOf[e] \in Names,
         t.at = "attaching" => t.found \in Item,
         UNCHANGED Others,
         cache' \in Seq(Item), doc' \in [Elements -> {0} \cup Providers],
         failures' \in FailureSet, errors' \in BOOLEAN,
         threw' \in SUBSET [query : Names, provider : Providers],
         logged' \in SUBSET Providers, invalid' \in SUBSET {"delay", "reschedule"}
  PROVE  TypeOK' /\ ActiveInv'
<1>1. /\ task' \in [Elements -> Task]
      /\ task'[e] = t
      /\ \A other \in Elements : other # e => task'[other] = task[other]
  BY StepType DEF TypeOK
<1>2. TypeOK'
  BY <1>1 DEF TypeOK, Others, ledger
<1>3. ActiveInv'
  BY <1>1 DEF ActiveInv, At, Others
<1>4. QED
  BY <1>2, <1>3

LEMMA LeaveType ==
  ASSUME TypeOK, ActiveInv, NEW e \in Elements, NEW t \in Task,
         NEW item \in Item \cup {NoItem}, Leave(e, t, item),
         phase = "documenting", NameOf[e] \in Names,
         UNCHANGED <<Others, cache, doc, failures, errors>>,
         threw' \in SUBSET [query : Names, provider : Providers],
         logged' \in SUBSET Providers, invalid' \in SUBSET {"delay", "reschedule"}
  PROVE  TypeOK' /\ ActiveInv'
<1> DEFINE label == IF t.thrown > 0 THEN "leaving"
                    ELSE IF item = NoItem THEN "done" ELSE "attaching"
           left == [NoTask EXCEPT !.found = item, !.backoffIndex = t.backoffIndex,
                                  !.at = label]
<1>1. label \in Labels /\ (label = "attaching" => item \in Item)
  BY DEF Labels
<1>2. left \in Task /\ left.at = label /\ left.found = item
  <2> HIDE DEF label
  <2> QED
    BY <1>1, NoTaskType DEF Task, NoTask
<1>3. Step(e, left)
  BY DEF Leave
<1>4. QED
  <2> HIDE DEF label, left
  <2> QED
    BY <1>1, <1>2, <1>3, QueryStep DEF TypeOK

LEMMA RescheduleType ==
  ASSUME TypeOK, ActiveInv, NEW e \in Elements, NEW t \in Task, Reschedule(e, t),
         phase = "documenting", NameOf[e] \in Names,
         UNCHANGED <<Others, cache, doc, failures, errors>>,
         threw' \in SUBSET [query : Names, provider : Providers],
         logged' \in SUBSET Providers, invalid' \in SUBSET {"delay", "reschedule"}
  PROVE  TypeOK' /\ ActiveInv'
<1>1. CASE t.retry <= 5
  <2>1. Step(e, [t EXCEPT !.at = "waiting"])
    BY <1>1 DEF Reschedule
  <2>2. /\ [t EXCEPT !.at = "waiting"] \in Task
        /\ [t EXCEPT !.at = "waiting"].at = "waiting"
    BY DEF Task, Labels
  <2>3. QED
    BY <2>1, <2>2, QueryStep DEF TypeOK
<1>2. CASE ~(t.retry <= 5)
  BY <1>2, LeaveType DEF Reschedule
<1>3. QED
  BY <1>1, <1>2

(* A query in progress.                                                    *)
LEMMA Busy ==
  ASSUME TypeOK, ActiveInv, NEW e \in Elements, task[e].at \notin {"unstarted", "done"}
  PROVE  phase = "documenting" /\ NameOf[e] \in Names /\ task[e] \in Task
         /\ provider \in Providers
BY DEF TypeOK, ActiveInv, At

LEMMA StartsType ==
  ASSUME TypeOK, ActiveInv, NEW e \in Elements,
         StartUnnamed(e) \/ StartCached(e) \/ StartQuery(e)
  PROVE  TypeOK' /\ ActiveInv'
<1> DEFINE done == [NoTask EXCEPT !.at = "done"]
           asking == [NoTask EXCEPT !.at = "asking", !.asked = 1]
<1>1. /\ done \in Task /\ done.at = "done"
      /\ asking \in Task /\ asking.at = "asking"
  BY NoTaskType DEF Task, NoTask, Labels
<1>2. CASE StartUnnamed(e)
  <2>1. Step(e, done) /\ phase = "documenting"
        /\ UNCHANGED <<Others, cache, doc, failures, errors, history>>
    BY <1>2 DEF StartUnnamed
  <2> HIDE DEF done
  <2>2. QED
    BY <1>1, <2>1, QueryStep DEF TypeOK, history, ledger
<1>3. CASE StartCached(e)
  <2>1. Step(e, done) /\ phase = "documenting"
        /\ UNCHANGED <<Others, cache, failures, errors, history>>
        /\ doc' = [doc EXCEPT ![e] = Find(NameOf[e]).from]
        /\ Find(NameOf[e]) # NoItem
    BY <1>3 DEF StartCached
  <2>2. Find(NameOf[e]).from \in Providers
    BY <2>1, FindType DEF TypeOK, Item
  <2>3. doc' \in [Elements -> {0} \cup Providers]
    BY <2>1, <2>2 DEF TypeOK
  <2> HIDE DEF done
  <2>4. QED
    BY <1>1, <2>1, <2>3, QueryStep DEF TypeOK, history, ledger
<1>4. CASE StartQuery(e)
  <2>1. Step(e, asking) /\ phase = "documenting" /\ NameOf[e] # NoName
        /\ UNCHANGED <<Others, cache, doc, failures, errors, history>>
    BY <1>4 DEF StartQuery
  <2>2. NameOf[e] \in Names
    BY <2>1, ElementNames
  <2> HIDE DEF asking
  <2>3. QED
    BY <1>1, <2>1, <2>2, QueryStep DEF TypeOK, history, ledger
<1>5. QED
  BY <1>2, <1>3, <1>4

LEMMA AnswersType ==
  ASSUME TypeOK, ActiveInv, NEW e \in Elements,
         FindsItem(e) \/ Never(e) \/ Fail(e) \/ Throw(e) \/ LogError(e)
  PROVE  TypeOK' /\ ActiveInv'
<1>1. At(e, "asking")
  BY DEF FindsItem, Never, Fail, Throw, LogError
<1>2. /\ phase = "documenting" /\ NameOf[e] \in Names /\ task[e] \in Task
      /\ provider \in Providers
  BY <1>1, Busy DEF At
<1>3. CASE FindsItem(e)
  <2>1. UNCHANGED <<Others, cache, doc, failures, errors, history>>
    BY <1>3 DEF FindsItem
  <2>2. \E item \in Item : Leave(e, task[e], item)
    <3>1. \A own \in OwnNames : [names |-> own, from |-> provider, dirty |-> TRUE] \in Item
      BY <1>2, NameAssumption DEF Item
    <3>2. written \subseteq Item
      BY DEF TypeOK
    <3>3. QED
      BY <1>3, <3>1, <3>2 DEF FindsItem
  <2>3. QED
    BY <1>2, <2>1, <2>2, LeaveType DEF TypeOK, history, ledger
<1>4. CASE Never(e)
  BY <1>2, <1>4, LeaveType DEF Never, TypeOK, history, ledger
<1>5. CASE Fail(e)
  <2> DEFINE index == IF task[e].backoffIndex >= 5 THEN 0 ELSE task[e].backoffIndex
             failed(b) == [task[e] EXCEPT !.retry = @ + 1,
                                          !.backoffIndex = IF b THEN 0 ELSE index + 1,
                                          !.nextDelay = ~b]
  <2>1. PICK b \in BOOLEAN : Reschedule(e, failed(b))
    BY <1>5 DEF Fail
  <2>2. failed(b) \in Task
    <3>1. task[e].retry + 1 \in Nat /\ index + 1 \in Nat
      BY <1>2 DEF Task
    <3>2. (IF b THEN 0 ELSE index + 1) \in Nat /\ (~b) \in BOOLEAN
      BY <3>1
    <3>3. QED
      BY <1>2, <3>1, <3>2 DEF Task
  <2>3. invalid' \in SUBSET {"delay", "reschedule"}
    BY <1>5 DEF Fail, TypeOK
  <2>4. UNCHANGED <<Others, cache, doc, failures, errors, threw, logged>>
    BY <1>5 DEF Fail
  <2> HIDE DEF failed
  <2>5. QED
    BY <1>2, <2>1, <2>2, <2>3, <2>4, RescheduleType DEF TypeOK
<1>6. CASE Throw(e)
  <2> DEFINE thrown == [task[e] EXCEPT !.retry = @ + 2, !.thrown = @ + 1]
  <2>1. Reschedule(e, thrown)
    BY <1>6 DEF Throw
  <2>2. thrown \in Task
    <3>1. task[e].retry + 2 \in Nat /\ task[e].thrown + 1 \in Nat
      BY <1>2 DEF Task
    <3>2. QED
      BY <1>2, <3>1 DEF Task
  <2>3. threw' \in SUBSET [query : Names, provider : Providers]
    BY <1>2, <1>6 DEF Throw, TypeOK
  <2>4. UNCHANGED <<Others, cache, doc, failures, errors, logged, invalid>>
    BY <1>6 DEF Throw
  <2> HIDE DEF thrown
  <2>5. QED
    BY <1>2, <2>1, <2>2, <2>3, <2>4, RescheduleType DEF TypeOK
<1>7. CASE LogError(e)
  <2>1. logged' \in SUBSET Providers
    BY <1>2, <1>7 DEF LogError, TypeOK
  <2>2. UNCHANGED <<Others, cache, doc, task, failures, errors, threw, invalid>>
    BY <1>7 DEF LogError
  <2>3. QED
    BY <2>1, <2>2 DEF TypeOK, ActiveInv, At, Others, ledger
<1>8. QED
  BY <1>3, <1>4, <1>5, <1>6, <1>7

LEMMA ContinueType ==
  ASSUME TypeOK, ActiveInv, NEW e \in Elements,
         Retry(e) \/ BeginReport(e) \/ EndReport(e) \/ Attach(e)
  PROVE  TypeOK' /\ ActiveInv'
<1>1. task[e].at \notin {"unstarted", "done"}
  BY DEF Retry, BeginReport, EndReport, Attach, At
<1>2. /\ phase = "documenting" /\ NameOf[e] \in Names /\ task[e] \in Task
      /\ provider \in Providers
  BY <1>1, Busy
<1>3. CASE Retry(e)
  <2> DEFINE t == task[e]
             index == IF t.backoffIndex >= 5 THEN 0 ELSE t.backoffIndex
             next == [t EXCEPT !.at = "asking", !.asked = @ + 1,
                               !.backoffIndex = IF t.nextDelay THEN @ ELSE index + 1,
                               !.nextDelay = FALSE]
  <2>1. Step(e, next) /\ UNCHANGED <<Others, cache, doc, failures, errors, threw, logged>>
    BY <1>3 DEF Retry
  <2>2. next \in Task /\ next.at = "asking"
    <3>1. t.asked + 1 \in Nat /\ index + 1 \in Nat /\ t.backoffIndex \in Nat
      BY <1>2 DEF Task
    <3>2. (IF t.nextDelay THEN t.backoffIndex ELSE index + 1) \in Nat
      BY <3>1
    <3>3. QED
      BY <1>2, <3>1, <3>2 DEF Task, Labels
  <2>3. invalid' \in SUBSET {"delay", "reschedule"}
    BY <1>3 DEF Retry, TypeOK
  <2> HIDE DEF next
  <2>4. QED
    BY <1>2, <2>1, <2>2, <2>3, QueryStep DEF TypeOK
<1>4. CASE BeginReport(e)
  <2> DEFINE next == [task[e] EXCEPT !.at = "reporting", !.seen = failures]
  <2>1. Step(e, next) /\ UNCHANGED <<Others, cache, doc, failures, errors, history>>
    BY <1>4 DEF BeginReport
  <2>2. next \in Task /\ next.at = "reporting"
    BY <1>2 DEF TypeOK, Task, Labels
  <2> HIDE DEF next
  <2>3. QED
    BY <1>2, <2>1, <2>2, QueryStep DEF TypeOK, history, ledger
<1>5. CASE EndReport(e)
  <2> DEFINE label == IF task[e].found = NoItem THEN "done" ELSE "attaching"
             next == [task[e] EXCEPT !.seen = {}, !.at = label]
  <2>1. Step(e, next) /\ UNCHANGED <<Others, cache, doc, errors, history>>
    BY <1>5 DEF EndReport
  <2>2. label \in Labels /\ (label = "attaching" => task[e].found \in Item)
    BY <1>2 DEF Task, Labels
  <2>3. next \in Task /\ next.at = label /\ next.found = task[e].found
    <3> HIDE DEF label
    <3>1. {} \in FailureSet
      BY DEF FailureSet
    <3>2. QED
      BY <1>2, <2>2, <3>1 DEF Task
  <2>4. Failure(e) \in [query : Names, treat : BOOLEAN]
    <3>1. Treat[provider] \in BOOLEAN
      BY <1>2, ProviderAssumption DEF Providers
    <3>2. QED
      BY <1>2, <3>1 DEF Failure
  <2>5. failures' \in FailureSet
    <3>1. \A present \in {failures, task[e].seen} : present \in FailureSet
      BY <1>2 DEF TypeOK, Task
    <3>2. QED
      BY <1>5, <2>4, <3>1 DEF EndReport, FailureSet
  <2> HIDE DEF label, next
  <2>6. QED
    BY <1>2, <2>1, <2>2, <2>3, <2>5, QueryStep DEF TypeOK, history, ledger
<1>6. CASE Attach(e)
  <2> DEFINE next == [NoTask EXCEPT !.at = "done"]
  <2>1. Step(e, next) /\ UNCHANGED <<Others, failures, errors, history>>
    BY <1>6 DEF Attach
  <2>2. next \in Task /\ next.at = "done"
    BY NoTaskType DEF Task, NoTask, Labels
  <2>3. task[e].found \in Item
    BY <1>6 DEF Attach, ActiveInv
  <2>4. cache' \in Seq(Item)
    <3>1. AddName(task[e].found, NameOf[e]) \in Item
      BY <1>2, <2>3, AddNameType
    <3>2. QED
      BY <1>6, <3>1 DEF Attach, TypeOK
  <2>5. doc' \in [Elements -> {0} \cup Providers]
    <3>1. task[e].found.from \in Providers
      BY <2>3 DEF Item
    <3>2. QED
      BY <1>6, <3>1 DEF Attach, TypeOK
  <2> HIDE DEF next
  <2>6. QED
    BY <1>2, <2>1, <2>2, <2>4, <2>5, QueryStep DEF TypeOK, history, ledger
<1>7. QED
  BY <1>3, <1>4, <1>5, <1>6

LEMMA CleanNames ==
  ASSUME NEW items \in Seq(Item)
  PROVE  /\ DOMAIN Clean(items) = DOMAIN items
         /\ \A i \in DOMAIN items : Clean(items)[i].names = items[i].names
         /\ NamesIn(Clean(items)) = NamesIn(items)
<1>1. DOMAIN Clean(items) = DOMAIN items
  BY DEF Clean
<1>2. \A i \in DOMAIN items : Clean(items)[i].names = items[i].names
  <2> SUFFICES ASSUME NEW i \in DOMAIN items
               PROVE  Clean(items)[i].names = items[i].names
    OBVIOUS
  <2>1. items[i] \in Item
    OBVIOUS
  <2>2. QED
    BY <2>1 DEF Clean, Item
<1>3. NamesIn(Clean(items)) = NamesIn(items)
  BY <1>1, <1>2 DEF NamesIn
<1>4. QED
  BY <1>1, <1>2, <1>3

LEMMA BuildType ==
  ASSUME TypeOK, ActiveInv,
         \/ \E p \in Projects : StartBuild(p) \/ ReadFails(p)
         \/ Finish
         \/ Crash
  PROVE  TypeOK' /\ ActiveInv'
<1>0. 1 \in Providers /\ [e \in Elements |-> NoTask] \in [Elements -> Task]
      /\ <<>> \in Seq(Item) /\ [e \in Elements |-> 0] \in [Elements -> {0} \cup Providers]
  <2>1. Len(Treat) \in Nat /\ Len(Treat) # 0
    BY ProviderAssumption
  <2>2. QED
    BY <2>1, NoTaskType DEF Providers
<1>1. ASSUME NEW p \in Projects, StartBuild(p)
      PROVE  TypeOK' /\ ActiveInv'
  <2>1. cache' \in Seq(Item)
    BY <1>1 DEF StartBuild, TypeOK, File
  <2>2. TypeOK'
    BY <1>0, <1>1, <2>1 DEF StartBuild, Fresh, TypeOK, FailureSet, ledger
  <2>3. ActiveInv'
    BY <1>0, <1>1 DEF StartBuild, Fresh, ActiveInv, At
  <2>4. QED
    BY <2>2, <2>3
<1>2. ASSUME NEW p \in Projects, ReadFails(p)
      PROVE  TypeOK' /\ ActiveInv'
  <2>1. TypeOK'
    BY <1>0, <1>2 DEF ReadFails, Fresh, TypeOK, FailureSet, ledger
  <2>2. ActiveInv'
    BY <1>2 DEF ReadFails, Fresh, ActiveInv, At
  <2>3. QED
    BY <2>1, <2>2
<1>3. CASE NextProvider
  <2>1. provider' \in Providers
    BY <1>3 DEF NextProvider, AllDone, ActiveInv, Providers
  <2>2. TypeOK'
    BY <1>0, <1>3, <2>1 DEF NextProvider, TypeOK, history, ledger
  <2>3. ActiveInv'
    BY <1>3, <2>1 DEF NextProvider, AllDone, ActiveInv, At, NoTask
  <2>4. QED
    BY <2>2, <2>3
<1>4. CASE ReportFailures
  <2>1. errors' \in BOOLEAN
    BY <1>4 DEF ReportFailures
  <2>2. TypeOK'
    BY <1>0, <1>4, <2>1 DEF ReportFailures, TypeOK, history, ledger
  <2>3. ActiveInv'
    BY <1>4 DEF ReportFailures, AllDone, ActiveInv, At, NoTask
  <2>4. QED
    BY <2>2, <2>3
<1>5. CASE Touch
  <2>1. TypeOK'
    BY <1>0, <1>5 DEF Touch, EndBuild, TypeOK, history, ledger
  <2>2. ActiveInv'
    BY <1>5 DEF Touch, EndBuild, ActiveInv, At
  <2>3. QED
    BY <2>1, <2>2
<1>6. CASE BeginWrite
  <2>1. TornFile \in File
    BY DEF TornFile, File
  <2>2. file' \in [Projects -> File]
    BY <1>6, <2>1 DEF BeginWrite, TypeOK
  <2>3. TypeOK'
    BY <1>6, <2>2 DEF BeginWrite, TypeOK, history, ledger
  <2>4. ActiveInv'
    BY <1>6 DEF BeginWrite, ActiveInv, At
  <2>5. QED
    BY <2>3, <2>4
<1>7. CASE EndWrite
  <2>1. Clean(cache) \in Seq(Item)
    BY CleanType DEF TypeOK
  <2>2. [state |-> "whole", items |-> Clean(cache)] \in File
    BY <2>1 DEF File
  <2>3. file' \in [Projects -> File]
    BY <1>7, <2>2 DEF EndWrite, TypeOK
  <2>4. written' \in SUBSET Item
    <3>1. \A i \in DOMAIN cache : Clean(cache)[i] \in Item
      <4>1. DOMAIN Clean(cache) = DOMAIN cache
        BY DEF Clean
      <4>2. QED
        BY <2>1, <4>1
    <3>2. QED
      BY <1>7, <3>1 DEF EndWrite, TypeOK
  <2>5. listed' \in [Projects -> SUBSET Names] /\ killed' \in SUBSET Projects
    <3>1. NamesIn(file'[project].items) \subseteq Names
      <4>1. file'[project].items = Clean(cache)
        BY <1>7 DEF EndWrite, TypeOK
      <4>2. \A i \in DOMAIN cache : cache[i].names \subseteq Names
        <5>1. \A i \in DOMAIN cache : cache[i] \in Item
          BY DEF TypeOK
        <5>2. QED
          BY <5>1 DEF Item
      <4>3. NamesIn(cache) \subseteq Names
        BY <4>2 DEF NamesIn
      <4>4. QED
        BY <4>1, <4>3, CleanNames DEF TypeOK
    <3>2. QED
      BY <1>7, <3>1 DEF EndWrite, Note, TypeOK
  <2>6. TypeOK'
    BY <1>0, <1>7, <2>3, <2>4, <2>5 DEF EndWrite, EndBuild, TypeOK, history
  <2>7. ActiveInv'
    BY <1>7 DEF EndWrite, EndBuild, ActiveInv, At
  <2>8. QED
    BY <2>6, <2>7
<1>8. CASE Crash
  <2>1. TypeOK'
    BY <1>0, <1>8 DEF Crash, Fresh, TypeOK, FailureSet
  <2>2. ActiveInv'
    BY <1>8 DEF Crash, Fresh, ActiveInv, At, NoTask
  <2>3. QED
    BY <2>1, <2>2
<1>9. QED
  BY <1>1, <1>2, <1>3, <1>4, <1>5, <1>6, <1>7, <1>8 DEF Finish

LEMMA InitType == Init => TypeOK /\ ActiveInv
<1> SUFFICES ASSUME Init
             PROVE  TypeOK /\ ActiveInv
  OBVIOUS
<1>1. NoFile \in File
  BY DEF NoFile, File
<1>2. TypeOK
  <2>1. <<>> \in Seq(Item)
    OBVIOUS
  <2>2. task \in [Elements -> Task] /\ file \in [Projects -> File]
    BY <1>1, NoTaskType DEF Init
  <2>3. doc \in [Elements -> {0} \cup Providers]
    BY DEF Init
  <2>4. QED
    BY <2>1, <2>2, <2>3 DEF Init, TypeOK, FailureSet
<1>3. ActiveInv
  BY DEF Init, ActiveInv, At, NoTask
<1>4. QED
  BY <1>2, <1>3

LEMMA NextType == TypeOK /\ ActiveInv /\ [Next]_vars => TypeOK' /\ ActiveInv'
<1> SUFFICES ASSUME TypeOK, ActiveInv, [Next]_vars
             PROVE  TypeOK' /\ ActiveInv'
  OBVIOUS
<1>1. CASE UNCHANGED vars
  BY <1>1 DEF vars, build, history, ledger, TypeOK, ActiveInv, At
<1>2. QED
  BY <1>1, StartsType, AnswersType, ContinueType, BuildType DEF Next, Document

(* Every variable keeps its type, and queries are in progress only while   *)
(* DocumentModule waits for a provider.                                    *)
THEOREM TypeCorrect == Spec => [](TypeOK /\ ActiveInv)
BY InitType, NextType, PTL DEF Spec

-----------------------------------------------------------------------------
(* How the locals of a query's loop relate.  Every question adds one to    *)
(* retry, and every exception one more; the backoff index grows by at most *)
(* one with every question.                                                *)

LoopInv(t) ==
  /\ t.backoffIndex <= 5
  /\ t.at = "asking" =>
       /\ t.retry + 1 = t.asked + t.thrown /\ t.retry <= 5
       /\ t.backoffIndex + 1 <= t.asked /\ ~t.nextDelay
  /\ t.at = "waiting" =>
       /\ t.retry = t.asked + t.thrown /\ t.retry <= 5
       /\ t.backoffIndex <= t.asked
       /\ ~t.nextDelay => t.backoffIndex + 1 <= t.asked

RetryInv ==
  /\ "delay" \notin invalid
  /\ \A e \in Elements : LoopInv(task[e])

LEMMA RetryStep ==
  ASSUME TypeOK, RetryInv, NEW e \in Elements, NEW t \in Task, Step(e, t), LoopInv(t),
         "delay" \notin invalid'
  PROVE  RetryInv'
<1>1. /\ task'[e] = t
      /\ \A other \in Elements : other # e => task'[other] = task[other]
  BY StepType DEF TypeOK
<1>2. QED
  BY <1>1 DEF RetryInv

LEMMA LeaveRetry ==
  ASSUME TypeOK, RetryInv, NEW e \in Elements, NEW t \in Task, t.backoffIndex <= 5,
         NEW item \in Item \cup {NoItem}, Leave(e, t, item), "delay" \notin invalid'
  PROVE  RetryInv'
<1> DEFINE label == IF t.thrown > 0 THEN "leaving"
                    ELSE IF item = NoItem THEN "done" ELSE "attaching"
           left == [NoTask EXCEPT !.found = item, !.backoffIndex = t.backoffIndex,
                                  !.at = label]
<1>1. label \in {"leaving", "done", "attaching"}
  OBVIOUS
<1>2. /\ left \in Task /\ left.at \in {"leaving", "done", "attaching"}
      /\ left.backoffIndex = t.backoffIndex
  <2> HIDE DEF label
  <2> QED
    BY <1>1, NoTaskType DEF Task, NoTask, Labels
<1>3. Step(e, left)
  BY DEF Leave
<1>4. QED
  <2> HIDE DEF label, left
  <2> QED
    BY <1>2, <1>3, RetryStep DEF LoopInv

(* The next iteration, or none: t is the task after its answer.            *)
LEMMA RescheduleRetry ==
  ASSUME TypeOK, RetryInv, NEW e \in Elements, NEW t \in Task, Reschedule(e, t),
         t.retry = t.asked + t.thrown, t.backoffIndex <= 5, t.backoffIndex <= t.asked,
         ~t.nextDelay => t.backoffIndex + 1 <= t.asked,
         "delay" \notin invalid'
  PROVE  RetryInv'
<1>1. CASE t.retry <= 5
  <2> DEFINE next == [t EXCEPT !.at = "waiting"]
  <2>1. Step(e, next)
    BY <1>1 DEF Reschedule
  <2>2. /\ next \in Task /\ next.at = "waiting" /\ next.retry = t.retry
        /\ next.asked = t.asked /\ next.thrown = t.thrown
        /\ next.backoffIndex = t.backoffIndex /\ next.nextDelay = t.nextDelay
    BY DEF Task, Labels
  <2>3. LoopInv(next)
    <3> HIDE DEF next
    <3> QED
      BY <1>1, <2>2 DEF LoopInv
  <2> HIDE DEF next
  <2>4. QED
    BY <2>1, <2>2, <2>3, RetryStep
<1>2. CASE ~(t.retry <= 5)
  BY <1>2, LeaveRetry DEF Reschedule
<1>3. QED
  BY <1>1, <1>2

LEMMA AnswersRetry ==
  ASSUME TypeOK, ActiveInv, RetryInv, NEW e \in Elements,
         FindsItem(e) \/ Never(e) \/ Fail(e) \/ Throw(e)
  PROVE  RetryInv'
<1>1. At(e, "asking") /\ "delay" \notin invalid'
  BY DEF FindsItem, Never, Fail, Throw, RetryInv, history
<1> DEFINE t == task[e]
<1>2. /\ t \in Task /\ t.asked \in Nat /\ t.thrown \in Nat /\ t.retry \in Nat
      /\ t.backoffIndex \in Nat /\ provider \in Providers
  BY <1>1, Busy DEF At, Task
<1>3. /\ t.retry + 1 = t.asked + t.thrown /\ t.retry <= 5
      /\ t.backoffIndex + 1 <= t.asked /\ ~t.nextDelay /\ t.backoffIndex <= 5
  BY <1>1 DEF RetryInv, LoopInv, At
<1>4. CASE FindsItem(e)
  <2>1. \E item \in Item : Leave(e, t, item)
    <3>1. \A own \in OwnNames : [names |-> own, from |-> provider, dirty |-> TRUE] \in Item
      BY <1>2, NameAssumption DEF Item
    <3>2. written \subseteq Item
      BY DEF TypeOK
    <3>3. QED
      BY <1>4, <3>1, <3>2 DEF FindsItem
  <2>2. QED
    BY <1>1, <1>2, <1>3, <2>1, LeaveRetry
<1>5. CASE Never(e)
  BY <1>1, <1>2, <1>3, <1>5, LeaveRetry DEF Never
<1>6. CASE Fail(e)
  <2> DEFINE index == IF t.backoffIndex >= 5 THEN 0 ELSE t.backoffIndex
             short == [t EXCEPT !.retry = @ + 1, !.backoffIndex = 0, !.nextDelay = FALSE]
             long == [t EXCEPT !.retry = @ + 1, !.backoffIndex = index + 1,
                               !.nextDelay = TRUE]
  <2>1. \/ Reschedule(e, short)
        \/ Reschedule(e, long)
    <3>1. PICK b \in BOOLEAN :
            Reschedule(e, [t EXCEPT !.retry = @ + 1,
                                    !.backoffIndex = IF b THEN 0 ELSE index + 1,
                                    !.nextDelay = ~b])
      BY <1>6 DEF Fail
    <3>2. CASE b = TRUE
      BY <3>1, <3>2
    <3>3. CASE b = FALSE
      BY <3>1, <3>3
    <3>4. QED
      BY <3>2, <3>3
  <2>2. t.retry + 1 \in Nat /\ index + 1 \in Nat
        /\ index + 1 <= 5 /\ index + 1 <= t.asked /\ 1 <= t.asked
    BY <1>2, <1>3
  <2>3. CASE Reschedule(e, short)
    <3>1. /\ short \in Task /\ short.retry = t.retry + 1
          /\ short.asked = t.asked /\ short.thrown = t.thrown
          /\ short.backoffIndex = 0
      BY <1>2, <2>2 DEF Task
    <3> HIDE DEF short
    <3>2. QED
      BY <1>1, <1>2, <1>3, <2>2, <2>3, <3>1, RescheduleRetry
  <2>4. CASE Reschedule(e, long)
    <3>1. /\ long \in Task /\ long.retry = t.retry + 1
          /\ long.asked = t.asked /\ long.thrown = t.thrown
          /\ long.backoffIndex = index + 1 /\ long.nextDelay = TRUE
      BY <1>2, <2>2 DEF Task
    <3> HIDE DEF long, index
    <3>2. QED
      BY <1>1, <1>2, <1>3, <2>2, <2>4, <3>1, RescheduleRetry
  <2>5. QED
    BY <2>1, <2>3, <2>4
<1>7. CASE Throw(e)
  <2> DEFINE threwOnce == [t EXCEPT !.retry = @ + 2, !.thrown = @ + 1]
  <2>1. Reschedule(e, threwOnce)
    BY <1>7 DEF Throw
  <2>2. t.retry + 2 \in Nat /\ t.thrown + 1 \in Nat
    BY <1>2
  <2>3. /\ threwOnce \in Task /\ threwOnce.retry = t.retry + 2
        /\ threwOnce.asked = t.asked /\ threwOnce.thrown = t.thrown + 1
        /\ threwOnce.backoffIndex = t.backoffIndex /\ threwOnce.nextDelay = t.nextDelay
    BY <1>2, <2>2 DEF Task
  <2> HIDE DEF threwOnce
  <2>4. QED
    BY <1>1, <1>2, <1>3, <2>1, <2>3, RescheduleRetry
<1>8. QED
  BY <1>4, <1>5, <1>6, <1>7

LEMMA NewTasksRetry ==
  ASSUME task' = [e \in Elements |-> NoTask], "delay" \notin invalid'
  PROVE  RetryInv'
BY DEF RetryInv, LoopInv, NoTask

LEMMA ContinueRetry ==
  ASSUME TypeOK, ActiveInv, RetryInv, NEW e \in Elements,
         \/ StartUnnamed(e) \/ StartCached(e) \/ StartQuery(e)
         \/ Retry(e) \/ BeginReport(e) \/ EndReport(e) \/ Attach(e)
  PROVE  RetryInv'
<1> DEFINE t == task[e]
<1>0. /\ t \in Task /\ t.asked \in Nat /\ t.thrown \in Nat /\ t.retry \in Nat
      /\ t.backoffIndex \in Nat /\ t.nextDelay \in BOOLEAN
      /\ LoopInv(t) /\ "delay" \notin invalid
  BY DEF TypeOK, RetryInv, Task
<1>1. ASSUME Step(e, [NoTask EXCEPT !.at = "done"]), UNCHANGED invalid
      PROVE  RetryInv'
  <2> DEFINE done == [NoTask EXCEPT !.at = "done"]
  <2>1. done \in Task /\ done.at = "done" /\ done.backoffIndex = 0
    BY NoTaskType DEF Task, NoTask, Labels
  <2>2. LoopInv(done)
    <3> HIDE DEF done
    <3> QED
      BY <2>1 DEF LoopInv
  <2>3. QED
    BY <1>0, <1>1, <2>1, <2>2, RetryStep
<1>2. CASE StartUnnamed(e) \/ StartCached(e) \/ Attach(e)
  BY <1>1, <1>2 DEF StartUnnamed, StartCached, Attach, history
<1>3. CASE StartQuery(e)
  <2> DEFINE asking == [NoTask EXCEPT !.at = "asking", !.asked = 1]
  <2>1. /\ asking \in Task /\ asking.at = "asking" /\ asking.asked = 1
        /\ asking.thrown = 0 /\ asking.retry = 0 /\ asking.backoffIndex = 0
        /\ asking.nextDelay = FALSE
    BY NoTaskType DEF Task, NoTask, Labels
  <2>2. LoopInv(asking)
    <3> HIDE DEF asking
    <3> QED
      BY <2>1 DEF LoopInv
  <2>3. QED
    BY <1>0, <1>3, <2>1, <2>2, RetryStep DEF StartQuery, history
<1>4. CASE Retry(e)
  <2> DEFINE index == IF t.backoffIndex >= 5 THEN 0 ELSE t.backoffIndex
             delay == IF t.nextDelay THEN t.backoffIndex ELSE index + 1
             next == [t EXCEPT !.at = "asking", !.asked = @ + 1,
                               !.backoffIndex = IF t.nextDelay THEN @ ELSE index + 1,
                               !.nextDelay = FALSE]
  <2>1. Step(e, next)
    BY <1>4 DEF Retry
  <2>2. /\ t.retry = t.asked + t.thrown /\ t.retry <= 5
        /\ t.backoffIndex <= t.asked
        /\ ~t.nextDelay => t.backoffIndex + 1 <= t.asked
        /\ t.backoffIndex <= 5
    BY <1>0, <1>4 DEF Retry, At, LoopInv
  <2>3. ~t.nextDelay => t.backoffIndex < 5
    BY <1>0, <2>2
  <2>4. "delay" \notin invalid'
    <3>1. ~(~t.nextDelay /\ t.backoffIndex >= 5)
      BY <1>0, <2>3
    <3>2. QED
      BY <1>0, <1>4, <3>1 DEF Retry
  <2>5. delay \in Nat /\ delay <= 5 /\ delay <= t.asked /\ t.asked + 1 \in Nat
    BY <1>0, <2>2, <2>3
  <2>6. /\ next \in Task /\ next.at = "asking" /\ next.asked = t.asked + 1
        /\ next.thrown = t.thrown /\ next.retry = t.retry
        /\ next.backoffIndex = delay /\ next.nextDelay = FALSE
    BY <1>0, <2>5 DEF Task, Labels
  <2>7. LoopInv(next)
    <3> HIDE DEF next, delay
    <3> QED
      BY <1>0, <2>2, <2>5, <2>6 DEF LoopInv
  <2> HIDE DEF next
  <2>8. QED
    BY <2>1, <2>4, <2>6, <2>7, RetryStep
<1>5. CASE BeginReport(e)
  <2> DEFINE next == [t EXCEPT !.at = "reporting", !.seen = failures]
  <2>1. /\ next \in Task /\ next.at = "reporting"
        /\ next.backoffIndex = t.backoffIndex
    BY <1>0 DEF TypeOK, Task, Labels
  <2>2. LoopInv(next)
    <3> HIDE DEF next
    <3> QED
      BY <1>0, <2>1 DEF LoopInv
  <2>3. Step(e, next) /\ "delay" \notin invalid'
    BY <1>0, <1>5 DEF BeginReport, history
  <2> HIDE DEF next
  <2>4. QED
    BY <2>1, <2>2, <2>3, RetryStep
<1>6. CASE EndReport(e)
  <2> DEFINE label == IF t.found = NoItem THEN "done" ELSE "attaching"
             next == [t EXCEPT !.seen = {}, !.at = label]
  <2>1. label \in {"done", "attaching"} /\ {} \in FailureSet
    BY DEF FailureSet
  <2>2. /\ next \in Task /\ next.at \in {"done", "attaching"}
        /\ next.backoffIndex = t.backoffIndex
    <3> HIDE DEF label
    <3> QED
      BY <1>0, <2>1 DEF Task, Labels
  <2>3. LoopInv(next)
    <3> HIDE DEF next
    <3> QED
      BY <1>0, <2>2 DEF LoopInv
  <2>4. Step(e, next) /\ "delay" \notin invalid'
    BY <1>0, <1>6 DEF EndReport, history
  <2> HIDE DEF label, next
  <2>5. QED
    BY <2>2, <2>3, <2>4, RetryStep
<1>7. QED
  BY <1>2, <1>3, <1>4, <1>5, <1>6

LEMMA NextRetry == TypeOK /\ ActiveInv /\ RetryInv /\ [Next]_vars => RetryInv'
<1> SUFFICES ASSUME TypeOK, ActiveInv, RetryInv, [Next]_vars
             PROVE  RetryInv'
  OBVIOUS
<1>1. CASE UNCHANGED vars
  BY <1>1 DEF vars, build, history, RetryInv
<1>2. ASSUME NEW e \in Elements, LogError(e)
      PROVE  RetryInv'
  BY <1>2 DEF LogError, RetryInv
<1>3. ASSUME NEW p \in Projects, StartBuild(p) \/ ReadFails(p)
      PROVE  RetryInv'
  BY <1>3 DEF StartBuild, ReadFails, Fresh, RetryInv
<1>4. CASE NextProvider \/ ReportFailures
  BY <1>4, NewTasksRetry DEF NextProvider, ReportFailures, history, RetryInv
<1>5. CASE Touch \/ BeginWrite \/ EndWrite
  BY <1>5 DEF Touch, BeginWrite, EndWrite, EndBuild, history, RetryInv
<1>6. CASE Crash
  BY <1>6, NewTasksRetry DEF Crash, Fresh
<1>7. QED
  BY <1>1, <1>2, <1>3, <1>4, <1>5, <1>6, AnswersRetry, ContinueRetry
  DEF Next, Document, Finish

LEMMA RetryInvariant == Spec => []RetryInv
<1>1. Init => RetryInv
  BY NewTasksRetry DEF Init, RetryInv, LoopInv, NoTask
<1>2. QED
  BY <1>1, NextRetry, TypeCorrect, PTL DEF Spec

(* However the provider's answers alternate, an element's query asks it at *)
(* most six times less the exceptions it has thrown, the backoff index     *)
(* stays within the array, and the first of the two guards against running *)
(* out of delays never acts.                                               *)
THEOREM RetriesAreBounded == Spec => []BoundedRetries
<1>1. TypeOK /\ RetryInv => BoundedRetries
  BY DEF TypeOK, RetryInv, LoopInv, BoundedRetries, At, Task
<1>2. QED
  BY <1>1, RetryInvariant, TypeCorrect, PTL

-----------------------------------------------------------------------------
(* With a single provider and no silenced name, no race and no retry hides *)
(* an exception: once a provider has thrown, a failure is in the set or    *)
(* the query of an element will still add one.                             *)

WillReport(t) ==
  \/ t.at \in {"asking", "waiting"} /\ t.thrown > 0
  \/ t.at \in {"leaving", "reporting"}

ReportInv ==
  /\ phase = "documenting" /\ threw # {} =>
       failures # {} \/ \E e \in Elements : WillReport(task[e])
  /\ phase \in {"saving", "writing"} /\ threw # {} /\ Treat[1] => errors
  /\ phase = "idle" /\ outcome # "none" /\ threw # {} /\ Treat[1] => outcome = "failed"
  /\ phase = "documenting" => \A f \in failures : f.treat = Treat[1]
  /\ \A e \in Elements : \A f \in task[e].seen : f.treat = Treat[1]

OneProvider == Len(Treat) = 1 /\ Silenced = {}

(* A step of one query while a build asks the provider.                    *)
LEMMA ReportStep ==
  ASSUME TypeOK, ReportInv, phase = "documenting",
         NEW e \in Elements, NEW t \in Task, Step(e, t),
         UNCHANGED Others,
         \A f \in failures' : f.treat = Treat[1],
         \A f \in t.seen : f.treat = Treat[1],
         failures # {} => failures' # {},
         WillReport(task[e]) => failures' # {} \/ WillReport(t),
         threw' # {} => threw # {} \/ WillReport(t)
  PROVE  ReportInv'
<1>1. /\ task'[e] = t
      /\ \A other \in Elements : other # e => task'[other] = task[other]
      /\ phase' = "documenting"
  BY StepType DEF TypeOK, Others
<1>2. threw' # {} => failures' # {} \/ \E u \in Elements : WillReport(task'[u])
  BY <1>1 DEF ReportInv
<1>3. \A u \in Elements : \A f \in task'[u].seen : f.treat = Treat[1]
  BY <1>1 DEF ReportInv
<1>4. QED
  BY <1>1, <1>2, <1>3 DEF ReportInv

LEMMA LeaveReport ==
  ASSUME TypeOK, ReportInv, phase = "documenting", NEW e \in Elements, NEW t \in Task,
         NEW item \in Item \cup {NoItem}, Leave(e, t, item),
         task[e].at = "asking", task[e].thrown > 0 => t.thrown > 0,
         threw' # {} => threw # {} \/ t.thrown > 0, UNCHANGED <<Others, failures>>
  PROVE  ReportInv'
<1> DEFINE label == IF t.thrown > 0 THEN "leaving"
                    ELSE IF item = NoItem THEN "done" ELSE "attaching"
           left == [NoTask EXCEPT !.found = item, !.backoffIndex = t.backoffIndex,
                                  !.at = label]
<1>1. label \in Labels /\ (t.thrown > 0 => label = "leaving")
  BY DEF Labels
<1>2. left \in Task /\ left.at = label /\ left.seen = {}
  <2> HIDE DEF label
  <2> QED
    BY <1>1, NoTaskType DEF Task, NoTask
<1>3. Step(e, left)
  BY DEF Leave
<1>4. WillReport(task[e]) => WillReport(left)
  <2> HIDE DEF label, left
  <2> QED
    BY <1>1, <1>2 DEF WillReport
<1>5. threw' # {} => threw # {} \/ WillReport(left)
  <2> HIDE DEF label, left
  <2> QED
    BY <1>1, <1>2 DEF WillReport
<1>6. \A f \in failures : f.treat = Treat[1]
  BY DEF ReportInv
<1>7. QED
  <2> HIDE DEF label, left
  <2> QED
    BY <1>2, <1>3, <1>4, <1>5, <1>6, ReportStep

LEMMA RescheduleReport ==
  ASSUME TypeOK, ReportInv, phase = "documenting", NEW e \in Elements, NEW t \in Task,
         Reschedule(e, t), t.seen = task[e].seen,
         task[e].at = "asking", task[e].thrown > 0 => t.thrown > 0,
         threw' # {} => threw # {} \/ t.thrown > 0, UNCHANGED <<Others, failures>>
  PROVE  ReportInv'
<1>1. CASE t.retry <= 5
  <2> DEFINE next == [t EXCEPT !.at = "waiting"]
  <2>1. Step(e, next)
    BY <1>1 DEF Reschedule
  <2>2. /\ next \in Task /\ next.at = "waiting" /\ next.thrown = t.thrown
        /\ next.seen = task[e].seen
    BY DEF Task, Labels
  <2> HIDE DEF next
  <2>3. /\ WillReport(task[e]) => WillReport(next)
        /\ threw' # {} => threw # {} \/ WillReport(next)
    BY <2>2 DEF WillReport
  <2>4. /\ \A f \in failures : f.treat = Treat[1]
        /\ \A f \in next.seen : f.treat = Treat[1]
    BY <2>2 DEF ReportInv
  <2>5. QED
    BY <2>1, <2>2, <2>3, <2>4, ReportStep
<1>2. CASE ~(t.retry <= 5)
  BY <1>2, LeaveReport DEF Reschedule
<1>3. QED
  BY <1>1, <1>2

LEMMA AnswersReport ==
  ASSUME TypeOK, ActiveInv, ReportInv, NEW e \in Elements,
         FindsItem(e) \/ Never(e) \/ Fail(e) \/ Throw(e)
  PROVE  ReportInv'
<1>1. task[e].at = "asking" /\ UNCHANGED <<Others, failures>>
  BY DEF FindsItem, Never, Fail, Throw, At
<1> DEFINE t == task[e]
<1>2. /\ t \in Task /\ t.thrown \in Nat /\ t.retry \in Nat /\ t.backoffIndex \in Nat
      /\ provider \in Providers /\ phase = "documenting"
  BY <1>1, Busy DEF Task
<1>3. CASE FindsItem(e)
  <2>1. \E item \in Item : Leave(e, t, item)
    <3>1. \A own \in OwnNames : [names |-> own, from |-> provider, dirty |-> TRUE] \in Item
      BY <1>2, NameAssumption DEF Item
    <3>2. written \subseteq Item
      BY DEF TypeOK
    <3>3. QED
      BY <1>3, <3>1, <3>2 DEF FindsItem
  <2>2. threw' = threw
    BY <1>3 DEF FindsItem, history
  <2>3. QED
    BY <1>1, <1>2, <2>1, <2>2, LeaveReport
<1>4. CASE Never(e)
  BY <1>1, <1>2, <1>4, LeaveReport DEF Never, history
<1>5. CASE Fail(e)
  <2> DEFINE index == IF t.backoffIndex >= 5 THEN 0 ELSE t.backoffIndex
  <2>1. \E n \in Nat, d \in BOOLEAN :
          Reschedule(e, [t EXCEPT !.retry = @ + 1, !.backoffIndex = n, !.nextDelay = d])
    <3>1. index + 1 \in Nat /\ 0 \in Nat
      BY <1>2
    <3>2. PICK b \in BOOLEAN :
            Reschedule(e, [t EXCEPT !.retry = @ + 1,
                                    !.backoffIndex = IF b THEN 0 ELSE index + 1,
                                    !.nextDelay = ~b])
      BY <1>5 DEF Fail
    <3> HIDE DEF index
    <3>3. CASE b = TRUE
      BY <3>1, <3>2, <3>3
    <3>4. CASE b = FALSE
      BY <3>1, <3>2, <3>4
    <3>5. QED
      BY <3>3, <3>4
  <2>2. PICK n \in Nat, d \in BOOLEAN :
          Reschedule(e, [t EXCEPT !.retry = @ + 1, !.backoffIndex = n, !.nextDelay = d])
    BY <2>1
  <2> DEFINE next == [t EXCEPT !.retry = @ + 1, !.backoffIndex = n, !.nextDelay = d]
  <2>3. t.retry + 1 \in Nat
    BY <1>2
  <2>4. next \in Task /\ next.thrown = t.thrown /\ next.seen = t.seen
    BY <1>2, <2>3 DEF Task
  <2>5. threw' = threw
    BY <1>5 DEF Fail
  <2>6. Reschedule(e, next)
    BY <2>2
  <2> HIDE DEF next
  <2>7. QED
    BY <1>1, <1>2, <2>4, <2>5, <2>6, RescheduleReport
<1>6. CASE Throw(e)
  <2> DEFINE next == [t EXCEPT !.retry = @ + 2, !.thrown = @ + 1]
  <2>1. t.retry + 2 \in Nat /\ t.thrown + 1 \in Nat
    BY <1>2
  <2>2. next \in Task /\ next.thrown = t.thrown + 1 /\ next.seen = t.seen
    BY <1>2, <2>1 DEF Task
  <2>3. Reschedule(e, next)
    BY <1>6 DEF Throw
  <2> HIDE DEF next
  <2>4. next.thrown > 0
    BY <1>2, <2>2
  <2>5. QED
    BY <1>1, <1>2, <2>2, <2>3, <2>4, RescheduleReport
<1>7. QED
  BY <1>3, <1>4, <1>5, <1>6

LEMMA StartsReport ==
  ASSUME TypeOK, ActiveInv, ReportInv, NEW e \in Elements,
         StartUnnamed(e) \/ StartCached(e) \/ StartQuery(e) \/ Attach(e)
  PROVE  ReportInv'
<1>1. /\ phase = "documenting" /\ ~WillReport(task[e])
      /\ UNCHANGED <<Others, failures, threw>>
  BY DEF StartUnnamed, StartCached, StartQuery, Attach, At, WillReport, ActiveInv, history
<1>2. \A f \in failures : f.treat = Treat[1]
  BY <1>1 DEF ReportInv
<1>3. \E t \in Task : Step(e, t) /\ t.seen = {}
  <2> DEFINE done == [NoTask EXCEPT !.at = "done"]
             asking == [NoTask EXCEPT !.at = "asking", !.asked = 1]
  <2>1. done \in Task /\ done.seen = {} /\ asking \in Task /\ asking.seen = {}
    BY NoTaskType DEF Task, NoTask, Labels
  <2>2. Step(e, done) \/ Step(e, asking)
    BY DEF StartUnnamed, StartCached, StartQuery, Attach
  <2> HIDE DEF done, asking
  <2>3. QED
    BY <2>1, <2>2
<1>4. QED
  BY <1>1, <1>2, <1>3, ReportStep

LEMMA ContinueReport ==
  ASSUME TypeOK, ActiveInv, ReportInv, OneProvider, NEW e \in Elements,
         Retry(e) \/ BeginReport(e) \/ EndReport(e)
  PROVE  ReportInv'
<1> DEFINE t == task[e]
<1>1. t.at \in {"waiting", "leaving", "reporting"}
  BY DEF Retry, BeginReport, EndReport, At
<1>2. /\ t \in Task /\ phase = "documenting" /\ provider = 1
      /\ \A f \in failures : f.treat = Treat[1]
      /\ \A f \in t.seen : f.treat = Treat[1]
  BY <1>1, Busy DEF OneProvider, Providers, ReportInv
<1>3. CASE Retry(e)
  <2> DEFINE index == IF t.backoffIndex >= 5 THEN 0 ELSE t.backoffIndex
             next == [t EXCEPT !.at = "asking", !.asked = @ + 1,
                               !.backoffIndex = IF t.nextDelay THEN @ ELSE index + 1,
                               !.nextDelay = FALSE]
  <2>1. Step(e, next) /\ UNCHANGED <<Others, failures, threw>>
    BY <1>3 DEF Retry
  <2>2. /\ next \in Task /\ next.at = "asking" /\ next.thrown = t.thrown
        /\ next.seen = t.seen
    <3>1. t.asked + 1 \in Nat /\ index + 1 \in Nat /\ t.backoffIndex \in Nat
      BY <1>2 DEF Task
    <3>2. (IF t.nextDelay THEN t.backoffIndex ELSE index + 1) \in Nat
      BY <3>1
    <3>3. QED
      BY <1>2, <3>1, <3>2 DEF Task, Labels
  <2> HIDE DEF next
  <2>3. WillReport(t) => WillReport(next)
    BY <1>3, <2>2 DEF WillReport, Retry, At
  <2>4. QED
    BY <1>2, <2>1, <2>2, <2>3, ReportStep
<1>4. CASE BeginReport(e)
  <2> DEFINE next == [t EXCEPT !.at = "reporting", !.seen = failures]
  <2>1. Step(e, next) /\ UNCHANGED <<Others, failures, threw>>
    BY <1>4 DEF BeginReport, history
  <2>2. next \in Task /\ next.at = "reporting" /\ next.seen = failures
    BY <1>2 DEF TypeOK, Task, Labels
  <2> HIDE DEF next
  <2>3. WillReport(next)
    BY <2>2 DEF WillReport
  <2>4. QED
    BY <1>2, <2>1, <2>2, <2>3, ReportStep
<1>5. CASE EndReport(e)
  <2> DEFINE label == IF t.found = NoItem THEN "done" ELSE "attaching"
             next == [t EXCEPT !.seen = {}, !.at = label]
  <2>1. Step(e, next) /\ UNCHANGED <<Others, threw>>
    BY <1>5 DEF EndReport, history
  <2>2. label \in Labels
    BY DEF Labels
  <2>3. next \in Task /\ next.seen = {}
    <3> HIDE DEF label
    <3>1. {} \in FailureSet
      BY DEF FailureSet
    <3>2. QED
      BY <1>2, <2>2, <3>1 DEF Task
  <2>4. Failure(e).treat = Treat[1]
    BY <1>2 DEF Failure
  <2>5. failures' # {} /\ \A f \in failures' : f.treat = Treat[1]
    BY <1>2, <1>5, <2>4 DEF EndReport
  <2> HIDE DEF label, next
  <2>6. QED
    BY <1>2, <2>1, <2>3, <2>5, ReportStep
<1>6. QED
  BY <1>3, <1>4, <1>5

LEMMA NextReport ==
  OneProvider => (TypeOK /\ ActiveInv /\ ReportInv /\ [Next]_vars => ReportInv')
<1> SUFFICES ASSUME OneProvider, TypeOK, ActiveInv, ReportInv, [Next]_vars
             PROVE  ReportInv'
  OBVIOUS
<1>1. CASE UNCHANGED vars
  BY <1>1 DEF vars, build, history, ReportInv
<1>2. ASSUME NEW e \in Elements, LogError(e)
      PROVE  ReportInv'
  BY <1>2 DEF LogError, Others, ReportInv
<1>3. ASSUME NEW p \in Projects, StartBuild(p)
      PROVE  ReportInv'
  <2>1. phase' = "documenting" /\ threw' = {} /\ failures' = {} /\ task' = task
        /\ phase = "idle"
    BY <1>3 DEF StartBuild, Fresh
  <2>2. QED
    BY <2>1 DEF ReportInv
<1>4. ASSUME NEW p \in Projects, ReadFails(p)
      PROVE  ReportInv'
  BY <1>4 DEF ReadFails, Fresh, ReportInv
<1>5. CASE NextProvider
  BY <1>5 DEF NextProvider, AllDone, ActiveInv, OneProvider, Providers
<1>6. CASE ReportFailures
  <2>1. threw # {} => failures # {}
    BY <1>6 DEF ReportFailures, AllDone, ReportInv, At, WillReport
  <2>2. threw # {} /\ Treat[1] => errors'
    BY <1>6, <2>1 DEF ReportFailures, AllDone, ReportInv, Unsilenced, OneProvider
  <2>3. phase' = "saving" /\ threw' = threw /\ \A e \in Elements : task'[e].seen = {}
    BY <1>6 DEF ReportFailures, history, NoTask
  <2>4. QED
    BY <2>2, <2>3 DEF ReportInv
<1>7. CASE Touch \/ EndWrite
  <2>1. phase \in {"saving", "writing"} /\ phase' = "idle" /\ threw' = threw
        /\ (errors => outcome' = "failed") /\ task' = task
    BY <1>7 DEF Touch, EndWrite, EndBuild, history
  <2>2. QED
    BY <2>1 DEF ReportInv
<1>8. CASE BeginWrite
  BY <1>8 DEF BeginWrite, history, ReportInv
<1>9. CASE Crash
  BY <1>9 DEF Crash, Fresh, ReportInv, NoTask
<1>10. QED
  BY <1>1, <1>2, <1>3, <1>4, <1>5, <1>6, <1>7, <1>8, <1>9,
     StartsReport, AnswersReport, ContinueReport DEF Next, Document, Finish

(* With one provider and nothing silenced, a build in which a strict       *)
(* provider threw fails, although additions to the failures overwrite      *)
(* each other.                                                             *)
THEOREM ThrowingFailsTheBuild == OneProvider => (Spec => []ThrownFailsBuild)
<1>1. Init => ReportInv
  BY DEF Init, ReportInv, NoTask
<1>2. OneProvider /\ TypeOK /\ ReportInv => ThrownFailsBuild
  <2> SUFFICES ASSUME OneProvider, TypeOK, ReportInv
               PROVE  ThrownFailsBuild
    OBVIOUS
  <2>1. \A q \in threw : q.provider = 1
    BY DEF TypeOK, OneProvider, Providers
  <2>2. QED
    BY <2>1 DEF ReportInv, ThrownFailsBuild
<1>3. OneProvider \in BOOLEAN
  BY DEF OneProvider
<1>4. CASE OneProvider
  <2>1. ReportInv /\ TypeOK /\ ActiveInv /\ [Next]_vars => ReportInv'
    BY <1>4, NextReport
  <2>2. ReportInv /\ TypeOK => ThrownFailsBuild
    BY <1>4, <1>2
  <2>3. QED
    BY <1>1, <2>1, <2>2, TypeCorrect, PTL DEF Spec
<1>5. QED
  BY <1>4

-----------------------------------------------------------------------------
(* What the steps of a query do, in the terms the invariants below are     *)
(* stated in.                                                              *)

Waits(t) == t.at \in {"asking", "waiting"}
Leaves(t) == t.at \in {"leaving", "reporting", "attaching"}
Found(t) == Leaves(t) /\ t.found # NoItem
Own(e) == [query |-> NameOf[e], provider |-> provider]

(* An answer of the provider that is asked now.                            *)
Answer(item) == item.from = provider /\ (item.dirty \/ item \in written)

LEMMA LeaveEffect ==
  ASSUME NEW e \in Elements, NEW t \in Task, NEW item \in Item \cup {NoItem},
         Leave(e, t, item)
  PROVE  \E left \in Task :
           /\ Step(e, left) /\ left.found = item
           /\ left.at \in {"leaving", "attaching", "done"}
           /\ left.at = "leaving" => t.thrown > 0
<1> DEFINE label == IF t.thrown > 0 THEN "leaving"
                    ELSE IF item = NoItem THEN "done" ELSE "attaching"
           left == [NoTask EXCEPT !.found = item, !.backoffIndex = t.backoffIndex,
                                  !.at = label]
<1>1. label \in {"leaving", "attaching", "done"} /\ (label = "leaving" => t.thrown > 0)
  OBVIOUS
<1>2. left \in Task /\ left.at = label /\ left.found = item
  <2> HIDE DEF label
  <2> QED
    BY <1>1, NoTaskType DEF Task, NoTask, Labels
<1>3. Step(e, left)
  BY DEF Leave
<1>4. QED
  <2> HIDE DEF label, left
  <2> QED
    BY <1>1, <1>2, <1>3

(* t is the task after an answer that asks for another question.           *)
LEMMA RescheduleEffect ==
  ASSUME NEW e \in Elements, NEW t \in Task, Reschedule(e, t)
  PROVE  \E next \in Task :
           /\ Step(e, next) /\ next.at \in {"waiting", "leaving", "attaching", "done"}
           /\ next.at = "waiting" => next.thrown = t.thrown
           /\ next.at = "leaving" => t.thrown > 0
           /\ next.at \in {"leaving", "attaching"} => next.found = NoItem
<1>1. CASE t.retry <= 5
  <2> DEFINE next == [t EXCEPT !.at = "waiting"]
  <2>1. Step(e, next)
    BY <1>1 DEF Reschedule
  <2>2. next \in Task /\ next.at = "waiting" /\ next.thrown = t.thrown
    BY DEF Task, Labels
  <2> HIDE DEF next
  <2>3. QED
    BY <2>1, <2>2
<1>2. CASE ~(t.retry <= 5)
  <2>1. Leave(e, t, NoItem)
    BY <1>2 DEF Reschedule
  <2>2. PICK left \in Task :
           /\ Step(e, left) /\ left.found = NoItem
           /\ left.at \in {"leaving", "attaching", "done"}
           /\ left.at = "leaving" => t.thrown > 0
    BY <2>1, LeaveEffect
  <2>3. QED
    BY <2>2
<1>3. QED
  BY <1>1, <1>2

(* The provider's answer: an item is its own, and an exception is held     *)
(* against it.                                                             *)
LEMMA AnswersEffect ==
  ASSUME TypeOK, ActiveInv, NEW e \in Elements,
         FindsItem(e) \/ Never(e) \/ Fail(e) \/ Throw(e)
  PROVE  /\ task[e].at = "asking" /\ UNCHANGED <<Others, cache, doc, failures, errors>>
         /\ threw \subseteq threw'
         /\ \E t \in Task :
              /\ Step(e, t) /\ t.at \in {"waiting", "leaving", "attaching", "done"}
              /\ Found(t) => Answer(t.found)
              /\ WillReport(t) => WillReport(task[e]) \/ Own(e) \in threw'
<1>1. task[e].at = "asking" /\ UNCHANGED <<Others, cache, doc, failures, errors>>
  BY DEF FindsItem, Never, Fail, Throw, At
<1> DEFINE t == task[e]
<1>2. /\ t \in Task /\ t.thrown \in Nat /\ t.retry \in Nat /\ t.backoffIndex \in Nat
      /\ provider \in Providers
  BY <1>1, Busy DEF Task
<1>3. WillReport(t) <=> t.thrown > 0
  BY <1>1 DEF WillReport
<1>4. CASE FindsItem(e)
  <2>1. \E item \in Item : Leave(e, t, item) /\ Answer(item)
    <3>1. ASSUME NEW own \in OwnNames,
                 Leave(e, t, [names |-> own, from |-> provider, dirty |-> TRUE])
          PROVE  \E item \in Item : Leave(e, t, item) /\ Answer(item)
      <4>1. [names |-> own, from |-> provider, dirty |-> TRUE] \in Item
        BY <1>2, NameAssumption DEF Item
      <4>2. QED
        BY <3>1, <4>1 DEF Answer
    <3>2. written \subseteq Item
      BY DEF TypeOK
    <3>3. QED
      BY <1>4, <3>1, <3>2 DEF FindsItem, Answer
  <2>2. PICK item \in Item : Leave(e, t, item) /\ Answer(item)
    BY <2>1
  <2>3. PICK left \in Task :
           /\ Step(e, left) /\ left.found = item
           /\ left.at \in {"leaving", "attaching", "done"}
           /\ left.at = "leaving" => t.thrown > 0
    BY <1>2, <2>2, LeaveEffect
  <2>4. threw' = threw
    BY <1>4 DEF FindsItem, history
  <2>5. WillReport(left) => WillReport(t)
    BY <1>3, <2>3 DEF WillReport
  <2>6. QED
    BY <1>1, <2>2, <2>3, <2>4, <2>5 DEF Found
<1>5. CASE Never(e)
  <2>1. PICK left \in Task :
           /\ Step(e, left) /\ left.found = NoItem
           /\ left.at \in {"leaving", "attaching", "done"}
           /\ left.at = "leaving" => t.thrown > 0
    BY <1>2, <1>5, LeaveEffect DEF Never
  <2>2. threw' = threw
    BY <1>5 DEF Never, history
  <2>3. WillReport(left) => WillReport(t)
    BY <1>3, <2>1 DEF WillReport
  <2>4. QED
    BY <1>1, <2>1, <2>2, <2>3 DEF Found
<1>6. CASE Fail(e)
  <2> DEFINE index == IF t.backoffIndex >= 5 THEN 0 ELSE t.backoffIndex
             failed(b) == [t EXCEPT !.retry = @ + 1,
                                    !.backoffIndex = IF b THEN 0 ELSE index + 1,
                                    !.nextDelay = ~b]
  <2>1. PICK b \in BOOLEAN : Reschedule(e, failed(b))
    BY <1>6 DEF Fail
  <2>2. failed(b) \in Task /\ failed(b).thrown = t.thrown
    <3>1. t.retry + 1 \in Nat /\ index + 1 \in Nat
      BY <1>2
    <3>2. (IF b THEN 0 ELSE index + 1) \in Nat /\ (~b) \in BOOLEAN
      BY <3>1
    <3>3. QED
      BY <1>2, <3>1, <3>2 DEF Task
  <2> HIDE DEF failed
  <2>3. PICK next \in Task :
           /\ Step(e, next) /\ next.at \in {"waiting", "leaving", "attaching", "done"}
           /\ next.at = "waiting" => next.thrown = failed(b).thrown
           /\ next.at = "leaving" => failed(b).thrown > 0
           /\ next.at \in {"leaving", "attaching"} => next.found = NoItem
    BY <2>1, <2>2, RescheduleEffect
  <2>4. threw' = threw
    BY <1>6 DEF Fail
  <2>5. WillReport(next) => WillReport(t)
    BY <1>3, <2>2, <2>3 DEF WillReport
  <2>6. ~Found(next)
    BY <2>3 DEF Found, Leaves
  <2>7. QED
    BY <1>1, <2>3, <2>4, <2>5, <2>6
<1>7. CASE Throw(e)
  <2> DEFINE thrown == [t EXCEPT !.retry = @ + 2, !.thrown = @ + 1]
  <2>1. Reschedule(e, thrown)
    BY <1>7 DEF Throw
  <2>2. thrown \in Task
    <3>1. t.retry + 2 \in Nat /\ t.thrown + 1 \in Nat
      BY <1>2
    <3>2. QED
      BY <1>2, <3>1 DEF Task
  <2> HIDE DEF thrown
  <2>3. PICK next \in Task :
           /\ Step(e, next) /\ next.at \in {"waiting", "leaving", "attaching", "done"}
           /\ next.at = "waiting" => next.thrown = thrown.thrown
           /\ next.at = "leaving" => thrown.thrown > 0
           /\ next.at \in {"leaving", "attaching"} => next.found = NoItem
    BY <2>1, <2>2, RescheduleEffect
  <2>4. threw \subseteq threw' /\ Own(e) \in threw'
    BY <1>7 DEF Throw, Own
  <2>5. ~Found(next)
    BY <2>3 DEF Found, Leaves
  <2>6. QED
    BY <1>1, <2>3, <2>4, <2>5
<1>8. QED
  BY <1>4, <1>5, <1>6, <1>7

(* A step of an element's query: it documents the element, from the cache  *)
(* or with what was found, or it leaves the cache and the documentation    *)
(* alone.                                                                  *)
QueryEffect(e, t) ==
  /\ Step(e, t)
  /\ \/ /\ UNCHANGED <<cache, doc>>
        /\ Waits(t) \/ Leaves(t) =>
             Waits(task[e]) \/ Leaves(task[e]) \/ Find(NameOf[e]) = NoItem
        /\ Found(t) => \/ Found(task[e]) /\ t.found = task[e].found
                       \/ Answer(t.found)
     \/ t.at = "done" /\ (StartCached(e) \/ Attach(e))
  /\ WillReport(t) => WillReport(task[e]) \/ Own(e) \in threw'
  /\ t.at = "reporting" => t.seen = failures

LEMMA DocumentEffect ==
  ASSUME TypeOK, ActiveInv, NEW e \in Elements, Document(e)
  PROVE  /\ phase = "documenting" /\ UNCHANGED <<Others, errors>>
         /\ threw \subseteq threw'
         /\ \E t \in Task : QueryEffect(e, t)
         /\ UNCHANGED failures \/ EndReport(e)
<1> DEFINE t == task[e]
<1>1. /\ phase = "documenting" /\ UNCHANGED <<Others, errors>>
      /\ UNCHANGED failures \/ EndReport(e)
  BY DEF ActiveInv, Document, StartUnnamed, StartCached, StartQuery, FindsItem, Never, Fail,
     Throw, Retry, BeginReport, EndReport, Attach, At
<1>2. t \in Task
  BY DEF TypeOK
<1>3. CASE FindsItem(e) \/ Never(e) \/ Fail(e) \/ Throw(e)
  BY <1>1, <1>3, AnswersEffect DEF QueryEffect, Waits, Leaves
<1>4. CASE StartUnnamed(e) \/ StartCached(e) \/ Attach(e)
  <2> DEFINE done == [NoTask EXCEPT !.at = "done"]
  <2>1. Step(e, done) /\ threw' = threw
    BY <1>4 DEF StartUnnamed, StartCached, Attach, history
  <2>2. done \in Task /\ done.at = "done"
    BY NoTaskType DEF Task, NoTask, Labels
  <2> HIDE DEF done
  <2>3. UNCHANGED <<cache, doc>> \/ StartCached(e) \/ Attach(e)
    BY <1>4 DEF StartUnnamed
  <2>4. QueryEffect(e, done)
    BY <2>1, <2>2, <2>3 DEF QueryEffect, Waits, Leaves, Found, WillReport
  <2>5. QED
    BY <1>1, <2>1, <2>2, <2>4
<1>5. CASE StartQuery(e)
  <2> DEFINE asking == [NoTask EXCEPT !.at = "asking", !.asked = 1]
  <2>1. /\ Step(e, asking) /\ Find(NameOf[e]) = NoItem
        /\ UNCHANGED <<cache, doc, threw>>
    BY <1>5 DEF StartQuery, history
  <2>2. asking \in Task /\ asking.at = "asking" /\ asking.thrown = 0
    BY NoTaskType DEF Task, NoTask, Labels
  <2> HIDE DEF asking
  <2>3. QueryEffect(e, asking)
    BY <2>1, <2>2 DEF QueryEffect, Waits, Leaves, Found, WillReport
  <2>4. QED
    BY <1>1, <2>1, <2>2, <2>3
<1>6. CASE Retry(e)
  <2> DEFINE index == IF t.backoffIndex >= 5 THEN 0 ELSE t.backoffIndex
             next == [t EXCEPT !.at = "asking", !.asked = @ + 1,
                               !.backoffIndex = IF t.nextDelay THEN @ ELSE index + 1,
                               !.nextDelay = FALSE]
  <2>1. Step(e, next) /\ UNCHANGED <<cache, doc, threw>> /\ t.at = "waiting"
    BY <1>6 DEF Retry, At
  <2>2. next \in Task /\ next.at = "asking" /\ next.thrown = t.thrown
    <3>1. t.asked + 1 \in Nat /\ index + 1 \in Nat /\ t.backoffIndex \in Nat
      BY <1>2 DEF Task
    <3>2. (IF t.nextDelay THEN t.backoffIndex ELSE index + 1) \in Nat
      BY <3>1
    <3>3. QED
      BY <1>2, <3>1, <3>2 DEF Task, Labels
  <2> HIDE DEF next
  <2>3. QueryEffect(e, next)
    BY <2>1, <2>2 DEF QueryEffect, Waits, Leaves, Found, WillReport
  <2>4. QED
    BY <1>1, <2>1, <2>2, <2>3
<1>7. CASE BeginReport(e)
  <2> DEFINE next == [t EXCEPT !.at = "reporting", !.seen = failures]
  <2>1. Step(e, next) /\ UNCHANGED <<cache, doc, threw>> /\ t.at = "leaving"
    BY <1>7 DEF BeginReport, At, history
  <2>2. /\ next \in Task /\ next.at = "reporting" /\ next.found = t.found
        /\ next.seen = failures
    BY <1>2 DEF TypeOK, Task, Labels
  <2> HIDE DEF next
  <2>3. QueryEffect(e, next)
    BY <2>1, <2>2 DEF QueryEffect, Waits, Leaves, Found, WillReport
  <2>4. QED
    BY <1>1, <2>1, <2>2, <2>3
<1>8. CASE EndReport(e)
  <2> DEFINE label == IF t.found = NoItem THEN "done" ELSE "attaching"
             next == [t EXCEPT !.seen = {}, !.at = label]
  <2>1. Step(e, next) /\ UNCHANGED <<cache, doc, threw>> /\ t.at = "reporting"
    BY <1>8 DEF EndReport, At, history
  <2>2. /\ next \in Task /\ next.at \in {"done", "attaching"}
        /\ next.found = t.found
    <3>1. label \in {"done", "attaching"} /\ {} \in FailureSet
      BY DEF FailureSet
    <3> HIDE DEF label
    <3>2. QED
      BY <1>2, <3>1 DEF Task, Labels
  <2> HIDE DEF label, next
  <2>3. QueryEffect(e, next)
    BY <2>1, <2>2 DEF QueryEffect, Waits, Leaves, Found, WillReport
  <2>4. QED
    BY <1>1, <2>1, <2>2, <2>3
<1>9. QED
  BY <1>3, <1>4, <1>5, <1>6, <1>7, <1>8 DEF Document

(* The lookup of the cache.                                                *)
LEMMA LeastUnique ==
  ASSUME NEW S, S \subseteq Nat, NEW k \in S, \A j \in S : k <= j
  PROVE  (CHOOSE i \in S : \A j \in S : i <= j) = k
<1> DEFINE c == CHOOSE i \in S : \A j \in S : i <= j
<1>1. c \in S /\ \A j \in S : c <= j
  OBVIOUS
<1>2. c <= k /\ k <= c /\ c \in Nat /\ k \in Nat
  BY <1>1
<1> HIDE DEF c
<1>3. c = k
  BY <1>2
<1>4. QED
  BY <1>3 DEF c

LEMMA FindHit ==
  ASSUME cache \in Seq(Item), NEW n, Hits(n) # {}
  PROVE  \E i \in Hits(n) : Find(n) = cache[i] /\ \A j \in Hits(n) : i <= j
<1>1. Hits(n) \subseteq Nat
  BY DEF Hits
<1>2. PICK i \in Hits(n) : \A j \in Hits(n) : i <= j
  BY <1>1, Least
<1>3. (CHOOSE k \in Hits(n) : \A j \in Hits(n) : k <= j) = i
  BY <1>1, <1>2, LeastUnique
<1>4. QED
  BY <1>2, <1>3 DEF Find

LEMMA MissedMeansNone ==
  ASSUME cache \in Seq(Item), NEW n, Find(n) = NoItem
  PROVE  Hits(n) = {}
<1> SUFFICES ASSUME Hits(n) # {}
             PROVE  FALSE
  OBVIOUS
<1>1. PICK i \in Hits(n) : Find(n) = cache[i]
  BY FindHit
<1>2. cache[i] \in Item
  BY <1>1 DEF Hits
<1>3. QED
  BY <1>1, <1>2, NoItemType

LEMMA CacheKept ==
  ASSUME UNCHANGED cache
  PROVE  \A n : Hits(n)' = Hits(n) /\ Find(n)' = Find(n)
BY DEF Hits, Find

(* Adding an item to the cache leaves the names alone that are found.      *)
LEMMA AppendFind ==
  ASSUME cache \in Seq(Item), NEW item \in Item, cache' = Append(cache, item), NEW n
  PROVE  /\ Hits(n) \subseteq Hits(n)'
         /\ Hits(n) # {} => Find(n)' = Find(n)
         /\ \A i \in Hits(n)' : \/ i \in Hits(n) /\ cache'[i] = cache[i]
                                \/ cache'[i] = item
         /\ n \in item.names => Hits(n)' # {}
<1>1. PICK m \in Nat : m = Len(cache) /\ DOMAIN cache = 1..m
  OBVIOUS
<1>2. /\ cache' \in Seq(Item) /\ DOMAIN cache' = 1..(m + 1)
      /\ \A i \in 1..m : cache'[i] = cache[i]
      /\ cache'[m + 1] = item
  BY <1>1
<1>3. /\ Hits(n) \subseteq 1..m
      /\ \A i \in 1..m : i \in Hits(n) <=> n \in cache[i].names
  BY <1>1 DEF Hits
<1>4. /\ Hits(n)' \subseteq 1..(m + 1)
      /\ \A i \in 1..(m + 1) : i \in Hits(n)' <=> n \in cache'[i].names
  BY <1>2 DEF Hits
<1>5. \A i \in 1..(m + 1) : i \in 1..m \/ i = m + 1
  BY <1>1
<1>6. 1..m \subseteq 1..(m + 1) /\ m + 1 \in 1..(m + 1)
  BY <1>1
<1>7. /\ Hits(n) \subseteq Hits(n)'
      /\ \A i \in Hits(n)' : \/ i \in Hits(n) /\ cache'[i] = cache[i]
                             \/ i = m + 1 /\ cache'[i] = item
      /\ n \in item.names => Hits(n)' # {}
  BY <1>2, <1>3, <1>4, <1>5, <1>6
<1>8. ASSUME Hits(n) # {}
      PROVE  Find(n)' = Find(n)
  <2>1. PICK k \in Hits(n) : Find(n) = cache[k] /\ \A j \in Hits(n) : k <= j
    BY <1>8, FindHit
  <2>2. k \in 1..m /\ Hits(n)' \subseteq Nat
    BY <1>1, <1>3, <1>4, <2>1
  <2>3. \A j \in Hits(n)' : k <= j
    BY <1>1, <1>7, <2>1, <2>2
  <2>4. k \in Hits(n)'
    BY <1>7, <2>1
  <2>5. (CHOOSE i \in Hits(n)' : \A j \in Hits(n)' : i <= j) = k
    BY <2>2, <2>3, <2>4, LeastUnique
  <2>6. Find(n)' = cache'[k]
    BY <2>4, <2>5 DEF Find
  <2>7. QED
    BY <1>2, <2>1, <2>2, <2>6
<1>9. QED
  BY <1>7, <1>8

-----------------------------------------------------------------------------
(* Names differ in more than their case: an item is then always listed     *)
(* under the name it was asked for.                                        *)
NamesDiffer == \A m, n \in Names : Folded[m] = Folded[n] => m = n

LEMMA Listed ==
  ASSUME NamesDiffer, NEW item \in Item, NEW n \in Names
  PROVE  /\ AddName(item, n) \in Item
         /\ AddName(item, n).from = item.from
         /\ n \in AddName(item, n).names
         /\ AddName(item, n) = item \/ AddName(item, n).dirty
<1>1. CASE \E m \in item.names : Folded[m] = Folded[n]
  <2>1. n \in item.names
    BY <1>1 DEF NamesDiffer, Item
  <2>2. AddName(item, n) = item
    BY <1>1 DEF AddName
  <2>3. QED
    BY <2>1, <2>2
<1>2. CASE ~\E m \in item.names : Folded[m] = Folded[n]
  <2>1. AddName(item, n) = [item EXCEPT !.names = @ \cup {n}, !.dirty = TRUE]
    BY <1>2 DEF AddName
  <2>2. QED
    BY <2>1 DEF Item
<1>3. QED
  BY <1>1, <1>2

(* A documented element is found in the cache, with its provider; while an *)
(* element's query is in progress, whatever is listed under its name has   *)
(* been added by queries of the same provider.                             *)

DocumentedIsFound ==
  phase = "documenting" =>
    \A e \in Elements : doc[e] # 0 => /\ Hits(NameOf[e]) # {}
                                      /\ Find(NameOf[e]).from = doc[e]

QueriedIsNew ==
  \A e \in Elements : Waits(task[e]) \/ Leaves(task[e]) =>
    /\ doc[e] = 0
    /\ \A i \in Hits(NameOf[e]) : cache[i].from = provider

FoundIsProviders == \A e \in Elements : Found(task[e]) => task[e].found.from = provider

WinInv == DocumentedIsFound /\ QueriedIsNew /\ FoundIsProviders

LEMMA AttachEffect ==
  ASSUME TypeOK, ActiveInv, NamesDiffer, NEW e \in Elements, Attach(e)
  PROVE  /\ Found(task[e]) /\ NameOf[e] \in Names
         /\ doc' = [doc EXCEPT ![e] = task[e].found.from]
         /\ \E item \in Item :
              /\ cache' = Append(cache, item) /\ item.from = task[e].found.from
              /\ NameOf[e] \in item.names
              /\ item = task[e].found \/ item.dirty
<1>1. task[e].at = "attaching"
  BY DEF Attach, At
<1>2. task[e].found \in Item /\ NameOf[e] \in Names
  BY <1>1 DEF ActiveInv, At
<1>3. Found(task[e])
  BY <1>1, <1>2, NoItemType DEF Found, Leaves
<1>4. QED
  BY <1>2, <1>3, Listed DEF Attach

LEMMA DocumentWins ==
  ASSUME TypeOK, ActiveInv, WinInv, NamesDiffer, NEW e \in Elements, Document(e)
  PROVE  /\ WinInv'
         /\ \A u \in Elements : doc[u] # 0 => doc'[u] = doc[u]
<1>1. phase = "documenting" /\ UNCHANGED <<phase, provider, written>>
  BY DocumentEffect DEF Others
<1>2. PICK t \in Task : QueryEffect(e, t)
  BY DocumentEffect
<1>3. /\ task'[e] = t
      /\ \A u \in Elements : u # e => task'[u] = task[u]
  BY <1>2, StepType DEF QueryEffect, TypeOK
<1>4. cache \in Seq(Item) /\ doc \in [Elements -> {0} \cup Providers]
  BY DEF TypeOK
<1>5. CASE /\ UNCHANGED <<cache, doc>>
           /\ Waits(t) \/ Leaves(t) =>
                Waits(task[e]) \/ Leaves(task[e]) \/ Find(NameOf[e]) = NoItem
           /\ Found(t) => \/ Found(task[e]) /\ t.found = task[e].found
                          \/ Answer(t.found)
  <2>1. \A u \in Elements : Hits(NameOf[u])' = Hits(NameOf[u])
                            /\ Find(NameOf[u])' = Find(NameOf[u])
    BY <1>5, CacheKept
  <2>2. DocumentedIsFound'
    BY <1>1, <1>5, <2>1 DEF WinInv, DocumentedIsFound
  <2>3. Find(NameOf[e]) = NoItem => Hits(NameOf[e]) = {} /\ doc[e] = 0
    BY <1>1, <1>4, MissedMeansNone DEF WinInv, DocumentedIsFound
  <2>4. Waits(t) \/ Leaves(t) =>
          doc[e] = 0 /\ \A i \in Hits(NameOf[e]) : cache[i].from = provider
    BY <1>5, <2>3 DEF WinInv, QueriedIsNew
  <2>5. QueriedIsNew'
    BY <1>1, <1>3, <1>5, <2>1, <2>4 DEF WinInv, QueriedIsNew
  <2>6. FoundIsProviders'
    BY <1>1, <1>3, <1>5 DEF WinInv, FoundIsProviders, Answer
  <2>7. QED
    BY <1>5, <2>2, <2>5, <2>6 DEF WinInv
<1>6. CASE t.at = "done" /\ StartCached(e)
  <2>1. /\ doc' = [doc EXCEPT ![e] = Find(NameOf[e]).from] /\ cache' = cache
        /\ Find(NameOf[e]) # NoItem
    BY <1>6 DEF StartCached
  <2>2. \A u \in Elements : Hits(NameOf[u])' = Hits(NameOf[u])
                            /\ Find(NameOf[u])' = Find(NameOf[u])
    BY <2>1, CacheKept
  <2>3. Hits(NameOf[e]) # {}
    BY <2>1 DEF Find
  <2>4. \A u \in Elements : doc[u] # 0 => doc'[u] = doc[u]
    BY <1>1, <1>4, <2>1 DEF WinInv, DocumentedIsFound
  <2>5. DocumentedIsFound'
    BY <1>1, <1>4, <2>1, <2>2, <2>3 DEF WinInv, DocumentedIsFound
  <2>6. ~Waits(t) /\ ~Leaves(t)
    BY <1>6 DEF Waits, Leaves
  <2>7. QueriedIsNew'
    BY <1>1, <1>3, <1>4, <2>1, <2>2, <2>6 DEF WinInv, QueriedIsNew
  <2>8. FoundIsProviders'
    BY <1>1, <1>3, <2>6 DEF WinInv, FoundIsProviders, Found
  <2>9. QED
    BY <2>4, <2>5, <2>7, <2>8 DEF WinInv
<1>7. CASE t.at = "done" /\ Attach(e)
  <2>1. /\ Found(task[e]) /\ doc' = [doc EXCEPT ![e] = provider]
        /\ doc[e] = 0 /\ \A i \in Hits(NameOf[e]) : cache[i].from = provider
    BY <1>7, AttachEffect DEF WinInv, FoundIsProviders, QueriedIsNew, Found
  <2>2. PICK item \in Item : /\ cache' = Append(cache, item) /\ item.from = provider
                             /\ NameOf[e] \in item.names
    BY <1>7, <2>1, AttachEffect DEF WinInv, FoundIsProviders
  <2>3. \A u \in Elements :
          /\ Hits(NameOf[u]) \subseteq Hits(NameOf[u])'
          /\ Hits(NameOf[u]) # {} => Find(NameOf[u])' = Find(NameOf[u])
          /\ \A i \in Hits(NameOf[u])' : \/ i \in Hits(NameOf[u]) /\ cache'[i] = cache[i]
                                         \/ cache'[i] = item
    BY <1>4, <2>2, AppendFind
  <2>4. \A i \in Hits(NameOf[e])' : cache'[i].from = provider
    BY <2>1, <2>2, <2>3
  <2>5. Hits(NameOf[e])' # {} /\ Find(NameOf[e])'.from = provider
    <3>1. Hits(NameOf[e])' # {}
      BY <1>4, <2>2, AppendFind
    <3>2. cache' \in Seq(Item)
      BY <1>4, <2>2
    <3>3. Hits(NameOf[e])' \subseteq Nat
      BY <3>2 DEF Hits
    <3>4. PICK k \in Hits(NameOf[e])' : \A j \in Hits(NameOf[e])' : k <= j
      BY <3>1, <3>3, Least
    <3>5. (CHOOSE i \in Hits(NameOf[e])' : \A j \in Hits(NameOf[e])' : i <= j) = k
      BY <3>3, <3>4, LeastUnique
    <3>6. Find(NameOf[e])' = cache'[k]
      BY <3>1, <3>5 DEF Find
    <3>7. QED
      BY <2>4, <3>1, <3>4, <3>6
  <2>6. \A u \in Elements : doc[u] # 0 => doc'[u] = doc[u]
    BY <1>4, <2>1
  <2>7. DocumentedIsFound'
    <3> SUFFICES ASSUME NEW u \in Elements, doc'[u] # 0
                 PROVE  Hits(NameOf[u])' # {} /\ Find(NameOf[u])'.from = doc'[u]
      BY DEF DocumentedIsFound
    <3>1. CASE u = e
      BY <1>4, <2>1, <2>5, <3>1
    <3>2. CASE u # e
      BY <1>1, <1>4, <2>1, <2>3, <3>2 DEF WinInv, DocumentedIsFound
    <3>3. QED
      BY <3>1, <3>2
  <2>8. ~Waits(t) /\ ~Leaves(t)
    BY <1>7 DEF Waits, Leaves
  <2>9. QueriedIsNew'
    <3> SUFFICES ASSUME NEW u \in Elements, Waits(task'[u]) \/ Leaves(task'[u])
                 PROVE  doc'[u] = 0 /\ \A i \in Hits(NameOf[u])' : cache'[i].from = provider
      BY <1>1 DEF QueriedIsNew, Waits, Leaves
    <3>1. u # e /\ (Waits(task[u]) \/ Leaves(task[u]))
      BY <1>3, <2>8
    <3>2. doc[u] = 0 /\ \A i \in Hits(NameOf[u]) : cache[i].from = provider
      BY <3>1 DEF WinInv, QueriedIsNew
    <3>3. QED
      BY <1>4, <2>1, <2>2, <2>3, <3>1, <3>2
  <2>10. FoundIsProviders'
    BY <1>1, <1>3, <2>8 DEF WinInv, FoundIsProviders, Found
  <2>11. QED
    BY <2>6, <2>7, <2>9, <2>10 DEF WinInv
<1>8. QED
  BY <1>2, <1>5, <1>6, <1>7 DEF QueryEffect

(* No query is in progress in the states a build's own steps lead to.      *)
LEMMA NoQuery ==
  ASSUME \A e \in Elements : task'[e].at \in {"unstarted", "done"}
  PROVE  QueriedIsNew' /\ FoundIsProviders'
BY DEF QueriedIsNew, FoundIsProviders, Found, Waits, Leaves

LEMMA BuildWins ==
  ASSUME TypeOK, ActiveInv, WinInv,
         \/ \E p \in Projects : StartBuild(p) \/ ReadFails(p)
         \/ Finish
         \/ Crash
  PROVE  /\ WinInv'
         /\ phase = "documenting" /\ phase' = "documenting" => UNCHANGED doc
<1>1. ASSUME NEW p \in Projects, StartBuild(p) \/ ReadFails(p)
      PROVE  WinInv' /\ phase = "idle"
  <2>1. phase = "idle" /\ task' = task /\ doc' = [e \in Elements |-> 0]
    BY <1>1 DEF StartBuild, ReadFails, Fresh
  <2>2. \A e \in Elements : task'[e].at \in {"unstarted", "done"}
    BY <2>1 DEF ActiveInv, At
  <2>3. QED
    BY <2>1, <2>2, NoQuery DEF WinInv, DocumentedIsFound
<1>2. CASE NextProvider
  <2>1. /\ UNCHANGED <<phase, cache, doc>>
        /\ \A e \in Elements : task'[e].at \in {"unstarted", "done"}
    BY <1>2 DEF NextProvider, NoTask
  <2>2. DocumentedIsFound'
    BY <2>1, CacheKept DEF WinInv, DocumentedIsFound
  <2>3. QED
    BY <2>1, <2>2, NoQuery DEF WinInv
<1>3. CASE ReportFailures \/ Crash
  <2>1. phase' # "documenting" /\ task' = [e \in Elements |-> NoTask]
    BY <1>3 DEF ReportFailures, Crash
  <2>2. \A e \in Elements : task'[e].at \in {"unstarted", "done"}
    BY <2>1 DEF NoTask
  <2>3. QED
    BY <2>1, <2>2, NoQuery DEF WinInv, DocumentedIsFound
<1>4. CASE Touch \/ BeginWrite \/ EndWrite
  <2>1. phase # "documenting" /\ phase' # "documenting" /\ task' = task
    BY <1>4 DEF Touch, BeginWrite, EndWrite, EndBuild
  <2>2. \A e \in Elements : task'[e].at \in {"unstarted", "done"}
    BY <2>1 DEF ActiveInv, At
  <2>3. QED
    BY <2>1, <2>2, NoQuery DEF WinInv, DocumentedIsFound
<1>5. QED
  BY <1>1, <1>2, <1>3, <1>4 DEF Finish

LEMMA NextWins ==
  ASSUME TypeOK, ActiveInv, WinInv, NamesDiffer, [Next]_vars
  PROVE  /\ WinInv'
         /\ phase = "documenting" /\ phase' = "documenting" =>
              \A e \in Elements : doc[e] # 0 => doc'[e] = doc[e]
<1>1. ASSUME UNCHANGED <<phase, provider, cache, doc, task>>
      PROVE  WinInv'
  BY <1>1, CacheKept DEF WinInv, DocumentedIsFound, QueriedIsNew, FoundIsProviders
<1>2. CASE UNCHANGED vars
  BY <1>1, <1>2 DEF vars, build
<1>3. ASSUME NEW e \in Elements, LogError(e)
      PROVE  WinInv' /\ UNCHANGED doc
  BY <1>1, <1>3 DEF LogError, Others
<1>4. QED
  BY <1>2, <1>3, BuildWins, DocumentWins DEF Next, vars, build

(* Within a build, an element keeps the documentation of the first         *)
(* provider that had some, however the queries of the elements interleave  *)
(* and whichever of them are of the same name.                             *)
THEOREM FirstProviderDocuments == NamesDiffer => (Spec => FirstProviderWins)
<1> DEFINE Keeps == \A e \in Elements :
                      phase = "documenting" /\ phase' = "documenting" /\ doc[e] # 0
                      => doc'[e] = doc[e]
<1>1. Init => WinInv
  BY DEF Init, WinInv, DocumentedIsFound, QueriedIsNew, FoundIsProviders, Found, Waits,
     Leaves, NoTask
<1>2. NamesDiffer \in BOOLEAN
  BY DEF NamesDiffer
<1>3. CASE NamesDiffer
  <2>1. WinInv /\ TypeOK /\ ActiveInv /\ [Next]_vars => WinInv' /\ Keeps
    BY <1>3, NextWins
  <2>2. Spec => [][Keeps]_vars
    BY <1>1, <2>1, TypeCorrect, PTL DEF Spec
  <2>3. QED
    BY <2>2 DEF FirstProviderWins
<1>4. QED
  BY <1>3

-----------------------------------------------------------------------------
(* A build that reads a project's file has every name the file has ever    *)
(* listed in its cache, and loses none of them before it writes; only the  *)
(* file of a project that was killed in the middle of writing is another   *)
(* matter, and no build reads that one again.                              *)

Remembered ==
  phase # "idle" => listed[project] \subseteq NamesIn(cache) \/ project \in killed

LEMMA NamesInHas ==
  ASSUME NEW items \in Seq(Item)
  PROVE  \A n : n \in NamesIn(items) <=> \E i \in DOMAIN items : n \in items[i].names
BY DEF NamesIn

LEMMA FoundIsListed ==
  ASSUME cache \in Seq(Item), NEW n, Find(n) # NoItem
  PROVE  n \in NamesIn(cache)
<1>1. PICK i : i \in Hits(n)
  BY DEF Find
<1>2. QED
  BY <1>1 DEF Hits, NamesIn

LEMMA Written ==
  ASSUME TypeOK, EndWrite
  PROVE  /\ file' = [file EXCEPT ![project] = [state |-> "whole", items |-> Clean(cache)]]
         /\ file'[project].state = "whole" /\ file'[project].items = Clean(cache)
         /\ \A p \in Projects : p # project => file'[p] = file[p]
BY DEF EndWrite, TypeOK

LEMMA CacheGrows ==
  ASSUME TypeOK, ActiveInv, NEW e \in Elements, Document(e)
  PROVE  NamesIn(cache) \subseteq NamesIn(cache')
<1>1. UNCHANGED cache \/ Attach(e)
  BY DEF Document, StartUnnamed, StartCached, StartQuery, FindsItem, Never, Fail,
     Throw, Retry, BeginReport, EndReport
<1>2. CASE UNCHANGED cache
  BY <1>2
<1>3. CASE Attach(e)
  <2>1. cache' = Append(cache, AddName(task[e].found, NameOf[e])) /\ cache \in Seq(Item)
    BY <1>3 DEF Attach, TypeOK
  <2>2. \A i \in DOMAIN cache : i \in DOMAIN cache' /\ cache'[i] = cache[i]
    BY <2>1
  <2>3. QED
    BY <2>2 DEF NamesIn
<1>4. QED
  BY <1>1, <1>2, <1>3

(* Nothing that documents an element or counts failures touches the files. *)
LEMMA KeepsLedger ==
  ASSUME TypeOK, ActiveInv, NothingForgotten, Remembered,
         UNCHANGED <<file, project, ledger>>, phase # "writing" /\ phase' # "writing",
         phase' # "idle" => phase # "idle" /\ NamesIn(cache) \subseteq NamesIn(cache')
  PROVE  NothingForgotten' /\ Remembered'
<1>1. listed' = listed /\ killed' = killed
  BY DEF ledger
<1>2. NothingForgotten'
  BY <1>1 DEF NothingForgotten
<1>3. Remembered'
  BY <1>1 DEF Remembered
<1>4. QED
  BY <1>2, <1>3

LEMMA NextRemembers ==
  ASSUME TypeOK, ActiveInv, NothingForgotten, Remembered, [Next]_vars
  PROVE  NothingForgotten' /\ Remembered'
<1>1. CASE UNCHANGED vars
  BY <1>1 DEF vars, build, ledger, NothingForgotten, Remembered
<1>2. ASSUME NEW e \in Elements, Document(e)
      PROVE  NothingForgotten' /\ Remembered'
  <2>1. phase = "documenting" /\ UNCHANGED Others
    BY <1>2, DocumentEffect
  <2>2. NamesIn(cache) \subseteq NamesIn(cache')
    BY <1>2, CacheGrows
  <2>3. QED
    BY <2>1, <2>2, KeepsLedger DEF Others
<1>3. ASSUME NEW e \in Elements, LogError(e)
      PROVE  NothingForgotten' /\ Remembered'
  BY <1>3 DEF LogError, Others, ledger, NothingForgotten, Remembered
<1>4. ASSUME NEW p \in Projects, StartBuild(p)
      PROVE  NothingForgotten' /\ Remembered'
  <2>1. /\ phase = "idle" /\ phase' = "documenting" /\ project' = p
        /\ file' = file /\ listed' = listed /\ killed' = killed
        /\ cache' = file[p].items
    BY <1>4 DEF StartBuild, Fresh, ledger
  <2>2. \A q \in Projects : listed[q] \subseteq NamesIn(file[q].items) \/ q \in killed
    BY <2>1 DEF NothingForgotten
  <2>3. NothingForgotten'
    BY <2>1, <2>2 DEF NothingForgotten
  <2>4. Remembered'
    BY <2>1, <2>2 DEF Remembered
  <2>5. QED
    BY <2>3, <2>4
<1>5. ASSUME NEW p \in Projects, ReadFails(p)
      PROVE  NothingForgotten' /\ Remembered'
  BY <1>5 DEF ReadFails, Fresh, ledger, NothingForgotten, Remembered
<1>6. CASE NextProvider \/ ReportFailures \/ Touch
  <2>1. /\ UNCHANGED <<file, project, ledger>>
        /\ phase # "writing" /\ phase' # "writing"
        /\ phase' # "idle" => phase # "idle" /\ cache' = cache
    BY <1>6 DEF NextProvider, AllDone, ReportFailures, Touch, EndBuild
  <2>2. QED
    BY <2>1, KeepsLedger
<1>7. CASE BeginWrite
  <2>1. /\ phase = "saving" /\ phase' = "writing" /\ project' = project
        /\ listed' = listed /\ killed' = killed /\ cache' = cache
    BY <1>7 DEF BeginWrite, ledger
  <2>2. \A q \in Projects : q # project => file'[q] = file[q]
    BY <1>7 DEF BeginWrite, TypeOK
  <2>3. NothingForgotten'
    BY <2>1, <2>2 DEF NothingForgotten
  <2>4. Remembered'
    BY <2>1 DEF Remembered
  <2>5. QED
    BY <2>3, <2>4
<1>8. CASE EndWrite
  <2>1. /\ phase = "writing" /\ phase' = "idle" /\ project' = project
        /\ killed' = killed
        /\ listed' = [listed EXCEPT ![project] = @ \cup NamesIn(file'[project].items)]
    BY <1>8 DEF EndWrite, EndBuild, Note
  <2>2. NamesIn(file'[project].items) = NamesIn(cache)
    BY <1>8, Written, CleanNames DEF TypeOK
  <2>3. listed[project] \subseteq NamesIn(file'[project].items) \/ project \in killed
    BY <2>1, <2>2 DEF Remembered
  <2>4. /\ listed'[project] = listed[project] \cup NamesIn(file'[project].items)
        /\ \A q \in Projects : q # project => listed'[q] = listed[q] /\ file'[q] = file[q]
    BY <1>8, <2>1, Written DEF TypeOK
  <2>5. NothingForgotten'
    <3> SUFFICES ASSUME NEW q \in Projects
                 PROVE  listed'[q] \subseteq NamesIn(file'[q].items) \/ q \in killed'
      BY DEF NothingForgotten
    <3>1. CASE q = project
      BY <2>1, <2>3, <2>4, <3>1
    <3>2. CASE q # project
      BY <2>1, <2>4, <3>2 DEF NothingForgotten
    <3>3. QED
      BY <3>1, <3>2
  <2>6. Remembered'
    BY <2>1 DEF Remembered
  <2>7. QED
    BY <2>5, <2>6
<1>9. CASE Crash
  <2>1. /\ phase' = "idle" /\ file' = file /\ listed' = listed
        /\ killed \subseteq killed' /\ (phase = "writing" => project \in killed')
    BY <1>9 DEF Crash
  <2>2. NothingForgotten'
    BY <2>1 DEF NothingForgotten
  <2>3. Remembered'
    BY <2>1 DEF Remembered
  <2>4. QED
    BY <2>2, <2>3
<1>10. QED
  BY <1>1, <1>2, <1>3, <1>4, <1>5, <1>6, <1>7, <1>8, <1>9 DEF Next, Finish

(* Over any number of builds, failed, killed or not, of any projects, and  *)
(* whatever the providers answer, a file keeps every name it ever listed;  *)
(* the exception is a kill in the middle of writing it.                    *)
THEOREM FileForgetsNothing == Spec => []NothingForgotten
<1>1. Init => NothingForgotten /\ Remembered
  BY DEF Init, NothingForgotten, Remembered
<1>2. TypeOK /\ ActiveInv /\ NothingForgotten /\ Remembered /\ [Next]_vars
      => NothingForgotten' /\ Remembered'
  BY NextRemembers
<1>3. QED
  BY <1>1, <1>2, TypeCorrect, PTL DEF Spec

-----------------------------------------------------------------------------
(* What a build has learnt is in its cache, and of what is not dirty the   *)
(* file has the names already.  An item of an earlier build is not dirty,  *)
(* so that the file it was written to must be this one: providers do not   *)
(* remember items, or there is one project.                                *)

RemembersHere == ~Memoise \/ \A p, q \in Projects : p = q

Saved == NamesIn(file[project].items)

UnreadableIsEmpty == \A p \in Projects : file[p].state # "whole" => file[p].items = <<>>

WrittenIsSaved ==
  /\ ~Memoise => written = {}
  /\ \A item \in written :
       item.names \subseteq IF phase = "writing" THEN NamesIn(cache) ELSE Saved

LearntIsCached ==
  phase # "idle" => \A e \in Elements : doc[e] # 0 => NameOf[e] \in NamesIn(cache)

CleanIsSaved ==
  phase \in {"documenting", "saving"} =>
    /\ Saved \subseteq NamesIn(cache)
    /\ \A i \in DOMAIN cache : cache[i].dirty \/ cache[i].names \subseteq Saved

FoundIsSaved ==
  \A e \in Elements :
    Found(task[e]) => task[e].found.dirty \/ task[e].found.names \subseteq Saved

LearntIsSaved == phase = "idle" => \A e \in Elements : doc[e] # 0 => NameOf[e] \in Saved

SavedInv == /\ UnreadableIsEmpty /\ WrittenIsSaved /\ LearntIsCached
            /\ CleanIsSaved /\ FoundIsSaved /\ LearntIsSaved

LEMMA AppendNames ==
  ASSUME cache \in Seq(Item), NEW item \in Item, cache' = Append(cache, item)
  PROVE  /\ NamesIn(cache) \subseteq NamesIn(cache') /\ item.names \subseteq NamesIn(cache')
         /\ \A i \in DOMAIN cache' : \/ i \in DOMAIN cache /\ cache'[i] = cache[i]
                                     \/ cache'[i] = item
<1>1. PICK m \in Nat : m = Len(cache) /\ DOMAIN cache = 1..m
  OBVIOUS
<1>2. /\ DOMAIN cache' = 1..(m + 1)
      /\ \A i \in 1..m : cache'[i] = cache[i]
      /\ cache'[m + 1] = item
  BY <1>1
<1>3. \A i \in 1..(m + 1) : i \in 1..m \/ i = m + 1
  BY <1>1
<1>4. 1..m \subseteq 1..(m + 1) /\ m + 1 \in 1..(m + 1)
  BY <1>1
<1>5. NamesIn(cache) \subseteq NamesIn(cache')
  BY <1>1, <1>2, <1>4 DEF NamesIn
<1>6. item.names \subseteq NamesIn(cache')
  BY <1>2, <1>4 DEF NamesIn
<1>7. QED
  BY <1>1, <1>2, <1>3, <1>5, <1>6

LEMMA DocumentSaves ==
  ASSUME TypeOK, ActiveInv, SavedInv, NamesDiffer, NEW e \in Elements, Document(e)
  PROVE  SavedInv'
<1>1. phase = "documenting" /\ UNCHANGED <<file, written, phase, project>>
  BY DocumentEffect DEF Others
<1>2. PICK t \in Task : QueryEffect(e, t)
  BY DocumentEffect
<1>3. /\ task'[e] = t
      /\ \A u \in Elements : u # e => task'[u] = task[u]
  BY <1>2, StepType DEF QueryEffect, TypeOK
<1>4. cache \in Seq(Item) /\ doc \in [Elements -> {0} \cup Providers]
  BY DEF TypeOK
<1>5. Saved' = Saved
  BY <1>1 DEF Saved
<1>6. UnreadableIsEmpty' /\ WrittenIsSaved' /\ LearntIsSaved'
  BY <1>1, <1>5 DEF SavedInv, UnreadableIsEmpty, WrittenIsSaved, LearntIsSaved
<1>7. CASE /\ UNCHANGED <<cache, doc>>
           /\ Found(t) => \/ Found(task[e]) /\ t.found = task[e].found
                          \/ Answer(t.found)
  <2>1. LearntIsCached' /\ CleanIsSaved'
    BY <1>1, <1>5, <1>7 DEF SavedInv, LearntIsCached, CleanIsSaved
  <2>2. Found(t) => t.found.dirty \/ t.found.names \subseteq Saved
    BY <1>1, <1>7 DEF SavedInv, FoundIsSaved, WrittenIsSaved, Answer
  <2>3. FoundIsSaved'
    BY <1>3, <1>5, <2>2 DEF SavedInv, FoundIsSaved
  <2>4. QED
    BY <1>6, <2>1, <2>3 DEF SavedInv
<1>8. ASSUME t.at = "done"
      PROVE  FoundIsSaved'
  <2>1. ~Found(t)
    BY <1>8 DEF Found, Leaves
  <2>2. QED
    BY <1>3, <1>5, <2>1 DEF SavedInv, FoundIsSaved
<1>9. CASE t.at = "done" /\ StartCached(e)
  <2>1. /\ doc' = [doc EXCEPT ![e] = Find(NameOf[e]).from] /\ cache' = cache
        /\ Find(NameOf[e]) # NoItem
    BY <1>9 DEF StartCached
  <2>2. NameOf[e] \in NamesIn(cache)
    BY <1>4, <2>1, FoundIsListed
  <2>3. LearntIsCached'
    BY <1>1, <1>4, <2>1, <2>2 DEF SavedInv, LearntIsCached
  <2>4. CleanIsSaved'
    BY <1>1, <1>5, <2>1 DEF SavedInv, CleanIsSaved
  <2>5. QED
    BY <1>6, <1>8, <1>9, <2>3, <2>4 DEF SavedInv
<1>10. CASE t.at = "done" /\ Attach(e)
  <2>1. Found(task[e]) /\ doc' = [doc EXCEPT ![e] = task[e].found.from]
    BY <1>10, AttachEffect
  <2>2. PICK item \in Item : /\ cache' = Append(cache, item)
                             /\ NameOf[e] \in item.names
                             /\ item = task[e].found \/ item.dirty
    BY <1>10, AttachEffect
  <2>3. /\ NamesIn(cache) \subseteq NamesIn(cache') /\ item.names \subseteq NamesIn(cache')
        /\ \A i \in DOMAIN cache' : \/ i \in DOMAIN cache /\ cache'[i] = cache[i]
                                    \/ cache'[i] = item
    BY <1>4, <2>2, AppendNames
  <2>4. item.dirty \/ item.names \subseteq Saved
    BY <2>1, <2>2 DEF SavedInv, FoundIsSaved
  <2>5. \A u \in Elements : doc'[u] # 0 => NameOf[u] \in NamesIn(cache')
    <3> SUFFICES ASSUME NEW u \in Elements, doc'[u] # 0
                 PROVE  NameOf[u] \in NamesIn(cache')
      OBVIOUS
    <3>1. CASE u = e
      BY <2>2, <2>3, <3>1
    <3>2. CASE u # e
      BY <1>1, <1>4, <2>1, <2>3, <3>2 DEF SavedInv, LearntIsCached
    <3>3. QED
      BY <3>1, <3>2
  <2>6. LearntIsCached'
    BY <2>5 DEF LearntIsCached
  <2>7. /\ Saved \subseteq NamesIn(cache')
        /\ \A i \in DOMAIN cache' : cache'[i].dirty \/ cache'[i].names \subseteq Saved
    BY <1>1, <2>3, <2>4 DEF SavedInv, CleanIsSaved
  <2>8. CleanIsSaved'
    BY <1>5, <2>7 DEF CleanIsSaved
  <2>9. QED
    BY <1>6, <1>8, <1>10, <2>6, <2>8 DEF SavedInv
<1>11. QED
  BY <1>2, <1>7, <1>9, <1>10 DEF QueryEffect

LEMMA NothingFound ==
  ASSUME \A e \in Elements : task'[e].at \in {"unstarted", "done"}
  PROVE  FoundIsSaved'
BY DEF FoundIsSaved, Found, Leaves

LEMMA BeginsSaved ==
  ASSUME TypeOK, ActiveInv, SavedInv, RemembersHere, NEW p \in Projects,
         StartBuild(p) \/ ReadFails(p)
  PROVE  SavedInv'
<1>1. /\ phase = "idle" /\ UNCHANGED <<file, written, task>> /\ project' = p
      /\ doc' = [e \in Elements |-> 0] /\ project \in Projects
  BY DEF StartBuild, ReadFails, Fresh, TypeOK
<1>2. UnreadableIsEmpty' /\ LearntIsCached' /\ LearntIsSaved'
  BY <1>1 DEF SavedInv, UnreadableIsEmpty, LearntIsCached, LearntIsSaved
<1>3. FoundIsSaved'
  <2>1. \A e \in Elements : task'[e].at \in {"unstarted", "done"}
    BY <1>1 DEF ActiveInv, At
  <2>2. QED
    BY <2>1, NothingFound
<1>4. phase' # "writing"
  BY <1>1 DEF StartBuild, ReadFails
<1>5. written = {} \/ project' = project
  BY <1>1 DEF RemembersHere, SavedInv, WrittenIsSaved
<1>6. WrittenIsSaved'
  BY <1>1, <1>4, <1>5 DEF SavedInv, WrittenIsSaved, Saved
<1>7. CleanIsSaved'
  <2>1. CASE StartBuild(p)
    <3>1. cache' = file[p].items /\ Saved' = NamesIn(file[p].items)
      BY <1>1, <2>1 DEF StartBuild, Saved
    <3>2. \A i \in DOMAIN cache' : cache'[i].names \subseteq NamesIn(cache')
      BY DEF NamesIn
    <3>3. QED
      BY <3>1, <3>2 DEF CleanIsSaved
  <2>2. CASE ReadFails(p)
    BY <1>1, <2>2 DEF ReadFails, CleanIsSaved
  <2>3. QED
    BY <2>1, <2>2
<1>8. QED
  BY <1>2, <1>3, <1>6, <1>7 DEF SavedInv

LEMMA PassesSaved ==
  ASSUME TypeOK, ActiveInv, SavedInv, NextProvider \/ ReportFailures
  PROVE  SavedInv'
<1>1. /\ phase = "documenting" /\ phase' \in {"documenting", "saving"}
      /\ UNCHANGED <<file, written, project, cache, doc>>
      /\ task' = [e \in Elements |-> NoTask]
  BY DEF NextProvider, ReportFailures, AllDone
<1>2. Saved' = Saved
  BY <1>1 DEF Saved
<1>3. \A e \in Elements : task'[e].at \in {"unstarted", "done"}
  BY <1>1 DEF NoTask
<1>4. FoundIsSaved'
  BY <1>3, NothingFound
<1>5. UnreadableIsEmpty' /\ WrittenIsSaved' /\ LearntIsCached' /\ CleanIsSaved' /\ LearntIsSaved'
  BY <1>1, <1>2
  DEF SavedInv, UnreadableIsEmpty, WrittenIsSaved, LearntIsCached, CleanIsSaved, LearntIsSaved
<1>6. QED
  BY <1>4, <1>5 DEF SavedInv

LEMMA EndsSaved ==
  ASSUME TypeOK, ActiveInv, SavedInv, Touch \/ BeginWrite \/ EndWrite \/ Crash
  PROVE  SavedInv'
<1>0. /\ cache \in Seq(Item) /\ file \in [Projects -> File] /\ project \in Projects
      /\ written \subseteq Item
  BY DEF TypeOK
<1>1. FoundIsSaved'
  <2>1. \A e \in Elements : task'[e].at \in {"unstarted", "done"}
    <3>1. CASE Touch \/ BeginWrite \/ EndWrite
      <4>1. phase # "documenting" /\ task' = task
        BY <3>1 DEF Touch, BeginWrite, EndWrite, EndBuild
      <4>2. QED
        BY <4>1 DEF ActiveInv, At
    <3>2. CASE Crash
      BY <3>2 DEF Crash, NoTask
    <3>3. QED
      BY <3>1, <3>2
  <2>2. QED
    BY <2>1, NothingFound
<1>2. CASE Touch
  <2>1. /\ phase = "saving" /\ phase' = "idle"
        /\ UNCHANGED <<file, written, project, doc>> /\ ~Dirty
    BY <1>2 DEF Touch, EndBuild
  <2>2. Saved' = Saved
    BY <2>1 DEF Saved
  <2>3. NamesIn(cache) \subseteq Saved
    <3>1. \A i \in DOMAIN cache : cache[i].names \subseteq Saved
      BY <2>1 DEF Dirty, SavedInv, CleanIsSaved
    <3>2. QED
      BY <3>1 DEF NamesIn
  <2>4. LearntIsSaved'
    BY <2>1, <2>2, <2>3 DEF SavedInv, LearntIsCached, LearntIsSaved
  <2>5. UnreadableIsEmpty' /\ WrittenIsSaved' /\ LearntIsCached' /\ CleanIsSaved'
    BY <2>1, <2>2 DEF SavedInv, UnreadableIsEmpty, WrittenIsSaved, LearntIsCached, CleanIsSaved
  <2>6. QED
    BY <1>1, <2>4, <2>5 DEF SavedInv
<1>3. CASE BeginWrite
  <2>1. /\ phase = "saving" /\ phase' = "writing"
        /\ UNCHANGED <<written, project, cache, doc>>
        /\ file' = [file EXCEPT ![project] = TornFile]
    BY <1>3 DEF BeginWrite
  <2>2. UnreadableIsEmpty'
    BY <1>0, <2>1 DEF SavedInv, UnreadableIsEmpty, TornFile
  <2>3. \A item \in written : item.names \subseteq NamesIn(cache)
    BY <2>1 DEF SavedInv, WrittenIsSaved, CleanIsSaved
  <2>4. WrittenIsSaved' /\ LearntIsCached' /\ CleanIsSaved' /\ LearntIsSaved'
    BY <2>1, <2>3
    DEF SavedInv, WrittenIsSaved, LearntIsCached, CleanIsSaved, LearntIsSaved
  <2>5. QED
    BY <1>1, <2>2, <2>4 DEF SavedInv
<1>4. CASE EndWrite
  <2>1. /\ phase = "writing" /\ phase' = "idle" /\ UNCHANGED <<project, doc>>
        /\ written' = IF Memoise THEN written \cup {Clean(cache)[i] : i \in DOMAIN cache}
                      ELSE written
    BY <1>4 DEF EndWrite, EndBuild
  <2>2. /\ file'[project].state = "whole" /\ file'[project].items = Clean(cache)
        /\ \A p \in Projects : p # project => file'[p] = file[p]
    BY <1>4, Written
  <2>3. /\ NamesIn(Clean(cache)) = NamesIn(cache)
        /\ \A i \in DOMAIN cache : Clean(cache)[i].names = cache[i].names
    BY <1>0, CleanNames
  <2>4. Saved' = NamesIn(cache)
    BY <2>1, <2>2, <2>3 DEF Saved
  <2>5. UnreadableIsEmpty'
    BY <2>2 DEF SavedInv, UnreadableIsEmpty
  <2>6. \A i \in DOMAIN cache : Clean(cache)[i].names \subseteq NamesIn(cache)
    BY <2>3 DEF NamesIn
  <2>7. \A item \in written' : item.names \subseteq NamesIn(cache)
    BY <2>1, <2>6 DEF SavedInv, WrittenIsSaved
  <2>8. ~Memoise => written' = {}
    BY <2>1 DEF SavedInv, WrittenIsSaved
  <2>9. WrittenIsSaved'
    BY <2>1, <2>4, <2>7, <2>8 DEF WrittenIsSaved
  <2>10. LearntIsCached' /\ CleanIsSaved' /\ LearntIsSaved'
    BY <2>1, <2>4 DEF SavedInv, LearntIsCached, CleanIsSaved, LearntIsSaved
  <2>11. QED
    BY <1>1, <2>5, <2>9, <2>10 DEF SavedInv
<1>5. CASE Crash
  <2>1. /\ phase' = "idle" /\ written' = {} /\ file' = file
        /\ doc' = [e \in Elements |-> 0]
    BY <1>5 DEF Crash, Fresh
  <2>2. UnreadableIsEmpty' /\ WrittenIsSaved' /\ LearntIsCached' /\ CleanIsSaved'
        /\ LearntIsSaved'
    BY <2>1
    DEF SavedInv, UnreadableIsEmpty, WrittenIsSaved, LearntIsCached, CleanIsSaved, LearntIsSaved
  <2>3. QED
    BY <1>1, <2>2 DEF SavedInv
<1>6. QED
  BY <1>2, <1>3, <1>4, <1>5

LEMMA NextSaved ==
  ASSUME TypeOK, ActiveInv, SavedInv, NamesDiffer, RemembersHere, [Next]_vars
  PROVE  SavedInv'
<1>1. ASSUME UNCHANGED <<file, written, phase, project, cache, doc, task>>
      PROVE  SavedInv'
  <2>1. Saved' = Saved
    BY <1>1 DEF Saved
  <2>2. QED
    BY <1>1, <2>1 DEF SavedInv, UnreadableIsEmpty, WrittenIsSaved, LearntIsCached,
       CleanIsSaved, FoundIsSaved, LearntIsSaved
<1>2. CASE UNCHANGED vars
  BY <1>1, <1>2 DEF vars, build
<1>3. ASSUME NEW e \in Elements, LogError(e)
      PROVE  SavedInv'
  BY <1>1, <1>3 DEF LogError, Others
<1>4. QED
  BY <1>2, <1>3, DocumentSaves, BeginsSaved, PassesSaved, EndsSaved DEF Next, Finish

LEMMA InitSaved == Init => SavedInv
<1> SUFFICES ASSUME Init
             PROVE  SavedInv
  OBVIOUS
<1>1. UnreadableIsEmpty
  BY DEF Init, UnreadableIsEmpty, NoFile
<1>2. WrittenIsSaved /\ LearntIsCached /\ CleanIsSaved /\ FoundIsSaved /\ LearntIsSaved
  BY DEF Init, WrittenIsSaved, LearntIsCached, CleanIsSaved, FoundIsSaved, LearntIsSaved,
     Found, Leaves, NoTask
<1>3. QED
  BY <1>1, <1>2 DEF SavedInv

(* However queries interleave, and whether the file is written or only     *)
(* touched, at the end of a build every documented element's name is in    *)
(* its project's file.                                                     *)
THEOREM LearntIsKept == NamesDiffer /\ RemembersHere => (Spec => []DocumentedIsSaved)
<1>1. ASSUME TypeOK, SavedInv
      PROVE  DocumentedIsSaved
  <2> SUFFICES ASSUME phase = "idle", NEW e \in Elements, doc[e] # 0
               PROVE  /\ file[project].state = "whole"
                      /\ NameOf[e] \in NamesIn(file[project].items)
    BY DEF DocumentedIsSaved
  <2>1. NameOf[e] \in NamesIn(file[project].items)
    BY <1>1 DEF SavedInv, LearntIsSaved, Saved
  <2>2. file[project].items # <<>>
    BY <2>1 DEF NamesIn
  <2>3. QED
    BY <1>1, <2>1, <2>2 DEF SavedInv, UnreadableIsEmpty, TypeOK
<1>2. NamesDiffer \in BOOLEAN /\ RemembersHere \in BOOLEAN
  BY DEF NamesDiffer, RemembersHere
<1>3. CASE NamesDiffer /\ RemembersHere
  <2>1. SavedInv /\ TypeOK /\ ActiveInv /\ [Next]_vars => SavedInv'
    BY <1>3, NextSaved
  <2>2. TypeOK /\ SavedInv => DocumentedIsSaved
    BY <1>1
  <2>3. QED
    BY <2>1, <2>2, InitSaved, TypeCorrect, PTL DEF Spec
<1>4. QED
  BY <1>3

-----------------------------------------------------------------------------
(* A failure that is treated as an error has a provider behind it that     *)
(* threw for the same query and asks for that treatment.                   *)

Blamed(f) == f.treat => \E q \in threw : q.query = f.query /\ Treat[q.provider]

ErrorsAreThrown ==
  errors => \E q \in threw : Treat[q.provider] /\ q.query \notin Silenced

ReasonInv ==
  /\ \A f \in failures : Blamed(f)
  /\ \A e \in Elements : At(e, "reporting") => \A f \in task[e].seen : Blamed(f)
  /\ \A e \in Elements : WillReport(task[e]) => Own(e) \in threw
  /\ phase = "documenting" => ~errors
  /\ phase # "idle" => ErrorsAreThrown

LEMMA DocumentReasons ==
  ASSUME TypeOK, ActiveInv, ReasonInv, NEW e \in Elements, Document(e)
  PROVE  ReasonInv'
<1>1. /\ phase = "documenting" /\ UNCHANGED <<phase, provider, errors>>
      /\ threw \subseteq threw' /\ (UNCHANGED failures \/ EndReport(e))
  BY DocumentEffect DEF Others
<1>2. PICK t \in Task : QueryEffect(e, t)
  BY DocumentEffect
<1>3. /\ task'[e] = t
      /\ \A u \in Elements : u # e => task'[u] = task[u]
  BY <1>2, StepType DEF QueryEffect, TypeOK
<1>4. \A f : Blamed(f) => Blamed(f)'
  BY <1>1 DEF Blamed
<1>5. \A f \in failures' : Blamed(f)
  <2>1. CASE UNCHANGED failures
    BY <2>1 DEF ReasonInv
  <2>2. CASE EndReport(e)
    <3>1. task[e].at = "reporting"
      BY <2>2 DEF EndReport, At
    <3>2. Own(e) \in threw /\ \A f \in task[e].seen : Blamed(f)
      BY <3>1 DEF ReasonInv, WillReport, At
    <3>3. Blamed(Failure(e))
      BY <3>2 DEF Blamed, Failure, Own
    <3>4. \A f \in failures' : f \in failures \/ f \in task[e].seen \/ f = Failure(e)
      BY <2>2 DEF EndReport
    <3>5. QED
      BY <3>2, <3>3, <3>4 DEF ReasonInv
  <2>3. QED
    BY <1>1, <2>1, <2>2
<1>6. \A f \in failures' : Blamed(f)'
  BY <1>4, <1>5
<1>7. \A u \in Elements : At(u, "reporting")' => \A f \in task'[u].seen : Blamed(f)'
  <2> SUFFICES ASSUME NEW u \in Elements, At(u, "reporting")', NEW f \in task'[u].seen
               PROVE  Blamed(f)'
    OBVIOUS
  <2>1. CASE u = e
    <3>1. f \in failures
      BY <1>2, <1>3, <2>1 DEF QueryEffect, At
    <3>2. QED
      BY <1>4, <3>1 DEF ReasonInv
  <2>2. CASE u # e
    BY <1>3, <1>4, <2>2 DEF ReasonInv, At
  <2>3. QED
    BY <2>1, <2>2
<1>8. \A u \in Elements : WillReport(task'[u]) => Own(u)' \in threw'
  <2>1. \A u \in Elements : Own(u)' = Own(u)
    BY <1>1 DEF Own
  <2>2. \A u \in Elements : WillReport(task[u]) => Own(u) \in threw'
    BY <1>1 DEF ReasonInv
  <2>3. WillReport(t) => Own(e) \in threw'
    BY <1>2, <2>2 DEF QueryEffect
  <2>4. QED
    BY <1>3, <2>1, <2>2, <2>3
<1>9. ~errors'
  BY <1>1 DEF ReasonInv
<1>10. QED
  BY <1>6, <1>7, <1>8, <1>9 DEF ReasonInv, WillReport, ErrorsAreThrown

LEMMA NoReport ==
  ASSUME \A e \in Elements : task'[e].at \in {"unstarted", "done"}
  PROVE  /\ \A e \in Elements : At(e, "reporting")' => \A f \in task'[e].seen : Blamed(f)'
         /\ \A e \in Elements : WillReport(task[e])' => (Own(e) \in threw)'
BY DEF At, WillReport

LEMMA BuildReasons ==
  ASSUME TypeOK, ActiveInv, ReasonInv,
         \/ \E p \in Projects : StartBuild(p) \/ ReadFails(p)
         \/ Finish
         \/ Crash
  PROVE  ReasonInv'
<1>1. \A e \in Elements : task'[e].at \in {"unstarted", "done"}
  <2>1. CASE phase # "documenting" /\ task' = task
    BY <2>1 DEF ActiveInv, At
  <2>2. CASE task' = [e \in Elements |-> NoTask]
    BY <2>2 DEF NoTask
  <2>3. \/ phase # "documenting" /\ task' = task
        \/ task' = [e \in Elements |-> NoTask]
    BY DEF StartBuild, ReadFails, Finish, NextProvider, ReportFailures, Touch, BeginWrite,
       EndWrite, EndBuild, Crash
  <2>4. QED
    BY <2>1, <2>2, <2>3
<1>2. ASSUME failures' = {}, errors' = FALSE
      PROVE  ReasonInv'
  BY <1>1, <1>2, NoReport DEF ReasonInv, ErrorsAreThrown
<1>3. ASSUME UNCHANGED <<failures, threw>>, phase' = "documenting" => ~errors',
             phase' # "idle" => ErrorsAreThrown'
      PROVE  ReasonInv'
  <2>1. \A f \in failures' : Blamed(f)'
    BY <1>3 DEF ReasonInv, Blamed
  <2>2. QED
    BY <1>1, <1>3, <2>1, NoReport DEF ReasonInv
<1>4. ASSUME NEW p \in Projects, StartBuild(p) \/ ReadFails(p)
      PROVE  ReasonInv'
  BY <1>2, <1>4 DEF StartBuild, ReadFails, Fresh
<1>5. CASE Crash
  BY <1>2, <1>5 DEF Crash, Fresh
<1>6. CASE NextProvider
  <2>1. UNCHANGED <<failures, threw, errors>> /\ phase = "documenting" /\ phase' = phase
    BY <1>6 DEF NextProvider, AllDone, history
  <2>2. QED
    BY <1>3, <2>1 DEF ReasonInv, ErrorsAreThrown
<1>7. CASE ReportFailures
  <2>1. /\ UNCHANGED <<failures, threw>> /\ phase' = "saving"
        /\ errors' = (\E f \in Unsilenced : f.treat)
    BY <1>7 DEF ReportFailures, history
  <2>2. ASSUME errors'
        PROVE  \E q \in threw' : Treat[q.provider] /\ q.query \notin Silenced
    <3>1. PICK f \in failures : f.treat /\ f.query \notin Silenced
      BY <2>1, <2>2 DEF Unsilenced
    <3>2. QED
      BY <2>1, <3>1 DEF ReasonInv, Blamed
  <2>3. QED
    BY <1>3, <2>1, <2>2 DEF ErrorsAreThrown
<1>8. CASE Touch \/ EndWrite
  <2>1. UNCHANGED <<failures, threw>> /\ phase' = "idle"
    BY <1>8 DEF Touch, EndWrite, EndBuild, history
  <2>2. QED
    BY <1>3, <2>1
<1>9. CASE BeginWrite
  <2>1. UNCHANGED <<failures, threw, errors>> /\ phase = "saving" /\ phase' = "writing"
    BY <1>9 DEF BeginWrite, history
  <2>2. QED
    BY <1>3, <2>1 DEF ReasonInv, ErrorsAreThrown
<1>10. QED
  BY <1>4, <1>5, <1>6, <1>7, <1>8, <1>9 DEF Finish

LEMMA NextReasons ==
  TypeOK /\ ActiveInv /\ ReasonInv /\ [Next]_vars => ReasonInv'
<1> SUFFICES ASSUME TypeOK, ActiveInv, ReasonInv, [Next]_vars
             PROVE  ReasonInv'
  OBVIOUS
<1>1. ASSUME UNCHANGED <<phase, provider, task, failures, errors, threw>>
      PROVE  ReasonInv'
  BY <1>1 DEF ReasonInv, Blamed, ErrorsAreThrown, Own, At, WillReport
<1>2. CASE UNCHANGED vars
  BY <1>1, <1>2 DEF vars, build, history
<1>3. ASSUME NEW e \in Elements, LogError(e)
      PROVE  ReasonInv'
  BY <1>1, <1>3 DEF LogError, Others
<1>4. QED
  BY <1>2, <1>3, BuildReasons, DocumentReasons DEF Next

(* No build that read its cache fails without reason: additions to the     *)
(* failures lose some, and take one provider's for another's of the same   *)
(* query, but make none up.                                                *)
THEOREM FailuresHaveReasons == Spec => []OnlyThrownFailsBuild
<1>1. Init => ReasonInv
  BY DEF Init, ReasonInv, ErrorsAreThrown, At, WillReport, NoTask
<1>2. ReasonInv => OnlyThrownFailsBuild
  BY DEF ReasonInv, ErrorsAreThrown, OnlyThrownFailsBuild
<1>3. QED
  BY <1>1, <1>2, NextReasons, TypeCorrect, PTL DEF Spec
=============================================================================
