--------------------------- MODULE CadJobsProofs ---------------------------
(***************************************************************************)
(* What CadJobs guarantees for all parameters, values and patches, however *)
(* many plans, changes and jobs there are.                                 *)
(***************************************************************************)
EXTENDS CadJobs, StreamLemmas

-----------------------------------------------------------------------------
(***************************************************************************)
(* Types.                                                                  *)
(***************************************************************************)
Settings == UNION {[D -> Values] : D \in SUBSET Params}

PlanEvents == [type : {"ChangePlanCreated"}, base : Nat, values : Settings]

AppliedEvents ==
    {e \in [type : {"ChangeApplied"}, plan : Nat, values : Settings, before : Settings,
            revision : Nat, noted : BOOLEAN, via : {"rest", "mcp"}] :
        DOMAIN e.before = DOMAIN e.values}

RevertedEvents ==
    {e \in [type : {"ChangeReverted"}, plan : Nat, target : Nat, values : Settings,
            revision : Nat, noted : BOOLEAN, via : {"rest"}] : DOMAIN e.values # {}}

AnnotationEvents == [type : {"AnnotationStatusChanged"}, status : {"resolved", "open"}]

RequestEvents == [type : {"GenerationRequested"}, plan : Nat, source : Nat]

\* Only a result that becomes the project's has values.
CompletedEvents ==
    {e \in [type : {"GenerationCompleted"}, job : Nat, plan : Nat,
            status : {"completed", "superseded"}, values : [Params -> Values] \cup {<<>>}] :
        IF e.status = "completed" THEN e.values \in [Params -> Values] ELSE e.values = <<>>}

FailedEvents == [type : {"GenerationFailed"}, job : Nat, plan : Nat]

OutsideEvents == [type : Outsiders]

\* What a handler stores behind its change, and what a task stores.
Followups == AnnotationEvents \cup RequestEvents
Outcomes  == CompletedEvents \cup FailedEvents

LoopEvents == PlanEvents \cup AppliedEvents \cup RevertedEvents \cup Followups \cup Outcomes

EventSet == LoopEvents \cup OutsideEvents

TaskSet ==
    [job : Nat, values : [Params -> Values], at : {"generating", "reporting", "telling"},
     told : {"nothing"} \cup OutcomeTypes, size : Nat]

Requests == At(log, {"GenerationRequested"})

LoopOK ==
    \/ loop = Idle
    \/ \E j \in Requests : loop = Spawning(j)
    \/ loop \in [at : {"reading"}, event : Followups \cup Outcomes, change : Nat]
    \/ /\ loop \in [at : {"sending"}, event : LoopEvents, change : Nat, basis : Nat]
       /\ loop.basis <= Len(log)

\* The type invariant: a job is a request of the stream, and the annotation
\* of a change is on its way behind that change only.
TypeOK ==
    /\ log \in Seq(EventSet)
    /\ LoopOK
    /\ loop.at \in {"reading", "sending"} /\ loop.event.type = "AnnotationStatusChanged"
        => loop.change \in At(log, ChangeTypes)
    /\ tasks \subseteq TaskSet /\ \A t \in tasks : t.job \in Requests
    /\ clients \in Nat

-----------------------------------------------------------------------------
(***************************************************************************)
(* Projections.                                                            *)
(***************************************************************************)

\* The events that set parameters.
LEMMA WritingTypes ==
    ASSUME NEW s \in Seq(EventSet), NEW p
    PROVE  /\ Writing(s, p) \subseteq 1 .. Len(s) /\ Len(s) \in Nat
           /\ \A i \in Writing(s, p) : s[i].values[p] \in Values
<1>1. Writing(s, p) \subseteq 1 .. Len(s) /\ Len(s) \in Nat
    BY DEF Writing, At
<1>2. ASSUME NEW i \in Writing(s, p) PROVE s[i].values[p] \in Values
    <2>1. /\ s[i] \in EventSet /\ p \in DOMAIN s[i].values
          /\ s[i].type \in ChangeTypes \cup {"GenerationCompleted"}
        BY <1>2 DEF Writing, At
    <2>2. CASE s[i].type \in ChangeTypes
        <3>1. s[i].values \in Settings
            BY <2>1, <2>2, CadAssumption DEF EventSet, LoopEvents, Followups, Outcomes, ChangeTypes,
                PlanEvents, AppliedEvents, RevertedEvents, AnnotationEvents, RequestEvents,
                CompletedEvents, FailedEvents, OutsideEvents
        <3> QED
            BY <2>1, <3>1 DEF Settings
    <2>3. CASE s[i].type = "GenerationCompleted"
        <3>1. s[i].values \in [Params -> Values] \cup {<<>>}
            BY <2>1, <2>3, CadAssumption DEF EventSet, LoopEvents, Followups, Outcomes,
                PlanEvents, AppliedEvents, RevertedEvents, AnnotationEvents, RequestEvents,
                CompletedEvents, FailedEvents, OutsideEvents
        <3> QED
            BY <2>1, <3>1
    <2> QED
        BY <2>1, <2>2, <2>3
<1> QED
    BY <1>1, <1>2

LEMMA ValuesTypes ==
    ASSUME NEW s \in Seq(EventSet), NEW D \in SUBSET Params
    PROVE  ValuesIn(s, D) \in [D -> Values]
<1>1. ASSUME NEW p \in D PROVE ValueIn(s, p) \in Values
    <2> DEFINE W == Writing(s, p)
    <2>1. W # {} => Max(W) \in W
        BY WritingTypes, LastPosition
    <2>2. W # {} => s[Max(W)].values[p] \in Values
        BY <2>1, WritingTypes
    <2>3. Initial[p] \in Values
        BY <1>1, CadAssumption
    <2> HIDE DEF W
    <2>4. ValueIn(s, p) = IF W = {} THEN Initial[p] ELSE s[Max(W)].values[p]
        BY DEF ValueIn, Last, W
    <2> QED
        BY <2>2, <2>3, <2>4
<1> QED
    BY <1>1 DEF ValuesIn

LEMMA RevisionTypes == ASSUME NEW s \in Seq(EventSet) PROVE Revision(s) \in Nat
<1> DEFINE C == At(s, ChangeTypes)
<1>1. C \subseteq 1 .. Len(s) /\ Len(s) \in Nat
    BY DEF At
<1>2. C # {} => Max(C) \in C
    BY <1>1, LastPosition
<1>3. ASSUME NEW i \in C PROVE s[i].revision \in Nat
    <2>1. s[i] \in EventSet /\ s[i].type \in ChangeTypes
        BY DEF At
    <2> QED
        BY <2>1, CadAssumption DEF EventSet, LoopEvents, Followups, Outcomes, ChangeTypes,
            PlanEvents, AppliedEvents, RevertedEvents, AnnotationEvents, RequestEvents,
            CompletedEvents, FailedEvents, OutsideEvents
<1> HIDE DEF C
<1>4. Revision(s) = IF C = {} THEN 0 ELSE s[Max(C)].revision
    BY DEF Revision, Last, C
<1> QED
    BY <1>2, <1>3, <1>4

\* The events of a type, with their fields.
LEMMA EventKinds ==
    ASSUME NEW e \in EventSet
    PROVE  /\ e.type = "ChangePlanCreated" => e \in PlanEvents
           /\ e.type = "ChangeApplied" => e \in AppliedEvents
           /\ e.type = "ChangeReverted" => e \in RevertedEvents
           /\ e.type = "AnnotationStatusChanged" => e \in AnnotationEvents
           /\ e.type = "GenerationRequested" => e \in RequestEvents
           /\ e.type = "GenerationCompleted" => e \in CompletedEvents
           /\ e.type = "GenerationFailed" => e \in FailedEvents
BY CadAssumption DEF EventSet, LoopEvents, Followups, Outcomes,
    PlanEvents, AppliedEvents, RevertedEvents, AnnotationEvents, RequestEvents,
    CompletedEvents, FailedEvents, OutsideEvents


-----------------------------------------------------------------------------
(***************************************************************************)
(* Steps.                                                                  *)
(***************************************************************************)

\* What an append adds to the events of some types.
LEMMA AtAfter ==
    ASSUME NEW s \in Seq(EventSet), NEW e \in EventSet, NEW types
    PROVE  /\ At(s, types) \subseteq 1 .. Len(s) /\ Len(s) \in Nat
           /\ At(Append(s, e), types) = At(s, types) \cup {i \in {Len(s) + 1} : e.type \in types}
           /\ At(Append(s, e), types) \subseteq 1 .. Len(s) + 1
           /\ \A i \in At(s, types) : Append(s, e)[i] = s[i]
<1> DEFINE t == Append(s, e)
           n == Len(s) + 1
<1>1. /\ Len(s) \in Nat /\ DOMAIN s = 1 .. Len(s) /\ DOMAIN t = DOMAIN s \cup {n}
      /\ t[n] = e /\ n \notin DOMAIN s
      /\ \A i \in DOMAIN s : t[i] = s[i]
    BY AppendKeeps
<1>2. n \in Nat /\ DOMAIN t \subseteq 1 .. n
    BY <1>1
<1> HIDE DEF t, n
<1>3. At(t, types) = At(s, types) \cup {i \in {n} : e.type \in types}
    BY <1>1 DEF At
<1>4. At(t, types) \subseteq 1 .. n /\ At(s, types) \subseteq 1 .. Len(s)
    BY <1>1, <1>2 DEF At
<1>5. \A i \in At(s, types) : t[i] = s[i]
    BY <1>1 DEF At
<1> QED
    BY <1>1, <1>3, <1>4, <1>5 DEF t, n

\* The loop between two of its steps.
LEMMA LoopKinds ==
    ASSUME TypeOK
    PROVE  /\ loop.at = "reading" => loop \in [at : {"reading"}, event : Followups \cup Outcomes, change : Nat]
           /\ loop.at = "sending" =>
                /\ loop \in [at : {"sending"}, event : LoopEvents, change : Nat, basis : Nat]
                /\ loop.basis <= Len(log)
           /\ loop.at = "spawning" => loop.job \in Requests
           /\ Idle.at = "idle"
BY DEF TypeOK, LoopOK, Idle, Spawning

\* A command that is stored is one of the loop, and the stream grows by it.
LEMMA StoreTypes ==
    ASSUME TypeOK, NEW types, Store(types)
    PROVE  /\ loop.event \in LoopEvents /\ loop.event \in EventSet /\ loop.event.type \in types
           /\ log' = Append(log, loop.event) /\ log' \in Seq(EventSet)
           /\ Len(log) \in Nat /\ Len(log)' = Len(log) + 1
           /\ log'[Len(log) + 1] = loop.event
           /\ \A i \in DOMAIN log : log'[i] = log[i]
           /\ loop.change \in Nat
<1>1. /\ loop.event \in LoopEvents /\ loop.event \in EventSet /\ loop.event.type \in types
      /\ loop.change \in Nat /\ log \in Seq(EventSet) /\ log' = Append(log, loop.event)
    BY LoopKinds DEF Store, EventSet, TypeOK
<1> QED
    BY <1>1, AppendKeeps

\* Whatever is appended, a job stays a request and a change a change.
LEMMA AtStays ==
    ASSUME log \in Seq(EventSet), NEW e \in EventSet, log' = Append(log, e), NEW types
    PROVE  At(log, types) \subseteq At(log', types)
BY AtAfter

\* The handlers start with well-formed commands.
LEMMA HandlerTypes == ASSUME TypeOK, Handler PROVE TypeOK'
<1>0. Len(log) \in Nat /\ log \in Seq(EventSet)
    BY DEF TypeOK
<1>1. ASSUME NEW e \in PlanEvents \cup AppliedEvents \cup RevertedEvents, loop' = Sending(e, 0, Len(log)),
             UNCHANGED <<log, tasks, clients>>
      PROVE  TypeOK'
    <2>1. loop' \in [at : {"sending"}, event : LoopEvents, change : Nat, basis : Nat]
        BY <1>0, <1>1 DEF Sending, LoopEvents
    <2>2. loop'.basis = Len(log) /\ loop'.event = e
        BY <1>1 DEF Sending
    <2>3. e.type # "AnnotationStatusChanged"
        BY <1>1 DEF PlanEvents, AppliedEvents, RevertedEvents
    <2> QED
        BY <1>0, <1>1, <2>1, <2>2, <2>3 DEF TypeOK, LoopOK, Requests
<1>2. ASSUME NEW patch \in Patches, CreatePlan(patch) PROVE TypeOK'
    <2>1. patch \in Settings
        BY <1>2, CadAssumption DEF Settings
    <2>2. PlanCreated(Revision(log), patch) \in PlanEvents
        BY <1>0, <2>1, RevisionTypes DEF PlanCreated, PlanEvents
    <2> QED
        BY <1>1, <1>2, <2>2 DEF CreatePlan
<1>3. ASSUME NEW q \in At(log, {"ChangePlanCreated"}), NEW noted \in BOOLEAN, NEW via \in {"rest", "mcp"}
      PROVE  Application(q, noted, via) \in AppliedEvents
    <2>1. q \in Nat /\ log[q] \in PlanEvents
        BY <1>0, EventKinds DEF At
    <2>2. PICK D \in SUBSET Params : log[q].values \in [D -> Values]
        BY <2>1 DEF PlanEvents, Settings
    <2>3. DOMAIN log[q].values = D
        BY <2>2
    <2>4. ValuesIn(log, D) \in [D -> Values]
        BY <1>0, ValuesTypes
    <2>5. /\ ValuesIn(log, D) \in Settings /\ log[q].values \in Settings
          /\ DOMAIN ValuesIn(log, D) = DOMAIN log[q].values
        BY <2>2, <2>3, <2>4 DEF Settings
    <2> QED
        BY <1>0, <2>1, <2>3, <2>5 DEF Application, ChangeApplied, AppliedEvents
<1>4. ASSUME NEW q \in At(log, {"ChangePlanCreated"}), NEW noted \in Noting, ApplyPlan(q, noted)
      PROVE  TypeOK'
    <2>1. noted \in BOOLEAN
        BY CadAssumption
    <2>2. Application(q, noted, "rest") \in AppliedEvents
        BY <1>3, <2>1
    <2> QED
        BY <1>1, <1>4, <2>2 DEF ApplyPlan
<1>5. ASSUME NEW q \in At(log, {"ChangePlanCreated"}), McpApplyPlan(q)
      PROVE  TypeOK'
    <2>1. Application(q, FALSE, "mcp") \in AppliedEvents
        BY <1>3
    <2> QED
        BY <1>1, <1>5, <2>1 DEF McpApplyPlan
<1>6. ASSUME NEW i \in At(log, {"ChangeApplied"}), UndoChange(i) PROVE TypeOK'
    <2>1. i \in Nat /\ log[i] \in AppliedEvents
        BY <1>0, EventKinds DEF At
    <2>2. DOMAIN log[i].before # {}
        BY <1>6, <2>1 DEF UndoChange, LatestForParameters, AppliedEvents
    <2>3. ChangeReverted(log[i].plan, i, log[i].before, Len(log) + 1, log[i].noted) \in RevertedEvents
        BY <1>0, <2>1, <2>2 DEF ChangeReverted, RevertedEvents, AppliedEvents
    <2> QED
        BY <1>1, <1>6, <2>3 DEF UndoChange
<1> QED
    BY <1>2, <1>4, <1>5, <1>6 DEF Handler

\* The tasks resume with a well-formed outcome.
LEMMA OutcomeTypesOK ==
    ASSUME TypeOK, NEW t \in tasks
    PROVE  /\ Outcome(t) \in CompletedEvents /\ Failure(t) \in FailedEvents
           /\ t \in TaskSet /\ t.job \in Nat
<1>1. t \in TaskSet /\ t.job \in Nat /\ t.values \in [Params -> Values] /\ t.job \in Requests
    BY DEF TypeOK, TaskSet
<1>2. log[t.job] \in RequestEvents
    BY <1>1, EventKinds DEF TypeOK, Requests, At
<1>3. log[t.job].plan \in Nat
    BY <1>2 DEF RequestEvents
<1> QED
    BY <1>1, <1>3 DEF Outcome, Failure, Completed, Failed, CompletedEvents, FailedEvents

LEMMA ReportTypes ==
    ASSUME TypeOK, NEW t \in tasks, NEW e \in Outcomes, UNCHANGED <<log, clients>>,
           loop' = Reading(e, t.job), tasks' \subseteq tasks \cup {Reporting(t)}
    PROVE  TypeOK'
<1>1. t \in TaskSet /\ t.job \in Nat /\ t.job \in Requests
    BY DEF TypeOK, TaskSet
<1>2. Reporting(t) \in TaskSet /\ Reporting(t).job = t.job
    BY <1>1 DEF Reporting, TaskSet
<1>3. loop' \in [at : {"reading"}, event : Followups \cup Outcomes, change : Nat] /\ loop'.event = e
    BY <1>1 DEF Reading
<1>4. e.type # "AnnotationStatusChanged"
    BY DEF Outcomes, CompletedEvents, FailedEvents
<1> QED
    BY <1>1, <1>2, <1>3, <1>4 DEF TypeOK, LoopOK, Requests

LEMMA ResumeTypes == ASSUME TypeOK, NEW t \in tasks, Resume(t) PROVE TypeOK'
<1>1. Outcome(t) \in Outcomes /\ Failure(t) \in Outcomes
    BY OutcomeTypesOK DEF Outcomes
<1>2. CASE Generated(t)
    BY <1>1, <1>2, ReportTypes DEF Generated, Become
<1>3. CASE GeneratorRaises(t)
    BY <1>1, <1>3, ReportTypes DEF GeneratorRaises, Become
<1>4. CASE TellingRaises(t)
    BY <1>1, <1>4, ReportTypes DEF TellingRaises, Become
<1>5. CASE Told(t)
    BY <1>5 DEF Told, TypeOK, LoopOK, Requests
<1> QED
    BY <1>2, <1>3, <1>4, <1>5 DEF Resume

\* What is stored is followed by well-formed work.
LEMMA StepTypes == ASSUME TypeOK, Step PROVE TypeOK'
<1>0. Len(log) \in Nat /\ log \in Seq(EventSet) /\ clients \in Nat
    BY DEF TypeOK
<1>1. ASSUME NEW types, Store(types), loop' = Idle, tasks' \subseteq tasks, UNCHANGED clients
      PROVE  TypeOK'
    <2>1. log' \in Seq(EventSet) /\ Requests \subseteq Requests'
        BY <1>0, <1>1, StoreTypes, AtStays DEF Requests
    <2> QED
        BY <1>1, <2>1 DEF TypeOK, LoopOK, Idle
<1>2. ASSUME NEW types, Store(types), NEW e \in Followups, NEW change \in Nat,
             loop' = Reading(e, change), UNCHANGED <<tasks, clients>>,
             e.type = "AnnotationStatusChanged" => change \in At(log', ChangeTypes)
      PROVE  TypeOK'
    <2>1. log' \in Seq(EventSet) /\ Requests \subseteq Requests'
        BY <1>0, <1>2, StoreTypes, AtStays DEF Requests
    <2>2. /\ loop' \in [at : {"reading"}, event : Followups \cup Outcomes, change : Nat]
          /\ loop'.event = e /\ loop'.change = change
        BY <1>2 DEF Reading
    <2> QED
        BY <1>2, <2>1, <2>2 DEF TypeOK, LoopOK
<1>3. ASSUME NEW types, Store(types), NEW change \in At(log', ChangeTypes)
      PROVE  Requested(log'[change].plan, change) \in Followups /\ change \in Nat
    <2>1. log' \in Seq(EventSet)
        BY <1>3, StoreTypes
    <2>2. change \in Nat /\ log'[change] \in AppliedEvents \cup RevertedEvents
        BY <1>3, <2>1, EventKinds DEF At, ChangeTypes
    <2>3. log'[change].plan \in Nat
        BY <2>2 DEF AppliedEvents, RevertedEvents
    <2> QED
        BY <2>2, <2>3 DEF Requested, Followups, RequestEvents
<1>4. CASE ReadVersion
    <2>1. loop \in [at : {"reading"}, event : Followups \cup Outcomes, change : Nat]
        BY <1>4, LoopKinds DEF ReadVersion
    <2>2. /\ loop' \in [at : {"sending"}, event : LoopEvents, change : Nat, basis : Nat]
          /\ loop'.basis = Len(log) /\ loop'.event = loop.event /\ loop'.change = loop.change
        BY <1>0, <1>4, <2>1 DEF ReadVersion, Sending, LoopEvents
    <2>3. UNCHANGED <<log, tasks, clients>>
        BY <1>4 DEF ReadVersion
    <2>4. loop.event.type = "AnnotationStatusChanged" => loop.change \in At(log, ChangeTypes)
        BY <2>1 DEF TypeOK
    <2> QED
        BY <1>0, <2>2, <2>3, <2>4 DEF TypeOK, LoopOK, Requests
<1>5. CASE StorePlan
    BY <1>1, <1>5 DEF StorePlan
<1>6. CASE StoreChange
    <2> DEFINE change == Len(log) + 1
               e      == loop.event
               status == IF e.type = "ChangeApplied" THEN "resolved" ELSE "open"
    <2>1. Store(ChangeTypes) /\ UNCHANGED <<tasks, clients>>
        BY <1>6 DEF StoreChange
    <2>2. change \in At(log', ChangeTypes) /\ change \in Nat
        <3>1. log' = Append(log, e) /\ e.type \in ChangeTypes /\ e \in EventSet
            BY <2>1, StoreTypes
        <3> QED
            BY <1>0, <3>1, AtAfter
    <2>3. AnnotationStatus(status) \in Followups
        BY DEF AnnotationStatus, Followups, AnnotationEvents
    <2>4. \/ loop' = Idle
          \/ loop' = Reading(AnnotationStatus(status), change)
          \/ loop' = Reading(Requested(log'[change].plan, change), change)
        BY <1>6 DEF StoreChange, Request
    <2>5. Requested(log'[change].plan, change) \in Followups
        BY <1>3, <2>1, <2>2
    <2>6. Requested(log'[change].plan, change).type # "AnnotationStatusChanged"
        BY DEF Requested
    <2> HIDE DEF status
    <2>7. CASE loop' = Idle
        BY <1>1, <2>1, <2>7
    <2>8. CASE loop' = Reading(AnnotationStatus(status), change)
        BY <1>2, <2>1, <2>2, <2>3, <2>8
    <2>9. CASE loop' = Reading(Requested(log'[change].plan, change), change)
        BY <1>2, <2>1, <2>2, <2>5, <2>6, <2>9
    <2> QED
        BY <2>4, <2>7, <2>8, <2>9
<1>7. CASE StoreAnnotation
    <2>1. Store({"AnnotationStatusChanged"}) /\ UNCHANGED <<tasks, clients>>
        BY <1>7 DEF StoreAnnotation
    <2>2. loop.change \in At(log, ChangeTypes)
        BY <2>1 DEF TypeOK, Store
    <2>3. loop.change \in At(log', ChangeTypes)
        BY <1>0, <2>1, <2>2, StoreTypes, AtStays
    <2>4. Requested(log'[loop.change].plan, loop.change) \in Followups /\ loop.change \in Nat
        BY <1>3, <2>1, <2>3
    <2>5. Requested(log'[loop.change].plan, loop.change).type # "AnnotationStatusChanged"
        BY DEF Requested
    <2>6. loop' = Reading(Requested(log'[loop.change].plan, loop.change), loop.change)
        BY <1>7 DEF StoreAnnotation, Request
    <2> QED
        BY <1>2, <2>1, <2>4, <2>5, <2>6
<1>8. CASE StoreRequest
    <2>1. Store({"GenerationRequested"}) /\ UNCHANGED <<tasks, clients>>
        BY <1>8 DEF StoreRequest
    <2>2. /\ log' = Append(log, loop.event) /\ loop.event \in EventSet
          /\ loop.event.type = "GenerationRequested" /\ log' \in Seq(EventSet)
        BY <2>1, StoreTypes
    <2>3. Len(log) + 1 \in Requests' /\ Requests \subseteq Requests'
        BY <1>0, <2>2, AtAfter DEF Requests
    <2>4. loop' = Spawning(Len(log) + 1)
        BY <1>8 DEF StoreRequest
    <2>5. loop'.at = "spawning"
        BY <2>4 DEF Spawning
    <2>6. LoopOK'
        BY <2>3, <2>4 DEF LoopOK
    <2> QED
        BY <2>1, <2>2, <2>3, <2>5, <2>6 DEF TypeOK
<1>9. CASE Spawn
    <2>1. loop.job \in Requests /\ loop.job \in Nat
        BY <1>0, <1>9, LoopKinds DEF Spawn, Requests, At
    <2> DEFINE t == Task(loop.job, ValuesIn(log, Params))
    <2>2. t \in TaskSet /\ t.job = loop.job
        BY <1>0, <2>1, ValuesTypes DEF Task, TaskSet
    <2> HIDE DEF t
    <2>3. tasks' = tasks \cup {t} /\ UNCHANGED <<log, clients>> /\ loop' = Idle
        BY <1>9 DEF Spawn, t
    <2> QED
        BY <2>1, <2>2, <2>3 DEF TypeOK, LoopOK, Requests, Idle
<1>10. CASE RefuseHandler
    BY <1>10 DEF RefuseHandler, TypeOK, LoopOK, Requests, Idle
<1>11. ASSUME NEW t \in tasks, StoreOutcome(t) PROVE TypeOK'
    <2> DEFINE u == [t EXCEPT !.at = "telling", !.told = loop.event.type, !.size = clients]
    <2>1. Store(OutcomeTypes) /\ loop' = Idle /\ UNCHANGED clients
        BY <1>11 DEF StoreOutcome
    <2>2. tasks' \subseteq tasks \cup {u}
        BY <1>11 DEF StoreOutcome, Become
    <2>3. log' \in Seq(EventSet) /\ Requests \subseteq Requests' /\ loop.event.type \in OutcomeTypes
        BY <1>0, <2>1, StoreTypes, AtStays DEF Requests
    <2>4. t \in TaskSet /\ t.job \in Requests
        BY DEF TypeOK
    <2>5. u \in TaskSet /\ u.job = t.job
        BY <1>0, <2>3, <2>4 DEF TaskSet
    <2> HIDE DEF u
    <2> QED
        BY <2>1, <2>2, <2>3, <2>4, <2>5 DEF TypeOK, LoopOK, Idle
<1>12. ASSUME NEW t \in tasks, RefuseCompletion(t) PROVE TypeOK'
    <2>1. Failure(t) \in Outcomes
        BY OutcomeTypesOK DEF Outcomes
    <2> QED
        BY <1>12, <2>1, ReportTypes DEF RefuseCompletion
<1>13. ASSUME NEW t \in tasks, RefuseFailure(t) PROVE TypeOK'
    BY <1>13 DEF RefuseFailure, TypeOK, LoopOK, Requests, Idle
<1> QED
    BY <1>4, <1>5, <1>6, <1>7, <1>8, <1>9, <1>10, <1>11, <1>12, <1>13 DEF Step

LEMMA OutsideTypes ==
    ASSUME TypeOK, NEW type \in Outsiders, OutsideEvent(type)
    PROVE  TypeOK' /\ [type |-> type] \in EventSet /\ log' = Append(log, [type |-> type])
<1>1. [type |-> type] \in EventSet
    BY DEF EventSet, OutsideEvents
<1>2. log' = Append(log, [type |-> type]) /\ UNCHANGED <<loop, tasks, clients>>
    BY DEF OutsideEvent
<1> HIDE DEF EventSet
<1>3. log \in Seq(EventSet) /\ log' \in Seq(EventSet) /\ Len(log) \in Nat /\ Len(log') = Len(log) + 1
    BY <1>1, <1>2, AppendKeeps DEF TypeOK
<1>4. Requests \subseteq Requests' /\ At(log, ChangeTypes) \subseteq At(log', ChangeTypes)
    BY <1>1, <1>2, <1>3, AtStays DEF Requests
<1>5. loop.at = "sending" => loop.basis <= Len(log)'
    BY <1>3, LoopKinds
<1>6. LoopOK'
    BY <1>2, <1>4, <1>5 DEF TypeOK, LoopOK
<1> QED
    BY <1>1, <1>2, <1>3, <1>4, <1>6 DEF TypeOK

LEMMA TypesStep == TypeOK /\ [Next]_vars => TypeOK'
<1> SUFFICES ASSUME TypeOK, [Next]_vars PROVE TypeOK'
    OBVIOUS
<1>1. Handler \/ Step => TypeOK'
    BY HandlerTypes, StepTypes
<1>2. ASSUME NEW t \in tasks, Resume(t) PROVE TypeOK'
    BY <1>2, ResumeTypes
<1>3. ASSUME Connect \/ Disconnect PROVE TypeOK'
    BY <1>3 DEF Connect, Disconnect, TypeOK, LoopOK, Requests
<1>4. ASSUME NEW type \in Outsiders, OutsideEvent(type) PROVE TypeOK'
    BY <1>4, OutsideTypes
<1>5. ASSUME Restart PROVE TypeOK'
    BY <1>5 DEF Restart, TypeOK, LoopOK, Idle
<1>6. ASSUME UNCHANGED vars PROVE TypeOK'
    BY <1>6 DEF vars, TypeOK, LoopOK, Requests
<1> QED
    BY <1>1, <1>2, <1>3, <1>4, <1>5, <1>6 DEF Next

\* Every event, command and task is well formed, and a job that is waiting is
\* a request of the stream (api.py).
THEOREM TypesHold == Spec => []TypeOK
<1>1. Init => TypeOK
    BY DEF Init, TypeOK, LoopOK, Idle
<1> QED
    BY <1>1, TypesStep, PTL DEF Spec


-----------------------------------------------------------------------------
(***************************************************************************)
(* How the stream and the loop move.                                       *)
(***************************************************************************)
Outside(e) == \E type \in Outsiders : e = [type |-> type]

\* The stream grows by a command of the loop, or by somebody else's event.
LEMMA LogSteps ==
    ASSUME TypeOK, [Next]_vars
    PROVE  \/ log' = log
           \/ /\ loop.at = "sending" /\ loop.basis = Len(log) /\ IsEditor(log)
              /\ loop.event \in EventSet /\ log' = Append(log, loop.event)
           \/ \E e \in EventSet : Outside(e) /\ log' = Append(log, e) /\ UNCHANGED <<loop, tasks>>
<1>1. ASSUME NEW types, Store(types)
      PROVE  /\ loop.at = "sending" /\ loop.basis = Len(log) /\ IsEditor(log)
             /\ loop.event \in EventSet /\ log' = Append(log, loop.event)
    BY <1>1, StoreTypes DEF Store
<1>2. ASSUME NEW type \in Outsiders, OutsideEvent(type)
      PROVE  \E e \in EventSet : Outside(e) /\ log' = Append(log, e) /\ UNCHANGED <<loop, tasks>>
    BY <1>2, OutsideTypes DEF Outside, OutsideEvent
<1>3. CASE Handler
    BY <1>3 DEF Handler, CreatePlan, ApplyPlan, McpApplyPlan, UndoChange
<1>4. CASE Step
    <2>1. CASE ReadVersion \/ Spawn \/ RefuseHandler \/ \E t \in tasks : RefuseCompletion(t) \/ RefuseFailure(t)
        BY <2>1 DEF ReadVersion, Spawn, RefuseHandler, RefuseCompletion, RefuseFailure
    <2>2. CASE StorePlan
        BY <1>1, <2>2 DEF StorePlan
    <2>3. CASE StoreChange
        BY <1>1, <2>3 DEF StoreChange
    <2>4. CASE StoreAnnotation
        BY <1>1, <2>4 DEF StoreAnnotation
    <2>5. CASE StoreRequest
        BY <1>1, <2>5 DEF StoreRequest
    <2>6. ASSUME NEW t \in tasks, StoreOutcome(t) PROVE Store(OutcomeTypes)
        BY <2>6 DEF StoreOutcome
    <2> QED
        BY <1>1, <1>4, <2>1, <2>2, <2>3, <2>4, <2>5, <2>6 DEF Step
<1>5. CASE \E t \in tasks : Resume(t)
    BY <1>5 DEF Resume, Generated, GeneratorRaises, Told, TellingRaises
<1>6. CASE Connect \/ Disconnect \/ Restart
    BY <1>6 DEF Connect, Disconnect, Restart
<1>7. CASE UNCHANGED vars
    BY <1>7 DEF vars
<1> QED
    BY <1>2, <1>3, <1>4, <1>5, <1>6, <1>7 DEF Next

\* The loop is about to store a result: a completion that becomes the
\* project's, or a superseded one.
Completing == loop.at \in {"reading", "sending"} /\ loop.event.type = "GenerationCompleted"

\* A result on its way was there before, or comes from the generator.
LEMMA CompletingSteps ==
    ASSUME TypeOK, [Next]_vars, Completing'
    PROVE  \/ /\ Completing /\ loop'.event = loop.event
              /\ \/ log' = log
                 \/ \E e \in EventSet : Outside(e) /\ log' = Append(log, e)
           \/ /\ \E t \in tasks : Generated(t) /\ loop'.event = Outcome(t)
              /\ log' = log /\ loop = Idle
<1>0. loop'.at \in {"reading", "sending"} /\ loop'.event.type = "GenerationCompleted"
    BY DEF Completing
<1>1. ASSUME Handler PROVE FALSE
    BY <1>0, <1>1 DEF Handler, CreatePlan, ApplyPlan, McpApplyPlan, UndoChange, Sending, PlanCreated,
        Application, ChangeApplied, ChangeReverted
<1>2. CASE ReadVersion
    BY <1>0, <1>2 DEF ReadVersion, Sending, Completing
<1>3. ASSUME StorePlan \/ StoreChange \/ StoreAnnotation \/ StoreRequest \/ Spawn \/ RefuseHandler
      PROVE  FALSE
    BY <1>0, <1>3 DEF StorePlan, StoreChange, StoreAnnotation, StoreRequest, Spawn, RefuseHandler,
        Idle, Spawning, Reading, Request, Requested, AnnotationStatus
<1>4. ASSUME NEW t \in tasks, StoreOutcome(t) \/ RefuseCompletion(t) \/ RefuseFailure(t)
      PROVE  FALSE
    BY <1>0, <1>4 DEF StoreOutcome, RefuseCompletion, RefuseFailure, Idle, Reading, Failure, Failed
<1>5. ASSUME NEW t \in tasks, GeneratorRaises(t) \/ TellingRaises(t) PROVE FALSE
    BY <1>0, <1>5 DEF GeneratorRaises, TellingRaises, Reading, Failure, Failed
<1>6. ASSUME NEW t \in tasks, Generated(t)
      PROVE  loop'.event = Outcome(t) /\ log' = log /\ loop = Idle
    BY <1>6 DEF Generated, Reading
<1>7. CASE Connect \/ Disconnect \/ (\E t \in tasks : Told(t)) \/ UNCHANGED vars
    BY <1>0, <1>7 DEF Connect, Disconnect, Told, vars, Completing
<1>8. ASSUME NEW type \in Outsiders, OutsideEvent(type)
      PROVE  /\ Completing /\ loop'.event = loop.event
             /\ \E e \in EventSet : Outside(e) /\ log' = Append(log, e)
    BY <1>0, <1>8, OutsideTypes DEF OutsideEvent, Outside, Completing
<1>9. ASSUME Restart PROVE FALSE
    BY <1>0, <1>9 DEF Restart, Idle
<1> QED
    BY <1>1, <1>2, <1>3, <1>4, <1>5, <1>6, <1>7, <1>8, <1>9 DEF Next, Step, Resume

\* Somebody else's event is no plan, change or job.
LEMMA OutsideIsOther ==
    ASSUME NEW e, Outside(e)
    PROVE  /\ e.type \in {"Other", "MembershipRevoked"}
           /\ e.type \notin ChangeTypes \cup OutcomeTypes \cup {"GenerationRequested", "ChangePlanCreated"}
BY CadAssumption DEF Outside, ChangeTypes, OutcomeTypes

\* It leaves the events of other types where they are.
LEMMA OutsideAdds ==
    ASSUME log \in Seq(EventSet), NEW e \in EventSet, Outside(e), log' = Append(log, e),
           NEW types, "Other" \notin types, "MembershipRevoked" \notin types
    PROVE  At(log', types) = At(log, types)
<1>1. e.type \notin types
    BY OutsideIsOther
<1>2. At(Append(log, e), types) = At(log, types) \cup {i \in {Len(log) + 1} : e.type \in types}
    BY AtAfter
<1> QED
    BY <1>1, <1>2

-----------------------------------------------------------------------------
(***************************************************************************)
(* Results.                                                                *)
(***************************************************************************)

\* Nobody requests a newer job between the decision and the place where the
\* result is stored.
Chosen ==
    Completing => (loop.event.status = "completed" <=> LatestJob(log) = loop.event.job)

LEMMA ChosenStep == TypeOK /\ Chosen /\ [Next]_vars => Chosen'
<1> SUFFICES ASSUME TypeOK, Chosen, [Next]_vars, Completing'
             PROVE  loop'.event.status = "completed" <=> LatestJob(log') = loop'.event.job
    BY DEF Chosen
<1>1. ASSUME log' = log PROVE LatestJob(log') = LatestJob(log)
    BY <1>1
<1>2. ASSUME NEW e \in EventSet, Outside(e), log' = Append(log, e)
      PROVE  LatestJob(log') = LatestJob(log)
    <2>1. At(log', {"GenerationRequested"}) = At(log, {"GenerationRequested"})
        BY <1>2, OutsideAdds DEF TypeOK
    <2> QED
        BY <2>1 DEF LatestJob
<1>3. CASE Completing /\ loop'.event = loop.event
            /\ (log' = log \/ \E e \in EventSet : Outside(e) /\ log' = Append(log, e))
    BY <1>1, <1>2, <1>3 DEF Chosen
<1>4. ASSUME NEW t \in tasks, loop'.event = Outcome(t), log' = log
      PROVE  loop'.event.status = "completed" <=> LatestJob(log') = loop'.event.job
    BY <1>4 DEF Outcome, Completed
<1> QED
    BY <1>3, <1>4, CompletingSteps

\* Whether a result becomes the project's is decided at the place where it is
\* stored, whoever else appends and whenever the server stops
\* (_complete_cad_regeneration).
THEOREM ResultsAreNewest == Spec => []CompletedIsNewest
<1>1. Init => Chosen /\ CompletedIsNewest
    BY DEF Init, Idle, Chosen, Completing, CompletedIsNewest, At
<1>2. TypeOK /\ Chosen /\ CompletedIsNewest /\ [Next]_vars => CompletedIsNewest'
    <2> SUFFICES ASSUME TypeOK, Chosen, CompletedIsNewest, [Next]_vars
                 PROVE  CompletedIsNewest'
        OBVIOUS
    <2>1. ASSUME NEW e \in EventSet, log' = Append(log, e),
                 e.type = "GenerationCompleted" =>
                    (e.status = "completed" <=> LatestJob(log) = e.job)
          PROVE  CompletedIsNewest'
        <3> SUFFICES ASSUME NEW i \in At(log', {"GenerationCompleted"})
                     PROVE  log'[i].status = "completed" <=> LatestJob(SubSeq(log', 1, i - 1)) = log'[i].job
            BY DEF CompletedIsNewest, Before
        <3>0. log \in Seq(EventSet)
            BY DEF TypeOK
        <3>1. CASE i \in At(log, {"GenerationCompleted"})
            <4>1. i \in 1 .. Len(log) + 1 /\ log'[i] = log[i]
                BY <2>1, <3>0, <3>1, AtAfter
            <4>2. SubSeq(log', 1, i - 1) = SubSeq(log, 1, i - 1)
                BY <2>1, <3>0, <4>1, AppendPrefix
            <4> QED
                BY <3>1, <4>1, <4>2 DEF CompletedIsNewest, Before
        <3>2. CASE i \notin At(log, {"GenerationCompleted"})
            <4>1. i = Len(log) + 1 /\ e.type = "GenerationCompleted" /\ i \in 1 .. Len(log) + 1
                BY <2>1, <3>0, <3>2, AtAfter
            <4>2. log'[i] = e /\ SubSeq(log', 1, i - 1) = log
                BY <2>1, <3>0, <4>1, AppendPrefix, AppendKeeps
            <4> QED
                BY <2>1, <4>1, <4>2
        <3> QED
            BY <3>1, <3>2
    <2>2. CASE log' = log
        BY <2>2 DEF CompletedIsNewest, Before
    <2>3. CASE loop.at = "sending" /\ loop.event \in EventSet /\ log' = Append(log, loop.event)
        BY <2>1, <2>3 DEF Chosen, Completing
    <2>4. CASE \E e \in EventSet : Outside(e) /\ log' = Append(log, e)
        BY <2>1, <2>4, OutsideIsOther DEF OutcomeTypes
    <2> QED
        BY <2>2, <2>3, <2>4, LogSteps
<1> QED
    BY <1>1, <1>2, ChosenStep, TypesHold, PTL DEF Spec


-----------------------------------------------------------------------------
(***************************************************************************)
(* Outcomes, while no web socket is open.                                  *)
(***************************************************************************)
OutcomesOf(job) == {i \in At(log, OutcomeTypes) : log[i].job = job}

\* The loop is about to store the outcome of a task.
Reports(t) ==
    /\ loop.at \in {"reading", "sending"}
    /\ loop.event.type \in OutcomeTypes /\ loop.event.job = t.job

\* A job that is waiting, or about to, is one of its own and has no outcome
\* yet; the loop reports for one task at a time.
Answering ==
    /\ clients = 0
    /\ \A t, u \in tasks : t.job = u.job => t = u
    /\ \A t \in tasks : /\ t.at # "telling" /\ OutcomesOf(t.job) = {}
                        /\ t.at = "reporting" => Reports(t)
    /\ loop.at = "spawning" => OutcomesOf(loop.job) = {} /\ \A t \in tasks : t.job # loop.job
    /\ \A i \in At(log, OutcomeTypes) : log[i].job \in Requests

\* An event that is no outcome leaves the outcomes of every job.
LEMMA OutcomesStay ==
    ASSUME log \in Seq(EventSet), NEW e \in EventSet, e.type \notin OutcomeTypes, log' = Append(log, e)
    PROVE  /\ At(log', OutcomeTypes) = At(log, OutcomeTypes)
           /\ \A i \in At(log, OutcomeTypes) : log'[i] = log[i]
           /\ \A job : OutcomesOf(job)' = OutcomesOf(job)
           /\ Requests \subseteq Requests'
<1>1. At(log', OutcomeTypes) = At(log, OutcomeTypes) \cup {i \in {Len(log) + 1} : e.type \in OutcomeTypes}
    BY AtAfter
<1>2. At(log', OutcomeTypes) = At(log, OutcomeTypes)
    BY <1>1
<1>3. \A i \in At(log, OutcomeTypes) : log'[i] = log[i]
    BY AtAfter
<1>4. Requests \subseteq Requests'
    BY AtStays DEF Requests
<1>5. \A job : OutcomesOf(job)' = OutcomesOf(job)
    BY <1>2, <1>3 DEF OutcomesOf
<1> QED
    BY <1>2, <1>3, <1>4, <1>5

\* The outcome of a job that has none.
LEMMA FirstOutcome ==
    ASSUME log \in Seq(EventSet), NEW e \in EventSet, e.type \in OutcomeTypes, log' = Append(log, e)
    PROVE  /\ At(log', OutcomeTypes) = At(log, OutcomeTypes) \cup {Len(log) + 1}
           /\ log'[Len(log) + 1] = e
           /\ \A i \in At(log, OutcomeTypes) : log'[i] = log[i]
           /\ \A job : job # e.job => OutcomesOf(job)' = OutcomesOf(job)
           /\ Requests \subseteq Requests'
<1>1. At(log', OutcomeTypes) = At(log, OutcomeTypes) \cup {i \in {Len(log) + 1} : e.type \in OutcomeTypes}
    BY AtAfter
<1>2. At(log', OutcomeTypes) = At(log, OutcomeTypes) \cup {Len(log) + 1}
    BY <1>1
<1>3. \A i \in At(log, OutcomeTypes) : log'[i] = log[i]
    BY AtAfter
<1>4. log'[Len(log) + 1] = e
    BY AppendKeeps
<1>5. Requests \subseteq Requests'
    BY AtStays DEF Requests
<1>6. \A job : job # e.job => OutcomesOf(job)' = OutcomesOf(job)
    BY <1>2, <1>3, <1>4 DEF OutcomesOf
<1> QED
    BY <1>2, <1>3, <1>4, <1>5, <1>6

\* With nothing new in the stream, and no more tasks, the tasks keep what
\* they know, as long as the loop still reports for those that wait for it.
LEMMA AnsweringKept ==
    ASSUME Answering, clients' = 0,
           \/ log' = log
           \/ /\ log \in Seq(EventSet)
              /\ \E e \in EventSet : e.type \notin OutcomeTypes /\ log' = Append(log, e),
           tasks' \subseteq tasks, loop'.at = "spawning" => loop' = loop,
           \A t \in tasks' : t.at = "reporting" => Reports(t)'
    PROVE  Answering'
<1>1. /\ At(log', OutcomeTypes) = At(log, OutcomeTypes)
      /\ \A i \in At(log, OutcomeTypes) : log'[i] = log[i]
      /\ \A job : OutcomesOf(job)' = OutcomesOf(job)
      /\ Requests \subseteq Requests'
    <2>1. CASE log' = log
        BY <2>1 DEF OutcomesOf, Requests
    <2>2. CASE log' # log
        BY <2>2, OutcomesStay
    <2> QED
        BY <2>1, <2>2
<1>2. \A t \in tasks' : t \in tasks /\ OutcomesOf(t.job)' = {} /\ t.at # "telling"
    BY <1>1 DEF Answering
<1>3. loop'.at = "spawning" => OutcomesOf(loop.job)' = {} /\ \A t \in tasks' : t.job # loop'.job
    BY <1>1 DEF Answering
<1>4. loop'.at = "spawning" => loop'.job = loop.job
    OBVIOUS
<1>5. \A i \in At(log', OutcomeTypes) : log'[i].job \in Requests'
    BY <1>1 DEF Answering
<1> QED
    BY <1>2, <1>3, <1>4, <1>5 DEF Answering, OutcomesOf

\* A task that reports, one of its kind.
LEMMA AnsweringReported ==
    ASSUME TypeOK, Answering, NEW t \in tasks, NEW u, u.job = t.job, u.at = "reporting",
           tasks' = (tasks \ {t}) \cup {u}, UNCHANGED <<log, clients>>,
           loop'.at = "reading", loop'.event.type \in OutcomeTypes, loop'.event.job = t.job,
           \A v \in tasks : v.at = "reporting" => v = t
    PROVE  Answering'
<1>1. \A v \in tasks' : (v = u \/ (v \in tasks /\ v # t))
    OBVIOUS
<1>2. \A v \in tasks' : v.at # "telling" /\ OutcomesOf(v.job)' = {}
    BY <1>1 DEF Answering, OutcomesOf
<1>3. \A v, w \in tasks' : v.job = w.job => v = w
    BY <1>1 DEF Answering
<1>4. \A v \in tasks' : v.at = "reporting" => Reports(v)'
    BY <1>1 DEF Reports
<1>5. \A i \in At(log', OutcomeTypes) : log'[i].job \in Requests'
    BY DEF Answering, Requests
<1> QED
    BY <1>2, <1>3, <1>4, <1>5 DEF Answering

LEMMA AnsweringStep ==
    ASSUME MaxClients = 0
    PROVE  TypeOK /\ Answering /\ [Next]_vars => Answering'
<1> SUFFICES ASSUME TypeOK, Answering, [Next]_vars PROVE Answering'
    OBVIOUS
<1>0. log \in Seq(EventSet) /\ clients = 0 /\ Idle.at = "idle"
    BY DEF TypeOK, Answering, Idle
<1>1. loop = Idle => \A t \in tasks : t.at # "reporting"
    BY <1>0 DEF Answering, Reports
<1>2. ASSUME Handler PROVE Answering'
    <2>1. /\ UNCHANGED <<log, tasks, clients>> /\ loop = Idle
          /\ \E e : loop' = Sending(e, 0, Len(log))
        BY <1>2 DEF Handler, CreatePlan, ApplyPlan, McpApplyPlan, UndoChange
    <2>2. loop'.at = "sending"
        BY <2>1 DEF Sending
    <2> QED
        BY <1>0, <1>1, <2>1, <2>2, AnsweringKept
<1>3. ASSUME NEW types, Store(types), types \cap OutcomeTypes = {}, UNCHANGED <<tasks, clients>>,
             loop'.at # "spawning"
      PROVE  Answering'
    <2>1. loop.event.type \notin OutcomeTypes /\ loop.event \in EventSet /\ log' = Append(log, loop.event)
        BY <1>3, StoreTypes
    <2>2. \A t \in tasks : t.at # "reporting"
        BY <2>1 DEF Answering, Reports
    <2> QED
        BY <1>0, <1>3, <2>1, <2>2, AnsweringKept
<1>4. CASE ReadVersion
    <2>1. /\ loop.at = "reading" /\ loop'.at = "sending" /\ loop'.event = loop.event
          /\ UNCHANGED <<log, tasks, clients>>
        BY <1>4 DEF ReadVersion, Sending
    <2>2. \A t \in tasks' : t.at = "reporting" => Reports(t)'
        BY <2>1 DEF Answering, Reports
    <2> QED
        BY <1>0, <2>1, <2>2, AnsweringKept
<1>5. CASE StorePlan
    BY <1>0, <1>3, <1>5 DEF StorePlan, OutcomeTypes
<1>6. CASE StoreChange
    <2>1. Store(ChangeTypes) /\ UNCHANGED <<tasks, clients>> /\ ChangeTypes \cap OutcomeTypes = {}
        BY <1>6 DEF StoreChange, ChangeTypes, OutcomeTypes
    <2>2. loop'.at # "spawning"
        BY <1>0, <1>6 DEF StoreChange, Reading, Request
    <2> QED
        BY <1>3, <2>1, <2>2
<1>7. CASE StoreAnnotation
    <2>1. loop'.at # "spawning"
        BY <1>7 DEF StoreAnnotation, Reading, Request
    <2> QED
        BY <1>3, <1>7, <2>1 DEF StoreAnnotation, OutcomeTypes
<1>8. CASE StoreRequest
    <2>0. PICK n : n = Len(log) + 1
        OBVIOUS
    <2>1. /\ loop.event.type = "GenerationRequested" /\ loop.event \in EventSet
          /\ log' = Append(log, loop.event) /\ UNCHANGED <<tasks, clients>> /\ loop' = Spawning(n)
        BY <1>8, <2>0, StoreTypes DEF StoreRequest
    <2>2. loop.event.type \notin OutcomeTypes
        BY <2>1 DEF OutcomeTypes
    <2>3. \A t \in tasks : t.at # "reporting"
        BY <2>2 DEF Answering, Reports
    <2>4. /\ At(log', OutcomeTypes) = At(log, OutcomeTypes)
          /\ \A i \in At(log, OutcomeTypes) : log'[i] = log[i]
          /\ \A job : OutcomesOf(job)' = OutcomesOf(job)
          /\ Requests \subseteq Requests'
        BY <1>0, <2>1, <2>2, OutcomesStay
    <2>5. \A j \in Requests : j # n
        <3>1. Requests \subseteq 1 .. Len(log) /\ Len(log) \in Nat
            BY <1>0 DEF Requests, At
        <3> QED
            BY <2>0, <3>1
    <2>6. OutcomesOf(n) = {} /\ \A t \in tasks : t.job # n
        BY <2>5 DEF Answering, OutcomesOf, TypeOK
    <2>7. loop'.at = "spawning" /\ loop'.job = n
        BY <2>1 DEF Spawning
    <2>8. OutcomesOf(n)' = {}
        BY <2>4, <2>6
    <2>9. \A t \in tasks' : OutcomesOf(t.job)' = {}
        BY <2>1, <2>4 DEF Answering
    <2>10. \A i \in At(log', OutcomeTypes) : log'[i].job \in Requests'
        BY <2>4 DEF Answering
    <2>11. {i \in At(log', OutcomeTypes) : log'[i].job = loop'.job} = {}
        BY <2>7, <2>8 DEF OutcomesOf
    <2> QED
        BY <1>0, <2>1, <2>3, <2>6, <2>7, <2>9, <2>10, <2>11 DEF Answering, OutcomesOf
<1>9. CASE Spawn
    <2> DEFINE u == Task(loop.job, ValuesIn(log, Params))
    <2>1. loop.at = "spawning" /\ tasks' = tasks \cup {u} /\ loop' = Idle /\ UNCHANGED <<log, clients>>
        BY <1>9 DEF Spawn
    <2>2. u.job = loop.job /\ u.at = "generating"
        BY DEF Task
    <2> HIDE DEF u
    <2>3. \A t \in tasks : t.at # "reporting" /\ t.job # loop.job
        BY <2>1 DEF Answering, Reports
    <2>4. OutcomesOf(loop.job) = {}
        BY <2>1 DEF Answering
    <2>5. \A job : OutcomesOf(job)' = OutcomesOf(job)
        BY <2>1 DEF OutcomesOf
    <2> QED
        BY <1>0, <2>1, <2>2, <2>3, <2>4, <2>5 DEF Answering, Requests
<1>10. CASE RefuseHandler
    <2>1. \A t \in tasks : t.at # "reporting"
        BY <1>10 DEF RefuseHandler, Answering, Reports
    <2> QED
        BY <1>0, <1>10, <2>1, AnsweringKept DEF RefuseHandler
<1>11. ASSUME NEW t \in tasks, t.at = "reporting" PROVE \A v \in tasks : v.at = "reporting" => v = t
    BY <1>11 DEF Answering, Reports
<1>12. ASSUME NEW t \in tasks, StoreOutcome(t) PROVE Answering'
    <2>1. /\ Store(OutcomeTypes) /\ t.at = "reporting" /\ loop' = Idle
          /\ tasks' = tasks \ {t} /\ clients' = 0
        BY <1>0, <1>12 DEF StoreOutcome
    <2>2. /\ loop.event.type \in OutcomeTypes /\ loop.event \in EventSet /\ log' = Append(log, loop.event)
          /\ loop.event.job = t.job /\ t.job \in Requests
        BY <2>1, StoreTypes DEF Answering, Reports, TypeOK
    <2>3. /\ At(log', OutcomeTypes) = At(log, OutcomeTypes) \cup {Len(log) + 1}
          /\ log'[Len(log) + 1] = loop.event
          /\ \A i \in At(log, OutcomeTypes) : log'[i] = log[i]
          /\ \A job : job # t.job => OutcomesOf(job)' = OutcomesOf(job)
          /\ Requests \subseteq Requests'
        BY <1>0, <2>2, FirstOutcome
    <2>4. \A v \in tasks' : v \in tasks /\ v.job # t.job /\ v.at # "reporting"
        BY <1>11, <2>1 DEF Answering
    <2>5. \A v \in tasks' : OutcomesOf(v.job)' = {}
        BY <2>3, <2>4 DEF Answering
    <2>6. \A i \in At(log', OutcomeTypes) : log'[i].job \in Requests'
        BY <2>2, <2>3 DEF Answering
    <2> QED
        BY <1>0, <2>1, <2>4, <2>5, <2>6 DEF Answering
<1>13. ASSUME NEW t \in tasks, t.at # "telling", Resume(t) PROVE Answering'
    <2>1. /\ t.at = "generating" /\ loop = Idle /\ tasks' = (tasks \ {t}) \cup {Reporting(t)}
          /\ UNCHANGED <<log, clients>>
          /\ \/ loop' = Reading(Outcome(t), t.job) \/ loop' = Reading(Failure(t), t.job)
        BY <1>13 DEF Resume, Generated, GeneratorRaises, Told, TellingRaises, Become
    <2>2. Reporting(t).job = t.job /\ Reporting(t).at = "reporting"
        BY DEF Reporting, TypeOK, TaskSet
    <2>3. loop'.at = "reading" /\ loop'.event.type \in OutcomeTypes /\ loop'.event.job = t.job
        BY <2>1 DEF Reading, Outcome, Completed, Failure, Failed, OutcomeTypes
    <2> QED
        BY <1>1, <2>1, <2>2, <2>3, AnsweringReported
<1>14. ASSUME NEW t \in tasks, RefuseCompletion(t) PROVE Answering'
    <2>1. /\ t.at = "reporting" /\ UNCHANGED <<log, tasks, clients>>
          /\ loop' = Reading(Failure(t), t.job)
        BY <1>14 DEF RefuseCompletion
    <2>2. loop'.at = "reading" /\ loop'.event.type \in OutcomeTypes /\ loop'.event.job = t.job
        BY <2>1 DEF Reading, Failure, Failed, OutcomeTypes
    <2>3. \A v \in tasks : v.at = "reporting" => v = t
        BY <1>11, <2>1
    <2>4. tasks' = (tasks \ {t}) \cup {t}
        BY <2>1
    <2> QED
        BY <2>1, <2>2, <2>3, <2>4, AnsweringReported
<1>15. ASSUME NEW t \in tasks, RefuseFailure(t) PROVE Answering'
    <2>1. t.at = "reporting" /\ UNCHANGED <<log, clients>> /\ loop' = Idle /\ tasks' = tasks \ {t}
        BY <1>15 DEF RefuseFailure
    <2>2. \A v \in tasks' : v.at # "reporting"
        BY <1>11, <2>1
    <2> QED
        BY <1>0, <2>1, <2>2, AnsweringKept
<1>16. ASSUME Connect \/ Disconnect PROVE FALSE
    BY <1>0, <1>16 DEF Connect, Disconnect
<1>17. ASSUME NEW type \in Outsiders, OutsideEvent(type) PROVE Answering'
    <2>1. UNCHANGED <<loop, tasks, clients>>
        BY <1>17 DEF OutsideEvent
    <2>2. \E e \in EventSet : Outside(e) /\ log' = Append(log, e)
        BY <1>17, OutsideTypes DEF Outside
    <2>3. \E e \in EventSet : e.type \notin OutcomeTypes /\ log' = Append(log, e)
        BY <2>2, OutsideIsOther
    <2>4. \A t \in tasks' : t.at = "reporting" => Reports(t)'
        BY <2>1 DEF Answering, Reports
    <2> QED
        BY <1>0, <2>1, <2>3, <2>4, AnsweringKept
<1>18. ASSUME Restart PROVE Answering'
    BY <1>0, <1>18 DEF Restart, Answering, Requests
<1>19. ASSUME UNCHANGED vars PROVE Answering'
    <2>1. UNCHANGED <<log, loop, tasks, clients>>
        BY <1>19 DEF vars
    <2>2. \A t \in tasks' : t.at = "reporting" => Reports(t)'
        BY <2>1 DEF Answering, Reports
    <2> QED
        BY <1>0, <2>1, <2>2, AnsweringKept
<1>20. \A t \in tasks : t.at # "telling"
    BY DEF Answering
<1> QED
    BY <1>2, <1>4, <1>5, <1>6, <1>7, <1>8, <1>9, <1>10, <1>12, <1>13, <1>14, <1>15, <1>16, <1>17,
       <1>18, <1>19, <1>20 DEF Next, Step

\* An outcome is stored by a task that reports.
LEMMA OutcomeStored ==
    ASSUME TypeOK, [Next]_vars, loop.at = "sending", loop.event.type \in OutcomeTypes,
           log' = Append(log, loop.event), loop.event \in EventSet
    PROVE  \E t \in tasks : t.at = "reporting" /\ StoreOutcome(t)
<1>0. log' # log /\ loop # Idle /\ log \in Seq(EventSet)
    <2>1. log \in Seq(EventSet) /\ Len(log') = Len(log) + 1 /\ Len(log) \in Nat
        BY AppendKeeps DEF TypeOK
    <2> QED
        BY <2>1 DEF Idle
<1>1. ASSUME NEW types, Store(types) PROVE loop.event.type \in types
    BY <1>1, StoreTypes
<1>2. ~Handler /\ ~Connect /\ ~Disconnect /\ ~Restart /\ ~(UNCHANGED vars) /\ \A t \in tasks : ~Resume(t)
    BY <1>0 DEF Handler, CreatePlan, ApplyPlan, McpApplyPlan, UndoChange, Connect, Disconnect,
        Restart, vars, Resume, Generated, GeneratorRaises, Told, TellingRaises
<1>3. \A type \in Outsiders : ~OutsideEvent(type)
    <2> SUFFICES ASSUME NEW type \in Outsiders, OutsideEvent(type) PROVE FALSE
        OBVIOUS
    <2>1. log' = Append(log, [type |-> type]) /\ [type |-> type] \in EventSet
        BY OutsideTypes
    <2>2. log'[Len(log) + 1] = [type |-> type]
        BY <1>0, <2>1, AppendKeeps
    <2>3. log'[Len(log) + 1] = loop.event
        BY <1>0, AppendKeeps
    <2>4. loop.event.type = type
        BY <2>2, <2>3
    <2> QED
        BY <2>4, CadAssumption DEF OutcomeTypes
<1>4. ~StorePlan /\ ~StoreChange /\ ~StoreAnnotation /\ ~StoreRequest
    BY <1>1 DEF StorePlan, StoreChange, StoreAnnotation, StoreRequest, OutcomeTypes, ChangeTypes
<1>5. ~ReadVersion /\ ~Spawn /\ ~RefuseHandler /\ \A t \in tasks : ~RefuseCompletion(t) /\ ~RefuseFailure(t)
    BY <1>0 DEF ReadVersion, Spawn, RefuseHandler, RefuseCompletion, RefuseFailure
<1> QED
    BY <1>2, <1>3, <1>4, <1>5 DEF Next, Step, StoreOutcome

\* While no web socket is open, a job has one outcome, whatever is refused
\* and whenever the server stops (_complete_cad_regeneration).
THEOREM JobsHaveOneOutcome ==
    ASSUME MaxClients = 0
    PROVE  Spec => []OneOutcome
<1>1. Init => Answering /\ OneOutcome
    BY DEF Init, Idle, Answering, OneOutcome, OutcomesOf, At
<1>2. TypeOK /\ Answering /\ OneOutcome /\ [Next]_vars => OneOutcome'
    <2> SUFFICES ASSUME TypeOK, Answering, OneOutcome, [Next]_vars PROVE OneOutcome'
        OBVIOUS
    <2>0. log \in Seq(EventSet)
        BY DEF TypeOK
    <2>1. ASSUME NEW e \in EventSet, e.type \notin OutcomeTypes, log' = Append(log, e)
          PROVE  OneOutcome'
        BY <2>0, <2>1, OutcomesStay DEF OneOutcome
    <2>2. CASE log' = log
        BY <2>2 DEF OneOutcome
    <2>3. ASSUME loop.at = "sending", loop.event \in EventSet, log' = Append(log, loop.event),
                 loop.event.type \in OutcomeTypes, loop.basis = Len(log), IsEditor(log)
          PROVE  OneOutcome'
        <3>1. OutcomesOf(loop.event.job) = {}
            <4>1. PICK t \in tasks : t.at = "reporting"
                BY <2>3, OutcomeStored
            <4> QED
                BY <4>1 DEF Answering, Reports
        <3>2. /\ At(log', OutcomeTypes) = At(log, OutcomeTypes) \cup {Len(log) + 1}
              /\ log'[Len(log) + 1] = loop.event
              /\ \A i \in At(log, OutcomeTypes) : log'[i] = log[i]
            BY <2>0, <2>3, FirstOutcome
        <3>3. \A i \in At(log, OutcomeTypes) : log[i].job # loop.event.job
            BY <3>1 DEF OutcomesOf
        <3> QED
            BY <3>2, <3>3 DEF OneOutcome
    <2>4. CASE \E e \in EventSet : Outside(e) /\ log' = Append(log, e)
        BY <2>1, <2>4, OutsideIsOther
    <2> QED
        BY <2>1, <2>2, <2>3, <2>4, LogSteps
<1> QED
    BY <1>1, <1>2, AnsweringStep, TypesHold, PTL DEF Spec


-----------------------------------------------------------------------------
(***************************************************************************)
(* Results and the changes behind them, in one process that nobody stops.  *)
(***************************************************************************)

\* The changes and undos that set a parameter.
Effective == {k \in At(log, ChangeTypes) : DOMAIN log[k].values # {}}

\* The handler of a change is on its way to the request.
Pursuing ==
    /\ loop.at \in {"reading", "sending"}
    /\ loop.event.type \in {"AnnotationStatusChanged", "GenerationRequested"}

\* A change that sets a parameter is followed by a request before the loop
\* does anything else, so a completed result is behind all of them.
Chasing ==
    /\ IsEditor(log)
    /\ loop.at = "sending" =>
        /\ loop.basis = Len(log)
        /\ loop.event.type \in ChangeTypes => loop.event.via = "rest"
    /\ \A k \in Effective : Pursuing \/ \E j \in Requests : k < j
    /\ Completing /\ loop.event.status = "completed" => \A k \in Effective : k < loop.event.job

\* What an append adds to the changes that set a parameter.
LEMMA EffectiveAfter ==
    ASSUME log \in Seq(EventSet), NEW e \in EventSet, log' = Append(log, e)
    PROVE  /\ Effective \subseteq Effective' /\ Effective \subseteq 1 .. Len(log) /\ Len(log) \in Nat
           /\ \A k \in Effective' :
                \/ k \in Effective
                \/ k = Len(log) + 1 /\ e.type \in ChangeTypes /\ DOMAIN e.values # {}
           /\ e.type \in ChangeTypes /\ DOMAIN e.values # {} => Len(log) + 1 \in Effective'
<1>1. /\ At(log, ChangeTypes) \subseteq 1 .. Len(log) /\ Len(log) \in Nat
      /\ At(log', ChangeTypes) = At(log, ChangeTypes) \cup {i \in {Len(log) + 1} : e.type \in ChangeTypes}
      /\ \A i \in At(log, ChangeTypes) : log'[i] = log[i]
    BY AtAfter
<1>2. log'[Len(log) + 1] = e
    BY AppendKeeps
<1> QED
    BY <1>1, <1>2 DEF Effective

\* What the loop sends was just read against the stream, or was sent before.
LEMMA SendingSteps ==
    ASSUME TypeOK, [Next]_vars, loop'.at = "sending"
    PROVE  \/ loop' = loop /\ (log' = log \/ \E e \in EventSet : Outside(e) /\ log' = Append(log, e))
           \/ Handler \/ ReadVersion
<1>1. ASSUME Step, ~ReadVersion PROVE FALSE
    <2>1. \/ loop' = Idle \/ \E job : loop' = Spawning(job)
          \/ \E e, change : loop' = Reading(e, change)
        BY <1>1 DEF Step, StorePlan, StoreChange, StoreAnnotation, StoreRequest, Spawn, RefuseHandler,
            StoreOutcome, RefuseCompletion, RefuseFailure, Request
    <2> QED
        BY <2>1 DEF Idle, Spawning, Reading
<1>2. ASSUME NEW t \in tasks, Resume(t) PROVE loop' = loop /\ log' = log
    <2>1. Told(t) \/ \E e, change : loop' = Reading(e, change)
        BY <1>2 DEF Resume, Generated, GeneratorRaises, TellingRaises
    <2> QED
        BY <2>1 DEF Told, Reading
<1>3. ASSUME Restart PROVE FALSE
    BY <1>3 DEF Restart, Idle
<1>4. CASE Connect \/ Disconnect \/ UNCHANGED vars
    BY <1>4 DEF Connect, Disconnect, vars
<1>5. ASSUME NEW type \in Outsiders, OutsideEvent(type)
      PROVE  loop' = loop /\ \E e \in EventSet : Outside(e) /\ log' = Append(log, e)
    BY <1>5, OutsideTypes DEF OutsideEvent, Outside
<1> QED
    BY <1>1, <1>2, <1>3, <1>4, <1>5 DEF Next

\* The handler of a change goes on to the request, unless it is refused or
\* stopped.
LEMMA PursuingSteps ==
    ASSUME TypeOK, [Next]_vars, Pursuing, ~Restart, ~RefuseHandler
    PROVE  Pursuing' \/ Len(log) + 1 \in Requests'
<1>0. log \in Seq(EventSet) /\ Len(log) \in Nat /\ loop # Idle
    BY DEF TypeOK, Pursuing, Idle
<1>1. ~Handler /\ ~Connect /\ ~Disconnect /\ ~Spawn /\ \A t \in tasks : ~Resume(t)
    BY <1>0 DEF Handler, CreatePlan, ApplyPlan, McpApplyPlan, UndoChange, Connect, Disconnect,
        Resume, Generated, GeneratorRaises, Told, TellingRaises, Spawn, Pursuing
<1>2. CASE ReadVersion
    BY <1>2 DEF ReadVersion, Pursuing, Sending
<1>3. ASSUME NEW types, Store(types) PROVE loop.event.type \in types
    BY <1>3 DEF Store
<1>4. ~StorePlan /\ ~StoreChange /\ \A t \in tasks : ~StoreOutcome(t)
    BY <1>3 DEF StorePlan, StoreChange, StoreOutcome, Pursuing, ChangeTypes, OutcomeTypes
<1>5. \A t \in tasks : ~RefuseCompletion(t) /\ ~RefuseFailure(t)
    BY DEF RefuseCompletion, RefuseFailure, Pursuing
<1>6. CASE StoreAnnotation
    BY <1>6 DEF StoreAnnotation, Request, Reading, Requested, Pursuing
<1>7. CASE StoreRequest
    <2>1. /\ log' = Append(log, loop.event) /\ loop.event \in EventSet
          /\ loop.event.type = "GenerationRequested"
        BY <1>7, StoreTypes DEF StoreRequest
    <2> QED
        BY <1>0, <2>1, AtAfter DEF Requests
<1>8. CASE \E type \in Outsiders : OutsideEvent(type)
    BY <1>8 DEF OutsideEvent, Pursuing
<1>9. CASE UNCHANGED vars
    BY <1>9 DEF vars, Pursuing
<1> QED
    BY <1>1, <1>2, <1>4, <1>5, <1>6, <1>7, <1>8, <1>9 DEF Next, Step

\* A change over REST that sets a parameter goes on to the request.
LEMMA ChangeStored ==
    ASSUME TypeOK, [Next]_vars, loop.at = "sending", loop.event.type \in ChangeTypes,
           loop.event \in EventSet, log' = Append(log, loop.event),
           DOMAIN loop.event.values # {}, loop.event.via = "rest", ~Restart, Outsiders = {}
    PROVE  Pursuing'
<1>0. log' # log /\ loop # Idle
    <2>1. log \in Seq(EventSet) /\ Len(log') = Len(log) + 1 /\ Len(log) \in Nat
        BY AppendKeeps DEF TypeOK
    <2> QED
        BY <2>1 DEF Idle
<1>1. ~Handler /\ ~Connect /\ ~Disconnect /\ ~(UNCHANGED vars) /\ \A t \in tasks : ~Resume(t)
    BY <1>0 DEF Handler, CreatePlan, ApplyPlan, McpApplyPlan, UndoChange, Connect, Disconnect,
        vars, Resume, Generated, GeneratorRaises, Told, TellingRaises
<1>2. ASSUME NEW types, Store(types) PROVE loop.event.type \in types
    BY <1>2 DEF Store
<1>3. ~StorePlan /\ ~StoreAnnotation /\ ~StoreRequest /\ \A t \in tasks : ~StoreOutcome(t)
    BY <1>2 DEF StorePlan, StoreOutcome, StoreAnnotation, StoreRequest, OutcomeTypes, ChangeTypes
<1>4. ~ReadVersion /\ ~Spawn /\ ~RefuseHandler /\ \A t \in tasks : ~RefuseCompletion(t) /\ ~RefuseFailure(t)
    BY <1>0 DEF ReadVersion, Spawn, RefuseHandler, RefuseCompletion, RefuseFailure
<1>5. StoreChange => Pursuing'
    BY DEF StoreChange, Request, Reading, Requested, AnnotationStatus, Pursuing
<1> QED
    BY <1>1, <1>3, <1>4, <1>5 DEF Next, Step

\* An event keeps the results from overwriting anything newer, if the job it
\* completes is behind all changes that set a parameter; and it does so only
\* then.
LEMMA OverwritingAfter ==
    ASSUME TypeOK, NEW e \in EventSet, log' = Append(log, e)
    PROVE  OverwritesNothingNewer' <=>
            /\ OverwritesNothingNewer
            /\ e.type = "GenerationCompleted" /\ e.status = "completed" => \A k \in Effective : k < e.job
<1> DEFINE n == Len(log) + 1
<1>0. log \in Seq(EventSet) /\ Len(log) \in Nat /\ log'[Len(log) + 1] = e
    BY AppendKeeps DEF TypeOK
<1>1. /\ Completions' = Completions \cup
            {i \in {Len(log) + 1} : e.type = "GenerationCompleted" /\ e.status = "completed"}
      /\ Completions \subseteq 1 .. Len(log)
      /\ \A i \in Completions : log'[i] = log[i]
    <2>1. /\ At(log', {"GenerationCompleted"}) = At(log, {"GenerationCompleted"})
                \cup {i \in {Len(log) + 1} : e.type \in {"GenerationCompleted"}}
          /\ At(log, {"GenerationCompleted"}) \subseteq 1 .. Len(log)
          /\ \A i \in At(log, {"GenerationCompleted"}) : log'[i] = log[i]
        BY <1>0, AtAfter
    <2> QED
        BY <1>0, <2>1 DEF Completions
<1>2. ASSUME NEW s \in Seq(EventSet), NEW i \in 1 .. Len(s) + 1, NEW k
      PROVE  k \in At(SubSeq(s, 1, i - 1), ChangeTypes) <=> k \in At(s, ChangeTypes) /\ k < i
    <2>1. /\ SubSeq(s, 1, i - 1) \in Seq(EventSet) /\ Len(SubSeq(s, 1, i - 1)) = i - 1
          /\ \A m \in 1 .. i - 1 : SubSeq(s, 1, i - 1)[m] = s[m]
        BY <1>2, AppendPrefix
    <2>2. DOMAIN SubSeq(s, 1, i - 1) = 1 .. i - 1 /\ DOMAIN s = 1 .. Len(s) /\ Len(s) \in Nat
        BY <2>1
    <2> QED
        BY <2>1, <2>2 DEF At
<1>3. log' \in Seq(EventSet) /\ Len(log') = Len(log) + 1
    BY <1>0, AppendKeeps
<1>4. OverwritesNothingNewer <=>
        \A i \in Completions : \A k \in Effective : k < i => k < log[i].job
    <2>1. \A i \in Completions : \A k :
            k \in At(SubSeq(log, 1, i - 1), ChangeTypes) <=> k \in At(log, ChangeTypes) /\ k < i
        BY <1>0, <1>1, <1>2
    <2> QED
        BY <2>1 DEF OverwritesNothingNewer, Before, Effective
<1>5. OverwritesNothingNewer' <=>
        \A i \in Completions' : \A k \in Effective' : k < i => k < log'[i].job
    <2>1. \A i \in Completions' : i \in Completions \/ i = Len(log) + 1
        BY <1>1
    <2>3. ASSUME NEW i \in Completions' PROVE i \in 1 .. Len(log') + 1
        <3>1. i \in 1 .. Len(log) \/ i = Len(log) + 1
            BY <1>1, <2>1
        <3> QED
            BY <1>0, <1>3, <3>1
    <2>2. \A i \in Completions' : \A k :
            k \in At(SubSeq(log', 1, i - 1), ChangeTypes) <=> k \in At(log', ChangeTypes) /\ k < i
        BY <1>2, <1>3, <2>3
    <2> QED
        BY <2>2 DEF OverwritesNothingNewer, Before, Effective
<1>6. /\ Effective \subseteq Effective' /\ Effective \subseteq 1 .. Len(log)
      /\ \A k \in Effective' : k \in Effective \/ k = Len(log) + 1
    BY <1>0, EffectiveAfter
<1>7. ASSUME NEW i \in Completions
      PROVE  (\A k \in Effective' : k < i => k < log'[i].job)
                <=> \A k \in Effective : k < i => k < log[i].job
    BY <1>0, <1>1, <1>6
<1>8. ASSUME e.type = "GenerationCompleted"
      PROVE  (\A k \in Effective' : k < Len(log) + 1 => k < log'[Len(log) + 1].job)
                <=> \A k \in Effective : k < e.job
    <2>1. \A k \in Effective : k \in Effective' /\ k < Len(log) + 1
        BY <1>0, <1>6
    <2>2. \A k \in Effective' : k < Len(log) + 1 => k \in Effective
        <3>1. ~(Len(log) + 1 < Len(log) + 1)
            BY <1>0
        <3> QED
            BY <1>6, <3>1
    <2> QED
        BY <1>0, <2>1, <2>2
<1> QED
    BY <1>1, <1>4, <1>5, <1>7, <1>8

\* No result on its way is older than a change that sets a parameter.
LEMMA ChasingStep ==
    ASSUME Outsiders = {}, Crashes = FALSE, Mcp = FALSE
    PROVE  TypeOK /\ Chasing /\ [Next]_vars => Chasing'
<1> SUFFICES ASSUME TypeOK, Chasing, [Next]_vars PROVE Chasing'
    OBVIOUS
<1>0. log \in Seq(EventSet) /\ Len(log) \in Nat
    BY DEF TypeOK
<1>1. ~Restart /\ ~RefuseHandler /\ (\A type \in Outsiders : ~OutsideEvent(type))
        /\ \A t \in tasks : ~RefuseCompletion(t) /\ ~RefuseFailure(t)
    BY DEF Restart, RefuseHandler, RefuseCompletion, RefuseFailure, Refused, Chasing
<1>2. IsEditor(log')
    <2>1. ASSUME NEW e \in EventSet, log' = Append(log, e), e \in LoopEvents PROVE IsEditor(log')
        <3>1. e.type # "MembershipRevoked"
            BY <2>1 DEF LoopEvents, Followups, Outcomes, PlanEvents, AppliedEvents, RevertedEvents,
                AnnotationEvents, RequestEvents, CompletedEvents, FailedEvents
        <3>2. At(log', {"MembershipRevoked"}) = At(log, {"MembershipRevoked"})
            <4>1. At(log', {"MembershipRevoked"}) = At(log, {"MembershipRevoked"})
                    \cup {i \in {Len(log) + 1} : e.type \in {"MembershipRevoked"}}
                BY <1>0, <2>1, AtAfter
            <4> QED
                BY <3>1, <4>1
        <3> QED
            BY <3>2 DEF Chasing, IsEditor
    <2>2. log' = log => IsEditor(log')
        BY DEF Chasing
    <2>3. \A e : ~Outside(e)
        BY DEF Outside
    <2> QED
        BY <2>1, <2>2, <2>3, LogSteps, LoopKinds
<1>3. CASE Completing'
    <2>1. CASE Completing /\ loop'.event = loop.event /\ log' = log
        <3>1. Effective' = Effective
            BY <2>1 DEF Effective
        <3>2. ~Pursuing /\ loop'.event.type \notin ChangeTypes
            BY <2>1 DEF Completing, Pursuing, ChangeTypes
        <3>3. ASSUME loop'.at = "sending" PROVE loop'.basis = Len(log)
            <4>1. loop' = loop \/ Handler \/ ReadVersion
                BY <2>1, <3>3, SendingSteps
            <4>2. ASSUME Handler PROVE FALSE
                <5>1. loop = Idle
                    BY <4>2 DEF Handler, CreatePlan, ApplyPlan, McpApplyPlan, UndoChange
                <5> QED
                    BY <2>1, <5>1 DEF Completing, Idle
            <4>3. CASE ReadVersion
                BY <4>3 DEF ReadVersion, Sending
            <4>4. CASE loop' = loop
                BY <3>3, <4>4 DEF Chasing
            <4> QED
                BY <4>1, <4>2, <4>3, <4>4
        <3> QED
            BY <1>2, <2>1, <3>1, <3>2, <3>3 DEF Chasing, Requests, Completing
    <2>2. ASSUME NEW t \in tasks, Generated(t), loop'.event = Outcome(t), log' = log, loop = Idle
          PROVE  Chasing'
        <3>1. Effective' = Effective /\ Requests' = Requests
            BY <2>2 DEF Effective, Requests
        <3>2. \A k \in Effective : \E j \in Requests : k < j
            BY <2>2 DEF Chasing, Pursuing, Idle
        <3>3. loop'.at = "reading"
            BY <2>2 DEF Generated, Reading
        <3>4. ASSUME loop'.event.status = "completed", NEW k \in Effective
              PROVE  k < loop'.event.job
            <4>1. loop'.event.job = LatestJob(log)
                BY <2>2, <3>4 DEF Outcome, Completed
            <4>2. PICK j \in Requests : k < j
                BY <3>2, <3>4
            <4>3. Requests \subseteq 1 .. Len(log)
                BY <1>0 DEF Requests, At
            <4> DEFINE m == Max(Requests)
            <4>4. m \in Requests /\ \A y \in Requests : y <= m
                BY <1>0, <4>2, <4>3, LastPosition
            <4>5. LatestJob(log) = m
                BY <4>2 DEF LatestJob, Last, Requests
            <4> HIDE DEF m
            <4>6. k \in Nat /\ j \in Nat /\ m \in Nat /\ j <= m
                BY <1>0, <4>3, <4>4 DEF Effective, At
            <4>7. k < m
                BY <4>2, <4>6
            <4> QED
                BY <4>1, <4>5, <4>7
        <3> QED
            BY <1>2, <3>1, <3>2, <3>3, <3>4 DEF Chasing
    <2>3. \A e : ~Outside(e)
        BY DEF Outside
    <2> QED
        BY <1>3, <2>1, <2>2, <2>3, CompletingSteps
<1>4. CASE ~Completing'
    <2>0. ASSUME loop'.at = "sending"
          PROVE  /\ loop'.basis = Len(log)'
                 /\ loop'.event.type \in ChangeTypes => loop'.event.via = "rest"
        <3>1. loop.at = "reading" => loop.event.type \notin ChangeTypes
            BY LoopKinds DEF Followups, Outcomes, AnnotationEvents, RequestEvents, CompletedEvents,
                FailedEvents, ChangeTypes
        <3>2. CASE Handler
            BY <3>2 DEF Handler, CreatePlan, ApplyPlan, McpApplyPlan, UndoChange, Sending, PlanCreated,
                Application, ChangeApplied, ChangeReverted, ChangeTypes
        <3>3. CASE ReadVersion
            BY <3>1, <3>3 DEF ReadVersion, Sending
        <3>4. CASE loop' = loop /\ log' = log
            BY <2>0, <3>4 DEF Chasing
        <3> QED
            BY <2>0, <3>2, <3>3, <3>4, SendingSteps DEF Outside
    <2> SUFFICES ASSUME NEW k \in Effective'
                 PROVE  Pursuing' \/ \E j \in Requests' : k < j
        BY <1>2, <1>4, <2>0 DEF Chasing
    <2>1. CASE k \in Effective /\ \E j \in Requests : k < j
        <3>1. Requests \subseteq Requests'
            <4>1. log' = log \/ \E e \in EventSet : log' = Append(log, e)
                BY LogSteps
            <4> QED
                BY <1>0, <4>1, AtStays DEF Requests
        <3> QED
            BY <2>1, <3>1
    <2>2. CASE k \in Effective /\ Pursuing
        <3>1. Pursuing' \/ Len(log) + 1 \in Requests'
            BY <1>1, <2>2, PursuingSteps
        <3>2. k \in 1 .. Len(log)
            BY <1>0, <2>2 DEF Effective, At
        <3> QED
            BY <1>0, <3>1, <3>2
    <2>3. CASE k \notin Effective
        <3>1. PICK e \in EventSet : log' = Append(log, e) /\ e = loop.event
            <4>1. log' # log
                BY <2>3 DEF Effective
            <4> QED
                BY <4>1, LogSteps DEF Outside
        <3>2. e.type \in ChangeTypes /\ DOMAIN e.values # {} /\ loop.at = "sending"
            BY <1>0, <2>3, <3>1, EffectiveAfter, LogSteps DEF Outside, Effective
        <3>3. Pursuing'
            BY <1>1, <3>1, <3>2, ChangeStored DEF Chasing
        <3> QED
            BY <3>3
    <2> QED
        BY <2>1, <2>2, <2>3 DEF Chasing
<1> QED
    BY <1>3, <1>4

\* In one process that nobody stops, with all changes over REST, no result
\* overwrites a newer change or undo, however many sockets come and go and
\* however long the generator takes (_queue_cad_regeneration,
\* _complete_cad_regeneration).
THEOREM NothingNewerIsOverwritten ==
    ASSUME Outsiders = {}, Crashes = FALSE, Mcp = FALSE
    PROVE  Spec => []OverwritesNothingNewer
<1>1. Init => Chasing /\ OverwritesNothingNewer
    BY DEF Init, Idle, Chasing, Effective, Completing, IsEditor, OverwritesNothingNewer, Completions, At
<1>2. TypeOK /\ Chasing /\ OverwritesNothingNewer /\ [Next]_vars => OverwritesNothingNewer'
    <2> SUFFICES ASSUME TypeOK, Chasing, OverwritesNothingNewer, [Next]_vars
                 PROVE  OverwritesNothingNewer'
        OBVIOUS
    <2>1. CASE log' = log
        BY <2>1 DEF OverwritesNothingNewer, Completions, Before
    <2>2. CASE log' # log
        <3>1. /\ loop.at = "sending" /\ loop.event \in EventSet /\ log' = Append(log, loop.event)
            BY <2>2, LogSteps DEF Outside
        <3> QED
            BY <3>1, OverwritingAfter DEF Chasing, Completing
    <2> QED
        BY <2>1, <2>2
<1>3. TypeOK /\ Chasing /\ [Next]_vars => Chasing'
    BY ChasingStep
<1> QED
    BY <1>1, <1>2, <1>3, TypesHold, PTL DEF Spec

-----------------------------------------------------------------------------
(***************************************************************************)
(* The changes that stand.                                                 *)
(***************************************************************************)
StandingIn(s, p) == {i \in At(s, {"ChangeApplied"}) \ Reverted(s) : p \in DOMAIN s[i].values}

\* What the newest event among some gives a parameter.
NewestIn(s, S, p) == IF S = {} THEN Initial[p] ELSE s[Max(S)].values[p]

\* Every parameter has the value of the changes that stand, and each of them
\* remembers what the one before it had given.
Consistent(s) ==
    \A p \in Params :
        /\ ValueIn(s, p) = NewestIn(s, StandingIn(s, p), p)
        /\ \A i \in StandingIn(s, p) :
            s[i].before[p] = NewestIn(s, {k \in StandingIn(s, p) : k < i}, p)

LEMMA NewestAfter ==
    ASSUME NEW s \in Seq(EventSet), NEW e \in EventSet, NEW S \in SUBSET (1 .. Len(s)), NEW p
    PROVE  /\ NewestIn(Append(s, e), S, p) = NewestIn(s, S, p)
           /\ NewestIn(Append(s, e), S \cup {Len(s) + 1}, p) = e.values[p]
<1> DEFINE t == Append(s, e)
           n == Len(s) + 1
<1>1. /\ Len(s) \in Nat /\ t[n] = e /\ DOMAIN s = 1 .. Len(s)
      /\ \A i \in DOMAIN s : t[i] = s[i]
    BY AppendKeeps
<1> HIDE DEF t
<1>2. S # {} => Max(S) \in S
    BY <1>1, LastPosition
<1>3. NewestIn(t, S, p) = NewestIn(s, S, p)
    BY <1>1, <1>2 DEF NewestIn
<1>4. Max(S \cup {n}) = n
    <2>1. n \in Nat /\ n \in 1 .. n /\ n <= n
        BY <1>1
    <2>2. ASSUME NEW y \in S PROVE y \in 1 .. n /\ y <= n
        BY <1>1
    <2> HIDE DEF n
    <2>3. S \cup {n} \in SUBSET (1 .. n) /\ \A y \in S \cup {n} : y <= n
        BY <2>1, <2>2
    <2> QED
        BY <2>1, <2>3, LastIs
<1> HIDE DEF n
<1>5. NewestIn(t, S \cup {n}, p) = e.values[p]
    BY <1>1, <1>4 DEF NewestIn
<1> QED
    BY <1>3, <1>5 DEF t, n

\* An event gives a parameter the value it sets, and leaves the others.
LEMMA ValueAfter ==
    ASSUME NEW s \in Seq(EventSet), NEW e \in EventSet, NEW p
    PROVE  ValueIn(Append(s, e), p) =
            IF e.type \in ChangeTypes \cup {"GenerationCompleted"} /\ p \in DOMAIN e.values
            THEN e.values[p] ELSE ValueIn(s, p)
<1> DEFINE t     == Append(s, e)
           n     == Len(s) + 1
           types == ChangeTypes \cup {"GenerationCompleted"}
           W     == Writing(s, p)
<1>1. /\ At(t, types) = At(s, types) \cup {i \in {n} : e.type \in types}
      /\ \A i \in At(s, types) : t[i] = s[i]
    BY AtAfter
<1>2. t[n] = e
    BY AppendKeeps
<1>3. W \subseteq 1 .. Len(s)
    BY WritingTypes
<1> HIDE DEF t, n
<1>4. Writing(t, p) = IF e.type \in types /\ p \in DOMAIN e.values THEN W \cup {n} ELSE W
    BY <1>1, <1>2 DEF Writing
<1>5. /\ ValueIn(s, p) = NewestIn(s, W, p)
      /\ ValueIn(t, p) = NewestIn(t, Writing(t, p), p)
    BY DEF ValueIn, NewestIn, Last
<1> HIDE DEF W
<1>6. NewestIn(t, W, p) = NewestIn(s, W, p) /\ NewestIn(t, W \cup {n}, p) = e.values[p]
    BY <1>3, NewestAfter DEF t, n
<1> QED
    BY <1>4, <1>5, <1>6 DEF t

\* A change stands until it is undone.
LEMMA StandingAfter ==
    ASSUME NEW s \in Seq(EventSet), NEW e \in EventSet, NEW p,
           Reverted(s) \subseteq At(s, {"ChangeApplied"})
    PROVE  /\ StandingIn(s, p) \subseteq 1 .. Len(s)
           /\ e.type \notin ChangeTypes => StandingIn(Append(s, e), p) = StandingIn(s, p)
           /\ e.type = "ChangeApplied" =>
                StandingIn(Append(s, e), p) = StandingIn(s, p) \cup {i \in {Len(s) + 1} : p \in DOMAIN e.values}
           /\ e.type = "ChangeReverted" =>
                StandingIn(Append(s, e), p) = StandingIn(s, p) \ {e.target}
           /\ e.type # "ChangeReverted" => Reverted(Append(s, e)) = Reverted(s)
           /\ e.type = "ChangeReverted" => Reverted(Append(s, e)) = Reverted(s) \cup {e.target}
<1> DEFINE t == Append(s, e)
           n == Len(s) + 1
<1>1. /\ At(t, {"ChangeApplied"}) = At(s, {"ChangeApplied"}) \cup {i \in {n} : e.type \in {"ChangeApplied"}}
      /\ At(s, {"ChangeApplied"}) \subseteq 1 .. Len(s) /\ Len(s) \in Nat
      /\ \A i \in At(s, {"ChangeApplied"}) : t[i] = s[i]
    BY AtAfter
<1>2. /\ At(t, {"ChangeReverted"}) = At(s, {"ChangeReverted"}) \cup {i \in {n} : e.type \in {"ChangeReverted"}}
      /\ \A i \in At(s, {"ChangeReverted"}) : t[i] = s[i]
    BY AtAfter
<1>3. t[n] = e /\ n \notin At(s, {"ChangeApplied"}) /\ n \notin Reverted(s)
    BY <1>1, AppendKeeps
<1> HIDE DEF t, n
<1>4. e.type # "ChangeReverted" => Reverted(t) = Reverted(s)
    BY <1>2 DEF Reverted
<1>5. e.type = "ChangeReverted" => Reverted(t) = Reverted(s) \cup {e.target}
    BY <1>2, <1>3 DEF Reverted
<1>6. e.type \notin ChangeTypes => StandingIn(t, p) = StandingIn(s, p)
    BY <1>1, <1>4 DEF StandingIn, ChangeTypes
<1>7. e.type = "ChangeApplied" => StandingIn(t, p) = StandingIn(s, p) \cup {i \in {n} : p \in DOMAIN e.values}
    BY <1>1, <1>3, <1>4 DEF StandingIn
<1>8. e.type = "ChangeReverted" => StandingIn(t, p) = StandingIn(s, p) \ {e.target}
    BY <1>1, <1>5 DEF StandingIn
<1>9. StandingIn(s, p) \subseteq 1 .. Len(s)
    BY <1>1 DEF StandingIn
<1> QED
    BY <1>4, <1>5, <1>6, <1>7, <1>8, <1>9 DEF t, n

\* What gives nothing to a parameter leaves the changes of it that stand.
LEMMA StandingKept ==
    ASSUME NEW s \in Seq(EventSet), NEW e \in EventSet, NEW p,
           Reverted(s) \subseteq At(s, {"ChangeApplied"}),
           ~(e.type \in ChangeTypes /\ DOMAIN e.values # {})
    PROVE  NewestIn(Append(s, e), StandingIn(Append(s, e), p), p) = NewestIn(s, StandingIn(s, p), p)
<1>1. e.type # "ChangeReverted"
    BY EventKinds DEF ChangeTypes, RevertedEvents
<1>2. e.type = "ChangeApplied" => p \notin DOMAIN e.values
    BY DEF ChangeTypes
<1>3. StandingIn(Append(s, e), p) = StandingIn(s, p)
    <2>1. CASE e.type \notin ChangeTypes
        BY <2>1, StandingAfter
    <2>2. CASE e.type = "ChangeApplied"
        <3>1. StandingIn(Append(s, e), p) = StandingIn(s, p) \cup {i \in {Len(s) + 1} : p \in DOMAIN e.values}
            BY <2>2, StandingAfter
        <3> QED
            BY <1>2, <2>2, <3>1
    <2> QED
        BY <1>1, <2>1, <2>2 DEF ChangeTypes
<1>4. StandingIn(s, p) \in SUBSET (1 .. Len(s))
    BY StandingAfter
<1>5. NewestIn(Append(s, e), StandingIn(s, p), p) = NewestIn(s, StandingIn(s, p), p)
    BY <1>4, NewestAfter
<1> QED
    BY <1>3, <1>5

LEMMA ConsistentAfter ==
    ASSUME NEW s \in Seq(EventSet), NEW e \in EventSet, Consistent(s),
           Reverted(s) \subseteq At(s, {"ChangeApplied"}),
           e.type = "ChangeApplied" => e.before = ValuesIn(s, DOMAIN e.values),
           e.type = "ChangeReverted" =>
                /\ e.target \in At(s, {"ChangeApplied"}) \ Reverted(s)
                /\ LatestForParameters(s, e.target)
                /\ e.values = s[e.target].before,
           e.type = "GenerationCompleted" /\ e.status = "completed" =>
                \A p \in Params : e.values[p] = NewestIn(s, StandingIn(s, p), p)
    PROVE  Consistent(Append(s, e))
<1> DEFINE t == Append(s, e)
           n == Len(s) + 1
<1> SUFFICES ASSUME NEW p \in Params
             PROVE  /\ ValueIn(t, p) = NewestIn(t, StandingIn(t, p), p)
                    /\ \A i \in StandingIn(t, p) :
                        t[i].before[p] = NewestIn(t, {k \in StandingIn(t, p) : k < i}, p)
    BY DEF Consistent
<1> DEFINE S == StandingIn(s, p)
           Below(i) == {k \in S : k < i}
<1>1. /\ ValueIn(s, p) = NewestIn(s, S, p)
      /\ \A i \in S : s[i].before[p] = NewestIn(s, Below(i), p)
    BY DEF Consistent
<1>2. /\ Len(s) \in Nat /\ t[n] = e /\ DOMAIN s = 1 .. Len(s)
      /\ \A i \in DOMAIN s : t[i] = s[i]
    BY AppendKeeps
<1>3. S \subseteq 1 .. Len(s)
    BY StandingAfter
<1>4. \A T \in SUBSET (1 .. Len(s)) :
        NewestIn(t, T, p) = NewestIn(s, T, p) /\ NewestIn(t, T \cup {n}, p) = e.values[p]
    BY NewestAfter
<1>5. \A i \in S : t[i].before[p] = NewestIn(t, Below(i), p)
    BY <1>1, <1>2, <1>3, <1>4
<1>6. CASE e.type \notin ChangeTypes
    <2>1. StandingIn(t, p) = S
        BY <1>6, StandingAfter
    <2>2. ValueIn(t, p) = ValueIn(s, p) \/
            (e.type = "GenerationCompleted" /\ p \in DOMAIN e.values /\ ValueIn(t, p) = e.values[p])
        BY <1>6, ValueAfter
    <2>3. e.type = "GenerationCompleted" /\ p \in DOMAIN e.values => e.values[p] = NewestIn(s, S, p)
        <3>1. e.type = "GenerationCompleted" /\ p \in DOMAIN e.values => e.status = "completed"
            BY EventKinds DEF CompletedEvents
        <3> QED
            BY <3>1
    <2> HIDE DEF S, t
    <2> QED
        BY <1>1, <1>3, <1>4, <1>5, <2>1, <2>2, <2>3
<1>7. CASE e.type = "ChangeApplied" /\ p \notin DOMAIN e.values
    <2>1. StandingIn(t, p) = S
        <3>1. StandingIn(t, p) = S \cup {i \in {n} : p \in DOMAIN e.values}
            BY <1>7, StandingAfter
        <3> QED
            BY <1>7, <3>1
    <2>2. ValueIn(t, p) = ValueIn(s, p)
        BY <1>7, ValueAfter
    <2> HIDE DEF S, t
    <2> QED
        BY <1>1, <1>3, <1>4, <1>5, <2>1, <2>2
<1>8. CASE e.type = "ChangeApplied" /\ p \in DOMAIN e.values
    <2>1. StandingIn(t, p) = S \cup {n}
        <3>1. StandingIn(t, p) = S \cup {i \in {n} : p \in DOMAIN e.values}
            BY <1>8, StandingAfter
        <3> QED
            BY <1>8, <3>1
    <2>2. ValueIn(t, p) = e.values[p]
        BY <1>8, ValueAfter DEF ChangeTypes
    <2>3. e.before[p] = ValueIn(s, p)
        BY <1>8 DEF ValuesIn
    <2> HIDE DEF S, t
    <2>0. ~(n < n) /\ \A k \in S : k < n /\ ~(n < k)
        BY <1>2, <1>3
    <2> HIDE DEF n
    <2>4. \A i \in S : {k \in S \cup {n} : k < i} = Below(i)
        BY <2>0
    <2>5. {k \in S \cup {n} : k < n} = S
        BY <2>0
    <2> HIDE DEF Below
    <2>6. ValueIn(t, p) = NewestIn(t, S \cup {n}, p)
        BY <1>3, <1>4, <2>2
    <2>7. t[n].before[p] = NewestIn(t, S, p)
        BY <1>1, <1>2, <1>3, <1>4, <2>3
    <2> QED
        BY <1>5, <2>1, <2>4, <2>5, <2>6, <2>7
<1>9. CASE e.type = "ChangeReverted"
    <2> DEFINE j == e.target
    <2>1. /\ StandingIn(t, p) = S \ {j} /\ j \in At(s, {"ChangeApplied"})
          /\ j \in 1 .. Len(s) /\ s[j] \in AppliedEvents
          /\ e.values = s[j].before /\ DOMAIN e.values = DOMAIN s[j].values
        <3>1. StandingIn(t, p) = S \ {j}
            BY <1>9, StandingAfter
        <3>2. j \in At(s, {"ChangeApplied"}) /\ e.values = s[j].before
            BY <1>9
        <3>3. j \in 1 .. Len(s) /\ s[j] \in AppliedEvents
            BY <1>2, <3>2, EventKinds DEF At
        <3>4. DOMAIN e.values = DOMAIN s[j].values
            BY <3>2, <3>3 DEF AppliedEvents
        <3> QED
            BY <3>1, <3>2, <3>3, <3>4
    <2>2. CASE p \notin DOMAIN e.values
        <3>1. S \ {j} = S
            BY <2>1, <2>2 DEF StandingIn
        <3>2. ValueIn(t, p) = ValueIn(s, p)
            BY <2>2, ValueAfter
        <3> HIDE DEF S, t
        <3> QED
            BY <1>1, <1>3, <1>4, <1>5, <2>1, <3>1, <3>2
    <2>3. CASE p \in DOMAIN e.values
        <3>1. j \in S
            BY <1>9, <2>1, <2>3 DEF StandingIn
        <3>2. \A k \in S : ~(k > j)
            BY <1>9, <2>1, <2>3 DEF LatestForParameters, StandingIn
        <3>3. ValueIn(t, p) = e.values[p]
            BY <1>9, <2>3, ValueAfter DEF ChangeTypes
        <3> HIDE DEF S, t
        <3> HIDE DEF j
        <3>0. ~(j < j) /\ \A k \in S \ {j} : k < j /\ ~(j < k)
            BY <1>2, <1>3, <3>1, <3>2
        <3>4. S \ {j} = Below(j)
            BY <3>0
        <3>5. \A i \in S \ {j} : {k \in S \ {j} : k < i} = Below(i)
            BY <3>0
        <3>6. Below(j) \subseteq 1 .. Len(s)
            BY <1>3
        <3> HIDE DEF Below
        <3>7. ValueIn(t, p) = NewestIn(t, Below(j), p)
            BY <1>1, <1>4, <2>1, <3>1, <3>3, <3>6
        <3> QED
            BY <1>5, <2>1, <3>4, <3>5, <3>7
    <2> QED
        BY <2>2, <2>3
<1> QED
    BY <1>6, <1>7, <1>8, <1>9 DEF ChangeTypes

-----------------------------------------------------------------------------
(***************************************************************************)
(* Undo and results against the changes that stand.                        *)
(***************************************************************************)

\* A change on its way, as long as it may still be stored: it remembers the
\* values of now, and what it undoes is a change that stands and is in
\* nobody's way.
Prepared ==
    loop.at = "sending" /\ loop.basis = Len(log) =>
        /\ loop.event.type = "ChangeApplied" =>
            loop.event.before = ValuesIn(log, DOMAIN loop.event.values)
        /\ loop.event.type = "ChangeReverted" =>
            /\ loop.event.target \in At(log, {"ChangeApplied"}) \ Reverted(log)
            /\ LatestForParameters(log, loop.event.target)
            /\ loop.event.values = log[loop.event.target].before

\* What is undone was applied, and what is completed was requested.
Rooted ==
    /\ Reverted(log) \subseteq At(log, {"ChangeApplied"})
    /\ Completing => loop.event.job \in Requests

\* A result sets the parameters to the values of the changes that stand, or a
\* change of one of them came after its request.
Fresh(job, values) == (\E k \in Effective : job < k) \/ \A p \in Params : values[p] = Standing(p)

Standings ==
    /\ Consistent(log)
    /\ \A t \in tasks : Fresh(t.job, t.values)
    /\ Completing /\ loop.event.status = "completed" => Fresh(loop.event.job, loop.event.values)

\* As long as no result has overwritten a newer change.
Restoring == OverwritesNothingNewer => Standings

LEMMA StandingIs == \A p : Standing(p) = NewestIn(log, StandingIn(log, p), p)
BY DEF Standing, StandingIn, NewestIn, Last

LEMMA PreparedStep == TypeOK /\ Prepared /\ [Next]_vars => Prepared'
<1> SUFFICES ASSUME TypeOK, Prepared, [Next]_vars, loop'.at = "sending", loop'.basis = Len(log')
             PROVE  /\ loop'.event.type = "ChangeApplied" =>
                        loop'.event.before = ValuesIn(log', DOMAIN loop'.event.values)
                    /\ loop'.event.type = "ChangeReverted" =>
                        /\ loop'.event.target \in At(log', {"ChangeApplied"}) \ Reverted(log')
                        /\ LatestForParameters(log', loop'.event.target)
                        /\ loop'.event.values = log'[loop'.event.target].before
    BY DEF Prepared
<1>0. log \in Seq(EventSet) /\ Len(log) \in Nat
    BY DEF TypeOK
<1>1. CASE loop' = loop /\ log' = log
    BY <1>1 DEF Prepared
<1>2. ASSUME loop' = loop, NEW e \in EventSet, log' = Append(log, e) PROVE FALSE
    <2>1. Len(log') = Len(log) + 1
        BY <1>0, <1>2, AppendKeeps
    <2>2. loop.basis \in Nat /\ loop.basis <= Len(log)
        BY <1>2, LoopKinds
    <2> QED
        BY <1>0, <1>2, <2>1, <2>2
<1>3. CASE ReadVersion
    <2>1. loop'.event = loop.event /\ loop.event \in Followups \cup Outcomes
        BY <1>3, LoopKinds DEF ReadVersion, Sending
    <2> QED
        BY <2>1 DEF Followups, Outcomes, AnnotationEvents, RequestEvents, CompletedEvents, FailedEvents
<1>4. CASE Handler
    <2>1. ASSUME NEW patch \in Patches, CreatePlan(patch)
          PROVE  loop'.event.type = "ChangePlanCreated"
        BY <2>1 DEF CreatePlan, Sending, PlanCreated
    <2>2. ASSUME NEW q, NEW noted, NEW via, loop' = Sending(Application(q, noted, via), 0, Len(log))
          PROVE  /\ loop'.event.type = "ChangeApplied"
                 /\ loop'.event.before = ValuesIn(log, DOMAIN loop'.event.values)
        BY <2>2 DEF Sending, Application, ChangeApplied
    <2>3. ASSUME NEW i \in At(log, {"ChangeApplied"}), UndoChange(i)
          PROVE  /\ loop'.event.type = "ChangeReverted"
                 /\ loop'.event.target \in At(log, {"ChangeApplied"}) \ Reverted(log)
                 /\ LatestForParameters(log, loop'.event.target)
                 /\ loop'.event.values = log[loop'.event.target].before
        <3>1. loop'.event = ChangeReverted(log[i].plan, i, log[i].before, Len(log) + 1, log[i].noted)
            BY <2>3 DEF UndoChange, Sending
        <3>2. /\ loop'.event.type = "ChangeReverted" /\ loop'.event.target = i
              /\ loop'.event.values = log[i].before
            BY <3>1 DEF ChangeReverted
        <3> QED
            BY <2>3, <3>2 DEF UndoChange
    <2>4. log' = log
        BY <1>4 DEF Handler, CreatePlan, ApplyPlan, McpApplyPlan, UndoChange
    <2> QED
        BY <1>4, <2>1, <2>2, <2>3, <2>4 DEF Handler, ApplyPlan, McpApplyPlan
<1> QED
    BY <1>1, <1>2, <1>3, <1>4, SendingSteps

LEMMA RootedStep == TypeOK /\ Prepared /\ Rooted /\ [Next]_vars => Rooted'
<1> SUFFICES ASSUME TypeOK, Prepared, Rooted, [Next]_vars PROVE Rooted'
    OBVIOUS
<1>0. log \in Seq(EventSet)
    BY DEF TypeOK
<1>1. Requests \subseteq Requests'
    <2>1. log' = log \/ \E e \in EventSet : log' = Append(log, e)
        BY LogSteps
    <2> QED
        BY <1>0, <2>1, AtStays DEF Requests
<1>2. Completing' => loop'.event.job \in Requests'
    <2>1. ASSUME NEW t \in tasks, loop'.event = Outcome(t) PROVE loop'.event.job \in Requests
        BY <2>1 DEF Outcome, Completed, TypeOK
    <2> QED
        BY <1>1, <2>1, CompletingSteps DEF Rooted
<1>3. ASSUME NEW e \in EventSet, log' = Append(log, e),
             e.type = "ChangeReverted" => e.target \in At(log, {"ChangeApplied"})
      PROVE  Reverted(log') \subseteq At(log', {"ChangeApplied"})
    <2>1. At(log, {"ChangeApplied"}) \subseteq At(log', {"ChangeApplied"})
        BY <1>0, <1>3, AtStays
    <2>2. Reverted(log') \subseteq Reverted(log) \cup {i \in {e.target} : e.type = "ChangeReverted"}
        BY <1>0, <1>3, StandingAfter DEF Rooted
    <2> QED
        BY <1>3, <2>1, <2>2 DEF Rooted
<1>4. Reverted(log') \subseteq At(log', {"ChangeApplied"})
    <2>1. CASE log' = log
        BY <2>1 DEF Rooted
    <2>2. CASE /\ loop.at = "sending" /\ loop.basis = Len(log) /\ loop.event \in EventSet
               /\ log' = Append(log, loop.event)
        BY <1>3, <2>2 DEF Prepared
    <2>3. CASE \E e \in EventSet : Outside(e) /\ log' = Append(log, e)
        BY <1>3, <2>3, OutsideIsOther DEF ChangeTypes
    <2> QED
        BY <2>1, <2>2, <2>3, LogSteps
<1> QED
    BY <1>2, <1>4 DEF Rooted

\* A task keeps its job and the values of its snapshot.
LEMMA TaskSteps ==
    ASSUME TypeOK, [Next]_vars, NEW t \in tasks'
    PROVE  \/ \E u \in tasks : t.job = u.job /\ t.values = u.values
           \/ log' = log /\ t.values = ValuesIn(log, Params)
<1>1. CASE t \in tasks
    BY <1>1
<1>2. ASSUME Handler \/ ReadVersion \/ StorePlan \/ StoreChange \/ StoreAnnotation \/ StoreRequest \/ RefuseHandler
      PROVE  tasks' = tasks
    BY <1>2 DEF Handler, CreatePlan, ApplyPlan, McpApplyPlan, UndoChange, ReadVersion, StorePlan,
        StoreChange, StoreAnnotation, StoreRequest, RefuseHandler
<1>3. CASE Spawn
    BY <1>1, <1>3 DEF Spawn, Task
<1>4. ASSUME NEW u \in tasks, StoreOutcome(u) \/ RefuseCompletion(u) \/ RefuseFailure(u) \/ Resume(u)
      PROVE  \E v \in tasks : t.job = v.job /\ t.values = v.values
    <2>0. u \in TaskSet
        BY DEF TypeOK
    <2> DEFINE told == [u EXCEPT !.at = "telling", !.told = loop.event.type, !.size = clients]
    <2>1. /\ Reporting(u).job = u.job /\ Reporting(u).values = u.values
          /\ told.job = u.job /\ told.values = u.values
        BY <2>0 DEF TaskSet, Reporting
    <2> HIDE DEF told
    <2>2. t \in tasks \/ t = Reporting(u) \/ t = told
        BY <1>4 DEF StoreOutcome, RefuseCompletion, RefuseFailure, Resume, Generated, GeneratorRaises,
            Told, TellingRaises, Become, told
    <2> QED
        BY <2>1, <2>2
<1>5. ASSUME Connect \/ Disconnect \/ Restart \/ UNCHANGED vars \/ \E type \in Outsiders : OutsideEvent(type)
      PROVE  tasks' \subseteq tasks
    BY <1>5 DEF Connect, Disconnect, Restart, OutsideEvent, vars
<1> QED
    BY <1>1, <1>2, <1>3, <1>4, <1>5 DEF Next, Step

\* What was fresh stays so: the event sets no parameter, or it is a change
\* after the request.
LEMMA FreshStays ==
    ASSUME TypeOK, Rooted, NEW e \in EventSet, log' = Append(log, e),
           NEW job \in Requests, NEW values, Fresh(job, values)
    PROVE  (\E k \in Effective' : job < k) \/ \A p \in Params : values[p] = Standing(p)'
<1>0. log \in Seq(EventSet) /\ Len(log) \in Nat /\ job \in 1 .. Len(log)
    BY DEF TypeOK, Requests, At
<1>1. CASE e.type \in ChangeTypes /\ DOMAIN e.values # {}
    <2>1. Len(log) + 1 \in Effective'
        BY <1>0, <1>1, EffectiveAfter
    <2> QED
        BY <1>0, <2>1
<1>2. CASE ~(e.type \in ChangeTypes /\ DOMAIN e.values # {})
    <2>1. \A p : Standing(p)' = Standing(p)
        <3>1. \A p : NewestIn(log', StandingIn(log', p), p) = NewestIn(log, StandingIn(log, p), p)
            BY <1>0, <1>2, StandingKept DEF Rooted
        <3>2. \A p : Standing(p)' = NewestIn(log', StandingIn(log', p), p)
            BY DEF Standing, StandingIn, NewestIn, Last
        <3> QED
            BY <3>1, <3>2, StandingIs
    <2>2. Effective \subseteq Effective'
        BY <1>0, EffectiveAfter
    <2> QED
        BY <2>1, <2>2 DEF Fresh
<1> QED
    BY <1>1, <1>2

LEMMA RestoringStep == TypeOK /\ Prepared /\ Rooted /\ Restoring /\ [Next]_vars => Restoring'
<1> SUFFICES ASSUME TypeOK, Prepared, Rooted, Restoring, [Next]_vars, OverwritesNothingNewer'
             PROVE  Standings'
    BY DEF Restoring
<1>0. log \in Seq(EventSet) /\ \A t \in tasks : t.job \in Requests
    BY DEF TypeOK
<1>1. CASE log' = log
    <2>1. OverwritesNothingNewer' <=> OverwritesNothingNewer
        BY <1>1 DEF OverwritesNothingNewer, Completions, Before
    <2>2. Standings
        BY <2>1 DEF Restoring
    <2>3. Consistent(log')
        BY <1>1, <2>2 DEF Standings
    <2>4. \A job, values : Fresh(job, values)' <=> Fresh(job, values)
        BY <1>1 DEF Fresh, Effective, Standing
    <2>5. ASSUME NEW t \in tasks' PROVE Fresh(t.job, t.values)
        <3>1. CASE t.values = ValuesIn(log, Params)
            <4>1. \A p \in Params : t.values[p] = ValueIn(log, p)
                BY <3>1 DEF ValuesIn
            <4> QED
                BY <2>2, <4>1, StandingIs DEF Standings, Consistent, Fresh
        <3>2. ASSUME NEW u \in tasks, t.job = u.job, t.values = u.values PROVE Fresh(t.job, t.values)
            BY <2>2, <3>2 DEF Standings
        <3> QED
            BY <3>1, <3>2, TaskSteps
    <2>6. ASSUME Completing', loop'.event.status = "completed"
          PROVE  Fresh(loop'.event.job, loop'.event.values)
        <3>1. CASE Completing /\ loop'.event = loop.event
            BY <2>2, <2>6, <3>1 DEF Standings
        <3>2. ASSUME NEW t \in tasks, loop'.event = Outcome(t)
              PROVE  Fresh(loop'.event.job, loop'.event.values)
            <4>1. loop'.event.job = t.job /\ loop'.event.values = t.values
                BY <2>6, <3>2 DEF Outcome, Completed
            <4> QED
                BY <2>2, <4>1 DEF Standings
        <3> QED
            BY <2>6, <3>1, <3>2, CompletingSteps
    <2> QED
        BY <2>3, <2>4, <2>5, <2>6 DEF Standings
<1>2. ASSUME NEW e \in EventSet, log' = Append(log, e),
             \/ loop.at = "sending" /\ loop.basis = Len(log) /\ e = loop.event
             \/ Outside(e)
      PROVE  Standings'
    <2>1. /\ OverwritesNothingNewer
          /\ e.type = "GenerationCompleted" /\ e.status = "completed" => \A k \in Effective : k < e.job
        BY <1>2, OverwritingAfter
    <2>2. Standings
        BY <2>1 DEF Restoring
    <2>3. e.type = "GenerationCompleted" /\ e.status = "completed" =>
            \A p \in Params : e.values[p] = NewestIn(log, StandingIn(log, p), p)
        <3> SUFFICES ASSUME e.type = "GenerationCompleted", e.status = "completed"
                     PROVE  \A p \in Params : e.values[p] = NewestIn(log, StandingIn(log, p), p)
            OBVIOUS
        <3>1. loop.at = "sending" /\ e = loop.event
            BY <1>2, OutsideIsOther DEF OutcomeTypes
        <3>2. Completing /\ e.job \in Requests
            BY <3>1 DEF Completing, Rooted
        <3>3. Fresh(e.job, e.values)
            BY <2>2, <3>1, <3>2 DEF Standings
        <3>4. ~ \E k \in Effective : e.job < k
            <4>1. e.job \in Nat /\ Effective \subseteq Nat
                BY <1>0, <3>2 DEF Requests, Effective, At
            <4> QED
                BY <2>1, <4>1
        <3> QED
            BY <3>3, <3>4, StandingIs DEF Fresh
    <2>4. Consistent(log')
        <3>1. /\ e.type = "ChangeApplied" => e.before = ValuesIn(log, DOMAIN e.values)
              /\ e.type = "ChangeReverted" =>
                    /\ e.target \in At(log, {"ChangeApplied"}) \ Reverted(log)
                    /\ LatestForParameters(log, e.target)
                    /\ e.values = log[e.target].before
            BY <1>2, OutsideIsOther DEF Prepared, ChangeTypes
        <3> QED
            BY <1>0, <1>2, <2>2, <2>3, <3>1, ConsistentAfter DEF Standings, Rooted
    <2>5. log' # log
        <3>1. Len(log') = Len(log) + 1 /\ Len(log) \in Nat
            BY <1>0, <1>2, AppendKeeps
        <3> QED
            BY <3>1
    <2>6. ASSUME NEW t \in tasks'
          PROVE  (\E k \in Effective' : t.job < k) \/ \A p \in Params : t.values[p] = Standing(p)'
        <3>1. PICK u \in tasks : t.job = u.job /\ t.values = u.values
            BY <2>5, TaskSteps
        <3>2. Fresh(u.job, u.values) /\ u.job \in Requests
            BY <1>0, <2>2 DEF Standings
        <3> QED
            BY <1>2, <3>1, <3>2, FreshStays
    <2>7. ASSUME Completing', loop'.event.status = "completed"
          PROVE  \/ \E k \in Effective' : loop'.event.job < k
                 \/ \A p \in Params : loop'.event.values[p] = Standing(p)'
        <3>1. Completing /\ loop'.event = loop.event
            BY <2>5, <2>7, CompletingSteps
        <3>2. Fresh(loop.event.job, loop.event.values) /\ loop.event.job \in Requests
            BY <2>2, <2>7, <3>1 DEF Standings, Rooted
        <3> QED
            BY <1>2, <3>1, <3>2, FreshStays
    <2> QED
        BY <2>4, <2>6, <2>7 DEF Standings, Fresh
<1> QED
    BY <1>1, <1>2, LogSteps

\* In whatever order plans are applied and undone, over REST and over /mcp,
\* and whatever outsiders and restarts do: unless a result has overwritten a
\* newer change, every parameter has the value of the changes that stand
\* (compile_apply_payload, undo_change and the projection of their events).
THEOREM ValuesAreRestored == Spec => []ValuesStand
<1>1. Init => Prepared /\ Rooted /\ Restoring
    <2> SUFFICES ASSUME Init PROVE Prepared /\ Rooted /\ Restoring
        OBVIOUS
    <2>1. \A types : At(log, types) = {}
        BY DEF Init, At
    <2>2. Reverted(log) = {} /\ ~Completing /\ loop.at # "sending" /\ tasks = {}
        BY <2>1 DEF Init, Reverted, Completing, Idle
    <2>3. \A p : ValueIn(log, p) = Initial[p] /\ StandingIn(log, p) = {}
        BY <2>1 DEF ValueIn, Writing, StandingIn
    <2>4. Consistent(log)
        BY <2>3 DEF Consistent, NewestIn
    <2> QED
        BY <2>1, <2>2, <2>4 DEF Prepared, Rooted, Restoring, Standings
<1>2. Restoring => ValuesStand
    BY StandingIs DEF Restoring, Standings, Consistent, ValuesStand
<1> QED
    BY <1>1, <1>2, PreparedStep, RootedStep, RestoringStep, TypesHold, PTL DEF Spec

\* So in one process that nobody stops, with all changes over REST, every
\* parameter always has the value of the changes that stand.
COROLLARY ValuesAlwaysStand ==
    ASSUME Outsiders = {}, Crashes = FALSE, Mcp = FALSE
    PROVE  Spec => [](\A p \in Params : ValueIn(log, p) = Standing(p))
<1>1. OverwritesNothingNewer /\ ValuesStand => \A p \in Params : ValueIn(log, p) = Standing(p)
    BY DEF ValuesStand
<1>2. Spec => []OverwritesNothingNewer
    BY NothingNewerIsOverwritten
<1> QED
    BY <1>1, <1>2, ValuesAreRestored, PTL
=============================================================================
