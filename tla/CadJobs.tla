------------------------------ MODULE CadJobs ------------------------------
(***************************************************************************)
(* Change plans, their application and undo, and the CAD regeneration each *)
(* change starts: create_change_plan, apply_change_plan, undo_change,      *)
(* _queue_cad_regeneration, _complete_cad_regeneration and WsHub of        *)
(* api.py, _apply_change_plan of mcp_gateway.py and the projection of      *)
(* their events.                                                           *)
(*                                                                         *)
(* All of these are coroutines of one event loop: between two awaits the   *)
(* loop runs one of them and no other.  The only awaits are the thread     *)
(* that generates the CAD files and the broadcast to the web sockets.      *)
(* Handlers in the thread pool and other processes (invitations, EDA       *)
(* commands, the CLI) append to the same stream between any two database   *)
(* calls; none of them applies, undoes or generates here.                  *)
(***************************************************************************)
EXTENDS Naturals, Sequences, FiniteSets, FiniteSetsExt

CONSTANTS
    Params,      \* parameters of the objects the generator writes back
    Values,      \* their values
    Initial,     \* the values before the first change
    Patches,     \* what a plan may set: functions from some Params to Values
    Noting,      \* may a change name an annotation it resolves?
    Mcp,         \* are plans applied through /mcp too?
    Outsiders,   \* the events other threads and processes append
    Crashes,     \* may the server stop and start again?
    MaxPlans,    \* bound on the plans
    MaxChanges,  \* bound on the applications and undos
    MaxOutside,  \* bound on the outsiders' events
    MaxClients   \* bound on the open web sockets

ASSUME CadAssumption ==
    /\ Initial \in [Params -> Values]
    /\ Patches \subseteq UNION {[D -> Values] : D \in SUBSET Params}
    /\ Noting \subseteq BOOLEAN
    /\ Mcp \in BOOLEAN /\ Crashes \in BOOLEAN
    /\ Outsiders \subseteq {"Other", "MembershipRevoked"}
    /\ {MaxPlans, MaxChanges, MaxOutside, MaxClients} \subseteq Nat

VARIABLES
    log,     \* the events of the project
    loop,    \* what the event loop is executing
    tasks,   \* the regeneration tasks that are waiting for something
    clients  \* how many web sockets the hub holds

vars == <<log, loop, tasks, clients>>

-----------------------------------------------------------------------------
\* The events, with the fields something here depends on.  Plans, changes
\* and jobs are named by the position of their event in the stream, in place
\* of a plan_id, an event_id and a job_id.

PlanCreated(base, patch) ==
    [type |-> "ChangePlanCreated", base |-> base, values |-> patch]

ChangeApplied(plan, patch, before, revision, noted, via) ==
    [type |-> "ChangeApplied", plan |-> plan, values |-> patch, before |-> before,
     revision |-> revision, noted |-> noted, via |-> via]

ChangeReverted(plan, target, values, revision, noted) ==
    [type |-> "ChangeReverted", plan |-> plan, target |-> target, values |-> values,
     revision |-> revision, noted |-> noted, via |-> "rest"]

AnnotationStatus(status) == [type |-> "AnnotationStatusChanged", status |-> status]

Requested(plan, source) ==
    [type |-> "GenerationRequested", plan |-> plan, source |-> source]

\* values are the parameters of the objects in the payload.
Completed(job, plan, status, values) ==
    [type |-> "GenerationCompleted", job |-> job, plan |-> plan, status |-> status, values |-> values]

Failed(job, plan) == [type |-> "GenerationFailed", job |-> job, plan |-> plan]

ChangeTypes  == {"ChangeApplied", "ChangeReverted"}
OutcomeTypes == {"GenerationCompleted", "GenerationFailed"}

-----------------------------------------------------------------------------
\* Projections of a stream.

At(s, types) == {i \in DOMAIN s : s[i].type \in types}

Last(positions) == IF positions = {} THEN 0 ELSE Max(positions)

\* A change sets the parameters of its patches, a completed generation
\* replaces whole objects.
Writing(s, p) ==
    {i \in At(s, ChangeTypes \cup {"GenerationCompleted"}) : p \in DOMAIN s[i].values}

ValueIn(s, p) == IF Writing(s, p) = {} THEN Initial[p] ELSE s[Last(Writing(s, p))].values[p]

ValuesIn(s, params) == [p \in params |-> ValueIn(s, p)]

\* "main" of a new project is 0; rev-n of a change is n.
Revision(s) == LET changes == At(s, ChangeTypes) IN
    IF changes = {} THEN 0 ELSE s[Last(changes)].revision

Reverted(s) == {s[i].target : i \in At(s, {"ChangeReverted"})}

\* Faulty variant: only a later change of the very same parameters counts.
LatestForSameParameters(s, i) ==
    /\ DOMAIN s[i].values # {}
    /\ \A k \in At(s, {"ChangeApplied"}) \ Reverted(s) :
         k > i => DOMAIN s[k].values # DOMAIN s[i].values

\* A later change of one of its parameters, not undone itself, is in the way
\* of an undo.
LatestForParameters(s, i) ==
    /\ DOMAIN s[i].values # {}
    /\ \A k \in At(s, {"ChangeApplied"}) \ Reverted(s) :
         k > i => DOMAIN s[k].values \cap DOMAIN s[i].values = {}

LatestJob(s) == Last(At(s, {"GenerationRequested"}))

\* artifact.generate, change.plan and change.apply are all an editor's.
IsEditor(s) == At(s, {"MembershipRevoked"}) = {}

-----------------------------------------------------------------------------
Idle == [at |-> "idle"]

\* store.current_version, then commands.execute: _run_command.
Reading(event, change) == [at |-> "reading", event |-> event, change |-> change]

\* commands.execute with an expected version; change is the event a handler
\* goes on with afterwards, 0 for none.
Sending(event, change, basis) ==
    [at |-> "sending", event |-> event, change |-> change, basis |-> basis]

Spawning(job) == [at |-> "spawning", job |-> job]

Task(job, values) ==
    [job |-> job, values |-> values, at |-> "generating", told |-> "nothing", size |-> 0]

Init ==
    /\ log = <<>>
    /\ loop = Idle
    /\ tasks = {}
    /\ clients = 0

-----------------------------------------------------------------------------
\* create_change_plan: the plan is made against the snapshot, and recorded at
\* its version.
CreatePlan(patch) ==
    /\ loop = Idle /\ IsEditor(log)
    /\ Cardinality(At(log, {"ChangePlanCreated"})) < MaxPlans
    /\ loop' = Sending(PlanCreated(Revision(log), patch), 0, Len(log))
    /\ UNCHANGED <<log, tasks, clients>>

\* Faulty variant: the previous parameters are those the plan was made for.
ApplicationOfPlanned(q, noted, via) ==
    ChangeApplied(q, log[q].values, ValuesIn(SubSeq(log, 1, q), DOMAIN log[q].values),
                  Len(log) + 2, noted, via)

\* compile_apply_payload, for a snapshot of the whole stream: the previous
\* parameters are those of the snapshot, and the new revision is named after
\* its version plus two.
Application(q, noted, via) ==
    ChangeApplied(q, log[q].values, ValuesIn(log, DOMAIN log[q].values), Len(log) + 2, noted, via)

\* apply_change_plan up to its first command: a plan for another revision is
\* stale.
ApplyPlan(q, noted) ==
    /\ loop = Idle /\ IsEditor(log)
    /\ Cardinality(At(log, ChangeTypes)) < MaxChanges
    /\ log[q].base = Revision(log)
    /\ loop' = Sending(Application(q, noted, "rest"), 0, Len(log))
    /\ UNCHANGED <<log, tasks, clients>>

\* _apply_change_plan of the MCP gateway: no look at the base revision.
McpApplyPlan(q) ==
    /\ Mcp
    /\ loop = Idle /\ IsEditor(log)
    /\ Cardinality(At(log, ChangeTypes)) < MaxChanges
    /\ loop' = Sending(Application(q, FALSE, "mcp"), 0, Len(log))
    /\ UNCHANGED <<log, tasks, clients>>

\* undo_change up to its first command.  Its two loads are one here: were an
\* event stored between them, the command would conflict whatever they say.
UndoChange(i) ==
    /\ loop = Idle /\ IsEditor(log)
    /\ Cardinality(At(log, ChangeTypes)) < MaxChanges
    /\ i \notin Reverted(log)
    /\ LatestForParameters(log, i)
    /\ loop' = Sending(ChangeReverted(log[i].plan, i, log[i].before, Len(log) + 1, log[i].noted),
                       0, Len(log))
    /\ UNCHANGED <<log, tasks, clients>>

\* _run_command reads the version it will expect.
ReadVersion ==
    /\ loop.at = "reading"
    /\ loop' = Sending(loop.event, loop.change, Len(log))
    /\ UNCHANGED <<log, tasks, clients>>

-----------------------------------------------------------------------------
\* commands.execute stores the event: nothing was appended since the expected
\* version, and the actor is an editor still.
Store(types) ==
    /\ loop.at = "sending"
    /\ loop.event.type \in types
    /\ loop.basis = Len(log)
    /\ IsEditor(log)
    /\ log' = Append(log, loop.event)

\* The request for the CAD files of a change, from _queue_cad_regeneration.
Request(change) == Reading(Requested(log'[change].plan, change), change)

StorePlan ==
    /\ Store({"ChangePlanCreated"})
    /\ loop' = Idle
    /\ UNCHANGED <<tasks, clients>>

\* A change with patches goes on to its annotation, if it has one, and to the
\* generator; an undo always has patches, and /mcp never goes on.
StoreChange ==
    LET change == Len(log) + 1
        e      == loop.event
        status == IF e.type = "ChangeApplied" THEN "resolved" ELSE "open"
    IN  /\ Store(ChangeTypes)
        /\ loop' = IF e.via = "mcp" \/ DOMAIN e.values = {} THEN Idle
                   ELSE IF e.noted THEN Reading(AnnotationStatus(status), change)
                   ELSE Request(change)
        /\ UNCHANGED <<tasks, clients>>

StoreAnnotation ==
    /\ Store({"AnnotationStatusChanged"})
    /\ loop' = Request(loop.change)
    /\ UNCHANGED <<tasks, clients>>

StoreRequest ==
    /\ Store({"GenerationRequested"})
    /\ loop' = Spawning(Len(log) + 1)
    /\ UNCHANGED <<tasks, clients>>

\* The snapshot for the generator, and the task; the handler then answers.
Spawn ==
    /\ loop.at = "spawning"
    /\ tasks' = tasks \cup {Task(loop.job, ValuesIn(log, Params))}
    /\ loop' = Idle
    /\ UNCHANGED <<log, clients>>

-----------------------------------------------------------------------------
\* Faulty variant: no look at newer requests.
OutcomeUncompared(t) == Completed(t.job, log[t.job].plan, "completed", t.values)

\* _complete_cad_regeneration once the files are there: the newest request of
\* the stream decides whether they are the project's or superseded.
Outcome(t) ==
    IF LatestJob(log) = t.job
    THEN Completed(t.job, log[t.job].plan, "completed", t.values)
    ELSE Completed(t.job, log[t.job].plan, "superseded", <<>>)

Failure(t) == Failed(t.job, log[t.job].plan)

Become(t, u) == tasks' = (tasks \ {t}) \cup {u}

Reporting(t) == [t EXCEPT !.at = "reporting"]

Generated(t) ==
    /\ loop = Idle /\ t.at = "generating"
    /\ Become(t, Reporting(t))
    /\ loop' = Reading(Outcome(t), t.job)
    /\ UNCHANGED <<log, clients>>

\* Faulty variant: the exception ends the task.
GeneratorRaisesUnseen(t) ==
    /\ loop = Idle /\ t.at = "generating"
    /\ tasks' = tasks \ {t}
    /\ UNCHANGED <<log, loop, clients>>

GeneratorRaises(t) ==
    /\ loop = Idle /\ t.at = "generating"
    /\ Become(t, Reporting(t))
    /\ loop' = Reading(Failure(t), t.job)
    /\ UNCHANGED <<log, clients>>

\* Faulty variant: a failed job is generated once more.
StoreOutcomeRetried(t) ==
    /\ Store(OutcomeTypes) /\ t.at = "reporting"
    /\ loop' = Idle
    /\ IF loop.event.type = "GenerationCompleted" THEN tasks' = tasks \ {t}
       ELSE Become(t, [t EXCEPT !.at = "generating"])
    /\ UNCHANGED clients

\* After the outcome the task broadcasts it, which waits for as many sockets
\* as the hub holds.
StoreOutcome(t) ==
    /\ Store(OutcomeTypes) /\ t.at = "reporting"
    /\ loop' = Idle
    /\ IF clients = 0 THEN tasks' = tasks \ {t}
       ELSE Become(t, [t EXCEPT !.at = "telling", !.told = loop.event.type, !.size = clients])
    /\ UNCHANGED clients

\* The command is refused.  What the handler stored before stays; a task
\* reports the failure instead, once, and a second refusal ends it.
Refused ==
    /\ loop.at = "sending"
    /\ loop.basis # Len(log) \/ ~IsEditor(log)

RefuseHandler ==
    /\ Refused /\ loop.event.type \notin OutcomeTypes
    /\ loop' = Idle
    /\ UNCHANGED <<log, tasks, clients>>

RefuseCompletion(t) ==
    /\ Refused /\ loop.event.type = "GenerationCompleted" /\ t.at = "reporting"
    /\ loop' = Reading(Failure(t), t.job)
    /\ UNCHANGED <<log, tasks, clients>>

RefuseFailure(t) ==
    /\ Refused /\ loop.event.type = "GenerationFailed" /\ t.at = "reporting"
    /\ loop' = Idle
    /\ tasks' = tasks \ {t}
    /\ UNCHANGED <<log, clients>>

\* WsHub.broadcast walks the set of sockets and awaits each: when a socket
\* came or went meanwhile, the walk raises.  After a completion that is a
\* failure of the job; after a failure it is passed over.
Told(t) ==
    /\ loop = Idle /\ t.at = "telling"
    /\ clients = t.size \/ t.told = "GenerationFailed"
    /\ tasks' = tasks \ {t}
    /\ UNCHANGED <<log, loop, clients>>

TellingRaises(t) ==
    /\ loop = Idle /\ t.at = "telling" /\ t.told = "GenerationCompleted"
    /\ clients # t.size
    /\ Become(t, Reporting(t))
    /\ loop' = Reading(Failure(t), t.job)
    /\ UNCHANGED <<log, clients>>

-----------------------------------------------------------------------------
Connect ==
    /\ loop = Idle /\ clients < MaxClients
    /\ clients' = clients + 1
    /\ UNCHANGED <<log, loop, tasks>>

Disconnect ==
    /\ loop = Idle /\ clients > 0
    /\ clients' = clients - 1
    /\ UNCHANGED <<log, loop, tasks>>

\* Somebody else's event.
OutsideEvent(type) ==
    /\ Cardinality(At(log, Outsiders)) < MaxOutside
    /\ IsEditor(log)
    /\ log' = Append(log, [type |-> type])
    /\ UNCHANGED <<loop, tasks, clients>>

\* The server stops and starts again: lifespan cancels the tasks, a crash
\* cuts handlers off too, and nothing takes a job up again.
Restart ==
    /\ Crashes
    /\ loop' = Idle /\ tasks' = {} /\ clients' = 0
    /\ UNCHANGED log

Handler ==
    \/ \E patch \in Patches : CreatePlan(patch)
    \/ \E q \in At(log, {"ChangePlanCreated"}), noted \in Noting : ApplyPlan(q, noted)
    \/ \E q \in At(log, {"ChangePlanCreated"}) : McpApplyPlan(q)
    \/ \E i \in At(log, {"ChangeApplied"}) : UndoChange(i)

Step ==
    \/ ReadVersion \/ StorePlan \/ StoreChange \/ StoreAnnotation \/ StoreRequest
    \/ Spawn \/ RefuseHandler
    \/ \E t \in tasks : StoreOutcome(t) \/ RefuseCompletion(t) \/ RefuseFailure(t)

Resume(t) == Generated(t) \/ GeneratorRaises(t) \/ Told(t) \/ TellingRaises(t)

Next ==
    \/ Handler
    \/ Step
    \/ \E t \in tasks : Resume(t)
    \/ Connect \/ Disconnect
    \/ \E type \in Outsiders : OutsideEvent(type)
    \/ Restart

Spec == Init /\ [][Next]_vars

\* The loop runs what it has started, and the generator and the sockets
\* answer; the loop serves what is ready in turn, so a task whose answer is
\* there resumes however busy the handlers keep it.
FairSpec == Spec /\ WF_vars(Step) /\ SF_vars(\E t \in tasks : Resume(t))

-----------------------------------------------------------------------------
Before(i) == SubSeq(log, 1, i - 1)

Completions == {i \in At(log, {"GenerationCompleted"}) : log[i].status = "completed"}

\* Whether a result becomes the project's is decided before other events can
\* follow the request unseen: a completed generation is that of the newest
\* request at the place where it is stored, and a superseded one is not.
CompletedIsNewest ==
    \A i \in At(log, {"GenerationCompleted"}) :
        log[i].status = "completed" <=> LatestJob(Before(i)) = log[i].job

\* A result replaces whole objects with those of the snapshot the job began
\* with.  An older result cannot overwrite a newer change or undo: none that
\* sets a parameter lies between the request and its completion.
OverwritesNothingNewer ==
    \A i \in Completions : \A k \in At(Before(i), ChangeTypes) :
        DOMAIN log[k].values # {} => k < log[i].job

\* The value the changes that stand give a parameter: that of the newest one
\* of it that is not undone.
Standing(p) ==
    LET changes == {i \in At(log, {"ChangeApplied"}) \ Reverted(log) : p \in DOMAIN log[i].values}
    IN  IF changes = {} THEN Initial[p] ELSE log[Last(changes)].values[p]

\* Undo restores what was there before, in whatever order plans are applied
\* and undone and results arrive: unless a result has overwritten a newer
\* change, every parameter has the value of the changes that stand.
ValuesStand == OverwritesNothingNewer => \A p \in Params : ValueIn(log, p) = Standing(p)

\* A job has one outcome: it was completed (or superseded) or it failed.
OneOutcome ==
    \A i, k \in At(log, OutcomeTypes) : log[i].job = log[k].job => i = k

\* Of each change the stream holds at most the change, its annotation, a
\* request and two outcomes.
MaxEvents == MaxPlans + 5 * MaxChanges + MaxOutside

\* Every request is answered: the job completes, is superseded or fails.
RequestsAnswered ==
    \A j \in 1..MaxEvents :
        j \in At(log, {"GenerationRequested"}) ~> \E k \in At(log, OutcomeTypes) : log[k].job = j
=============================================================================
