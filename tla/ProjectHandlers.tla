--------------------------- MODULE ProjectHandlers ---------------------------
(***************************************************************************)
(* The handlers that store several events, or look before they store:      *)
(* applying TwinScript programs, lifecycle transitions, project updates,   *)
(* and the commands of the MQTT gateway.                                   *)
(*                                                                         *)
(* The event loop runs one async handler to its end, for these await       *)
(* nothing before their last event; the pool runs one handler per thread;  *)
(* the CLI is another process.  They share the stream.  Each command reads *)
(* the version it expects and is executed by a later step; that execute    *)
(* itself behaves as one step is the subject of CommandBus.                *)
(***************************************************************************)
EXTENDS Permissions, TwinScript

CONSTANTS
    Loop, Cli, Threads,     \* the event loop, a CLI process, threads of the pool
    None,
    Programs,               \* the programs that are applied: name -> its lines
    Lines,                  \* the lines that an author writes
    Kinds,                  \* artifact -> its kind
    Required,               \* stage -> the artifact kinds it requires
    Unknown,                \* an artifact that no project has
    Keys,                   \* dedupe keys of updates
    Messages,               \* MQTT messages: [id, route, pinned]
    Evidence,               \* the sets of artifacts that requests name
    Scenarios,              \* who is active, with which programs and bounds
    MaxLines, MaxCopies     \* bounds on the author's lines and on copies

Procs == {Loop, Cli} \cup Threads

Clients == {"author", "documents", "stages", "updates"}

ASSUME ProjectHandlersAssumption ==
    /\ Loop # Cli /\ {Loop, Cli} \cap Threads = {}
    /\ Evidence \subseteq SUBSET (DOMAIN Kinds \cup {Unknown})
    /\ \A s \in Scenarios :
        /\ s.clients \subseteq Clients /\ s.programs \subseteq DOMAIN Programs
        /\ s.roles \subseteq Roles /\ s.messages \subseteq Messages
        /\ s.outside \subseteq DOMAIN Kinds \cup {"change"}
        /\ s.stored \in DOMAIN Programs \cup {None}
        /\ {s.handlers, s.events} \subseteq Nat
    /\ \A m \in Messages :
        /\ m.route \in {"execute", "plan-change", "unsupported"} /\ m.pinned \in BOOLEAN
        /\ \A n \in Messages : m.id = n.id => m = n
    /\ Unknown \notin DOMAIN Kinds
    /\ None \notin Nat /\ None \notin Messages
    /\ MaxLines \in Nat /\ MaxCopies \in Nat \ {0}

VARIABLES
    scenario,   \* who is active in this behaviour
    source,     \* the program that the author writes
    verdict,    \* the answer to its preview
    log,        \* the events of the project
    proc,       \* what each process is executing
    begun,      \* how many handlers have begun
    wire,       \* message -> copies sent and under way, the version it names
    inbox,      \* requests of the gateway that the loop has not begun
    gateway,    \* the message the gateway waits for
    replies     \* message -> how many replies said ok

vars == <<scenario, source, verdict, log, proc, begun, wire, inbox, gateway, replies>>

-----------------------------------------------------------------------------
(***************************************************************************)
(* The projection of the events.                                           *)
(***************************************************************************)
Newest(positions) == CHOOSE i \in positions : \A j \in positions : j <= i

\* ChangeApplied names a new revision.
Changed == "changed"

Revision(i) ==
    LET changes == {k \in 1..i : log[k].type = "change.apply"}
    IN  IF changes = {} THEN Defaults["REVISION"] ELSE Changed

Artifacts(i) == {log[k].data.artifact : k \in {j \in 1..i : log[j].type = "artifact.attach"}}

Upserts(i) == {k \in 1..i : log[k].type = "lifecycle.blueprint.upsert"}

\* The blueprint with this id, as it was stored last.
BlueprintAt(id, i) ==
    LET mine == {k \in Upserts(i) : log[k].data.blueprint.id = id}
    IN  IF mine = {} THEN None ELSE log[Newest(mine)].data.blueprint

\* Its current stage: that of the blueprint or of an approval stored later.
StageAt(id, i) ==
    LET touching == {k \in 1..i :
            \/ k \in Upserts(i) /\ log[k].data.blueprint.id = id
            \/ /\ log[k].type = "lifecycle.transition.record"
               /\ log[k].data.id = id /\ log[k].data.status = "approved"}
        event == log[Newest(touching)]
    IN  IF event.type = "lifecycle.blueprint.upsert" THEN event.data.blueprint.start
        ELSE event.data.to

-----------------------------------------------------------------------------
(***************************************************************************)
(* A process.  todo are the commands it has still to execute, ids the      *)
(* positions of the events it has stored; basis is the version of the      *)
(* snapshot it has decided on, pinned the version its client named.        *)
(***************************************************************************)
Idle == [at |-> "idle", n |-> 0, role |-> NoRole, basis |-> 0, todo |-> <<>>,
         pinned |-> None, expected |-> 0, ids |-> {}, message |-> None, awaited |-> FALSE]

Command(type, data) == [type |-> type, data |-> data]

Free(p) == proc[p].at = "idle" /\ begun < scenario.handlers

Begin(p, role, todo, pinned) ==
    /\ begun' = begun + 1
    /\ proc' = [proc EXCEPT ![p] = [Idle EXCEPT !.at = "version", !.n = begun + 1, !.role = role,
                                                !.basis = Len(log), !.todo = todo,
                                                !.pinned = pinned]]

\* The handler ends; the gateway, if it still waits, gets the answer.
Answered(p, ok) ==
    LET m == proc[p].message
    IN  IF proc[p].awaited
        THEN /\ gateway' = None
             /\ replies' = IF ok THEN [replies EXCEPT ![m] = @ + 1] ELSE replies
        ELSE UNCHANGED <<gateway, replies>>

Fail(p) ==
    /\ proc' = [proc EXCEPT ![p] = Idle]
    /\ Answered(p, FALSE)
    /\ UNCHANGED <<scenario, source, verdict, log, begun, wire, inbox>>

\* Faulty variant: the stream's version at the time, whatever the client named.
ExpectationUnpinned(p) == Len(log)

\* The version that the next command expects: the client's, or the stream's.
Expectation(p) == IF proc[p].pinned # None THEN proc[p].pinned ELSE Len(log)

ReadVersion(p) ==
    /\ proc[p].at = "version"
    /\ proc' = [proc EXCEPT ![p].at = "execute", ![p].expected = Expectation(p)]
    /\ UNCHANGED <<scenario, source, verdict, log, begun, wire, inbox, gateway, replies>>

Current(p) == Head(proc[p].todo)

\* The bus takes the command: the role may, and the payload of change.apply
\* names its plan, which the one built for a program does not.
Accepts(p) ==
    /\ HasPermission(proc[p].role, RequiredPermission(Current(p).type))
    /\ Current(p).type = "change.apply" => "plan_id" \in DOMAIN Current(p).data

Conflicts(p) == Len(log) # proc[p].expected

\* execution.model_copy: the API lists the events in front of the artifacts,
\* the CLI all that it has stored.
ListedIds(p) ==
    IF p = Cli THEN proc[p].ids
    ELSE {i \in proc[p].ids : log[i].type # "artifact.attach"}

Event(p) ==
    LET command == Current(p)
    IN  [type |-> command.type, by |-> proc[p].n, proc |-> p, basis |-> proc[p].basis,
         data |-> IF command.type = "dsl.execution.record"
                  THEN [command.data EXCEPT !.ids = ListedIds(p)]
                  ELSE command.data]

Execute(p) ==
    /\ proc[p].at = "execute" /\ Len(log) < scenario.events
    /\ Accepts(p) /\ ~Conflicts(p)
    /\ log' = Append(log, Event(p))
    /\ IF Len(proc[p].todo) > 1
       THEN /\ proc' = [proc EXCEPT ![p].at = "version", ![p].todo = Tail(@),
                                    ![p].ids = @ \cup {Len(log) + 1}]
            /\ UNCHANGED <<gateway, replies>>
       ELSE /\ proc' = [proc EXCEPT ![p] = Idle]
            /\ Answered(p, TRUE)
    /\ UNCHANGED <<scenario, source, verdict, begun, wire, inbox>>

\* Faulty variant: a conflicting command is left out and the others executed.
ExecuteFailsOn(p) ==
    /\ proc[p].at = "execute"
    /\ ~Accepts(p) \/ Conflicts(p)
    /\ IF Len(proc[p].todo) > 1
       THEN /\ proc' = [proc EXCEPT ![p].at = "version", ![p].todo = Tail(@)]
            /\ UNCHANGED <<scenario, source, verdict, log, begun, wire, inbox, gateway, replies>>
       ELSE Fail(p)

\* Denied, a KeyError or a ConcurrencyError: what is stored stays stored.
ExecuteFails(p) ==
    /\ proc[p].at = "execute"
    /\ ~Accepts(p) \/ Conflicts(p)
    /\ Fail(p)

-----------------------------------------------------------------------------
(***************************************************************************)
(* Programs.                                                               *)
(***************************************************************************)
WriteLine ==
    /\ "author" \in scenario.clients /\ Len(source) < MaxLines
    /\ \E line \in Lines : source' = Append(source, line)
    /\ verdict' = "none"
    /\ UNCHANGED <<scenario, log, proc, begun, wire, inbox, gateway, replies>>

Preview ==
    /\ "author" \in scenario.clients /\ verdict = "none"
    /\ verdict' = Verdict(source, Revision(Len(log)))
    /\ UNCHANGED <<scenario, source, log, proc, begun, wire, inbox, gateway, replies>>

\* What parse_dsl makes of the programs, and what a preview says of them at
\* either revision.
Documents == [program \in DOMAIN Programs |-> Parsed(Programs[program])]

\* max_change_plans of an EvolutionRealization is a number, 0 at least.
ASSUME DocumentsAssumption ==
    \A program \in DOMAIN Programs : OptionOf(Documents[program], "REALIZE", "MAX_PLANS") \in Nat

Verdicts == [program \in DOMAIN Programs |->
                [revision \in {Defaults["REVISION"], Changed} |->
                    Verdict(Programs[program], revision)]]

\* The files of an evolution run, each attached by a command of its own.  Two
\* names stand for the eight files and their manifest.
EvolutionArtifacts(doc) ==
    IF ScalarOf(doc, "PERSIST_ARTIFACTS", "PERSIST_ARTIFACTS")
    THEN <<"run.json", "manifest.json">> ELSE <<>>

\* The record of an execution; the events are added when it is stored.
ExecutionRecord(program, doc) ==
    Command("dsl.execution.record",
            [program |-> program, ids |-> {},
             status |-> IF PlansOf(doc) = <<>> \/ AutoApplies(doc) THEN "executed"
                        ELSE "partially_executed"])

\* The commands that applying a program executes, one after the other.
CommandsOf(program, doc, generate) ==
    LET command(type) == Command(type, [program |-> program])
        upsert(b) == Command("lifecycle.blueprint.upsert", [program |-> program, blueprint |-> b])
        plan(p) == Command("change.plan.record", [program |-> program, plan |-> p])
        attach(a) == Command("artifact.attach", [program |-> program, artifact |-> a])
    IN  <<command("evolution.run.record"), upsert(LifecycleBlueprint(doc))>>
        \o [i \in DOMAIN PlansOf(doc) |-> plan(PlansOf(doc)[i])]
        \o (IF AutoApplies(doc) THEN <<command("change.apply")>> ELSE <<>>)
        \o (IF generate THEN [i \in DOMAIN EvolutionArtifacts(doc) |->
                                    attach(EvolutionArtifacts(doc)[i])] ELSE <<>>)
        \o <<ExecutionRecord(program, doc)>>

\* Dry runs and programs that are not valid end with their verdict.
ApplyProjectDsl(p) ==
    /\ "documents" \in scenario.clients /\ p \in {Loop, Cli} /\ Free(p)
    /\ \E program \in scenario.programs, role \in scenario.roles, generate \in BOOLEAN :
        /\ p = Loop => HasPermission(role, "change.plan")
        /\ Verdicts[program][Revision(Len(log))] = "valid"
        /\ Begin(p, role, CommandsOf(program, Documents[program], generate), None)
    /\ UNCHANGED <<scenario, source, verdict, log, wire, inbox, gateway, replies>>

-----------------------------------------------------------------------------
(***************************************************************************)
(* Lifecycle transitions.                                                  *)
(***************************************************************************)
\* The supplied artifacts do not show that the stage may be left: every
\* transition of a compiled blueprint has a condition.
Gaps(evidence, stage, i) ==
    LET supplied == evidence \cap Artifacts(i)
    IN  \/ supplied = {}
        \/ evidence \ Artifacts(i) # {}
        \/ Required[stage] \ {Kinds[a] : a \in supplied} # {}

\* Faulty variant: the handler is a plain function, which the pool runs.
TransitionProcsPool == Threads

\* An async handler: it holds the loop from the snapshot to the event.
TransitionProcs == {Loop}

TransitionLifecycle(p) ==
    /\ "stages" \in scenario.clients /\ p \in TransitionProcs /\ Free(p)
    /\ \E id \in {t \in DOMAIN Templates : BlueprintAt(t, Len(log)) # None} :
        LET from == StageAt(id, Len(log))
        IN  \E transition \in Transitions(BlueprintAt(id, Len(log))), role \in scenario.roles,
               approve, force \in BOOLEAN, evidence \in Evidence :
            /\ transition[1] = from
            /\ HasPermission(role, IF approve \/ force THEN "approval.grant" ELSE "change.plan")
            /\ LET status ==
                    CASE ~approve                                           -> "requested"
                      [] approve /\ ~force /\ Gaps(evidence, from, Len(log)) -> "blocked"
                      [] OTHER                                              -> "approved"
               IN  Begin(p, role, <<Command("lifecycle.transition.record",
                                            [id |-> id, from |-> from, to |-> transition[2],
                                             force |-> force, evidence |-> evidence,
                                             status |-> status])>>, None)
    /\ UNCHANGED <<scenario, source, verdict, log, wire, inbox, gateway, replies>>

-----------------------------------------------------------------------------
(***************************************************************************)
(* Project updates, and exchanges with the EDA chat under their own keys.  *)
(***************************************************************************)
Recorded(key) == {i \in DOMAIN log : log[i].type = "project.update.record" /\ log[i].data.key = key}

\* The handler looks for an update with the key; one that finds none records
\* it.  One that finds one returns it, and is not a handler of the model.
IsNew(key) == Recorded(key) = {}

RecordProjectUpdate(p) ==
    /\ "updates" \in scenario.clients /\ p \in Threads /\ Free(p)
    /\ \E role \in scenario.roles, key \in Keys, pinned \in {None} \cup 0..Len(log) :
        /\ IsNew(key)
        /\ Begin(p, role, <<Command("project.update.record", [key |-> key, pinned |-> pinned])>>,
                 pinned)
    /\ UNCHANGED <<scenario, source, verdict, log, wire, inbox, gateway, replies>>

-----------------------------------------------------------------------------
(***************************************************************************)
(* MQTT.  The publisher of a message may name the version it expects; the  *)
(* route of commands forwards it, the others (change plans stand for them) *)
(* do not.  At QoS 1 a copy may arrive again, and one is lost              *)
(* while the gateway, whose session is clean, is away.                     *)
(***************************************************************************)
NotSent == [sent |-> 0, copies |-> 0, expected |-> None]

PublishCommand(m) ==
    /\ m \in scenario.messages /\ wire[m].sent = 0
    /\ wire' = [wire EXCEPT ![m] = [sent |-> 1, copies |-> 1,
                                    expected |-> IF m.pinned THEN Len(log) ELSE None]]
    /\ UNCHANGED <<scenario, source, verdict, log, proc, begun, inbox, gateway, replies>>

Redeliver(m) ==
    /\ wire[m].sent \in 1..(MaxCopies - 1)
    /\ wire' = [wire EXCEPT ![m].copies = @ + 1, ![m].sent = @ + 1]
    /\ UNCHANGED <<scenario, source, verdict, log, proc, begun, inbox, gateway, replies>>

Lose(m) ==
    /\ wire[m].copies > 0
    /\ wire' = [wire EXCEPT ![m].copies = @ - 1]
    /\ UNCHANGED <<scenario, source, verdict, log, proc, begun, inbox, gateway, replies>>

\* on_message sends the request and waits for the response, unless it knows
\* no route, which it answers itself.
OnMessage(m) ==
    /\ gateway = None /\ wire[m].copies > 0
    /\ wire' = [wire EXCEPT ![m].copies = @ - 1]
    /\ IF m.route = "unsupported" THEN UNCHANGED <<gateway, inbox>>
       ELSE /\ gateway' = m
            /\ inbox' = Append(inbox, [message |-> m, awaited |-> TRUE])
    /\ UNCHANGED <<scenario, source, verdict, log, proc, begun, replies>>

\* Faulty variant: the gateway forwards no version.
ForwardedNone(m) == None

\* Only the route of generic commands forwards the version of the message.
Forwarded(m) == IF m.route = "execute" THEN wire[m].expected ELSE None

\* execute_command and the planner's handler are async: they run on the loop.
HandleRequest ==
    /\ inbox # <<>> /\ Free(Loop)
    /\ LET request == Head(inbox)
           m == request.message
           type == IF m.route = "execute" THEN "annotation.create" ELSE "change.plan.record"
       IN  proc' = [proc EXCEPT ![Loop] =
                        [Idle EXCEPT !.at = "version", !.n = begun + 1, !.role = "admin",
                                     !.basis = Len(log),
                                     !.todo = <<Command(type, [message |-> m.id])>>,
                                     !.pinned = Forwarded(m),
                                     !.message = m, !.awaited = request.awaited]]
    /\ begun' = begun + 1
    /\ inbox' = Tail(inbox)
    /\ UNCHANGED <<scenario, source, verdict, log, wire, gateway, replies>>

\* Faulty variant: the gateway gives up, and the answer is still expected.
TimeOutForgetful ==
    /\ gateway # None
    /\ gateway' = None
    /\ UNCHANGED <<scenario, source, verdict, log, proc, begun, wire, inbox, replies>>

\* After 120 s the gateway reports a failure; the handler goes on.
TimeOut ==
    /\ gateway # None
    /\ gateway' = None
    /\ inbox' = [i \in DOMAIN inbox |-> [inbox[i] EXCEPT !.awaited = FALSE]]
    /\ proc' = [proc EXCEPT ![Loop].awaited = FALSE]
    /\ UNCHANGED <<scenario, source, verdict, log, begun, wire, replies>>

-----------------------------------------------------------------------------
\* Another writer: a change of the revision, or an artifact, each once.
Outside ==
    /\ Len(log) < scenario.events
    /\ \E what \in scenario.outside :
        LET command == IF what = "change" THEN Command("change.apply", [plan_id |-> what])
                       ELSE Command("artifact.attach", [artifact |-> what])
            event == [type |-> command.type, by |-> None, proc |-> None, basis |-> Len(log),
                      data |-> command.data]
        IN  /\ \A e \in ToSet(log) : e.by = None => e.data # command.data
            /\ log' = Append(log, event)
    /\ UNCHANGED <<scenario, source, verdict, proc, begun, wire, inbox, gateway, replies>>

\* The server dies with its handlers, and the gateway's request fails.
CrashServer ==
    /\ \E p \in {Loop} \cup Threads : proc[p].at # "idle"
    /\ proc' = [p \in Procs |-> IF p = Cli THEN proc[p] ELSE Idle]
    /\ inbox' = <<>>
    /\ gateway' = None
    /\ UNCHANGED <<scenario, source, verdict, log, begun, wire, replies>>

\* Somebody interrupts the CLI.
KillCli ==
    /\ proc[Cli].at # "idle"
    /\ proc' = [proc EXCEPT ![Cli] = Idle]
    /\ UNCHANGED <<scenario, source, verdict, log, begun, wire, inbox, gateway, replies>>

\* A program that was applied before was valid then, and none that applies its
\* changes itself gets as far as its record.
ASSUME StoredAssumption ==
    \A s \in Scenarios : s.stored # None =>
        /\ Verdicts[s.stored][Defaults["REVISION"]] = "valid"
        /\ ~AutoApplies(Documents[s.stored])

\* The events of a program that was applied before.
Stored(program) ==
    LET commands == CommandsOf(program, Documents[program], FALSE)
        last == Len(commands)
    IN  [i \in 1..last |->
            [type |-> commands[i].type, by |-> 0, proc |-> Loop, basis |-> 0,
             data |-> IF i < last THEN commands[i].data
                      ELSE [commands[i].data EXCEPT !.ids = 1..(last - 1)]]]

Init ==
    /\ scenario \in Scenarios
    /\ source = <<>> /\ verdict = "none"
    /\ log = IF scenario.stored = None THEN <<>> ELSE Stored(scenario.stored)
    /\ proc = [p \in Procs |-> Idle]
    /\ begun = 0
    /\ wire = [m \in Messages |-> NotSent]
    /\ inbox = <<>> /\ gateway = None
    /\ replies = [m \in Messages |-> 0]

Next ==
    \/ WriteLine \/ Preview
    \/ \E p \in Procs :
        \/ ReadVersion(p) \/ Execute(p) \/ ExecuteFails(p)
        \/ ApplyProjectDsl(p) \/ TransitionLifecycle(p) \/ RecordProjectUpdate(p)
    \/ \E m \in Messages : PublishCommand(m) \/ Redeliver(m) \/ Lose(m) \/ OnMessage(m)
    \/ HandleRequest \/ TimeOut
    \/ Outside \/ CrashServer \/ KillCli

Spec == Init /\ [][Next]_vars

-----------------------------------------------------------------------------
\* Every variable has its type; the gateway waits for one answer at most, and
\* for that of its message (on_message).
HandlersTypeOK ==
    /\ scenario \in Scenarios
    /\ source \in Seq(Lines) /\ verdict \in {"none", "unparsed", "mismatch", "rejected", "valid"}
    /\ \A e \in ToSet(log) : e.type \in ExistingCommands /\ e.by \in (0..begun) \cup {None} /\ e.basis \in 0..Len(log)
    /\ \A p \in Procs :
        /\ proc[p].at \in {"idle", "version", "execute"}
        /\ (proc[p].at = "idle") = (proc[p].todo = <<>>)
        /\ proc[p].ids \subseteq DOMAIN log
    /\ \A m \in Messages : wire[m].sent \in 0..MaxCopies /\ wire[m].copies \in 0..wire[m].sent /\ replies[m] \in 0..begun
    /\ gateway \in Messages \cup {None}
    /\ {r.message : r \in {q \in ToSet(inbox) \cup {proc[Loop]} : q.awaited}} = {gateway} \ {None}
    /\ Cardinality({i \in DOMAIN inbox : inbox[i].awaited}) + (IF proc[Loop].awaited THEN 1 ELSE 0) <= 1

\* The author's program means what its lines declare.
SourceReadAsDeclared == ReadAsDeclared(source)

\* Whatever a program stores, it stores after a preview at the same revision
\* would have called it valid; and an execution record speaks for the whole of
\* its program: it lists one run, one blueprint and the compiled plans in their
\* order, all stored by its handler, which stores nothing behind it, and it
\* calls the program executed only if no plan awaits a decision, however the
\* commands of the API and of the CLI interleave, conflict or die
\* (apply_project_dsl, dsl_apply_cmd).
ExecutionsAreWhole ==
    /\ \A e \in ToSet(log) : "program" \in DOMAIN e.data =>
            Verdicts[e.data.program][Revision(e.basis)] = "valid"
    /\ \A i \in DOMAIN log : log[i].type = "dsl.execution.record" =>
        LET record == log[i].data
            compiled == PlansOf(Documents[record.program])
            mine == {k \in DOMAIN log : log[k].by = log[i].by}
            plans == {k \in mine : log[k].type = "change.plan.record"}
        IN  /\ \A k \in mine : k <= i
            /\ record.ids = {k \in mine \ {i} : log[i].proc = Cli \/ log[k].type # "artifact.attach"}
            /\ \A type \in {"evolution.run.record", "lifecycle.blueprint.upsert"} :
                    Cardinality({k \in mine : log[k].type = type}) = 1
            /\ \E place \in [DOMAIN compiled -> plans] :
                /\ \A k \in plans : \E j \in DOMAIN compiled : place[j] = k
                /\ \A j, k \in DOMAIN compiled : j < k => place[j] < place[k]
                /\ \A j \in DOMAIN compiled : log[place[j]].data.plan = compiled[j]
            /\ record.status = "executed" <=> plans = {}

\* An approval leaves the stage its blueprint is in by one of the blueprint's
\* transitions, unless the CLI has replaced the blueprint meanwhile; and unless
\* it was forced, the artifacts it names are there and of the kinds the stage
\* requires (transition_lifecycle, _transition_evidence_gaps).
StagesFormAPath ==
    \A i \in DOMAIN log :
        LET e == log[i]
        IN  e.type = "lifecycle.transition.record" /\ e.data.status = "approved" =>
            /\ \/ \E k \in Upserts(i) : k > e.basis /\ log[k].proc = Cli
               \/ /\ StageAt(e.data.id, i - 1) = e.data.from
                  /\ <<e.data.from, e.data.to>> \in Transitions(BlueprintAt(e.data.id, i - 1))
            /\ e.data.force \/ /\ e.data.evidence # {}
                               /\ e.data.evidence \subseteq Artifacts(i)
                               /\ Required[e.data.from] \subseteq {Kinds[a] : a \in e.data.evidence}

\* A key is recorded twice only by a handler that looked before the first
\* record was there, and whose client named no version: naming the version one
\* has seen makes a retry safe (record_project_update).
UpdatesRecordedOnce ==
    \A key \in Keys : \A i, j \in Recorded(key) :
        i < j => log[j].basis < i /\ log[j].data.pinned = None

Effects(m) == {i \in DOMAIN log : "message" \in DOMAIN log[i].data /\ log[i].data.message = m.id}

\* A message that names a version takes effect once at most, however often it
\* is delivered and whatever the gateway or the server does in between, and
\* every ok is the answer to an effect of its own (on_message, execute_command).
CommandsTakeEffectOnce ==
    \A m \in Messages :
        /\ m.pinned /\ m.route = "execute" => Cardinality(Effects(m)) <= 1
        /\ replies[m] <= Cardinality(Effects(m))
=============================================================================
