----------------------- MODULE ProjectHandlersProofs -----------------------
(***************************************************************************)
(* What ProjectHandlers guarantees whatever the programs, the lifecycles,  *)
(* the keys and the messages are, and however many handlers run.           *)
(***************************************************************************)
EXTENDS ProjectHandlers, StreamLemmas, FiniteSetTheorems

-----------------------------------------------------------------------------
(***************************************************************************)
(* Types.                                                                  *)
(***************************************************************************)
Blueprints == {LifecycleBlueprint(Documents[program]) : program \in DOMAIN Programs}

\* The stages that a transition connects.
Places == UNION {{t[1] : t \in Transitions(b)} \cup {t[2] : t \in Transitions(b)} : b \in Blueprints}

Plans == {"explicit"} \cup ToSet(Shortlist)

\* The commands of a program, each with its payload.
PlainCommands     == [type : {"evolution.run.record", "change.apply"}, data : [program : DOMAIN Programs]]
BlueprintCommands == [type : {"lifecycle.blueprint.upsert"},
                      data : [program : DOMAIN Programs, blueprint : Blueprints]]
PlanCommandsOf    == [type : {"change.plan.record"}, data : [program : DOMAIN Programs, plan : Plans]]
FileCommands      == [type : {"artifact.attach"},
                      data : [program : DOMAIN Programs, artifact : {"run.json", "manifest.json"}]]
RecordCommands    == [type : {"dsl.execution.record"},
                      data : [program : DOMAIN Programs, ids : SUBSET Nat,
                              status : {"executed", "partially_executed"}]]

ProgramCommands ==
    PlainCommands \cup BlueprintCommands \cup PlanCommandsOf \cup FileCommands \cup RecordCommands

\* Those of a handler that stores one event.
TransitionCommands ==
    [type : {"lifecycle.transition.record"},
     data : [id : DOMAIN Templates, from : Places, to : Places, force : BOOLEAN,
             evidence : Evidence, status : {"requested", "blocked", "approved"}]]

UpdateCommands ==
    [type : {"project.update.record"}, data : [key : Keys, pinned : Nat \cup {None}]]

MessageCommands ==
    [type : {"annotation.create", "change.plan.record"}, data : [message : {m.id : m \in Messages}]]

OutsideCommands ==
    [type : {"change.apply"}, data : [plan_id : {"change"}]]
        \cup [type : {"artifact.attach"}, data : [artifact : DOMAIN Kinds]]

Commands ==
    ProgramCommands \cup TransitionCommands \cup UpdateCommands \cup MessageCommands \cup OutsideCommands

Payloads == {c.data : c \in Commands}

EventSet ==
    {e \in [type : ExistingCommands, by : Nat \cup {None}, proc : Procs \cup {None}, basis : Nat,
            data : Payloads] : Command(e.type, e.data) \in Commands}

Process ==
    [at : {"idle", "version", "execute"}, n : Nat, role : Roles \cup {NoRole}, basis : Nat,
     todo : Seq(Commands), pinned : Nat \cup {None}, expected : Nat, ids : SUBSET Nat,
     message : Messages \cup {None}, awaited : BOOLEAN]

Requests == [message : Messages, awaited : BOOLEAN]

\* No more copies are under way than were sent.
Envelopes ==
    {w \in [sent : 0 .. MaxCopies, copies : 0 .. MaxCopies, expected : Nat \cup {None}] : w.copies <= w.sent}

\* What the processes do: the loop and the CLI apply programs, the loop makes
\* transitions and serves the gateway, the threads record updates.
Programming(p) ==
    /\ p \in {Loop, Cli} /\ proc[p].todo \in Seq(ProgramCommands) /\ ~proc[p].awaited

Moving(p) ==
    /\ p = Loop /\ ~proc[p].awaited
    /\ \E c \in TransitionCommands : proc[p].todo = <<c>>

Updating(p) ==
    /\ p \in Threads /\ ~proc[p].awaited
    /\ \E c \in UpdateCommands : proc[p].todo = <<c>>

Serving(p) ==
    /\ p = Loop /\ proc[p].message \in Messages
    /\ \E c \in MessageCommands : proc[p].todo = <<c>> /\ c.data.message = proc[p].message.id

Working(p) ==
    /\ (proc[p].at = "idle") = (proc[p].todo = <<>>)
    /\ IF proc[p].at = "idle" THEN ~proc[p].awaited
       ELSE Programming(p) \/ Moving(p) \/ Updating(p) \/ Serving(p)
    /\ proc[p].n \in 0 .. begun /\ proc[p].basis \in 0 .. Len(log) /\ proc[p].ids \subseteq DOMAIN log

\* A process only ever has the work of its handlers before it.
TypeInv ==
    /\ scenario \in Scenarios
    /\ source \in Seq(Lines) /\ verdict \in {"none", "unparsed", "mismatch", "rejected", "valid"}
    /\ log \in Seq(EventSet)
    /\ proc \in [Procs -> Process]
    /\ begun \in Nat
    /\ wire \in [Messages -> Envelopes]
    /\ inbox \in Seq(Requests)
    /\ gateway \in Messages \cup {None}
    /\ replies \in [Messages -> Nat]
    /\ \A p \in Procs : Working(p)
    /\ \A i \in DOMAIN log : log[i].by \in (0 .. begun) \cup {None} /\ log[i].basis \in 0 .. Len(log)

-----------------------------------------------------------------------------
(***************************************************************************)
(* Commands and events.                                                    *)
(***************************************************************************)
\* The commands by their type.
LEMMA CommandKinds ==
    ASSUME NEW c \in Commands
    PROVE  /\ c.type \in ExistingCommands /\ c.data \in Payloads /\ c = Command(c.type, c.data)
           /\ c.type = "project.update.record" => c \in UpdateCommands
           /\ c.type = "lifecycle.transition.record" => c \in TransitionCommands
           /\ c.type = "dsl.execution.record" => c \in RecordCommands
           /\ "message" \in DOMAIN c.data => c \in MessageCommands
<1>1. c.type \in {"evolution.run.record", "change.apply", "lifecycle.blueprint.upsert",
                  "change.plan.record", "artifact.attach", "dsl.execution.record",
                  "lifecycle.transition.record", "project.update.record", "annotation.create"}
    BY DEF Commands, ProgramCommands, PlainCommands, BlueprintCommands, PlanCommandsOf, FileCommands,
        RecordCommands, TransitionCommands, UpdateCommands, MessageCommands, OutsideCommands
<1>2. c.type \in ExistingCommands
    BY <1>1 DEF ExistingCommands, AnnotationCommands, PlanCommands, ApplyCommands, GenerateCommands,
        ApprovalCommands
<1>3. c = Command(c.type, c.data)
    BY DEF Commands, ProgramCommands, PlainCommands, BlueprintCommands, PlanCommandsOf, FileCommands,
        RecordCommands, TransitionCommands, UpdateCommands, MessageCommands, OutsideCommands, Command
<1>4. /\ c.type = "project.update.record" => c \in UpdateCommands
      /\ c.type = "lifecycle.transition.record" => c \in TransitionCommands
      /\ c.type = "dsl.execution.record" => c \in RecordCommands
    BY DEF Commands, ProgramCommands, PlainCommands, BlueprintCommands, PlanCommandsOf, FileCommands,
        RecordCommands, TransitionCommands, UpdateCommands, MessageCommands, OutsideCommands
<1>5. "message" \in DOMAIN c.data => c \in MessageCommands
    BY DEF Commands, ProgramCommands, PlainCommands, BlueprintCommands, PlanCommandsOf, FileCommands,
        RecordCommands, TransitionCommands, UpdateCommands, MessageCommands, OutsideCommands
<1> QED
    BY <1>2, <1>3, <1>4, <1>5 DEF Payloads

\* The plans compiled from a program.
LEMMA PlansTyped ==
    ASSUME NEW program \in DOMAIN Programs
    PROVE  PlansOf(Documents[program]) \in Seq(Plans)
<1> DEFINE doc == Documents[program]
           plans == PlansOf(doc)
           top == OptionOf(doc, "REALIZE", "MAX_PLANS")
           end == IF top < Len(Shortlist) THEN top ELSE Len(Shortlist)
<1>1. top \in Nat /\ Shortlist \in Seq(ToSet(Shortlist))
    BY DocumentsAssumption, TwinScriptAssumption
<1>2. Shortlist \in Seq(Plans)
    BY <1>1 DEF Plans
<1> HIDE DEF top
<1>3. end \in Nat /\ end <= Len(Shortlist)
    BY <1>1
<1> HIDE DEF end
<1>4. SubSeq(Shortlist, 1, end) \in Seq(Plans)
    BY <1>2, <1>3
<1>5. plans = (IF doc.list.changes # <<>> THEN <<"explicit">> ELSE <<>>)
              \o (IF ScalarOf(doc, "INCLUDE_CHANGE_PLANS", "INCLUDE_CHANGE_PLANS")
                  THEN SubSeq(Shortlist, 1, end) ELSE <<>>)
    BY DEF PlansOf, end, top
<1>6. <<"explicit">> \in Seq(Plans) /\ <<>> \in Seq(Plans)
    BY DEF Plans
<1> HIDE DEF plans
<1>7. plans \in Seq(Plans)
    BY <1>4, <1>5, <1>6
<1> QED
    BY <1>7 DEF plans

\* One sequence behind the other.
Joint(u, s, t, S) ==
    /\ u \in Seq(S) /\ Len(s) \in Nat /\ Len(t) \in Nat /\ Len(u) = Len(s) + Len(t)
    /\ \A i \in 1 .. Len(s) : u[i] = s[i]
    /\ \A i \in 1 .. Len(u) : i > Len(s) => \E j \in 1 .. Len(t) : i = Len(s) + j /\ u[i] = t[j]
    /\ \A j \in 1 .. Len(t) : u[Len(s) + j] = t[j]

\* It is what concatenation makes.
LEMMA Joined ==
    ASSUME NEW S, NEW s \in Seq(S), NEW t \in Seq(S), NEW u, u = s \o t
    PROVE  Joint(u, s, t, S)
<1>1. /\ u \in Seq(S) /\ Len(s) \in Nat /\ Len(t) \in Nat /\ Len(u) = Len(s) + Len(t)
      /\ \A i \in 1 .. Len(s) + Len(t) : u[i] = IF i <= Len(s) THEN s[i] ELSE t[i - Len(s)]
    BY ConcatProperties
<1>2. \A i \in 1 .. Len(s) : u[i] = s[i]
    BY <1>1
<1>3. ASSUME NEW i \in 1 .. Len(u), i > Len(s)
      PROVE  \E j \in 1 .. Len(t) : i = Len(s) + j /\ u[i] = t[j]
    <2>1. i - Len(s) \in 1 .. Len(t) /\ i = Len(s) + (i - Len(s)) /\ ~(i <= Len(s)) /\ i \in 1 .. Len(s) + Len(t)
        BY <1>1, <1>3
    <2> QED
        BY <1>1, <2>1
<1>4. ASSUME NEW j \in 1 .. Len(t)
      PROVE  u[Len(s) + j] = t[j]
    <2>1. Len(s) + j \in 1 .. Len(s) + Len(t) /\ ~(Len(s) + j <= Len(s)) /\ (Len(s) + j) - Len(s) = j
        BY <1>1
    <2> QED
        BY <1>1, <2>1
<1> QED
    BY <1>1, <1>2, <1>3, <1>4 DEF Joint

\* The run, the blueprint, the plans; then the change, the files, the record.
InOrder(commands, program) ==
    LET plans == PlansOf(Documents[program])
        last == Len(commands)
    IN  /\ commands \in Seq(ProgramCommands) /\ last \in Nat
        /\ DOMAIN plans = 1 .. Len(plans) /\ Len(plans) \in Nat /\ last > Len(plans) + 2
        /\ commands[1].type = "evolution.run.record" /\ commands[2].type = "lifecycle.blueprint.upsert"
        /\ \A j \in 1 .. Len(plans) : /\ commands[2 + j].type = "change.plan.record"
                                      /\ commands[2 + j].data.plan = plans[j]
        /\ \A j \in 1 .. last : j > Len(plans) + 2 =>
                commands[j].type \in {"change.apply", "artifact.attach", "dsl.execution.record"}
        /\ \A j \in 1 .. last : j < last => commands[j].type # "dsl.execution.record"
        /\ \A j \in 1 .. last : commands[j].data.program = program /\ "program" \in DOMAIN commands[j].data
        /\ commands[last] = ExecutionRecord(program, Documents[program])
        /\ AutoApplies(Documents[program]) =>
                \E j \in 1 .. last : j < last /\ commands[j] = Command("change.apply", [program |-> program])

\* The commands of a program come in this order; files are among them only if
\* they were asked for, the change only if the program applies its changes.
LEMMA CommandsInOrder ==
    ASSUME NEW program \in DOMAIN Programs, NEW generate \in BOOLEAN
    PROVE  LET commands == CommandsOf(program, Documents[program], generate)
           IN  /\ InOrder(commands, program)
               /\ generate \/ \A j \in 1 .. Len(commands) : commands[j].type # "artifact.attach"
               /\ \/ AutoApplies(Documents[program])
                  \/ \A j \in 1 .. Len(commands) : commands[j].type # "change.apply"
<1> DEFINE doc == Documents[program]
           plans == PlansOf(doc)
           files == EvolutionArtifacts(doc)
           run == Command("evolution.run.record", [program |-> program])
           blueprint == Command("lifecycle.blueprint.upsert",
                                [program |-> program, blueprint |-> LifecycleBlueprint(doc)])
           change == Command("change.apply", [program |-> program])
           plan(i) == Command("change.plan.record", [program |-> program, plan |-> plans[i]])
           file(i) == Command("artifact.attach", [program |-> program, artifact |-> files[i]])
           a == <<run, blueprint>>
           b == [i \in DOMAIN plans |-> plan(i)]
           c == IF AutoApplies(doc) THEN <<change>> ELSE <<>>
           d == IF generate THEN [i \in DOMAIN files |-> file(i)] ELSE <<>>
           e == <<ExecutionRecord(program, doc)>>
           n == Len(plans)
           S == {x \in ProgramCommands : /\ x.data.program = program /\ "program" \in DOMAIN x.data
                                         /\ generate \/ x.type # "artifact.attach"
                                         /\ AutoApplies(doc) \/ x.type # "change.apply"}
           Early == {x \in S : x.type # "dsl.execution.record"}
           Late == {x \in S : x.type \in {"change.apply", "artifact.attach"}}
<1>1. plans \in Seq(Plans)
    BY PlansTyped
<1>2. DOMAIN plans = 1 .. n /\ n \in Nat
    BY <1>1
<1>3. a \in Seq(Early) /\ Len(a) = 2 /\ a[1].type = "evolution.run.record" /\ a[2].type = "lifecycle.blueprint.upsert"
    <2>1. run \in Early /\ run.type = "evolution.run.record"
        BY DEF Command, ProgramCommands, PlainCommands
    <2>2. blueprint \in Early /\ blueprint.type = "lifecycle.blueprint.upsert"
        BY DEF Command, ProgramCommands, BlueprintCommands, Blueprints
    <2> HIDE DEF run, blueprint, Early
    <2> QED
        BY <2>1, <2>2
<1>4. b \in Seq(Early) /\ Len(b) = n
      /\ \A j \in 1 .. n : b[j].type = "change.plan.record" /\ b[j].data.plan = plans[j]
    <2> HIDE DEF plans
    <2>1. \A j \in 1 .. n : /\ plan(j) \in Early /\ plan(j).type = "change.plan.record"
                            /\ plan(j).data.plan = plans[j]
        BY <1>1, <1>2 DEF Command, ProgramCommands, PlanCommandsOf
    <2>2. b = [j \in 1 .. n |-> plan(j)]
        BY <1>2
    <2> HIDE DEF b, Early, n, plan
    <2> QED
        BY <1>2, <2>1, <2>2
<1>5. c \in Seq(Late) /\ (AutoApplies(doc) => Len(c) = 1 /\ c[1] = change)
    <2>1. AutoApplies(doc) => change \in Late
        BY DEF Command, ProgramCommands, PlainCommands
    <2> HIDE DEF change, Late
    <2> QED
        BY <2>1
<1>6. d \in Seq(Late)
    <2>1. files \in Seq({"run.json", "manifest.json"})
        <3>1. <<"run.json", "manifest.json">> \in Seq({"run.json", "manifest.json"})
            OBVIOUS
        <3>2. <<>> \in Seq({"run.json", "manifest.json"})
            OBVIOUS
        <3> QED
            BY <3>1, <3>2 DEF EvolutionArtifacts
    <2> HIDE DEF files
    <2>2. DOMAIN files = 1 .. Len(files) /\ Len(files) \in Nat
        BY <2>1
    <2>3. generate => \A i \in 1 .. Len(files) : file(i) \in Late
        BY <2>1 DEF Command, ProgramCommands, FileCommands
    <2> HIDE DEF file, Late
    <2>4. generate => [i \in DOMAIN files |-> file(i)] \in Seq(Late)
        BY <2>2, <2>3
    <2> QED
        BY <2>4
<1>7. e \in Seq(S) /\ Len(e) = 1 /\ e[1] = ExecutionRecord(program, doc) /\ e[1].type = "dsl.execution.record"
    <2>1. ExecutionRecord(program, doc) \in S /\ ExecutionRecord(program, doc).type = "dsl.execution.record"
        BY DEF ExecutionRecord, Command, ProgramCommands, RecordCommands
    <2> HIDE DEF S
    <2> QED
        BY <2>1
<1>8. CommandsOf(program, doc, generate) = a \o b \o c \o d \o e
    BY DEF CommandsOf
<1>9. Late \subseteq Early /\ Early \subseteq S /\ S \subseteq ProgramCommands
    OBVIOUS
<1> DEFINE ab == a \o b
           abc == ab \o c
           abcd == abc \o d
           all == abcd \o e
<1>10. CommandsOf(program, doc, generate) = all
    BY <1>8
<1>27. ab = a \o b /\ abc = ab \o c /\ abcd = abc \o d /\ all = abcd \o e
    OBVIOUS
<1> HIDE DEF ab, abc, abcd, all
<1>11. \A x \in Late : x.type \in {"change.apply", "artifact.attach"}
    OBVIOUS
<1>12. \A x \in Early : x.type # "dsl.execution.record"
    OBVIOUS
<1>13. \A x \in S : x.data.program = program /\ "program" \in DOMAIN x.data
    OBVIOUS
<1>30. generate \/ \A x \in S : x.type # "artifact.attach"
    OBVIOUS
<1>31. AutoApplies(doc) \/ \A x \in S : x.type # "change.apply"
    OBVIOUS
<1> HIDE DEF a, b, c, d, e, S, Early, Late, change, n
<1>14. c \in Seq(Early) /\ d \in Seq(Early)
    BY <1>5, <1>6, <1>9
<1>15. /\ ab \in Seq(Early) /\ Len(ab) = 2 + n /\ ab[1] = a[1] /\ ab[2] = a[2]
       /\ \A j \in 1 .. n : ab[2 + j] = b[j]
    <2>1. Joint(ab, a, b, Early)
        BY <1>3, <1>4, <1>27, Joined
    <2> QED
        BY <1>2, <1>3, <1>4, <2>1 DEF Joint
<1>16. /\ abc \in Seq(Early) /\ Len(abc) \in Nat /\ Len(abc) >= 2 + n /\ (\A i \in 1 .. 2 + n : abc[i] = ab[i])
       /\ \A i \in 1 .. Len(abc) : i > 2 + n => abc[i].type \in {"change.apply", "artifact.attach"}
       /\ AutoApplies(doc) => Len(abc) = 3 + n /\ abc[3 + n] = change
    <2>1. Joint(abc, ab, c, Early)
        BY <1>14, <1>15, <1>27, Joined
    <2>2. \A j \in 1 .. Len(c) : c[j].type \in {"change.apply", "artifact.attach"}
        BY <1>5, <1>11, <2>1 DEF Joint
    <2>3. AutoApplies(doc) => Len(abc) = 3 + n /\ abc[3 + n] = change
        <3> SUFFICES ASSUME AutoApplies(doc)
                     PROVE  Len(abc) = 3 + n /\ abc[3 + n] = change
            OBVIOUS
        <3>1. Len(c) = 1 /\ c[1] = change
            BY <1>5
        <3>2. (2 + n) + 1 = 3 + n /\ Len(ab) = 2 + n
            BY <1>2, <1>15
        <3> QED
            BY <2>1, <3>1, <3>2 DEF Joint
    <2> QED
        BY <1>2, <1>15, <2>1, <2>2, <2>3 DEF Joint
<1>17. /\ abcd \in Seq(Early) /\ Len(abcd) \in Nat /\ Len(abcd) >= Len(abc)
       /\ (\A i \in 1 .. Len(abc) : abcd[i] = abc[i])
       /\ \A i \in 1 .. Len(abcd) : i > Len(abc) => abcd[i].type \in {"change.apply", "artifact.attach"}
    <2>1. Joint(abcd, abc, d, Early)
        BY <1>14, <1>16, <1>27, Joined
    <2>2. \A j \in 1 .. Len(d) : d[j].type \in {"change.apply", "artifact.attach"}
        BY <1>6, <1>11
    <2>3. Len(abcd) \in Nat /\ Len(abcd) >= Len(abc) /\ \A i \in 1 .. Len(abc) : abcd[i] = abc[i]
        BY <2>1 DEF Joint
    <2>4. ASSUME NEW i \in 1 .. Len(abcd), i > Len(abc)
          PROVE  abcd[i].type \in {"change.apply", "artifact.attach"}
        <3>1. PICK j \in 1 .. Len(d) : abcd[i] = d[j]
            BY <2>1, <2>4 DEF Joint
        <3> QED
            BY <2>2, <3>1
    <2> QED
        BY <2>1, <2>3, <2>4 DEF Joint
<1>18. /\ all \in Seq(S) /\ Len(all) = Len(abcd) + 1
       /\ (\A i \in 1 .. Len(abcd) : all[i] = abcd[i]) /\ all[Len(abcd) + 1] = e[1]
    <2>1. abcd \in Seq(S)
        BY <1>9, <1>17
    <2>2. Joint(all, abcd, e, S)
        BY <1>7, <2>1, <1>27, Joined
    <2> QED
        BY <1>7, <2>2 DEF Joint
<1>19. all \in Seq(ProgramCommands) /\ Len(all) \in Nat /\ Len(all) > n + 2
    BY <1>2, <1>9, <1>16, <1>17, <1>18
<1>20. all[1].type = "evolution.run.record" /\ all[2].type = "lifecycle.blueprint.upsert"
    <2>1. \A i \in {1, 2} : i \in 1 .. 2 + n /\ i \in 1 .. Len(abc) /\ i \in 1 .. Len(abcd)
        BY <1>2, <1>16, <1>17
    <2>2. all[1] = a[1] /\ all[2] = a[2]
        BY <1>15, <1>16, <1>17, <1>18, <2>1
    <2> QED
        BY <1>3, <2>2
<1>21. ASSUME NEW j \in 1 .. n
       PROVE  all[2 + j].type = "change.plan.record" /\ all[2 + j].data.plan = plans[j]
    <2>1. 2 + j \in 1 .. 2 + n /\ 2 + j \in 1 .. Len(abc) /\ 2 + j \in 1 .. Len(abcd)
        BY <1>2, <1>16, <1>17
    <2> QED
        BY <1>4, <1>15, <1>16, <1>17, <1>18, <2>1
<1>22. ASSUME NEW j \in 1 .. Len(all), j > n + 2
       PROVE  all[j].type \in {"change.apply", "artifact.attach", "dsl.execution.record"}
    <2>1. CASE j \in 1 .. Len(abc)
        <3>1. j \in 1 .. Len(abcd) /\ j > 2 + n
            BY <1>2, <1>16, <1>17, <1>22, <2>1
        <3> QED
            BY <1>16, <1>17, <1>18, <2>1, <3>1
    <2>2. CASE j \notin 1 .. Len(abc) /\ j \in 1 .. Len(abcd)
        <3>1. j > Len(abc)
            BY <1>16, <2>2
        <3> QED
            BY <1>17, <1>18, <2>2, <3>1
    <2>3. CASE j \notin 1 .. Len(abcd)
        <3>1. j = Len(abcd) + 1
            BY <1>17, <1>18, <2>3
        <3> QED
            BY <1>7, <1>18, <3>1
    <2> QED
        BY <2>1, <2>2, <2>3
<1>23. ASSUME NEW j \in 1 .. Len(all), j < Len(all)
       PROVE  all[j].type # "dsl.execution.record"
    <2>1. j \in 1 .. Len(abcd)
        BY <1>17, <1>18, <1>23
    <2>2. abcd[j] \in Early
        BY <1>17, <2>1
    <2> QED
        BY <1>12, <1>18, <2>1, <2>2
<1>24. \A j \in 1 .. Len(all) : all[j].data.program = program /\ "program" \in DOMAIN all[j].data
    BY <1>13, <1>18
<1>25. all[Len(all)] = ExecutionRecord(program, doc)
    BY <1>7, <1>18
<1>26. AutoApplies(doc) => \E j \in 1 .. Len(all) : j < Len(all) /\ all[j] = change
    <2>1. AutoApplies(doc) => /\ 3 + n \in 1 .. Len(abc) /\ 3 + n \in 1 .. Len(abcd)
                              /\ 3 + n \in 1 .. Len(all) /\ 3 + n < Len(all)
        BY <1>2, <1>16, <1>17, <1>18
    <2> QED
        BY <1>16, <1>17, <1>18, <2>1
<1>28. InOrder(all, program)
    BY <1>2, <1>19, <1>20, <1>21, <1>22, <1>23, <1>24, <1>25, <1>26 DEF InOrder, n, change
<1>32. AutoApplies(doc) \/ \A j \in 1 .. Len(all) : all[j].type # "change.apply"
    BY <1>18, <1>31
<1>29. generate \/ \A j \in 1 .. Len(all) : all[j].type # "artifact.attach"
    BY <1>18, <1>30
<1> QED
    BY <1>10, <1>28, <1>29, <1>32

\* The commands of a program, its execution record last.
LEMMA ProgramTypes ==
    ASSUME NEW program \in DOMAIN Programs, NEW generate \in BOOLEAN
    PROVE  LET commands == CommandsOf(program, Documents[program], generate)
           IN  /\ commands \in Seq(ProgramCommands) /\ Len(commands) \in Nat \ {0}
               /\ commands[Len(commands)].type = "dsl.execution.record"
<1>1. PICK commands : commands = CommandsOf(program, Documents[program], generate)
    OBVIOUS
<1>2. InOrder(commands, program)
    BY <1>1, CommandsInOrder
<1>3. /\ commands \in Seq(ProgramCommands) /\ Len(commands) \in Nat /\ Len(commands) # 0
      /\ commands[Len(commands)] = ExecutionRecord(program, Documents[program])
    BY <1>2 DEF InOrder
<1> QED
    BY <1>1, <1>3 DEF ExecutionRecord, Command

-----------------------------------------------------------------------------
(***************************************************************************)
(* Types: the steps.                                                       *)
(***************************************************************************)
\* A process that has not moved is what it was, when others only add to the
\* stream.
LEMMA WorkStays ==
    ASSUME NEW p \in Procs, Working(p), proc'[p] = proc[p],
           begun \in Nat, begun' \in Nat, begun <= begun',
           Len(log) \in Nat, Len(log') \in Nat, Len(log) <= Len(log'), DOMAIN log \subseteq DOMAIN log'
    PROVE  Working(p)'
<1>1. (0 .. begun) \subseteq (0 .. begun') /\ (0 .. Len(log)) \subseteq (0 .. Len(log'))
    OBVIOUS
<1> QED
    BY <1>1 DEF Working, Programming, Moving, Updating, Serving

\* A process without work.
LEMMA IdleWorks ==
    ASSUME NEW p \in Procs, proc'[p] = Idle, begun' \in Nat, Len(log') \in Nat
    PROVE  Working(p)'
BY DEF Working, Idle

LEMMA IdleTypes == Idle \in Process
BY DEF Idle, Process

\* What is still to be stored are commands, whoever stores them.
LEMMA WorkTypes ==
    ASSUME NEW todo,
           \/ todo \in Seq(ProgramCommands)
           \/ \E c \in TransitionCommands \cup UpdateCommands \cup MessageCommands : todo = <<c>>
    PROVE  /\ todo \in Seq(Commands)
           /\ todo \notin Seq(ProgramCommands) => Len(todo) = 1 /\ todo # <<>> /\ Head(todo) = todo[1]
<1>1. CASE todo \in Seq(ProgramCommands)
    <2>1. ProgramCommands \subseteq Commands
        BY DEF Commands
    <2> QED
        BY <1>1, <2>1
<1>2. CASE \E c \in TransitionCommands \cup UpdateCommands \cup MessageCommands : todo = <<c>>
    <2>1. PICK c \in TransitionCommands \cup UpdateCommands \cup MessageCommands : todo = <<c>>
        BY <1>2
    <2>2. c \in Commands
        BY DEF Commands
    <2> QED
        BY <2>1, <2>2
<1> QED
    BY <1>1, <1>2

\* A handler begins with the work of its kind.
LEMMA BeginTypes ==
    ASSUME TypeInv, NEW p \in Procs, NEW role \in Roles \cup {NoRole}, NEW todo, NEW pinned \in Nat \cup {None},
           todo # <<>>, Begin(p, role, todo, pinned),
           \/ p \in {Loop, Cli} /\ todo \in Seq(ProgramCommands)
           \/ p = Loop /\ \E c \in TransitionCommands : todo = <<c>>
           \/ p \in Threads /\ \E c \in UpdateCommands : todo = <<c>>,
           UNCHANGED <<scenario, source, verdict, log, wire, inbox, gateway, replies>>
    PROVE  TypeInv'
<1> DEFINE state == [Idle EXCEPT !.at = "version", !.n = begun + 1, !.role = role, !.basis = Len(log),
                                 !.todo = todo, !.pinned = pinned]
<1>1. begun \in Nat /\ begun' = begun + 1 /\ Len(log) \in Nat /\ DOMAIN log = 1 .. Len(log)
    BY DEF TypeInv, Begin
<1>2. todo \in Seq(Commands)
    BY WorkTypes
<1>3. Idle \in Process /\ Idle.ids = {} /\ ~Idle.awaited
    <2>1. Idle.ids = {} /\ ~Idle.awaited
        BY DEF Idle
    <2> QED
        BY <2>1, IdleTypes
<1>4. proc' = [proc EXCEPT ![p] = state]
    BY DEF Begin
<1>5. proc \in [Procs -> Process]
    BY DEF TypeInv
<1>6. /\ state \in Process
      /\ state.at = "version" /\ state.n = begun + 1 /\ state.basis = Len(log) /\ state.todo = todo
      /\ state.ids = {} /\ ~state.awaited
    <2> DEFINE idle == Idle
    <2>1. idle \in Process /\ idle.ids = {} /\ ~idle.awaited
        BY <1>3
    <2>2. state = [idle EXCEPT !.at = "version", !.n = begun + 1, !.role = role, !.basis = Len(log),
                               !.todo = todo, !.pinned = pinned]
        OBVIOUS
    <2> HIDE DEF idle, state
    <2>3. state \in Process
        <3> DEFINE half == [idle EXCEPT !.at = "version", !.n = begun + 1, !.role = role]
        <3>1. half \in Process
            <4>1. begun + 1 \in Nat
                BY <1>1
            <4> QED
                BY <2>1, <4>1 DEF Process
        <3>2. state = [half EXCEPT !.basis = Len(log), !.todo = todo, !.pinned = pinned]
            BY <2>2
        <3> HIDE DEF half
        <3> QED
            BY <1>1, <1>2, <3>1, <3>2 DEF Process
    <2>4. state.at = "version" /\ state.n = begun + 1
        BY <2>1, <2>2 DEF Process
    <2>5. state.basis = Len(log) /\ state.todo = todo
        BY <2>1, <2>2 DEF Process
    <2>6. state.ids = {} /\ ~state.awaited
        BY <2>1, <2>2 DEF Process
    <2> QED
        BY <2>3, <2>4, <2>5, <2>6
<1> HIDE DEF state
<1>7. proc' \in [Procs -> Process] /\ proc'[p] = state /\ \A q \in Procs \ {p} : proc'[q] = proc[q]
    BY <1>4, <1>5, <1>6
<1>8. Working(p)'
    <2>1. Programming(p)' \/ Moving(p)' \/ Updating(p)'
        BY <1>6, <1>7 DEF Programming, Moving, Updating
    <2>2. begun + 1 \in 0 .. begun' /\ Len(log) \in 0 .. Len(log')
        BY <1>1
    <2> QED
        BY <1>6, <1>7, <2>1, <2>2 DEF Working
<1>9. ASSUME NEW q \in Procs \ {p}
      PROVE  Working(q)'
    <2>1. Working(q) /\ begun <= begun' /\ begun' \in Nat
        BY <1>1 DEF TypeInv
    <2> QED
        BY <1>1, <1>7, <2>1, WorkStays
<1>10. \A q \in Procs : Working(q)'
    BY <1>8, <1>9
<1>11. \A i \in DOMAIN log' : log'[i].by \in (0 .. begun') \cup {None} /\ log'[i].basis \in 0 .. Len(log')
    <2>1. (0 .. begun) \subseteq (0 .. begun') /\ log' = log
        BY <1>1
    <2>2. \A i \in DOMAIN log : log[i].by \in (0 .. begun) \cup {None} /\ log[i].basis \in 0 .. Len(log)
        BY DEF TypeInv
    <2> QED
        BY <2>1, <2>2
<1>12. begun' \in Nat
    BY <1>1
<1> QED
    BY <1>7, <1>10, <1>11, <1>12 DEF TypeInv

\* Processes end or go on, and what they serve is no longer awaited, while
\* nothing is stored.
LEMMA QuietTypes ==
    ASSUME TypeInv, proc' \in [Procs -> Process], \A p \in Procs : Working(p)',
           inbox' \in Seq(Requests), gateway' \in Messages \cup {None},
           replies' \in [Messages -> Nat],
           UNCHANGED <<scenario, source, verdict, log, begun, wire>>
    PROVE  TypeInv'
BY DEF TypeInv

\* The answer to a handler.
LEMMA AnsweredTypes ==
    ASSUME TypeInv, NEW p \in Procs, NEW ok \in BOOLEAN, Answered(p, ok)
    PROVE  gateway' \in Messages \cup {None} /\ replies' \in [Messages -> Nat]
<1>1. gateway \in Messages \cup {None} /\ replies \in [Messages -> Nat]
    BY DEF TypeInv
<1>2. CASE ~proc[p].awaited
    BY <1>1, <1>2 DEF Answered
<1>3. CASE proc[p].awaited
    <2> DEFINE m == proc[p].message
    <2>1. gateway' = None /\ (replies' = replies \/ replies' = [replies EXCEPT ![m] = @ + 1])
        BY <1>3 DEF Answered
    <2>2. ASSUME replies' = [replies EXCEPT ![m] = @ + 1]
          PROVE  replies' \in [Messages -> Nat]
        <3> HIDE DEF m
        <3>1. CASE m \in Messages
            <4>1. replies[m] + 1 \in Nat
                BY <1>1, <3>1
            <4> QED
                BY <1>1, <2>2, <4>1
        <3>2. CASE m \notin Messages
            BY <1>1, <2>2, <3>2
        <3> QED
            BY <3>1, <3>2
    <2> QED
        BY <1>1, <2>1, <2>2
<1> QED
    BY <1>2, <1>3

\* A handler ends.
LEMMA EndTypes ==
    ASSUME TypeInv, NEW p \in Procs, proc' = [proc EXCEPT ![p] = Idle], begun' = begun,
           Len(log') \in Nat, Len(log) <= Len(log'), DOMAIN log \subseteq DOMAIN log'
    PROVE  proc' \in [Procs -> Process] /\ \A q \in Procs : Working(q)'
<1>1. /\ proc \in [Procs -> Process] /\ begun \in Nat /\ begun <= begun' /\ Len(log) \in Nat
      /\ \A q \in Procs : Working(q)
    BY DEF TypeInv
<1>2. proc' \in [Procs -> Process] /\ proc'[p] = Idle /\ \A q \in Procs \ {p} : proc'[q] = proc[q]
    BY <1>1, IdleTypes
<1>3. Working(p)'
    BY <1>1, <1>2, IdleWorks
<1>4. \A q \in Procs \ {p} : Working(q)'
    BY <1>1, <1>2, WorkStays
<1> QED
    BY <1>2, <1>3, <1>4

\* A process reads the version that its next command expects.
LEMMA ReadVersionTypes ==
    ASSUME TypeInv, NEW p \in Procs, ReadVersion(p)
    PROVE  TypeInv'
<1> DEFINE state == [proc[p] EXCEPT !.at = "execute", !.expected = Expectation(p)]
<1>1. /\ proc \in [Procs -> Process] /\ proc[p] \in Process /\ begun \in Nat /\ Len(log) \in Nat
      /\ \A q \in Procs : Working(q)
    BY DEF TypeInv
<1>2. Expectation(p) \in Nat
    BY <1>1 DEF Expectation, Process
<1>3. /\ state \in Process /\ state.at = "execute" /\ state.n = proc[p].n /\ state.basis = proc[p].basis
      /\ state.todo = proc[p].todo /\ state.ids = proc[p].ids /\ state.awaited = proc[p].awaited
      /\ state.message = proc[p].message
    BY <1>1, <1>2 DEF Process
<1>4. proc' = [proc EXCEPT ![p] = state]
    BY <1>1 DEF ReadVersion
<1> HIDE DEF state
<1>5. proc' \in [Procs -> Process] /\ proc'[p] = state /\ \A q \in Procs \ {p} : proc'[q] = proc[q]
    BY <1>1, <1>3, <1>4
<1>6. UNCHANGED <<scenario, source, verdict, log, begun, wire, inbox, gateway, replies>> /\ proc[p].at = "version"
    BY DEF ReadVersion
<1>7. Working(p)'
    <2>1. Programming(p) \/ Moving(p) \/ Updating(p) \/ Serving(p)
        BY <1>1, <1>6 DEF Working
    <2>2. Programming(p)' \/ Moving(p)' \/ Updating(p)' \/ Serving(p)'
        BY <1>3, <1>5, <2>1 DEF Programming, Moving, Updating, Serving
    <2> QED
        BY <1>1, <1>3, <1>5, <1>6, <2>2 DEF Working
<1>8. \A q \in Procs \ {p} : Working(q)'
    BY <1>1, <1>5, <1>6, WorkStays
<1>9. inbox \in Seq(Requests) /\ gateway \in Messages \cup {None} /\ replies \in [Messages -> Nat]
    BY DEF TypeInv
<1> QED
    BY <1>5, <1>6, <1>7, <1>8, <1>9, QuietTypes

\* A handler that fails ends, with nothing stored.
LEMMA FailTypes ==
    ASSUME TypeInv, NEW p \in Procs, Fail(p)
    PROVE  TypeInv'
<1>1. proc' = [proc EXCEPT ![p] = Idle] /\ UNCHANGED <<scenario, source, verdict, log, begun, wire, inbox>>
    BY DEF Fail
<1>2. Len(log) \in Nat /\ inbox \in Seq(Requests)
    BY DEF TypeInv
<1>3. proc' \in [Procs -> Process] /\ \A q \in Procs : Working(q)'
    <2>1. Len(log') \in Nat /\ Len(log) <= Len(log') /\ DOMAIN log \subseteq DOMAIN log'
        BY <1>1, <1>2
    <2>2. begun' = begun
        BY <1>1
    <2> QED
        BY <1>1, <2>1, <2>2, EndTypes
<1>4. gateway' \in Messages \cup {None} /\ replies' \in [Messages -> Nat]
    <2>1. Answered(p, FALSE)
        BY DEF Fail
    <2> QED
        BY <2>1, AnsweredTypes, Zenon
<1> QED
    BY <1>1, <1>2, <1>3, <1>4, QuietTypes

\* What a process that is not idle has still to store.
LEMMA CurrentTypes ==
    ASSUME TypeInv, NEW p \in Procs, proc[p].at # "idle"
    PROVE  /\ proc[p] \in Process /\ proc[p].todo \in Seq(Commands) /\ proc[p].todo # <<>>
           /\ Current(p) \in Commands /\ Len(proc[p].todo) \in Nat \ {0}
           /\ Len(proc[p].todo) > 1 =>
                /\ Programming(p) /\ Tail(proc[p].todo) \in Seq(ProgramCommands)
                /\ Tail(proc[p].todo) \in Seq(Commands) /\ Tail(proc[p].todo) # <<>>
                /\ Current(p) \in ProgramCommands
           /\ \/ Current(p) \in ProgramCommands /\ p \in {Loop, Cli} /\ ~proc[p].awaited
              \/ Current(p) \in TransitionCommands /\ p = Loop /\ proc[p].todo = <<Current(p)>> /\ ~proc[p].awaited
              \/ Current(p) \in UpdateCommands /\ p \in Threads /\ proc[p].todo = <<Current(p)>> /\ ~proc[p].awaited
              \/ /\ Current(p) \in MessageCommands /\ p = Loop /\ proc[p].todo = <<Current(p)>>
                 /\ proc[p].message \in Messages /\ Current(p).data.message = proc[p].message.id
<1>1. /\ proc[p] \in Process /\ proc[p].todo # <<>>
      /\ Programming(p) \/ Moving(p) \/ Updating(p) \/ Serving(p)
    BY DEF TypeInv, Working
<1>2. proc[p].todo \in Seq(Commands)
    BY <1>1 DEF Process
<1> DEFINE todo == proc[p].todo
<1>3. Current(p) = todo[1] /\ todo[1] \in Commands /\ Len(todo) \in Nat \ {0}
    BY <1>1, <1>2 DEF Current
<1>4. CASE Programming(p)
    <2>1. todo \in Seq(ProgramCommands) /\ p \in {Loop, Cli} /\ ~proc[p].awaited
        BY <1>4 DEF Programming
    <2> HIDE DEF todo
    <2>2. todo[1] \in ProgramCommands
        BY <1>3, <2>1
    <2>3. Len(todo) > 1 => Tail(todo) \in Seq(ProgramCommands) /\ Tail(todo) # <<>>
        <3>1. todo # <<>> => Tail(todo) \in Seq(ProgramCommands) /\ Len(Tail(todo)) = Len(todo) - 1
            BY <2>1, HeadTailProperties
        <3>2. Len(todo) > 1 => todo # <<>> /\ Len(todo) - 1 # 0
            BY <1>3
        <3>3. Len(<<>>) = 0
            OBVIOUS
        <3> QED
            BY <3>1, <3>2, <3>3
    <2>4. Tail(todo) \in Seq(ProgramCommands) => Tail(todo) \in Seq(Commands)
        BY WorkTypes
    <2> QED
        BY <1>1, <1>2, <1>3, <1>4, <2>1, <2>2, <2>3, <2>4 DEF todo
<1>5. CASE Moving(p)
    <2>1. PICK c \in TransitionCommands : todo = <<c>>
        BY <1>5 DEF Moving
    <2>2. todo[1] = c /\ Len(todo) = 1 /\ p = Loop /\ ~proc[p].awaited
        BY <1>5, <2>1 DEF Moving
    <2> QED
        BY <1>1, <1>2, <1>3, <2>1, <2>2
<1>6. CASE Updating(p)
    <2>1. PICK c \in UpdateCommands : todo = <<c>>
        BY <1>6 DEF Updating
    <2>2. todo[1] = c /\ Len(todo) = 1 /\ p \in Threads /\ ~proc[p].awaited
        BY <1>6, <2>1 DEF Updating
    <2> QED
        BY <1>1, <1>2, <1>3, <2>1, <2>2
<1>7. CASE Serving(p)
    <2>1. PICK c \in MessageCommands : todo = <<c>> /\ c.data.message = proc[p].message.id
        BY <1>7 DEF Serving
    <2>2. todo[1] = c /\ Len(todo) = 1 /\ p = Loop /\ proc[p].message \in Messages
        BY <1>7, <2>1 DEF Serving
    <2> QED
        BY <1>1, <1>2, <1>3, <2>1, <2>2
<1> QED
    BY <1>1, <1>4, <1>5, <1>6, <1>7

\* The event of a command.
LEMMA EventTypes ==
    ASSUME TypeInv, NEW p \in Procs, proc[p].at # "idle"
    PROVE  /\ Event(p) \in EventSet
           /\ Event(p).type = Current(p).type /\ Event(p).by = proc[p].n /\ Event(p).proc = p
           /\ Event(p).basis = proc[p].basis
           /\ Current(p).type # "dsl.execution.record" => Event(p).data = Current(p).data
           /\ DOMAIN Event(p).data = DOMAIN Current(p).data
<1> DEFINE c == Current(p)
           d == IF c.type = "dsl.execution.record" THEN [c.data EXCEPT !.ids = ListedIds(p)] ELSE c.data
<1>1. c \in Commands /\ proc[p] \in Process
    BY CurrentTypes
<1> HIDE DEF c
<1>2. Command(c.type, d) \in Commands /\ DOMAIN d = DOMAIN c.data
    <2>1. CASE c.type = "dsl.execution.record"
        <3>1. c \in RecordCommands
            BY <1>1, <2>1, CommandKinds
        <3>2. ListedIds(p) \in SUBSET Nat
            BY <1>1 DEF Process, ListedIds
        <3>3. [c.data EXCEPT !.ids = ListedIds(p)] \in
                [program : DOMAIN Programs, ids : SUBSET Nat, status : {"executed", "partially_executed"}]
            BY <3>1, <3>2 DEF RecordCommands
        <3>4. DOMAIN [c.data EXCEPT !.ids = ListedIds(p)] = DOMAIN c.data
            OBVIOUS
        <3>5. d = [c.data EXCEPT !.ids = ListedIds(p)]
            BY <2>1
        <3> HIDE DEF d
        <3>6. Command(c.type, d) \in RecordCommands
            BY <2>1, <3>3, <3>5 DEF Command, RecordCommands
        <3> QED
            BY <3>4, <3>5, <3>6 DEF Commands, ProgramCommands
    <2>2. CASE c.type # "dsl.execution.record"
        BY <1>1, <2>2, CommandKinds
    <2> QED
        BY <2>1, <2>2
<1>3. Event(p) = [type |-> c.type, by |-> proc[p].n, proc |-> p, basis |-> proc[p].basis, data |-> d]
    BY DEF Event, c
<1>4. c.type \in ExistingCommands
    BY <1>1, CommandKinds
<1>5. d = c.data \/ c.type = "dsl.execution.record"
    OBVIOUS
<1> HIDE DEF d
<1>6. d \in Payloads
    <2>1. Command(c.type, d).data = d
        BY DEF Command
    <2> QED
        BY <1>2, <2>1 DEF Payloads
<1>7. proc[p].n \in Nat /\ proc[p].basis \in Nat
    BY <1>1 DEF Process
<1> DEFINE e == Event(p)
<1>8. e.type = c.type /\ e.by = proc[p].n /\ e.proc = p /\ e.basis = proc[p].basis /\ e.data = d
    BY <1>3
<1>9. e \in [type : ExistingCommands, by : Nat \cup {None}, proc : Procs \cup {None}, basis : Nat,
             data : Payloads]
    BY <1>3, <1>4, <1>6, <1>7
<1> HIDE DEF e
<1>10. e \in EventSet
    BY <1>2, <1>8, <1>9 DEF EventSet
<1> QED
    BY <1>2, <1>5, <1>8, <1>10 DEF c, e

\* An event is stored.
LEMMA StoredTypes ==
    ASSUME TypeInv, NEW e \in EventSet, log' = Append(log, e)
    PROVE  /\ log' \in Seq(EventSet) /\ Len(log) \in Nat /\ Len(log') = Len(log) + 1
           /\ DOMAIN log = 1 .. Len(log) /\ DOMAIN log' = DOMAIN log \cup {Len(log) + 1}
           /\ DOMAIN log \subseteq DOMAIN log' /\ Len(log) <= Len(log') /\ Len(log') \in Nat
           /\ log'[Len(log) + 1] = e /\ \A i \in DOMAIN log : log'[i] = log[i]
<1>1. log \in Seq(EventSet)
    BY DEF TypeInv
<1>2. /\ log' \in Seq(EventSet) /\ Len(log) \in Nat /\ Len(log') = Len(log) + 1
      /\ DOMAIN log = 1 .. Len(log) /\ DOMAIN log' = DOMAIN log \cup {Len(log) + 1}
      /\ log'[Len(log) + 1] = e /\ \A i \in DOMAIN log : log'[i] = log[i]
    BY <1>1, AppendKeeps
<1> QED
    BY <1>2

\* After one more event, the numbers in the stream are still in their bounds.
LEMMA StoredBounds ==
    ASSUME TypeInv, NEW e \in EventSet, log' = Append(log, e), begun' = begun,
           e.by \in (0 .. begun) \cup {None}, e.basis \in 0 .. Len(log)
    PROVE  \A i \in DOMAIN log' : log'[i].by \in (0 .. begun') \cup {None} /\ log'[i].basis \in 0 .. Len(log')
<1> TAKE i \in DOMAIN log'
<1>1. /\ Len(log) \in Nat /\ Len(log') = Len(log) + 1 /\ DOMAIN log' = DOMAIN log \cup {Len(log) + 1}
      /\ log'[Len(log) + 1] = e /\ \A j \in DOMAIN log : log'[j] = log[j]
    BY StoredTypes
<1>2. (0 .. Len(log)) \subseteq (0 .. Len(log'))
    BY <1>1
<1>3. CASE i \in DOMAIN log
    <2>1. log[i].by \in (0 .. begun) \cup {None} /\ log[i].basis \in 0 .. Len(log)
        BY <1>3 DEF TypeInv
    <2> QED
        BY <1>1, <1>2, <1>3, <2>1
<1>4. CASE i = Len(log) + 1
    BY <1>1, <1>2, <1>4
<1> QED
    BY <1>1, <1>3, <1>4

LEMMA ExecuteTypes ==
    ASSUME TypeInv, NEW p \in Procs, Execute(p)
    PROVE  TypeInv'
<1> DEFINE e == Event(p)
<1>1. /\ proc[p].at = "execute" /\ log' = Append(log, e)
      /\ \/ /\ Len(proc[p].todo) > 1
            /\ proc' = [proc EXCEPT ![p].at = "version", ![p].todo = Tail(@), ![p].ids = @ \cup {Len(log) + 1}]
            /\ UNCHANGED <<gateway, replies>>
         \/ proc' = [proc EXCEPT ![p] = Idle] /\ Answered(p, TRUE)
      /\ UNCHANGED <<scenario, source, verdict, begun, wire, inbox>>
    BY DEF Execute
<1>2. /\ e \in EventSet /\ e.by = proc[p].n /\ e.basis = proc[p].basis
      /\ proc[p] \in Process /\ proc[p].todo # <<>>
    BY <1>1, EventTypes, CurrentTypes
<1>3. proc[p].n \in 0 .. begun /\ proc[p].basis \in 0 .. Len(log) /\ proc[p].ids \subseteq DOMAIN log
    BY DEF TypeInv, Working
<1> HIDE DEF e
<1>4. /\ log' \in Seq(EventSet) /\ Len(log) \in Nat /\ Len(log') = Len(log) + 1
      /\ DOMAIN log = 1 .. Len(log) /\ DOMAIN log' = DOMAIN log \cup {Len(log) + 1}
      /\ DOMAIN log \subseteq DOMAIN log' /\ Len(log) <= Len(log') /\ Len(log') \in Nat
    BY <1>1, <1>2, StoredTypes
<1>5. \A i \in DOMAIN log' : log'[i].by \in (0 .. begun') \cup {None} /\ log'[i].basis \in 0 .. Len(log')
    BY <1>1, <1>2, <1>3, StoredBounds
<1>6. proc' \in [Procs -> Process] /\ (\A q \in Procs : Working(q)')
      /\ gateway' \in Messages \cup {None} /\ replies' \in [Messages -> Nat]
    <2>1. CASE /\ Len(proc[p].todo) > 1
               /\ proc' = [proc EXCEPT ![p].at = "version", ![p].todo = Tail(@), ![p].ids = @ \cup {Len(log) + 1}]
               /\ UNCHANGED <<gateway, replies>>
        <3> DEFINE state == [proc[p] EXCEPT !.at = "version", !.todo = Tail(@), !.ids = @ \cup {Len(log) + 1}]
        <3>1. proc \in [Procs -> Process] /\ begun \in Nat /\ begun' = begun
            BY <1>1 DEF TypeInv
        <3>2. proc' = [proc EXCEPT ![p] = state]
            BY <2>1, <3>1
        <3>3. /\ p \in {Loop, Cli} /\ ~proc[p].awaited /\ Tail(proc[p].todo) \in Seq(ProgramCommands)
              /\ Tail(proc[p].todo) \in Seq(Commands) /\ Tail(proc[p].todo) # <<>>
            BY <1>1, <2>1, CurrentTypes DEF Programming
        <3>4. Len(log) + 1 \in Nat /\ Len(log) + 1 \in DOMAIN log'
            BY <1>4
        <3>5. /\ state \in Process /\ state.at = "version" /\ state.todo = Tail(proc[p].todo)
              /\ state.ids = proc[p].ids \cup {Len(log) + 1} /\ state.n = proc[p].n
              /\ state.basis = proc[p].basis /\ ~state.awaited
            BY <1>2, <3>3, <3>4 DEF Process
        <3> HIDE DEF state
        <3>6. proc' \in [Procs -> Process] /\ proc'[p] = state /\ \A q \in Procs \ {p} : proc'[q] = proc[q]
            BY <3>1, <3>2, <3>5
        <3>7. Programming(p)'
            BY <3>3, <3>5, <3>6 DEF Programming
        <3>8. proc[p].basis \in 0 .. Len(log') /\ state.ids \subseteq DOMAIN log'
            BY <1>3, <1>4, <3>4, <3>5
        <3>9. Working(p)'
            BY <1>3, <3>1, <3>3, <3>5, <3>6, <3>7, <3>8 DEF Working
        <3>10. \A q \in Procs \ {p} : Working(q)
            BY DEF TypeInv
        <3>11. \A q \in Procs \ {p} : Working(q)'
            BY <1>4, <3>1, <3>6, <3>10, WorkStays
        <3>12. gateway' \in Messages \cup {None} /\ replies' \in [Messages -> Nat]
            BY <2>1 DEF TypeInv
        <3> QED
            BY <3>6, <3>9, <3>11, <3>12
    <2>2. CASE proc' = [proc EXCEPT ![p] = Idle] /\ Answered(p, TRUE)
        <3>1. proc' \in [Procs -> Process] /\ \A q \in Procs : Working(q)'
            BY <1>1, <1>4, <2>2, EndTypes
        <3>2. gateway' \in Messages \cup {None} /\ replies' \in [Messages -> Nat]
            BY <2>2, AnsweredTypes, Zenon
        <3> QED
            BY <3>1, <3>2
    <2> QED
        BY <1>1, <2>1, <2>2
<1> QED
    BY <1>1, <1>4, <1>5, <1>6 DEF TypeInv

LEMMA ApplyProjectDslTypes ==
    ASSUME TypeInv, NEW p \in Procs, ApplyProjectDsl(p)
    PROVE  TypeInv'
<1>1. PICK program \in scenario.programs, role \in scenario.roles, generate \in BOOLEAN :
            Begin(p, role, CommandsOf(program, Documents[program], generate), None)
    BY DEF ApplyProjectDsl
<1>2. /\ p \in {Loop, Cli} /\ UNCHANGED <<scenario, source, verdict, log, wire, inbox, gateway, replies>>
    BY DEF ApplyProjectDsl
<1>3. scenario.programs \subseteq DOMAIN Programs /\ scenario.roles \subseteq Roles
    BY ProjectHandlersAssumption DEF TypeInv
<1> DEFINE todo == CommandsOf(program, Documents[program], generate)
<1>4. todo \in Seq(ProgramCommands) /\ Len(todo) \in Nat \ {0}
    BY <1>3, ProgramTypes
<1>5. Begin(p, role, todo, None)
    BY <1>1
<1> HIDE DEF todo
<1>6. todo # <<>>
    BY <1>4
<1> QED
    BY <1>2, <1>3, <1>4, <1>5, <1>6, BeginTypes

\* The last of some positions.
LEMMA NewestPosition ==
    ASSUME NEW n \in Nat, NEW T \in SUBSET (1 .. n), T # {}
    PROVE  Newest(T) \in T /\ \A y \in T : y <= Newest(T)
<1>1. Max(T) \in T /\ \A y \in T : y <= Max(T)
    BY LastPosition
<1> QED
    BY <1>1 DEF Newest

\* The blueprint of a project is that of a program.
LEMMA BlueprintTypes ==
    ASSUME NEW s \in Seq(EventSet), NEW k \in DOMAIN s, s[k].type = "lifecycle.blueprint.upsert"
    PROVE  s[k].data.blueprint \in Blueprints /\ s[k].data = [program |-> s[k].data.program, blueprint |-> s[k].data.blueprint]
<1>1. s[k] \in EventSet
    OBVIOUS
<1>2. Command(s[k].type, s[k].data) \in Commands
    BY <1>1 DEF EventSet
<1>3. Command(s[k].type, s[k].data) \in BlueprintCommands
    <2> DEFINE c == Command(s[k].type, s[k].data)
    <2>1. c.type = "lifecycle.blueprint.upsert"
        BY DEF Command
    <2>2. c \in Commands
        BY <1>2
    <2> HIDE DEF c
    <2>3. c \in BlueprintCommands
        BY <2>1, <2>2 DEF Commands, ProgramCommands, PlainCommands, BlueprintCommands, PlanCommandsOf,
            FileCommands, RecordCommands, TransitionCommands, UpdateCommands, MessageCommands, OutsideCommands
    <2> QED
        BY <2>3 DEF c
<1>4. s[k].data \in [program : DOMAIN Programs, blueprint : Blueprints]
    BY <1>3 DEF BlueprintCommands, Command
<1> QED
    BY <1>4

\* The process begins to record this transition of a blueprint that is there.
Transits(p, id, transition, role, force, evidence, status) ==
    LET from == StageAt(id, Len(log))
        c == Command("lifecycle.transition.record",
                     [id |-> id, from |-> from, to |-> transition[2], force |-> force,
                      evidence |-> evidence, status |-> status])
    IN  /\ BlueprintAt(id, Len(log)) # None /\ transition[1] = from
        /\ transition \in Transitions(BlueprintAt(id, Len(log)))
        /\ status = "approved" => force \/ ~Gaps(evidence, from, Len(log))
        /\ c \in TransitionCommands /\ Begin(p, role, <<c>>, None)

\* What the handler begins to record when the guards of the code let it.
LEMMA TransitionTypes ==
    ASSUME TypeInv, NEW p \in Procs, TransitionLifecycle(p)
    PROVE  /\ p = Loop /\ UNCHANGED <<scenario, source, verdict, log, wire, inbox, gateway, replies>>
           /\ Free(p)
           /\ \E c \in TransitionCommands, role \in Roles : Begin(p, role, <<c>>, None)
           /\ \E id \in DOMAIN Templates, role \in Roles, force \in BOOLEAN, evidence \in Evidence,
                 status \in {"requested", "blocked", "approved"} : \E transition :
                    Transits(p, id, transition, role, force, evidence, status)
<1>1. /\ p = Loop /\ UNCHANGED <<scenario, source, verdict, log, wire, inbox, gateway, replies>> /\ Free(p)
    BY DEF TransitionLifecycle, TransitionProcs
<1>2. PICK id \in DOMAIN Templates : /\ BlueprintAt(id, Len(log)) # None
        /\ \E transition \in Transitions(BlueprintAt(id, Len(log))), role \in scenario.roles,
              approve, force \in BOOLEAN, evidence \in Evidence :
            /\ transition[1] = StageAt(id, Len(log))
            /\ LET status ==
                    CASE ~approve                                           -> "requested"
                      [] approve /\ ~force /\ Gaps(evidence, StageAt(id, Len(log)), Len(log)) -> "blocked"
                      [] OTHER                                              -> "approved"
               IN  Begin(p, role, <<Command("lifecycle.transition.record",
                                            [id |-> id, from |-> StageAt(id, Len(log)), to |-> transition[2],
                                             force |-> force, evidence |-> evidence,
                                             status |-> status])>>, None)
    BY DEF TransitionLifecycle
<1> DEFINE from == StageAt(id, Len(log))
<1>3. PICK transition \in Transitions(BlueprintAt(id, Len(log))), role \in scenario.roles,
           approve \in BOOLEAN, force \in BOOLEAN, evidence \in Evidence :
            /\ transition[1] = from
            /\ LET status ==
                    CASE ~approve                                -> "requested"
                      [] approve /\ ~force /\ Gaps(evidence, from, Len(log)) -> "blocked"
                      [] OTHER                                   -> "approved"
               IN  Begin(p, role, <<Command("lifecycle.transition.record",
                                            [id |-> id, from |-> from, to |-> transition[2],
                                             force |-> force, evidence |-> evidence,
                                             status |-> status])>>, None)
    BY <1>2
<1> DEFINE status ==
        CASE ~approve                                             -> "requested"
          [] approve /\ ~force /\ Gaps(evidence, from, Len(log)) -> "blocked"
          [] OTHER                                                -> "approved"
           c == Command("lifecycle.transition.record",
                        [id |-> id, from |-> from, to |-> transition[2], force |-> force,
                         evidence |-> evidence, status |-> status])
<1>4. role \in Roles
    BY ProjectHandlersAssumption DEF TypeInv
<1>5. /\ status \in {"requested", "blocked", "approved"}
      /\ status = "approved" => force \/ ~Gaps(evidence, from, Len(log))
    OBVIOUS
<1>6. Begin(p, role, <<c>>, None) /\ transition[1] = from
    BY <1>3
<1> HIDE DEF status
<1>7. BlueprintAt(id, Len(log)) \in Blueprints
    <2> DEFINE mine == {k \in Upserts(Len(log)) : log[k].data.blueprint.id = id}
    <2>1. mine # {} /\ BlueprintAt(id, Len(log)) = log[Newest(mine)].data.blueprint
        BY <1>2 DEF BlueprintAt
    <2>2. log \in Seq(EventSet) /\ Len(log) \in Nat /\ DOMAIN log = 1 .. Len(log)
        BY DEF TypeInv
    <2>3. mine \in SUBSET (1 .. Len(log)) /\ \A k \in mine : log[k].type = "lifecycle.blueprint.upsert"
        BY DEF Upserts
    <2> HIDE DEF mine
    <2>4. Newest(mine) \in mine
        BY <2>1, <2>2, <2>3, NewestPosition
    <2>5. Newest(mine) \in DOMAIN log
        BY <2>2, <2>3, <2>4
    <2> QED
        BY <2>1, <2>2, <2>3, <2>4, <2>5, BlueprintTypes
<1>8. from \in Places /\ transition[2] \in Places
    BY <1>3, <1>7 DEF Places
<1> HIDE DEF from
<1>9. c \in TransitionCommands
    BY <1>5, <1>8 DEF Command, TransitionCommands
<1>10. Transits(p, id, transition, role, force, evidence, status)
    BY <1>2, <1>5, <1>6, <1>9 DEF from, Transits
<1> HIDE DEF c
<1>11. \E d \in TransitionCommands, r \in Roles : Begin(p, r, <<d>>, None)
    BY <1>4, <1>6, <1>9
<1>12. \E i \in DOMAIN Templates, r \in Roles, f \in BOOLEAN, e \in Evidence,
          s \in {"requested", "blocked", "approved"} : \E t : Transits(p, i, t, r, f, e, s)
    BY <1>4, <1>5, <1>10
<1> QED
    BY <1>1, <1>11, <1>12

LEMMA TransitionLifecycleTypes ==
    ASSUME TypeInv, NEW p \in Procs, TransitionLifecycle(p)
    PROVE  TypeInv'
<1>1. /\ p = Loop /\ UNCHANGED <<scenario, source, verdict, log, wire, inbox, gateway, replies>>
      /\ \E c \in TransitionCommands, role \in Roles : Begin(p, role, <<c>>, None)
    BY TransitionTypes
<1>2. PICK c \in TransitionCommands, role \in Roles : Begin(p, role, <<c>>, None)
    BY <1>1
<1> DEFINE todo == <<c>>
<1>3. todo # <<>> /\ (\E d \in TransitionCommands : todo = <<d>>) /\ Begin(p, role, todo, None)
    BY <1>2
<1> HIDE DEF todo
<1> QED
    BY <1>1, <1>3, BeginTypes

LEMMA RecordProjectUpdateTypes ==
    ASSUME TypeInv, NEW p \in Procs, RecordProjectUpdate(p)
    PROVE  TypeInv'
<1>1. PICK role \in scenario.roles, key \in Keys, pinned \in {None} \cup 0..Len(log) :
            Begin(p, role, <<Command("project.update.record", [key |-> key, pinned |-> pinned])>>, pinned)
    BY DEF RecordProjectUpdate
<1>2. p \in Threads /\ UNCHANGED <<scenario, source, verdict, log, wire, inbox, gateway, replies>>
    BY DEF RecordProjectUpdate
<1>3. role \in Roles /\ pinned \in Nat \cup {None}
    <2>1. Len(log) \in Nat
        BY DEF TypeInv
    <2> QED
        BY <2>1, ProjectHandlersAssumption DEF TypeInv
<1> DEFINE c == Command("project.update.record", [key |-> key, pinned |-> pinned])
           todo == <<c>>
<1>4. c \in UpdateCommands
    BY <1>3 DEF Command, UpdateCommands
<1>5. Begin(p, role, todo, pinned)
    BY <1>1
<1> HIDE DEF c
<1>6. todo # <<>> /\ \E d \in UpdateCommands : todo = <<d>>
    BY <1>4
<1> HIDE DEF todo
<1> QED
    BY <1>2, <1>3, <1>5, <1>6, BeginTypes

\* A request that is no longer awaited.
LEMMA RequestTypes ==
    ASSUME NEW r \in Requests
    PROVE  LET late == [r EXCEPT !.awaited = FALSE]
           IN  late \in Requests /\ late.message = r.message /\ late.awaited = FALSE
<1> DEFINE late == [r EXCEPT !.awaited = FALSE]
<1>1. late \in Requests
    BY DEF Requests
<1>2. late.message = r.message /\ late.awaited = FALSE
    BY DEF Requests
<1> QED
    BY <1>1, <1>2

LEMMA HandleRequestTypes ==
    ASSUME TypeInv, HandleRequest
    PROVE  TypeInv'
<1> DEFINE m == Head(inbox).message
           type == IF m.route = "execute" THEN "annotation.create" ELSE "change.plan.record"
           c == Command(type, [message |-> m.id])
           state == [Idle EXCEPT !.at = "version", !.n = begun + 1, !.role = "admin", !.basis = Len(log),
                                 !.todo = <<c>>, !.pinned = Forwarded(m), !.message = m,
                                 !.awaited = Head(inbox).awaited]
<1>1. /\ inbox # <<>> /\ begun' = begun + 1 /\ inbox' = Tail(inbox) /\ proc' = [proc EXCEPT ![Loop] = state]
      /\ UNCHANGED <<scenario, source, verdict, log, wire, gateway, replies>>
    BY DEF HandleRequest
<1>2. /\ begun \in Nat /\ Len(log) \in Nat /\ DOMAIN log = 1 .. Len(log) /\ proc \in [Procs -> Process]
      /\ inbox \in Seq(Requests)
      /\ wire \in [Messages -> Envelopes]
    BY DEF TypeInv
<1>3. Head(inbox) \in Requests /\ Tail(inbox) \in Seq(Requests)
    BY <1>1, <1>2, HeadTailProperties
<1>4. m \in Messages /\ Head(inbox).awaited \in BOOLEAN
    BY <1>3 DEF Requests
<1> DEFINE a == Head(inbox).awaited
<1>5. Forwarded(m) \in Nat \cup {None}
    BY <1>2, <1>4 DEF Forwarded, Envelopes
<1>6. c \in MessageCommands /\ c.data.message = m.id
    BY <1>4 DEF Command, MessageCommands
<1> HIDE DEF c, m
<1> DEFINE todo == <<c>>
<1>7. todo \in Seq(Commands) /\ todo # <<>>
    <2>1. todo # <<>> /\ \E d \in TransitionCommands \cup UpdateCommands \cup MessageCommands : todo = <<d>>
        BY <1>6
    <2> HIDE DEF todo
    <2> QED
        BY <2>1, WorkTypes
<1>8. /\ state \in Process /\ state.at = "version" /\ state.n = begun + 1 /\ state.basis = Len(log)
      /\ state.todo = todo /\ state.ids = {} /\ state.message = m
    <2> DEFINE idle == Idle
               half == [idle EXCEPT !.at = "version", !.n = begun + 1, !.role = "admin", !.basis = Len(log)]
    <2>1. idle \in Process /\ idle.ids = {}
        <3>1. Idle.ids = {}
            BY DEF Idle
        <3> QED
            BY <3>1, IdleTypes
    <2> HIDE DEF idle
    <2>2. half \in Process
        <3>1. begun + 1 \in Nat /\ Len(log) \in Nat /\ "admin" \in Roles
            BY <1>2 DEF Roles
        <3> QED
            BY <2>1, <3>1 DEF Process
    <2>3. half.at = "version" /\ half.n = begun + 1 /\ half.basis = Len(log) /\ half.ids = {}
        BY <2>1 DEF Process
    <2>4. state = [half EXCEPT !.todo = todo, !.pinned = Forwarded(m), !.message = m, !.awaited = a]
        BY DEF idle
    <2>5. a \in BOOLEAN
        BY <1>4
    <2> HIDE DEF half, state, todo, a
    <2>6. state \in Process
        BY <1>4, <1>5, <1>7, <2>2, <2>4, <2>5 DEF Process
    <2>7. state.at = "version" /\ state.n = begun + 1 /\ state.basis = Len(log) /\ state.ids = {}
        BY <2>2, <2>3, <2>4 DEF Process
    <2>8. state.todo = todo /\ state.message = m
        BY <2>2, <2>4 DEF Process
    <2> QED
        BY <2>6, <2>7, <2>8
<1> HIDE DEF state, a
<1>9. proc' \in [Procs -> Process] /\ proc'[Loop] = state /\ \A q \in Procs \ {Loop} : proc'[q] = proc[q]
    BY <1>1, <1>2, <1>8 DEF Procs
<1>10. Working(Loop)'
    <2>1. Serving(Loop)'
        BY <1>4, <1>6, <1>8, <1>9 DEF Serving
    <2>2. begun + 1 \in 0 .. begun' /\ Len(log) \in 0 .. Len(log')
        BY <1>1, <1>2
    <2> QED
        BY <1>7, <1>8, <1>9, <2>1, <2>2 DEF Working
<1>11. ASSUME NEW q \in Procs \ {Loop}
       PROVE  Working(q)'
    <2>1. Working(q) /\ begun <= begun' /\ begun' \in Nat
        BY <1>1, <1>2 DEF TypeInv
    <2> QED
        BY <1>1, <1>2, <1>9, <2>1, WorkStays
<1>12. \A i \in DOMAIN log' : log'[i].by \in (0 .. begun') \cup {None} /\ log'[i].basis \in 0 .. Len(log')
    <2>1. (0 .. begun) \subseteq (0 .. begun') /\ log' = log
        BY <1>1, <1>2
    <2>2. \A i \in DOMAIN log : log[i].by \in (0 .. begun) \cup {None} /\ log[i].basis \in 0 .. Len(log)
        BY DEF TypeInv
    <2> QED
        BY <2>1, <2>2
<1>13. begun' \in Nat /\ \A p \in Procs : Working(p)'
    BY <1>1, <1>2, <1>10, <1>11
<1> QED
    BY <1>1, <1>3, <1>9, <1>12, <1>13 DEF TypeInv

\* The broker and the gateway leave the processes alone.
LEMMA MailTypes ==
    ASSUME TypeInv, NEW m \in Messages, PublishCommand(m) \/ Redeliver(m) \/ Lose(m) \/ OnMessage(m)
    PROVE  TypeInv'
<1>1. /\ wire \in [Messages -> Envelopes] /\ Len(log) \in Nat /\ MaxCopies \in Nat \ {0}
      /\ inbox \in Seq(Requests) /\ gateway \in Messages \cup {None}
    BY ProjectHandlersAssumption DEF TypeInv
<1>2. UNCHANGED <<scenario, source, verdict, log, proc, begun, replies>>
    BY DEF PublishCommand, Redeliver, Lose, OnMessage
<1> DEFINE w == wire[m]
<1>3. /\ w.sent \in 0 .. MaxCopies /\ w.copies \in 0 .. MaxCopies /\ w.copies <= w.sent
      /\ w \in [sent : 0 .. MaxCopies, copies : 0 .. MaxCopies, expected : Nat \cup {None}]
    BY <1>1 DEF Envelopes
<1>4. /\ wire' \in [Messages -> Envelopes] /\ inbox' \in Seq(Requests)
      /\ gateway' \in Messages \cup {None}
    <2>1. CASE PublishCommand(m)
        <3> DEFINE envelope == [sent |-> 1, copies |-> 1, expected |-> IF m.pinned THEN Len(log) ELSE None]
        <3>1. envelope \in Envelopes
            <4>1. 1 \in 0 .. MaxCopies /\ 1 <= 1
                BY <1>1
            <4> QED
                BY <1>1, <4>1 DEF Envelopes
        <3>2. wire' = [wire EXCEPT ![m] = envelope] /\ inbox' = inbox /\ gateway' = gateway
            BY <2>1 DEF PublishCommand
        <3> HIDE DEF envelope
        <3> QED
            BY <1>1, <3>1, <3>2
    <2>2. CASE Redeliver(m)
        <3> DEFINE envelope == [w EXCEPT !.copies = @ + 1, !.sent = @ + 1]
        <3>1. w.sent \in 1 .. (MaxCopies - 1) /\ inbox' = inbox /\ gateway' = gateway
            BY <2>2 DEF Redeliver
        <3>2. wire' = [wire EXCEPT ![m] = envelope]
            BY <1>1, <2>2 DEF Redeliver
        <3> HIDE DEF w
        <3>3. w.sent + 1 \in 0 .. MaxCopies /\ w.copies + 1 \in 0 .. MaxCopies /\ w.copies + 1 <= w.sent + 1
            BY <1>1, <1>3, <3>1
        <3>4. envelope.sent = w.sent + 1 /\ envelope.copies = w.copies + 1
            BY <1>3
        <3>5. envelope \in [sent : 0 .. MaxCopies, copies : 0 .. MaxCopies, expected : Nat \cup {None}]
            BY <1>3, <3>3
        <3> HIDE DEF envelope
        <3>6. envelope \in Envelopes
            BY <3>3, <3>4, <3>5 DEF Envelopes
        <3> QED
            BY <1>1, <3>1, <3>2, <3>6
    <2>3. CASE Lose(m) \/ OnMessage(m)
        <3> DEFINE envelope == [w EXCEPT !.copies = @ - 1]
        <3>1. w.copies > 0 /\ wire' = [wire EXCEPT ![m] = envelope]
            BY <1>1, <2>3 DEF Lose, OnMessage
        <3>2. \/ inbox' = inbox /\ gateway' = gateway
              \/ inbox' = Append(inbox, [message |-> m, awaited |-> TRUE]) /\ gateway' = m
            BY <2>3 DEF Lose, OnMessage
        <3> HIDE DEF w
        <3>3. w.copies - 1 \in 0 .. MaxCopies /\ w.copies - 1 <= w.sent
            BY <1>1, <1>3, <3>1
        <3>4. envelope.sent = w.sent /\ envelope.copies = w.copies - 1
            BY <1>3
        <3>5. envelope \in [sent : 0 .. MaxCopies, copies : 0 .. MaxCopies, expected : Nat \cup {None}]
            BY <1>3, <3>3
        <3> HIDE DEF envelope
        <3>6. envelope \in Envelopes
            BY <3>3, <3>4, <3>5 DEF Envelopes
        <3> DEFINE request == [message |-> m, awaited |-> TRUE]
        <3>7. request \in Requests
            BY DEF Requests
        <3>8. \/ inbox' = inbox /\ gateway' = gateway
              \/ inbox' = Append(inbox, request) /\ gateway' = m
            BY <3>2
        <3> HIDE DEF request
        <3>9. inbox' \in Seq(Requests) /\ gateway' \in Messages \cup {None}
            <4>1. Append(inbox, request) \in Seq(Requests)
                BY <1>1, <3>7, AppendKeeps
            <4> QED
                BY <1>1, <3>8, <4>1
        <3>10. wire' \in [Messages -> Envelopes]
            BY <1>1, <3>1, <3>6
        <3> QED
            BY <3>9, <3>10
    <2> QED
        BY <2>1, <2>2, <2>3
<1>5. /\ \A p \in Procs : Working(p)'
      /\ \A i \in DOMAIN log' : log'[i].by \in (0 .. begun') \cup {None} /\ log'[i].basis \in 0 .. Len(log')
    BY <1>2 DEF TypeInv, Working, Programming, Moving, Updating, Serving
<1> QED
    BY <1>2, <1>4, <1>5 DEF TypeInv

\* The gateway gives up.
LEMMA TimeOutTypes ==
    ASSUME TypeInv, TimeOut
    PROVE  TypeInv'
<1> DEFINE state == [proc[Loop] EXCEPT !.awaited = FALSE]
<1>1. /\ proc \in [Procs -> Process] /\ Loop \in Procs /\ begun \in Nat /\ Len(log) \in Nat
      /\ inbox \in Seq(Requests) /\ replies \in [Messages -> Nat]
      /\ \A p \in Procs : Working(p)
    BY DEF TypeInv, Procs
<1>2. /\ UNCHANGED <<scenario, source, verdict, log, begun, wire, replies>> /\ gateway' = None
      /\ inbox' = [i \in DOMAIN inbox |-> [inbox[i] EXCEPT !.awaited = FALSE]]
      /\ proc' = [proc EXCEPT ![Loop] = state]
    BY <1>1 DEF TimeOut
<1>3. inbox' \in Seq(Requests)
    <2>1. DOMAIN inbox = 1 .. Len(inbox) /\ Len(inbox) \in Nat
        BY <1>1
    <2>2. \A i \in 1 .. Len(inbox) : [inbox[i] EXCEPT !.awaited = FALSE] \in Requests
        <3> TAKE i \in 1 .. Len(inbox)
        <3>1. inbox[i] \in Requests
            BY <1>1, <2>1
        <3> QED
            BY <3>1, RequestTypes
    <2> QED
        BY <1>2, <2>1, <2>2
<1>4. /\ state \in Process /\ state.at = proc[Loop].at /\ state.todo = proc[Loop].todo
      /\ state.n = proc[Loop].n /\ state.basis = proc[Loop].basis /\ state.ids = proc[Loop].ids
      /\ state.message = proc[Loop].message /\ ~state.awaited
    <2> DEFINE old == proc[Loop]
    <2>1. old \in Process
        BY <1>1
    <2> HIDE DEF old
    <2>2. [old EXCEPT !.awaited = FALSE] \in Process /\ ~[old EXCEPT !.awaited = FALSE].awaited
        BY <2>1 DEF Process
    <2>3. LET new == [old EXCEPT !.awaited = FALSE]
          IN  /\ new.at = old.at /\ new.todo = old.todo /\ new.n = old.n /\ new.basis = old.basis
              /\ new.ids = old.ids /\ new.message = old.message
        BY <2>1 DEF Process
    <2> QED
        BY <2>2, <2>3 DEF old
<1> HIDE DEF state
<1>5. proc' \in [Procs -> Process] /\ proc'[Loop] = state /\ \A q \in Procs \ {Loop} : proc'[q] = proc[q]
    BY <1>1, <1>2, <1>4
<1>6. Working(Loop)'
    BY <1>1, <1>2, <1>4, <1>5 DEF Working, Programming, Moving, Updating, Serving
<1>7. \A q \in Procs \ {Loop} : Working(q)'
    BY <1>1, <1>2, <1>5, WorkStays
<1> QED
    BY <1>1, <1>2, <1>3, <1>5, <1>6, <1>7, QuietTypes

\* Another writer stores an event.
LEMMA OutsideEvents ==
    ASSUME TypeInv, Outside
    PROVE  \E e \in EventSet :
              /\ log' = Append(log, e) /\ e.by = None /\ e.basis = Len(log) /\ e.proc = None
              /\ e.type \in {"change.apply", "artifact.attach"}
              /\ "message" \notin DOMAIN e.data /\ "program" \notin DOMAIN e.data
              /\ e.type = "change.apply" => "plan_id" \in DOMAIN e.data
<1>1. PICK what \in scenario.outside :
        LET command == IF what = "change" THEN Command("change.apply", [plan_id |-> what])
                       ELSE Command("artifact.attach", [artifact |-> what])
        IN  log' = Append(log, [type |-> command.type, by |-> None, proc |-> None, basis |-> Len(log),
                                data |-> command.data])
    BY DEF Outside
<1> DEFINE command == IF what = "change" THEN Command("change.apply", [plan_id |-> what])
                      ELSE Command("artifact.attach", [artifact |-> what])
           e == [type |-> command.type, by |-> None, proc |-> None, basis |-> Len(log), data |-> command.data]
<1>2. what \in DOMAIN Kinds \cup {"change"} /\ Len(log) \in Nat
    BY ProjectHandlersAssumption DEF TypeInv
<1>3. /\ command \in OutsideCommands /\ command.type \in {"change.apply", "artifact.attach"}
      /\ "message" \notin DOMAIN command.data /\ "program" \notin DOMAIN command.data
      /\ command.type = "change.apply" => "plan_id" \in DOMAIN command.data
    <2>1. CASE what = "change"
        BY <2>1 DEF Command, OutsideCommands
    <2>2. CASE what # "change"
        BY <1>2, <2>2 DEF Command, OutsideCommands
    <2> QED
        BY <2>1, <2>2
<1>4. log' = Append(log, e)
    BY <1>1
<1> HIDE DEF command
<1>5. command \in Commands
    BY <1>3 DEF Commands
<1>6. command.type \in ExistingCommands /\ command.data \in Payloads /\ command = Command(command.type, command.data)
    BY <1>5, CommandKinds
<1>7. /\ e.type = command.type /\ e.data = command.data /\ e.by = None /\ e.basis = Len(log) /\ e.proc = None
      /\ e \in [type : ExistingCommands, by : Nat \cup {None}, proc : Procs \cup {None}, basis : Nat,
                data : Payloads]
    BY <1>2, <1>6
<1> HIDE DEF e
<1>8. e \in EventSet
    BY <1>5, <1>6, <1>7 DEF EventSet
<1> QED
    BY <1>3, <1>4, <1>7, <1>8

LEMMA OutsideTypes ==
    ASSUME TypeInv, Outside
    PROVE  TypeInv'
<1>1. PICK e \in EventSet : log' = Append(log, e) /\ e.by = None /\ e.basis = Len(log)
    BY OutsideEvents
<1>2. UNCHANGED <<scenario, source, verdict, proc, begun, wire, inbox, gateway, replies>>
    BY DEF Outside
<1>3. /\ log' \in Seq(EventSet) /\ Len(log) \in Nat /\ DOMAIN log \subseteq DOMAIN log' /\ Len(log) <= Len(log')
      /\ Len(log') \in Nat
    BY <1>1, StoredTypes
<1>4. Len(log) \in 0 .. Len(log)
    BY <1>3
<1>5. \A i \in DOMAIN log' : log'[i].by \in (0 .. begun') \cup {None} /\ log'[i].basis \in 0 .. Len(log')
    BY <1>1, <1>2, <1>4, StoredBounds
<1>6. \A q \in Procs : Working(q)'
    <2>1. begun \in Nat /\ begun' \in Nat /\ begun <= begun' /\ \A q \in Procs : Working(q)
        BY <1>2 DEF TypeInv
    <2> QED
        BY <1>2, <1>3, <2>1, WorkStays
<1> QED
    BY <1>2, <1>3, <1>5, <1>6 DEF TypeInv

\* The server, or the CLI, dies.
LEMMA CrashTypes ==
    ASSUME TypeInv, CrashServer \/ KillCli
    PROVE  TypeInv'
<1>1. /\ proc \in [Procs -> Process] /\ Cli \in Procs /\ begun \in Nat /\ Len(log) \in Nat
      /\ inbox \in Seq(Requests) /\ replies \in [Messages -> Nat]
      /\ gateway \in Messages \cup {None} /\ \A p \in Procs : Working(p)
    BY DEF TypeInv, Procs
<1>2. CASE CrashServer
    <2>1. /\ proc' = [p \in Procs |-> IF p = Cli THEN proc[p] ELSE Idle] /\ inbox' = <<>> /\ gateway' = None
          /\ UNCHANGED <<scenario, source, verdict, log, begun, wire, replies>>
        BY <1>2 DEF CrashServer
    <2>2. proc' \in [Procs -> Process] /\ proc'[Cli] = proc[Cli] /\ \A q \in Procs \ {Cli} : proc'[q] = Idle
        BY <1>1, <2>1, IdleTypes
    <2>3. Working(Cli)'
        BY <1>1, <2>1, <2>2, WorkStays
    <2>4. \A q \in Procs \ {Cli} : Working(q)'
        BY <1>1, <2>1, <2>2, IdleWorks
    <2> QED
        BY <1>1, <2>1, <2>2, <2>3, <2>4, QuietTypes
<1>3. CASE KillCli
    <2>1. proc' = [proc EXCEPT ![Cli] = Idle] /\ UNCHANGED <<scenario, source, verdict, log, begun, wire, inbox, gateway, replies>>
        BY <1>3 DEF KillCli
    <2>2. Len(log') \in Nat /\ Len(log) <= Len(log') /\ DOMAIN log \subseteq DOMAIN log' /\ begun' = begun
        BY <1>1, <2>1
    <2>3. proc' \in [Procs -> Process] /\ \A q \in Procs : Working(q)'
        BY <1>1, <2>1, <2>2, EndTypes
    <2> QED
        BY <1>1, <2>1, <2>3, QuietTypes
<1> QED
    BY <1>2, <1>3

\* The author writes and previews.
LEMMA AuthorTypes ==
    ASSUME TypeInv, WriteLine \/ Preview
    PROVE  TypeInv'
<1>1. UNCHANGED <<scenario, log, proc, begun, wire, inbox, gateway, replies>>
    BY DEF WriteLine, Preview
<1>2. /\ \A p \in Procs : Working(p)'
      /\ \A i \in DOMAIN log' : log'[i].by \in (0 .. begun') \cup {None} /\ log'[i].basis \in 0 .. Len(log')
    BY <1>1 DEF TypeInv, Working, Programming, Moving, Updating, Serving
<1>3. source' \in Seq(Lines)
    <2>1. source \in Seq(Lines)
        BY DEF TypeInv
    <2>2. source' = source \/ \E line \in Lines : source' = Append(source, line)
        BY DEF WriteLine, Preview
    <2> QED
        BY <2>1, <2>2
<1>4. verdict' \in {"none", "unparsed", "mismatch", "rejected", "valid"}
    <2>1. Verdict(source, Revision(Len(log))) \in {"none", "unparsed", "mismatch", "rejected", "valid"}
        BY DEF Verdict
    <2> QED
        BY <2>1 DEF TypeInv, WriteLine, Preview
<1> QED
    BY <1>1, <1>2, <1>3, <1>4 DEF TypeInv

\* The events of a program that was applied before.
LEMMA StoredEvents ==
    ASSUME NEW program \in DOMAIN Programs
    PROVE  LET commands == CommandsOf(program, Documents[program], FALSE)
           IN  /\ Stored(program) \in Seq(EventSet) /\ Len(Stored(program)) = Len(commands)
               /\ commands \in Seq(ProgramCommands) /\ Len(commands) \in Nat \ {0}
               /\ \A i \in DOMAIN Stored(program) :
                    /\ Stored(program)[i].type = commands[i].type
                    /\ DOMAIN Stored(program)[i].data = DOMAIN commands[i].data
                    /\ commands[i] \in ProgramCommands
                    /\ Stored(program)[i].by = 0 /\ Stored(program)[i].basis = 0 /\ Stored(program)[i].proc = Loop
<1> DEFINE commands == CommandsOf(program, Documents[program], FALSE)
           last == Len(commands)
           data(i) == IF i < last THEN commands[i].data ELSE [commands[i].data EXCEPT !.ids = 1..(last - 1)]
           event(i) == [type |-> commands[i].type, by |-> 0, proc |-> Loop, basis |-> 0, data |-> data(i)]
<1>1. commands \in Seq(ProgramCommands) /\ last \in Nat \ {0} /\ commands[last].type = "dsl.execution.record"
    BY ProgramTypes
<1>2. Stored(program) = [i \in 1 .. last |-> event(i)]
    BY DEF Stored
<1> HIDE DEF commands
<1>3. ASSUME NEW i \in 1 .. last
      PROVE  /\ event(i) \in EventSet /\ event(i).type = commands[i].type
             /\ DOMAIN event(i).data = DOMAIN commands[i].data /\ commands[i] \in ProgramCommands
             /\ event(i).by = 0 /\ event(i).basis = 0 /\ event(i).proc = Loop
    <2> DEFINE c == commands[i]
    <2>1. c \in ProgramCommands
        BY <1>1
    <2>2. c \in Commands
        BY <2>1 DEF Commands
    <2>3. c.type \in ExistingCommands /\ c.data \in Payloads /\ c = Command(c.type, c.data)
        BY <2>2, CommandKinds
    <2> DEFINE d == data(i)
    <2>4. Command(c.type, d) \in Commands /\ DOMAIN d = DOMAIN c.data
        <3>1. CASE i < last
            BY <2>2, <2>3, <3>1
        <3>2. CASE ~(i < last)
            <4>1. i = last
                BY <1>1, <3>2
            <4>2. c.type = "dsl.execution.record" /\ d = [c.data EXCEPT !.ids = 1 .. (last - 1)]
                BY <1>1, <3>2, <4>1
            <4>3. c \in RecordCommands /\ 1 .. (last - 1) \in SUBSET Nat
                BY <1>1, <2>2, <4>2, CommandKinds
            <4> DEFINE ids == 1 .. (last - 1)
            <4> HIDE DEF c, d, ids
            <4>4. [c.data EXCEPT !.ids = ids] \in
                    [program : DOMAIN Programs, ids : SUBSET Nat, status : {"executed", "partially_executed"}]
                BY <4>3 DEF RecordCommands, ids
            <4>5. DOMAIN [c.data EXCEPT !.ids = ids] = DOMAIN c.data
                OBVIOUS
            <4>6. d = [c.data EXCEPT !.ids = ids]
                BY <4>2 DEF ids
            <4>7. Command(c.type, d) \in RecordCommands
                BY <4>2, <4>4, <4>6 DEF Command, RecordCommands
            <4> QED
                BY <4>5, <4>6, <4>7 DEF Commands, ProgramCommands
        <3> QED
            BY <3>1, <3>2
    <2> DEFINE e == event(i)
    <2>5. e.type = c.type /\ e.by = 0 /\ e.proc = Loop /\ e.basis = 0 /\ e.data = d
        OBVIOUS
    <2> HIDE DEF c, d
    <2>6. d \in Payloads
        <3>1. Command(c.type, d).data = d
            BY DEF Command
        <3> QED
            BY <2>4, <3>1 DEF Payloads
    <2>7. e \in [type : ExistingCommands, by : Nat \cup {None}, proc : Procs \cup {None}, basis : Nat,
                 data : Payloads]
        BY <2>3, <2>6 DEF c, d, Procs
    <2> HIDE DEF e
    <2>8. e \in EventSet
        BY <2>4, <2>5, <2>7 DEF EventSet
    <2> QED
        BY <2>1, <2>4, <2>5, <2>8 DEF c, d, e
<1> HIDE DEF event, last
<1>4. Stored(program) \in Seq(EventSet) /\ Len(Stored(program)) = last /\ DOMAIN Stored(program) = 1 .. last
    BY <1>1, <1>2, <1>3
<1>5. \A i \in 1 .. last : Stored(program)[i] = event(i)
    BY <1>2
<1> QED
    BY <1>1, <1>3, <1>4, <1>5 DEF commands, last

LEMMA TypesInit ==
    ASSUME Init
    PROVE  TypeInv
<1>1. log \in Seq(EventSet) /\ Len(log) \in Nat /\ \A i \in DOMAIN log : log[i].by \in {0} \cup {None} /\ log[i].basis = 0
    <2>1. CASE scenario.stored = None
        <3>1. log = <<>>
            BY <2>1 DEF Init
        <3> QED
            BY <3>1
    <2>2. CASE scenario.stored # None
        <3>1. scenario.stored \in DOMAIN Programs /\ log = Stored(scenario.stored)
            BY <2>2, ProjectHandlersAssumption DEF Init
        <3> QED
            BY <3>1, StoredEvents
    <2> QED
        BY <2>1, <2>2
<1>2. proc \in [Procs -> Process] /\ begun = 0 /\ \A p \in Procs : proc[p] = Idle
    BY IdleTypes DEF Init
<1>3. \A p \in Procs : Working(p)
    BY <1>1, <1>2 DEF Working, Idle
<1>4. \A i \in DOMAIN log : log[i].by \in (0 .. begun) \cup {None} /\ log[i].basis \in 0 .. Len(log)
    BY <1>1, <1>2
<1>5. wire \in [Messages -> Envelopes]
    <2>1. NotSent \in Envelopes
        <3>1. 0 \in 0 .. MaxCopies /\ 0 <= 0
            BY ProjectHandlersAssumption
        <3> QED
            BY <3>1 DEF NotSent, Envelopes
    <2> QED
        BY <2>1 DEF Init
<1>6. /\ scenario \in Scenarios /\ source \in Seq(Lines) /\ verdict = "none" /\ gateway = None
      /\ inbox \in Seq(Requests) /\ replies \in [Messages -> Nat]
    BY DEF Init
<1> QED
    BY <1>1, <1>2, <1>3, <1>4, <1>5, <1>6 DEF TypeInv

LEMMA TypesStep ==
    ASSUME TypeInv, [Next]_vars
    PROVE  TypeInv'
<1>1. UNCHANGED vars => TypeInv'
    BY DEF vars, TypeInv, Working, Programming, Moving, Updating, Serving
<1>2. WriteLine \/ Preview => TypeInv'
    BY AuthorTypes
<1>3. ASSUME NEW p \in Procs, \/ ReadVersion(p) \/ Execute(p) \/ ExecuteFails(p)
                              \/ ApplyProjectDsl(p) \/ TransitionLifecycle(p) \/ RecordProjectUpdate(p)
      PROVE  TypeInv'
    <2>1. ExecuteFails(p) => TypeInv'
        BY FailTypes DEF ExecuteFails
    <2> QED
        BY <1>3, <2>1, ReadVersionTypes, ExecuteTypes, ApplyProjectDslTypes, TransitionLifecycleTypes,
            RecordProjectUpdateTypes
<1>4. ASSUME NEW m \in Messages, PublishCommand(m) \/ Redeliver(m) \/ Lose(m) \/ OnMessage(m)
      PROVE  TypeInv'
    BY <1>4, MailTypes
<1>5. HandleRequest \/ TimeOut \/ Outside \/ CrashServer \/ KillCli => TypeInv'
    BY HandleRequestTypes, TimeOutTypes, OutsideTypes, CrashTypes
<1> QED
    BY <1>1, <1>2, <1>3, <1>4, <1>5 DEF Next

-----------------------------------------------------------------------------
(***************************************************************************)
(* What a step does to a process and to the stream.                        *)
(***************************************************************************)
\* The process goes on as it was; its answer may no longer be awaited.
Stays(p) ==
    /\ proc'[p].at = proc[p].at /\ proc'[p].todo = proc[p].todo /\ proc'[p].basis = proc[p].basis
    /\ proc'[p].pinned = proc[p].pinned /\ proc'[p].expected = proc[p].expected
    /\ proc'[p].message = proc[p].message
    /\ proc'[p].n = proc[p].n /\ proc'[p].ids = proc[p].ids

\* It ends, or dies.
Stops(p) == proc'[p].at = "idle"

Reads(p) ==
    /\ proc[p].at = "version" /\ proc'[p].at = "execute" /\ proc'[p].expected = Expectation(p)
    /\ proc'[p].todo = proc[p].todo /\ proc'[p].basis = proc[p].basis
    /\ proc'[p].pinned = proc[p].pinned /\ proc'[p].message = proc[p].message
    /\ proc'[p].n = proc[p].n /\ proc'[p].ids = proc[p].ids
    /\ log' = log

\* It has a program's commands to execute.
Programmed(p) == proc'[p].at = "version" /\ proc'[p].todo \in Seq(ProgramCommands) /\ proc'[p].todo # <<>>

\* It has executed one of them, and goes on with the others.
Advances(p) ==
    /\ proc[p].at = "execute" /\ Len(proc[p].todo) > 1 /\ proc'[p].todo = Tail(proc[p].todo)
    /\ proc'[p].n = proc[p].n /\ proc'[p].basis = proc[p].basis
    /\ proc'[p].ids = proc[p].ids \cup {Len(log) + 1}

\* It begins to execute a command.
Starts(p, c, pinned) ==
    /\ proc'[p].at = "version" /\ proc'[p].todo = <<c>> /\ proc'[p].basis = Len(log)
    /\ proc'[p].pinned = pinned /\ log' = log

StartsTransition(p) ==
    /\ p = Loop
    /\ \E c \in TransitionCommands :
        /\ Starts(p, c, None)
        /\ c.data.status = "approved" =>
            /\ StageAt(c.data.id, Len(log)) = c.data.from
            /\ BlueprintAt(c.data.id, Len(log)) # None
            /\ <<c.data.from, c.data.to>> \in Transitions(BlueprintAt(c.data.id, Len(log)))
            /\ c.data.force \/ ~Gaps(c.data.evidence, c.data.from, Len(log))

StartsUpdate(p) ==
    \E c \in UpdateCommands :
        /\ Starts(p, c, c.data.pinned) /\ Recorded(c.data.key) = {}
        /\ c.data.pinned # None => c.data.pinned <= Len(log)

StartsRequest(p) ==
    /\ p = Loop /\ inbox # <<>> /\ wire' = wire
    /\ \E c \in MessageCommands :
        Starts(p, c, Forwarded(Head(inbox).message)) /\ proc'[p].message = Head(inbox).message

\* What Begin does to the processes.
LEMMA BeginEffect ==
    ASSUME TypeInv, NEW p \in Procs, NEW role, NEW todo, NEW pinned, Begin(p, role, todo, pinned)
    PROVE  /\ proc'[p].at = "version" /\ proc'[p].todo = todo /\ proc'[p].basis = Len(log)
           /\ proc'[p].pinned = pinned /\ ~proc'[p].awaited
           /\ proc'[p].n = begun + 1 /\ proc'[p].ids = {}
           /\ \A q \in Procs \ {p} : proc'[q] = proc[q]
           /\ begun' = begun + 1
<1> DEFINE idle == Idle
           state == [idle EXCEPT !.at = "version", !.n = begun + 1, !.role = role, !.basis = Len(log),
                                 !.todo = todo, !.pinned = pinned]
<1>1. proc' = [proc EXCEPT ![p] = state] /\ begun' = begun + 1
    BY DEF Begin
<1>2. proc \in [Procs -> Process]
    BY DEF TypeInv
<1>3. idle \in Process /\ ~idle.awaited /\ idle.ids = {}
    <2>1. ~Idle.awaited /\ Idle.ids = {}
        BY DEF Idle
    <2> QED
        BY <2>1, IdleTypes
<1> HIDE DEF idle
<1>4. state.at = "version" /\ state.todo = todo
    BY <1>3 DEF Process
<1>5. state.basis = Len(log) /\ state.pinned = pinned
    BY <1>3 DEF Process
<1>6. ~state.awaited
    BY <1>3 DEF Process
<1>8. state.n = begun + 1 /\ state.ids = {}
    BY <1>3 DEF Process
<1> HIDE DEF state
<1>7. proc'[p] = state /\ \A q \in Procs \ {p} : proc'[q] = proc[q]
    BY <1>1, <1>2
<1> QED
    BY <1>1, <1>4, <1>5, <1>6, <1>7, <1>8

\* What HandleRequest does to the loop.
LEMMA HandleEffect ==
    ASSUME TypeInv, HandleRequest
    PROVE  /\ inbox # <<>> /\ Head(inbox) \in Requests /\ inbox' = Tail(inbox) /\ proc[Loop].at = "idle"
           /\ \E c \in MessageCommands :
                /\ c.data.message = Head(inbox).message.id
                /\ proc'[Loop].at = "version" /\ proc'[Loop].todo = <<c>> /\ proc'[Loop].basis = Len(log)
                /\ proc'[Loop].pinned = Forwarded(Head(inbox).message)
                /\ proc'[Loop].message = Head(inbox).message /\ proc'[Loop].awaited = Head(inbox).awaited
           /\ proc'[Loop].n = begun + 1 /\ proc'[Loop].ids = {}
           /\ \A q \in Procs \ {Loop} : proc'[q] = proc[q]
           /\ begun' = begun + 1 /\ UNCHANGED <<scenario, source, verdict, log, wire, gateway, replies>>
<1> DEFINE m == Head(inbox).message
           type == IF m.route = "execute" THEN "annotation.create" ELSE "change.plan.record"
           c == Command(type, [message |-> m.id])
           a == Head(inbox).awaited
           idle == Idle
           state == [idle EXCEPT !.at = "version", !.n = begun + 1, !.role = "admin", !.basis = Len(log),
                                 !.todo = <<c>>, !.pinned = Forwarded(m), !.message = m, !.awaited = a]
<1>1. /\ inbox # <<>> /\ begun' = begun + 1 /\ inbox' = Tail(inbox) /\ proc' = [proc EXCEPT ![Loop] = state]
      /\ UNCHANGED <<scenario, source, verdict, log, wire, gateway, replies>> /\ proc[Loop].at = "idle"
    BY DEF HandleRequest, Free
<1>2. Head(inbox) \in Requests
    <2>1. inbox \in Seq(Requests)
        BY DEF TypeInv
    <2> QED
        BY <1>1, <2>1, HeadTailProperties
<1>3. c \in MessageCommands /\ c.data.message = m.id
    <2>1. m \in Messages
        BY <1>2 DEF Requests
    <2> QED
        BY <2>1 DEF Command, MessageCommands
<1>4. idle \in Process /\ idle.ids = {} /\ proc \in [Procs -> Process] /\ Loop \in Procs
    <2>1. Idle.ids = {}
        BY DEF Idle
    <2> QED
        BY <2>1, IdleTypes DEF TypeInv, Procs
<1> HIDE DEF c, a, m, idle
<1>5. state.at = "version" /\ state.todo = <<c>> /\ state.basis = Len(log)
    BY <1>4 DEF Process
<1>6. state.pinned = Forwarded(m) /\ state.message = m /\ state.awaited = a
    BY <1>4 DEF Process
<1>8. state.n = begun + 1 /\ state.ids = {}
    BY <1>4 DEF Process
<1> HIDE DEF state
<1>7. proc'[Loop] = state /\ \A q \in Procs \ {Loop} : proc'[q] = proc[q]
    BY <1>1, <1>4
<1> QED
    BY <1>1, <1>2, <1>3, <1>5, <1>6, <1>7, <1>8 DEF m, a

\* What Execute does to the processes.
LEMMA ExecuteEffect ==
    ASSUME TypeInv, NEW p \in Procs, Execute(p)
    PROVE  /\ proc[p].at = "execute" /\ log' = Append(log, Event(p)) /\ Event(p) \in EventSet
           /\ Len(log) = proc[p].expected
           /\ \/ /\ Programmed(p) /\ ~proc[p].awaited /\ ~proc'[p].awaited /\ UNCHANGED <<gateway, replies>>
                 /\ Advances(p)
              \/ proc'[p].at = "idle" /\ ~proc'[p].awaited /\ Answered(p, TRUE)
           /\ \A q \in Procs \ {p} : proc'[q] = proc[q]
           /\ UNCHANGED <<scenario, source, verdict, begun, wire, inbox>>
<1>1. /\ proc[p].at = "execute" /\ log' = Append(log, Event(p)) /\ Len(log) = proc[p].expected
      /\ \/ /\ Len(proc[p].todo) > 1
            /\ proc' = [proc EXCEPT ![p].at = "version", ![p].todo = Tail(@), ![p].ids = @ \cup {Len(log) + 1}]
            /\ UNCHANGED <<gateway, replies>>
         \/ proc' = [proc EXCEPT ![p] = Idle] /\ Answered(p, TRUE)
      /\ UNCHANGED <<scenario, source, verdict, begun, wire, inbox>>
    BY DEF Execute, Conflicts
<1>2. proc \in [Procs -> Process] /\ proc[p] \in Process /\ Event(p) \in EventSet
    BY <1>1, EventTypes DEF TypeInv
<1>3. CASE /\ Len(proc[p].todo) > 1
           /\ proc' = [proc EXCEPT ![p].at = "version", ![p].todo = Tail(@), ![p].ids = @ \cup {Len(log) + 1}]
           /\ UNCHANGED <<gateway, replies>>
    <2> DEFINE old == proc[p]
               state == [old EXCEPT !.at = "version", !.todo = Tail(@), !.ids = @ \cup {Len(log) + 1}]
    <2>1. proc' = [proc EXCEPT ![p] = state]
        BY <1>2, <1>3
    <2>2. ~old.awaited /\ Tail(old.todo) \in Seq(ProgramCommands) /\ Tail(old.todo) # <<>> /\ old \in Process
        BY <1>1, <1>2, <1>3, CurrentTypes DEF Programming
    <2> HIDE DEF old
    <2>3. state.at = "version" /\ state.todo = Tail(old.todo) /\ ~state.awaited
        BY <2>2 DEF Process
    <2>5. state.n = old.n /\ state.ids = old.ids \cup {Len(log) + 1} /\ state.basis = old.basis
        BY <2>2 DEF Process
    <2> HIDE DEF state
    <2>4. proc'[p] = state /\ \A q \in Procs \ {p} : proc'[q] = proc[q]
        BY <1>2, <2>1
    <2> QED
        BY <1>1, <1>2, <1>3, <2>2, <2>3, <2>4, <2>5 DEF Programmed, Advances, old
<1>4. CASE proc' = [proc EXCEPT ![p] = Idle] /\ Answered(p, TRUE)
    <2>1. proc'[p] = Idle /\ \A q \in Procs \ {p} : proc'[q] = proc[q]
        BY <1>2, <1>4
    <2>2. Idle.at = "idle" /\ ~Idle.awaited
        BY DEF Idle
    <2> QED
        BY <1>1, <1>2, <1>4, <2>1, <2>2
<1> QED
    BY <1>1, <1>3, <1>4

\* What ReadVersion does to the processes.
LEMMA ReadEffect ==
    ASSUME TypeInv, NEW p \in Procs, ReadVersion(p)
    PROVE  Reads(p) /\ proc'[p].awaited = proc[p].awaited /\ \A q \in Procs \ {p} : proc'[q] = proc[q]
<1> DEFINE old == proc[p]
           w == Expectation(p)
           state == [old EXCEPT !.at = "execute", !.expected = w]
<1>1. proc \in [Procs -> Process] /\ old \in Process
    BY DEF TypeInv
<1>2. old.at = "version" /\ proc' = [proc EXCEPT ![p] = state] /\ log' = log
    BY <1>1 DEF ReadVersion
<1> HIDE DEF old, w
<1>3. state.at = "execute" /\ state.expected = w /\ state.todo = old.todo
    BY <1>1 DEF Process
<1>4. state.basis = old.basis /\ state.pinned = old.pinned
    BY <1>1 DEF Process
<1>5. state.message = old.message /\ state.awaited = old.awaited
    BY <1>1 DEF Process
<1>7. state.n = old.n /\ state.ids = old.ids
    BY <1>1 DEF Process
<1> HIDE DEF state
<1>6. proc'[p] = state /\ \A q \in Procs \ {p} : proc'[q] = proc[q]
    BY <1>1, <1>2
<1> QED
    BY <1>2, <1>3, <1>4, <1>5, <1>6, <1>7 DEF Reads, old, w

\* What TimeOut does to the loop and to the requests.
LEMMA TimeOutEffect ==
    ASSUME TypeInv, TimeOut
    PROVE  /\ Stays(Loop) /\ ~proc'[Loop].awaited /\ \A q \in Procs \ {Loop} : proc'[q] = proc[q]
           /\ DOMAIN inbox' = DOMAIN inbox
           /\ \A i \in DOMAIN inbox : inbox'[i].message = inbox[i].message /\ ~inbox'[i].awaited
           /\ gateway' = None /\ UNCHANGED <<scenario, source, verdict, log, begun, wire, replies>>
<1> DEFINE old == proc[Loop]
           state == [old EXCEPT !.awaited = FALSE]
<1>1. proc \in [Procs -> Process] /\ old \in Process /\ Loop \in Procs /\ inbox \in Seq(Requests)
    BY DEF TypeInv, Procs
<1>2. /\ proc' = [proc EXCEPT ![Loop] = state] /\ gateway' = None
      /\ inbox' = [i \in DOMAIN inbox |-> [inbox[i] EXCEPT !.awaited = FALSE]]
      /\ UNCHANGED <<scenario, source, verdict, log, begun, wire, replies>>
    BY <1>1 DEF TimeOut
<1>3. \A i \in DOMAIN inbox : inbox'[i].message = inbox[i].message /\ ~inbox'[i].awaited
    <2> TAKE i \in DOMAIN inbox
    <2>1. inbox[i] \in Requests /\ inbox'[i] = [inbox[i] EXCEPT !.awaited = FALSE]
        BY <1>1, <1>2
    <2> QED
        BY <2>1, RequestTypes
<1> HIDE DEF old
<1>4. state.at = old.at /\ state.todo = old.todo /\ state.basis = old.basis
    BY <1>1 DEF Process
<1>5. state.pinned = old.pinned /\ state.expected = old.expected
    BY <1>1 DEF Process
<1>6. state.message = old.message /\ ~state.awaited
    BY <1>1 DEF Process
<1>8. state.n = old.n /\ state.ids = old.ids
    BY <1>1 DEF Process
<1> HIDE DEF state
<1>7. proc'[Loop] = state /\ \A q \in Procs \ {Loop} : proc'[q] = proc[q]
    BY <1>1, <1>2
<1> QED
    BY <1>2, <1>3, <1>4, <1>5, <1>6, <1>7, <1>8 DEF Stays, old

\* A process that fails, and the others.
LEMMA FailEffect ==
    ASSUME TypeInv, NEW p \in Procs, Fail(p)
    PROVE  /\ proc'[p].at = "idle" /\ ~proc'[p].awaited /\ Answered(p, FALSE)
           /\ \A q \in Procs \ {p} : proc'[q] = proc[q]
           /\ UNCHANGED <<scenario, source, verdict, log, begun, wire, inbox>>
<1>1. proc \in [Procs -> Process]
    BY DEF TypeInv
<1>2. proc' = [proc EXCEPT ![p] = Idle] /\ Answered(p, FALSE)
      /\ UNCHANGED <<scenario, source, verdict, log, begun, wire, inbox>>
    BY DEF Fail
<1>3. proc'[p] = Idle /\ \A q \in Procs \ {p} : proc'[q] = proc[q]
    BY <1>1, <1>2
<1>4. Idle.at = "idle" /\ ~Idle.awaited
    BY DEF Idle
<1> QED
    BY <1>2, <1>3, <1>4

\* A crash ends what runs where it happens.
LEMMA CrashEffect ==
    ASSUME TypeInv, CrashServer \/ KillCli
    PROVE  /\ \A q \in Procs : proc'[q] = proc[q] \/ (proc'[q].at = "idle" /\ ~proc'[q].awaited)
           /\ \/ inbox' = <<>> /\ gateway' = None /\ proc'[Loop].at = "idle" /\ ~proc'[Loop].awaited
              \/ inbox' = inbox /\ gateway' = gateway /\ proc'[Loop] = proc[Loop]
           /\ UNCHANGED <<scenario, source, verdict, log, begun, wire, replies>>
<1>1. proc \in [Procs -> Process] /\ Loop \in Procs /\ Cli \in Procs /\ Loop # Cli
    BY ProjectHandlersAssumption DEF TypeInv, Procs
<1>2. Idle.at = "idle" /\ ~Idle.awaited
    BY DEF Idle
<1>3. CASE CrashServer
    <2>1. /\ proc' = [p \in Procs |-> IF p = Cli THEN proc[p] ELSE Idle] /\ inbox' = <<>> /\ gateway' = None
          /\ UNCHANGED <<scenario, source, verdict, log, begun, wire, replies>>
        BY <1>3 DEF CrashServer
    <2>2. \A q \in Procs : proc'[q] = IF q = Cli THEN proc[q] ELSE Idle
        BY <2>1
    <2> QED
        BY <1>1, <1>2, <2>1, <2>2
<1>4. CASE KillCli
    <2>1. /\ proc' = [proc EXCEPT ![Cli] = Idle]
          /\ UNCHANGED <<scenario, source, verdict, log, begun, wire, inbox, gateway, replies>>
        BY <1>4 DEF KillCli
    <2>2. proc'[Cli] = Idle /\ \A q \in Procs \ {Cli} : proc'[q] = proc[q]
        BY <1>1, <2>1
    <2> QED
        BY <1>1, <1>2, <2>1, <2>2
<1> QED
    BY <1>3, <1>4

LEMMA StepShapes ==
    ASSUME TypeInv, [Next]_vars, NEW p \in Procs
    PROVE  \/ Stays(p) \/ Stops(p) \/ Reads(p) \/ Programmed(p)
           \/ StartsTransition(p) \/ StartsUpdate(p) \/ StartsRequest(p)
<1>1. proc'[p] = proc[p] => Stays(p)
    BY DEF Stays
<1>2. UNCHANGED vars => proc'[p] = proc[p]
    BY DEF vars
<1>3. WriteLine \/ Preview \/ Outside => proc'[p] = proc[p]
    BY DEF WriteLine, Preview, Outside
<1>4. ASSUME NEW m \in Messages, PublishCommand(m) \/ Redeliver(m) \/ Lose(m) \/ OnMessage(m)
      PROVE  proc'[p] = proc[p]
    BY <1>4 DEF PublishCommand, Redeliver, Lose, OnMessage
<1>5. CrashServer \/ KillCli => proc'[p] = proc[p] \/ Stops(p)
    BY CrashEffect DEF Stops
<1>6. TimeOut => proc'[p] = proc[p] \/ Stays(p)
    BY TimeOutEffect
<1>7. HandleRequest => proc'[p] = proc[p] \/ StartsRequest(p)
    BY HandleEffect DEF StartsRequest, Starts
<1>8. ASSUME NEW q \in Procs, \/ ReadVersion(q) \/ Execute(q) \/ ExecuteFails(q)
                              \/ ApplyProjectDsl(q) \/ TransitionLifecycle(q) \/ RecordProjectUpdate(q)
      PROVE  \/ proc'[p] = proc[p] \/ Stops(p) \/ Reads(p) \/ Programmed(p)
             \/ StartsTransition(p) \/ StartsUpdate(p) \/ StartsRequest(p)
    <2>1. CASE ReadVersion(q)
        BY <2>1, ReadEffect
    <2>2. CASE Execute(q)
        BY <2>2, ExecuteEffect DEF Stops
    <2>3. CASE ExecuteFails(q)
        BY <2>3, FailEffect DEF Stops, ExecuteFails
    <2>4. CASE ApplyProjectDsl(q)
        <3>1. PICK program \in scenario.programs, role \in scenario.roles, generate \in BOOLEAN :
                    Begin(q, role, CommandsOf(program, Documents[program], generate), None)
            BY <2>4 DEF ApplyProjectDsl
        <3>2. program \in DOMAIN Programs
            BY ProjectHandlersAssumption DEF TypeInv
        <3> DEFINE todo == CommandsOf(program, Documents[program], generate)
        <3>3. todo \in Seq(ProgramCommands) /\ Len(todo) \in Nat \ {0}
            BY <3>2, ProgramTypes
        <3>4. Begin(q, role, todo, None)
            BY <3>1
        <3> HIDE DEF todo
        <3>5. todo # <<>>
            BY <3>3
        <3> QED
            BY <3>3, <3>4, <3>5, BeginEffect DEF Programmed
    <2>5. CASE TransitionLifecycle(q)
        <3>1. PICK id \in DOMAIN Templates, role \in Roles, force \in BOOLEAN, evidence \in Evidence,
                   status \in {"requested", "blocked", "approved"} :
                        \E transition : Transits(q, id, transition, role, force, evidence, status)
            BY <2>5, TransitionTypes
        <3>2. PICK transition : Transits(q, id, transition, role, force, evidence, status)
            BY <3>1
        <3> DEFINE from == StageAt(id, Len(log))
                   d == [id |-> id, from |-> from, to |-> transition[2], force |-> force,
                         evidence |-> evidence, status |-> status]
                   c == Command("lifecycle.transition.record", d)
        <3>3. /\ c \in TransitionCommands /\ Begin(q, role, <<c>>, None) /\ transition[1] = from
              /\ BlueprintAt(id, Len(log)) # None
              /\ status = "approved" => force \/ ~Gaps(evidence, from, Len(log))
              /\ transition \in Transitions(BlueprintAt(id, Len(log)))
            BY <3>2 DEF Transits
        <3>4. <<from, transition[2]>> \in Transitions(BlueprintAt(id, Len(log)))
            <4>1. <<transition[1], transition[2]>> = transition
                BY <3>3 DEF Transitions
            <4> QED
                BY <3>3, <4>1
        <3>5. /\ c.data = d /\ d.id = id /\ d.from = from /\ d.to = transition[2] /\ d.force = force
              /\ d.evidence = evidence /\ d.status = status
            BY DEF Command
        <3>6. q = Loop /\ log' = log
            BY <2>5, TransitionTypes
        <3> HIDE DEF c, d, from
        <3> DEFINE todo == <<c>>
        <3>7. Begin(q, role, todo, None)
            BY <3>3
        <3> HIDE DEF todo
        <3>8. /\ proc'[q].at = "version" /\ proc'[q].todo = todo /\ proc'[q].basis = Len(log) /\ proc'[q].pinned = None
              /\ \A r \in Procs \ {q} : proc'[r] = proc[r]
            BY <3>7, BeginEffect
        <3>9. Starts(q, c, None)
            BY <3>6, <3>8 DEF Starts, todo
        <3>10. StartsTransition(q)
            BY <3>3, <3>4, <3>5, <3>6, <3>9 DEF StartsTransition, from
        <3> QED
            BY <3>8, <3>10
    <2>6. CASE RecordProjectUpdate(q)
        <3>1. PICK role \in scenario.roles, key \in Keys, pinned \in {None} \cup 0..Len(log) :
                /\ IsNew(key)
                /\ Begin(q, role, <<Command("project.update.record", [key |-> key, pinned |-> pinned])>>, pinned)
            BY <2>6 DEF RecordProjectUpdate
        <3> DEFINE c == Command("project.update.record", [key |-> key, pinned |-> pinned])
                   todo == <<c>>
        <3>2. Len(log) \in Nat /\ log' = log
            BY <2>6 DEF TypeInv, RecordProjectUpdate
        <3>3. c \in UpdateCommands /\ c.data.key = key /\ c.data.pinned = pinned
            BY <3>2 DEF Command, UpdateCommands
        <3>4. Begin(q, role, todo, pinned)
            BY <3>1
        <3> HIDE DEF c, todo
        <3>5. /\ proc'[q].at = "version" /\ proc'[q].todo = todo /\ proc'[q].basis = Len(log) /\ proc'[q].pinned = pinned
              /\ \A r \in Procs \ {q} : proc'[r] = proc[r]
            BY <3>4, BeginEffect
        <3>6. Starts(q, c, c.data.pinned)
            BY <3>2, <3>3, <3>5 DEF Starts, todo
        <3>7. Recorded(c.data.key) = {} /\ (c.data.pinned # None => c.data.pinned <= Len(log))
            BY <3>1, <3>2, <3>3 DEF IsNew
        <3>8. StartsUpdate(q)
            BY <3>3, <3>6, <3>7 DEF StartsUpdate
        <3> QED
            BY <3>5, <3>8
    <2> QED
        BY <1>8, <2>1, <2>2, <2>3, <2>4, <2>5, <2>6
<1> QED
    BY <1>1, <1>2, <1>3, <1>4, <1>5, <1>6, <1>7, <1>8 DEF Next

\* The stream only grows, by an event of a process or of another writer.
LEMMA LogShapes ==
    ASSUME TypeInv, [Next]_vars
    PROVE  \/ log' = log
           \/ \E q \in Procs : Execute(q) /\ log' = Append(log, Event(q)) /\ Event(q) \in EventSet
           \/ \E e \in EventSet :
                /\ log' = Append(log, e) /\ e.type \in {"change.apply", "artifact.attach"}
                /\ "message" \notin DOMAIN e.data /\ UNCHANGED <<proc, wire, inbox, gateway, replies>>
                /\ e.by = None /\ "program" \notin DOMAIN e.data
                /\ e.type = "change.apply" => "plan_id" \in DOMAIN e.data
<1>1. UNCHANGED vars => log' = log
    BY DEF vars
<1>2. WriteLine \/ Preview \/ HandleRequest \/ TimeOut \/ CrashServer \/ KillCli => log' = log
    BY DEF WriteLine, Preview, HandleRequest, TimeOut, CrashServer, KillCli
<1>3. ASSUME NEW m \in Messages, PublishCommand(m) \/ Redeliver(m) \/ Lose(m) \/ OnMessage(m)
      PROVE  log' = log
    BY <1>3 DEF PublishCommand, Redeliver, Lose, OnMessage
<1>4. ASSUME NEW q \in Procs, \/ ReadVersion(q) \/ Execute(q) \/ ExecuteFails(q)
                              \/ ApplyProjectDsl(q) \/ TransitionLifecycle(q) \/ RecordProjectUpdate(q)
      PROVE  \/ log' = log
             \/ Execute(q) /\ log' = Append(log, Event(q)) /\ Event(q) \in EventSet
    <2>1. ReadVersion(q) \/ ApplyProjectDsl(q) \/ TransitionLifecycle(q) \/ RecordProjectUpdate(q) => log' = log
        BY DEF ReadVersion, ApplyProjectDsl, TransitionLifecycle, RecordProjectUpdate
    <2>2. ExecuteFails(q) => log' = log
        BY DEF ExecuteFails, Fail
    <2> QED
        BY <1>4, <2>1, <2>2, ExecuteEffect
<1>5. Outside => \E e \in EventSet :
                /\ log' = Append(log, e) /\ e.type \in {"change.apply", "artifact.attach"}
                /\ "message" \notin DOMAIN e.data /\ UNCHANGED <<proc, wire, inbox, gateway, replies>>
                /\ e.by = None /\ "program" \notin DOMAIN e.data
                /\ e.type = "change.apply" => "plan_id" \in DOMAIN e.data
    <2>1. Outside => UNCHANGED <<proc, wire, inbox, gateway, replies>>
        BY DEF Outside
    <2> QED
        BY <2>1, OutsideEvents
<1> QED
    BY <1>1, <1>2, <1>3, <1>4, <1>5 DEF Next

-----------------------------------------------------------------------------
(***************************************************************************)
(* Updates.                                                                *)
(***************************************************************************)

\* The commands of a program are none of the others.
LEMMA ProgramKinds ==
    ASSUME NEW c \in ProgramCommands
    PROVE  c \notin UpdateCommands /\ c \notin TransitionCommands /\ c \notin MessageCommands
BY DEF ProgramCommands, PlainCommands, BlueprintCommands, PlanCommandsOf, FileCommands, RecordCommands,
    UpdateCommands, TransitionCommands, MessageCommands

LEMMA OtherKinds ==
    /\ UpdateCommands \cap TransitionCommands = {} /\ UpdateCommands \cap MessageCommands = {}
    /\ TransitionCommands \cap MessageCommands = {}
BY DEF UpdateCommands, TransitionCommands, MessageCommands

\* The first command that a process has after a step that gives it new work.
LEMMA NextCommand ==
    ASSUME NEW p \in Procs
    PROVE  /\ Programmed(p) => Head(proc'[p].todo) \in ProgramCommands
           /\ \A c, pinned : Starts(p, c, pinned) => Head(proc'[p].todo) = c
<1>1. Programmed(p) => Head(proc'[p].todo) \in ProgramCommands
    BY HeadTailProperties DEF Programmed
<1>2. \A c : Head(<<c>>) = c
    OBVIOUS
<1> QED
    BY <1>1, <1>2 DEF Starts

\* The records of a key, when an event has been stored.
LEMMA RecordedAfter ==
    ASSUME TypeInv, NEW e \in EventSet, log' = Append(log, e), NEW key
    PROVE  /\ Recorded(key) \subseteq Recorded(key)' /\ Recorded(key)' \subseteq Recorded(key) \cup {Len(log) + 1}
           /\ Recorded(key) \subseteq 1 .. Len(log) /\ Len(log) \in Nat
           /\ Len(log) + 1 \in Recorded(key)' <=> (e.type = "project.update.record" /\ e.data.key = key)
<1>1. /\ Len(log) \in Nat /\ DOMAIN log = 1 .. Len(log) /\ DOMAIN log' = DOMAIN log \cup {Len(log) + 1}
      /\ log'[Len(log) + 1] = e /\ \A i \in DOMAIN log : log'[i] = log[i]
    BY StoredTypes
<1> QED
    BY <1>1 DEF Recorded

\* A handler that records an update has looked at a stream without the key.
LookingFor(p) ==
    proc[p].at # "idle" /\ Current(p) \in UpdateCommands =>
        /\ \A i \in Recorded(Current(p).data.key) : proc[p].basis < i
        /\ Current(p).data.pinned = proc[p].pinned
        /\ proc[p].pinned # None =>
            /\ proc[p].pinned <= proc[p].basis
            /\ proc[p].at = "execute" => proc[p].expected = proc[p].pinned

Looking == \A p \in Procs : LookingFor(p)

\* While it waits to execute, others record the key behind what it has seen.
LEMMA LookingStays ==
    ASSUME TypeInv, [Next]_vars, NEW p \in Procs, LookingFor(p),
           Stays(p) \/ Reads(p)
    PROVE  LookingFor(p)'
<1> SUFFICES ASSUME proc'[p].at # "idle", Current(p)' \in UpdateCommands
             PROVE  LookingFor(p)'
    BY DEF LookingFor
<1>1. Current(p)' = Current(p) /\ proc'[p].basis = proc[p].basis /\ proc'[p].pinned = proc[p].pinned /\ proc[p].at # "idle"
    BY DEF Stays, Reads, Current
<1>2. PICK c \in UpdateCommands : c = Current(p)
    BY <1>1
<1>8. PICK key : key = c.data.key
    OBVIOUS
<1>3. /\ \A i \in Recorded(key) : proc[p].basis < i
      /\ c.data.pinned = proc[p].pinned
      /\ proc[p].pinned # None =>
            /\ proc[p].pinned <= proc[p].basis
            /\ proc[p].at = "execute" => proc[p].expected = proc[p].pinned
    BY <1>1, <1>2, <1>8 DEF LookingFor
<1>4. proc[p].basis \in 0 .. Len(log) /\ Len(log) \in Nat
    BY DEF TypeInv, Working
<1>5. Recorded(Current(p).data.key)' = Recorded(key)' /\ Current(p)' = c
    BY <1>1, <1>2, <1>8 DEF Recorded
<1>6. \A i \in Recorded(key)' : proc[p].basis < i
    <2>1. CASE log' = log
        <3>1. Recorded(key)' = Recorded(key)
            BY <2>1 DEF Recorded
        <3> QED
            BY <1>3, <3>1
    <2>2. CASE \E e \in EventSet : log' = Append(log, e)
        <3>1. PICK e \in EventSet : log' = Append(log, e)
            BY <2>2
        <3>2. Recorded(key)' \subseteq Recorded(key) \cup {Len(log) + 1}
            BY <3>1, RecordedAfter
        <3>3. proc[p].basis < Len(log) + 1
            BY <1>4
        <3> QED
            BY <1>3, <3>2, <3>3
    <2> QED
        BY <2>1, <2>2, LogShapes
<1>7. proc'[p].pinned # None => (proc'[p].at = "execute" => proc'[p].expected = proc'[p].pinned)
    BY <1>1, <1>3 DEF Stays, Reads, Expectation
<1> QED
    BY <1>1, <1>3, <1>5, <1>6, <1>7 DEF LookingFor

LEMMA LookingStep ==
    ASSUME TypeInv, [Next]_vars, NEW p \in Procs, LookingFor(p)
    PROVE  LookingFor(p)'
<1>1. CASE Stays(p) \/ Reads(p)
    BY <1>1, LookingStays
<1>2. CASE Stops(p)
    BY <1>2 DEF Stops, LookingFor
<1>3. CASE Programmed(p)
    <2>1. Current(p)' \in ProgramCommands
        BY <1>3, NextCommand DEF Current
    <2> QED
        BY <2>1, ProgramKinds DEF LookingFor
<1>4. CASE StartsTransition(p) \/ StartsRequest(p)
    <2>1. Current(p)' \in TransitionCommands \cup MessageCommands
        BY <1>4, NextCommand DEF Current, StartsTransition, StartsRequest
    <2> QED
        BY <2>1, OtherKinds DEF LookingFor
<1>5. CASE StartsUpdate(p)
    <2>1. PICK c \in UpdateCommands :
            /\ Starts(p, c, c.data.pinned) /\ Recorded(c.data.key) = {}
            /\ c.data.pinned # None => c.data.pinned <= Len(log)
        BY <1>5 DEF StartsUpdate
    <2>2. Current(p)' = c
        BY <2>1, NextCommand DEF Current
    <2>3. proc'[p].at = "version" /\ proc'[p].basis = Len(log) /\ proc'[p].pinned = c.data.pinned /\ log' = log
        BY <2>1 DEF Starts
    <2>4. Recorded(Current(p).data.key)' = {}
        <3>1. Recorded(Current(p).data.key)' = Recorded(c.data.key)
            BY <2>2, <2>3 DEF Recorded
        <3> QED
            BY <2>1, <3>1
    <2> QED
        BY <2>1, <2>2, <2>3, <2>4 DEF LookingFor
<1> QED
    BY <1>1, <1>2, <1>3, <1>4, <1>5, StepShapes

\* The record of a key that is stored second keeps the promise.
LEMMA RecordedStep ==
    ASSUME TypeInv, Looking, UpdatesRecordedOnce, [Next]_vars
    PROVE  UpdatesRecordedOnce'
<1> SUFFICES ASSUME NEW key \in Keys, NEW i \in Recorded(key)', NEW j \in Recorded(key)', i < j
             PROVE  log'[j].basis < i /\ log'[j].data.pinned = None
    BY DEF UpdatesRecordedOnce
<1>1. CASE log' = log
    <2>1. Recorded(key)' = Recorded(key)
        BY <1>1 DEF Recorded
    <2> QED
        BY <1>1, <2>1 DEF UpdatesRecordedOnce
<1>2. ASSUME NEW e \in EventSet, log' = Append(log, e),
             j = Len(log) + 1 => e.basis < i /\ e.data.pinned = None
      PROVE  log'[j].basis < i /\ log'[j].data.pinned = None
    <2>1. /\ Recorded(key)' \subseteq Recorded(key) \cup {Len(log) + 1}
          /\ Recorded(key) \subseteq 1 .. Len(log) /\ Len(log) \in Nat
        BY <1>2, RecordedAfter
    <2>2. /\ DOMAIN log = 1 .. Len(log) /\ log'[Len(log) + 1] = e /\ \A k \in DOMAIN log : log'[k] = log[k]
        BY <1>2, StoredTypes
    <2>3. CASE j = Len(log) + 1
        BY <1>2, <2>2, <2>3
    <2>4. CASE j # Len(log) + 1
        <3>1. j \in Recorded(key) /\ i \in Recorded(key) /\ j \in DOMAIN log
            BY <2>1, <2>2, <2>4
        <3> QED
            BY <2>2, <3>1 DEF UpdatesRecordedOnce
    <2> QED
        BY <2>3, <2>4
<1>3. ASSUME NEW e \in EventSet, log' = Append(log, e), e.type \in {"change.apply", "artifact.attach"}
      PROVE  j # Len(log) + 1
    BY <1>3, RecordedAfter
<1>4. ASSUME NEW p \in Procs, Execute(p), j = Len(log) + 1
      PROVE  Event(p).basis < i /\ Event(p).data.pinned = None
    <2> DEFINE e == Event(p)
               c == Current(p)
    <2>1. /\ proc[p].at = "execute" /\ log' = Append(log, e) /\ e \in EventSet /\ Len(log) = proc[p].expected
        BY <1>4, ExecuteEffect
    <2>2. c \in Commands /\ e.type = c.type /\ e.basis = proc[p].basis
          /\ (c.type # "dsl.execution.record" => e.data = c.data)
        BY <2>1, EventTypes, CurrentTypes
    <2> HIDE DEF e, c
    <2>3. e.type = "project.update.record" /\ e.data.key = key
        BY <1>4, <2>1, RecordedAfter
    <2>4. c \in UpdateCommands /\ e.data = c.data
        BY <2>2, <2>3, CommandKinds
    <2>5. /\ \A k \in Recorded(key) : proc[p].basis < k
          /\ c.data.pinned = proc[p].pinned
          /\ proc[p].pinned # None => proc[p].pinned <= proc[p].basis /\ proc[p].expected = proc[p].pinned
        BY <2>1, <2>3, <2>4 DEF Looking, LookingFor, c
    <2>6. /\ Recorded(key)' \subseteq Recorded(key) \cup {Len(log) + 1}
          /\ Recorded(key) \subseteq 1 .. Len(log) /\ Len(log) \in Nat
        BY <2>1, RecordedAfter
    <2>7. i \in Recorded(key) /\ i \in 1 .. Len(log)
        BY <1>4, <2>6
    <2>8. proc[p].basis < i
        BY <2>5, <2>7
    <2>9. proc[p].pinned = None
        <3>1. proc[p].basis \in Nat
            <4>1. proc[p] \in Process
                BY DEF TypeInv
            <4> QED
                BY <4>1 DEF Process
        <3>2. ASSUME proc[p].pinned # None
              PROVE  FALSE
            <4>1. Len(log) <= proc[p].basis
                BY <2>1, <2>5, <3>2
            <4> QED
                BY <2>6, <2>7, <2>8, <3>1, <4>1
        <3> QED
            BY <3>2
    <2>10. e.basis < i /\ e.data.pinned = None
        BY <2>2, <2>4, <2>5, <2>8, <2>9
    <2> QED
        BY <2>10 DEF e
<1>5. CASE \E p \in Procs : Execute(p) /\ log' = Append(log, Event(p)) /\ Event(p) \in EventSet
    BY <1>2, <1>4, <1>5
<1>6. CASE \E e \in EventSet : log' = Append(log, e) /\ e.type \in {"change.apply", "artifact.attach"}
    BY <1>2, <1>3, <1>6
<1> QED
    BY <1>1, <1>5, <1>6, LogShapes

\* A key is recorded twice only by a handler that looked before the first
\* record was there, and whose client named no version, whatever the keys are
\* and however many threads record them (record_project_update).
THEOREM UpdatesAreRecordedOnce == Spec => []UpdatesRecordedOnce
<1> DEFINE Inv == TypeInv /\ Looking /\ UpdatesRecordedOnce
<1>1. Init => Inv
    <2> SUFFICES ASSUME Init PROVE Inv
        OBVIOUS
    <2>1. TypeInv
        BY TypesInit
    <2>2. Looking
        BY DEF Init, Idle, Looking, LookingFor
    <2>3. \A key \in Keys : Recorded(key) = {}
        <3> TAKE key \in Keys
        <3>1. CASE scenario.stored = None
            BY <3>1 DEF Init, Recorded
        <3>2. CASE scenario.stored # None
            <4>1. scenario.stored \in DOMAIN Programs /\ log = Stored(scenario.stored)
                BY <3>2, ProjectHandlersAssumption DEF Init
            <4>2. \A i \in DOMAIN log : \E c \in ProgramCommands : log[i].type = c.type
                BY <4>1, StoredEvents
            <4>3. \A c \in ProgramCommands : c.type # "project.update.record"
                BY DEF ProgramCommands, PlainCommands, BlueprintCommands, PlanCommandsOf, FileCommands,
                    RecordCommands
            <4> QED
                BY <4>2, <4>3 DEF Recorded
        <3> QED
            BY <3>1, <3>2
    <2> QED
        BY <2>1, <2>2, <2>3 DEF UpdatesRecordedOnce
<1>2. Inv /\ [Next]_vars => Inv'
    <2> SUFFICES ASSUME Inv, [Next]_vars PROVE Inv'
        OBVIOUS
    <2>1. TypeInv' /\ UpdatesRecordedOnce'
        BY TypesStep, RecordedStep
    <2>2. ASSUME NEW p \in Procs
          PROVE  LookingFor(p)'
        <3>1. LookingFor(p)
            BY DEF Looking
        <3> QED
            BY <3>1, LookingStep
    <2>3. Looking'
        BY <2>2 DEF Looking
    <2> QED
        BY <2>1, <2>3
<1> QED
    BY <1>1, <1>2, PTL DEF Spec

-----------------------------------------------------------------------------
(***************************************************************************)
(* What the gateway waits for.                                             *)
(***************************************************************************)
\* What the gateway awaits is where it has to be: in one request, or in the
\* handler that has taken it from there.
Awaiting ==
    /\ \A i \in DOMAIN inbox : inbox[i].awaited => inbox[i].message = gateway
    /\ proc[Loop].awaited => proc[Loop].message = gateway
    /\ \A i, j \in DOMAIN inbox : inbox[i].awaited /\ inbox[j].awaited => i = j
    /\ proc[Loop].awaited => \A i \in DOMAIN inbox : ~inbox[i].awaited
    /\ gateway # None => proc[Loop].awaited \/ \E i \in DOMAIN inbox : inbox[i].awaited

\* Each ok is the answer to a handler of its own.
Counting ==
    \A m \in Messages :
        /\ replies[m] <= begun
        /\ proc[Loop].awaited /\ proc[Loop].message = m => replies[m] + 1 <= begun

\* Nobody waits for a process other than the loop, nor for an idle one.
LEMMA OnlyLoopAwaited ==
    ASSUME TypeInv, NEW p \in Procs, p # Loop \/ proc[p].at = "idle"
    PROVE  ~proc[p].awaited
BY DEF TypeInv, Working, Programming, Moving, Updating, Serving

LEMMA AwaitingSame ==
    ASSUME Awaiting, inbox' = inbox, gateway' = gateway,
           proc'[Loop].awaited <=> proc[Loop].awaited, proc[Loop].awaited => proc'[Loop].message = proc[Loop].message
    PROVE  Awaiting'
BY DEF Awaiting

LEMMA CountingSame ==
    ASSUME TypeInv, Counting, replies' = replies, begun' = begun \/ begun' = begun + 1,
           proc'[Loop].awaited => proc[Loop].awaited /\ proc'[Loop].message = proc[Loop].message
    PROVE  Counting'
<1> SUFFICES ASSUME NEW m \in Messages
             PROVE  /\ replies'[m] <= begun'
                    /\ proc'[Loop].awaited /\ proc'[Loop].message = m => replies'[m] + 1 <= begun'
    BY DEF Counting
<1>1. /\ replies[m] \in Nat /\ begun \in Nat /\ replies[m] <= begun
      /\ (proc[Loop].awaited /\ proc[Loop].message = m => replies[m] + 1 <= begun)
    BY DEF TypeInv, Counting
<1>2. /\ replies[m] <= begun' /\ (replies[m] + 1 <= begun => replies[m] + 1 <= begun')
    BY <1>1
<1> QED
    BY <1>1, <1>2

\* The loop answers for what it has done.
LEMMA AnsweredAwaiting ==
    ASSUME TypeInv, Awaiting, Counting, NEW p \in Procs, NEW ok \in BOOLEAN, Answered(p, ok),
           ~proc'[p].awaited, \A q \in Procs \ {p} : proc'[q] = proc[q], UNCHANGED <<begun, inbox>>
    PROVE  Awaiting' /\ Counting'
<1>1. Loop \in Procs
    BY DEF Procs
<1>2. CASE ~proc[p].awaited
    <2>1. gateway' = gateway /\ replies' = replies
        BY <1>2 DEF Answered
    <2>2. /\ proc'[Loop].awaited <=> proc[Loop].awaited
          /\ proc[Loop].awaited => proc'[Loop].message = proc[Loop].message
        BY <1>1, <1>2, OnlyLoopAwaited
    <2> QED
        BY <2>1, <2>2, AwaitingSame, CountingSame
<1>3. CASE proc[p].awaited
    <2>1. p = Loop
        BY <1>3, OnlyLoopAwaited
    <2>2. gateway' = None /\ (replies' = replies \/ replies' = [replies EXCEPT ![proc[p].message] = @ + 1])
        BY <1>3 DEF Answered
    <2>3. Awaiting'
        BY <1>3, <2>1, <2>2 DEF Awaiting
    <2>4. Counting'
        <3> SUFFICES ASSUME NEW m \in Messages PROVE replies'[m] <= begun'
            BY <2>1 DEF Counting
        <3>1. /\ replies[m] \in Nat /\ begun \in Nat /\ replies[m] <= begun /\ replies \in [Messages -> Nat]
              /\ (proc[p].message = m => replies[m] + 1 <= begun)
            BY <1>3, <2>1 DEF TypeInv, Counting
        <3>2. CASE replies' = replies
            BY <3>1, <3>2
        <3>3. CASE replies' = [replies EXCEPT ![proc[p].message] = @ + 1]
            <4> DEFINE n == proc[p].message
            <4> HIDE DEF n
            <4>1. replies' = [replies EXCEPT ![n] = @ + 1] /\ (n = m => replies[m] + 1 <= begun)
                BY <3>1, <3>3 DEF n
            <4>2. replies'[m] = IF m = n THEN replies[m] + 1 ELSE replies[m]
                BY <3>1, <4>1
            <4> QED
                BY <3>1, <4>1, <4>2
        <3> QED
            BY <2>2, <3>2, <3>3
    <2> QED
        BY <2>3, <2>4
<1> QED
    BY <1>2, <1>3

LEMMA AwaitingInit ==
    ASSUME Init
    PROVE  Awaiting /\ Counting
<1>1. Loop \in Procs
    BY DEF Procs
<1>2. /\ inbox = <<>> /\ gateway = None /\ ~proc[Loop].awaited /\ begun = 0
      /\ \A m \in Messages : replies[m] = 0
    BY <1>1 DEF Init, Idle
<1> QED
    BY <1>2 DEF Awaiting, Counting

LEMMA AwaitingRequest ==
    ASSUME TypeInv, Awaiting, Counting, HandleRequest
    PROVE  Awaiting' /\ Counting'
<1>1. /\ inbox # <<>> /\ inbox' = Tail(inbox) /\ proc[Loop].at = "idle"
      /\ proc'[Loop].message = Head(inbox).message /\ proc'[Loop].awaited = Head(inbox).awaited
      /\ begun' = begun + 1 /\ gateway' = gateway /\ replies' = replies
    BY HandleEffect
<1>2. ~proc[Loop].awaited
    BY <1>1, OnlyLoopAwaited DEF Procs
<1>3. inbox \in Seq(Requests)
    BY DEF TypeInv
<1>4. /\ Tail(inbox) \in Seq(Requests) /\ Len(Tail(inbox)) = Len(inbox) - 1
      /\ \A i \in 1 .. Len(Tail(inbox)) : Tail(inbox)[i] = inbox[i + 1]
    BY <1>1, <1>3, HeadTailProperties
<1> DEFINE rest == Tail(inbox)
<1>5. Head(inbox) = inbox[1] /\ Len(inbox) \in Nat \ {0} /\ DOMAIN inbox = 1 .. Len(inbox) /\ DOMAIN rest = 1 .. Len(rest)
    BY <1>1, <1>3, <1>4
<1> HIDE DEF rest
<1>6. /\ \A i \in DOMAIN rest : i + 1 \in DOMAIN inbox /\ rest[i] = inbox[i + 1] /\ i + 1 # 1 /\ i \in Nat
      /\ 1 \in DOMAIN inbox
      /\ \A i \in DOMAIN inbox : i # 1 => i - 1 \in DOMAIN rest /\ rest[i - 1] = inbox[i]
    <2>1. Len(rest) = Len(inbox) - 1 /\ \A i \in 1 .. Len(rest) : rest[i] = inbox[i + 1]
        BY <1>4 DEF rest
    <2>2. ASSUME NEW i \in DOMAIN rest
          PROVE  i + 1 \in DOMAIN inbox /\ rest[i] = inbox[i + 1] /\ i + 1 # 1 /\ i \in Nat
        BY <1>5, <2>1
    <2>3. ASSUME NEW i \in DOMAIN inbox, i # 1
          PROVE  i - 1 \in DOMAIN rest /\ rest[i - 1] = inbox[i]
        <3>1. i - 1 \in 1 .. Len(rest) /\ (i - 1) + 1 = i
            BY <1>5, <2>1, <2>3
        <3> QED
            BY <1>5, <2>1, <3>1
    <2> QED
        BY <1>5, <2>2, <2>3
<1>7. inbox' = rest /\ proc'[Loop].message = inbox[1].message /\ proc'[Loop].awaited = inbox[1].awaited
    BY <1>1, <1>5 DEF rest
<1>8. Awaiting'
    <2>1. ASSUME NEW i \in DOMAIN rest, rest[i].awaited
          PROVE  rest[i].message = gateway
        BY <1>6, <2>1 DEF Awaiting
    <2>2. proc'[Loop].awaited => proc'[Loop].message = gateway
        BY <1>6, <1>7 DEF Awaiting
    <2>3. ASSUME NEW i \in DOMAIN rest, NEW j \in DOMAIN rest, rest[i].awaited, rest[j].awaited
          PROVE  i = j
        <3>1. i + 1 = j + 1
            BY <1>6, <2>3 DEF Awaiting
        <3> QED
            BY <1>6, <3>1
    <2>4. ASSUME proc'[Loop].awaited, NEW i \in DOMAIN rest
          PROVE  ~rest[i].awaited
        BY <1>6, <1>7, <2>4 DEF Awaiting
    <2>5. gateway # None => proc'[Loop].awaited \/ \E i \in DOMAIN rest : rest[i].awaited
        BY <1>2, <1>6, <1>7 DEF Awaiting
    <2> QED
        BY <1>1, <1>7, <2>1, <2>2, <2>3, <2>4, <2>5 DEF Awaiting
<1>9. Counting'
    <2> SUFFICES ASSUME NEW m \in Messages
                 PROVE  replies'[m] <= begun' /\ replies'[m] + 1 <= begun'
        BY DEF Counting
    <2>1. replies[m] \in Nat /\ begun \in Nat /\ replies[m] <= begun
        BY DEF TypeInv, Counting
    <2> QED
        BY <1>1, <2>1
<1> QED
    BY <1>8, <1>9

LEMMA AwaitingMail ==
    ASSUME TypeInv, Awaiting, Counting, NEW m \in Messages,
           PublishCommand(m) \/ Redeliver(m) \/ Lose(m) \/ OnMessage(m)
    PROVE  Awaiting' /\ Counting'
<1>1. UNCHANGED <<scenario, source, verdict, log, proc, begun, replies>>
    BY DEF PublishCommand, Redeliver, Lose, OnMessage
<1>2. Counting'
    BY <1>1, CountingSame
<1>3. CASE inbox' = inbox /\ gateway' = gateway
    BY <1>1, <1>2, <1>3, AwaitingSame
<1>4. CASE gateway = None /\ gateway' = m /\ inbox' = Append(inbox, [message |-> m, awaited |-> TRUE])
    <2> DEFINE request == [message |-> m, awaited |-> TRUE]
    <2>1. request \in Requests /\ request.message = m /\ request.awaited
        BY DEF Requests
    <2> HIDE DEF request
    <2>2. inbox \in Seq(Requests) /\ inbox' = Append(inbox, request)
        BY <1>4 DEF TypeInv, request
    <2>3. /\ Len(inbox) \in Nat /\ DOMAIN inbox = 1 .. Len(inbox) /\ DOMAIN inbox' = DOMAIN inbox \cup {Len(inbox) + 1}
          /\ inbox'[Len(inbox) + 1] = request /\ \A i \in DOMAIN inbox : inbox'[i] = inbox[i]
        BY <2>1, <2>2, AppendKeeps
    <2>4. \A i \in DOMAIN inbox : ~inbox[i].awaited
        <3> SUFFICES ASSUME NEW i \in DOMAIN inbox, inbox[i].awaited PROVE FALSE
            OBVIOUS
        <3>1. inbox[i] \in Requests
            BY <2>2
        <3>2. inbox[i].message = None /\ inbox[i].message \in Messages
            BY <1>4, <3>1 DEF Awaiting, Requests
        <3> QED
            BY <3>2, ProjectHandlersAssumption
    <2>5. ~proc[Loop].awaited
        <3> SUFFICES ASSUME proc[Loop].awaited PROVE FALSE
            OBVIOUS
        <3>1. proc[Loop].message = None
            BY <1>4 DEF Awaiting
        <3>2. proc[Loop].message \in Messages
            <4>1. Serving(Loop)
                BY DEF TypeInv, Working, Procs, Programming, Moving, Updating
            <4> QED
                BY <4>1 DEF Serving
        <3> QED
            BY <3>1, <3>2, ProjectHandlersAssumption
    <2> QED
        BY <1>1, <1>2, <1>4, <2>1, <2>3, <2>4, <2>5 DEF Awaiting
<1> QED
    BY <1>3, <1>4 DEF PublishCommand, Redeliver, Lose, OnMessage

LEMMA AwaitingStep ==
    ASSUME TypeInv, Awaiting, Counting, [Next]_vars
    PROVE  Awaiting' /\ Counting'
<1>1. proc' = proc /\ UNCHANGED <<inbox, gateway, replies, begun>> => Awaiting' /\ Counting'
    BY AwaitingSame, CountingSame
<1>2. UNCHANGED vars => Awaiting' /\ Counting'
    BY <1>1 DEF vars
<1>3. WriteLine \/ Preview \/ Outside => Awaiting' /\ Counting'
    BY <1>1 DEF WriteLine, Preview, Outside
<1>4. ASSUME NEW q \in Procs, \/ ReadVersion(q) \/ Execute(q) \/ ExecuteFails(q)
                              \/ ApplyProjectDsl(q) \/ TransitionLifecycle(q) \/ RecordProjectUpdate(q)
      PROVE  Awaiting' /\ Counting'
    <2>0. Loop \in Procs
        BY DEF Procs
    <2>1. CASE ReadVersion(q)
        <3>1. UNCHANGED <<inbox, gateway, replies, begun>>
            BY <2>1 DEF ReadVersion
        <3>2. (proc'[Loop].awaited <=> proc[Loop].awaited) /\ proc'[Loop].message = proc[Loop].message
            BY <2>0, <2>1, ReadEffect DEF Reads
        <3> QED
            BY <3>1, <3>2, AwaitingSame, CountingSame
    <2>2. CASE Execute(q)
        <3>1. CASE ~proc[q].awaited /\ ~proc'[q].awaited /\ UNCHANGED <<gateway, replies>>
            <4>1. (proc'[Loop].awaited <=> proc[Loop].awaited) /\ (proc[Loop].awaited => proc'[Loop].message = proc[Loop].message)
                BY <2>0, <2>2, <3>1, ExecuteEffect
            <4>2. UNCHANGED <<begun, inbox>>
                BY <2>2, ExecuteEffect
            <4> QED
                BY <3>1, <4>1, <4>2, AwaitingSame, CountingSame
        <3>2. CASE ~proc'[q].awaited /\ Answered(q, TRUE)
            <4>1. (\A r \in Procs \ {q} : proc'[r] = proc[r]) /\ UNCHANGED <<begun, inbox>>
                BY <2>2, ExecuteEffect
            <4> QED
                BY <3>2, <4>1, AnsweredAwaiting, Zenon
        <3> QED
            BY <2>2, <3>1, <3>2, ExecuteEffect
    <2>3. CASE ExecuteFails(q)
        <3>1. /\ ~proc'[q].awaited /\ Answered(q, FALSE) /\ (\A r \in Procs \ {q} : proc'[r] = proc[r])
              /\ UNCHANGED <<begun, inbox>>
            BY <2>3, FailEffect DEF ExecuteFails
        <3> QED
            BY <3>1, AnsweredAwaiting, Zenon
    <2>4. ASSUME Free(q), NEW role, NEW todo, NEW pinned, Begin(q, role, todo, pinned), UNCHANGED <<inbox, gateway, replies>>
          PROVE  Awaiting' /\ Counting'
        <3>1. ~proc[q].awaited
            BY <2>4, OnlyLoopAwaited DEF Free
        <3>2. ~proc'[q].awaited /\ begun' = begun + 1 /\ \A r \in Procs \ {q} : proc'[r] = proc[r]
            BY <2>4, BeginEffect
        <3>3. (proc'[Loop].awaited <=> proc[Loop].awaited) /\ (proc[Loop].awaited => proc'[Loop].message = proc[Loop].message)
            BY <2>0, <3>1, <3>2
        <3> QED
            BY <2>4, <3>2, <3>3, AwaitingSame, CountingSame
    <2>5. CASE ApplyProjectDsl(q)
        <3>1. Free(q) /\ UNCHANGED <<inbox, gateway, replies>>
            BY <2>5 DEF ApplyProjectDsl
        <3>2. \E role, todo, pinned : Begin(q, role, todo, pinned)
            BY <2>5 DEF ApplyProjectDsl
        <3> QED
            BY <2>4, <3>1, <3>2
    <2>6. CASE TransitionLifecycle(q)
        <3>1. Free(q) /\ UNCHANGED <<inbox, gateway, replies>>
            BY <2>6, TransitionTypes
        <3>2. \E role, todo, pinned : Begin(q, role, todo, pinned)
            BY <2>6, TransitionTypes
        <3> QED
            BY <2>4, <3>1, <3>2
    <2>7. CASE RecordProjectUpdate(q)
        <3>1. Free(q) /\ UNCHANGED <<inbox, gateway, replies>>
            BY <2>7 DEF RecordProjectUpdate
        <3>2. \E role, todo, pinned : Begin(q, role, todo, pinned)
            BY <2>7 DEF RecordProjectUpdate
        <3> QED
            BY <2>4, <3>1, <3>2
    <2> QED
        BY <1>4, <2>1, <2>2, <2>3, <2>5, <2>6, <2>7
<1>5. ASSUME NEW m \in Messages, PublishCommand(m) \/ Redeliver(m) \/ Lose(m) \/ OnMessage(m)
      PROVE  Awaiting' /\ Counting'
    BY <1>5, AwaitingMail
<1>6. HandleRequest => Awaiting' /\ Counting'
    BY AwaitingRequest
<1>7. TimeOut => Awaiting' /\ Counting'
    <2> SUFFICES ASSUME TimeOut PROVE Awaiting' /\ Counting'
        OBVIOUS
    <2>1. /\ ~proc'[Loop].awaited /\ DOMAIN inbox' = DOMAIN inbox /\ gateway' = None
          /\ \A i \in DOMAIN inbox : ~inbox'[i].awaited
          /\ UNCHANGED <<begun, replies>>
        BY TimeOutEffect
    <2> QED
        BY <2>1, CountingSame DEF Awaiting
<1>8. CrashServer \/ KillCli => Awaiting' /\ Counting'
    <2> SUFFICES ASSUME CrashServer \/ KillCli PROVE Awaiting' /\ Counting'
        OBVIOUS
    <2>1. /\ \/ inbox' = <<>> /\ gateway' = None /\ ~proc'[Loop].awaited
             \/ inbox' = inbox /\ gateway' = gateway /\ proc'[Loop] = proc[Loop]
          /\ UNCHANGED <<begun, replies>>
        BY CrashEffect
    <2>2. CASE inbox' = <<>> /\ gateway' = None /\ ~proc'[Loop].awaited
        BY <2>1, <2>2, CountingSame DEF Awaiting
    <2>3. CASE inbox' = inbox /\ gateway' = gateway /\ proc'[Loop] = proc[Loop]
        BY <2>1, <2>3, AwaitingSame, CountingSame
    <2> QED
        BY <2>1, <2>2, <2>3
<1> QED
    BY <1>2, <1>3, <1>4, <1>5, <1>6, <1>7, <1>8 DEF Next

\* The parts of the type invariant follow.
LEMMA HandlersTyped ==
    ASSUME TypeInv, Awaiting, Counting
    PROVE  HandlersTypeOK
<1>1. \A e \in ToSet(log) : e.type \in ExistingCommands /\ e.by \in (0..begun) \cup {None} /\ e.basis \in 0..Len(log)
    <2> SUFFICES ASSUME NEW i \in DOMAIN log
                 PROVE  /\ log[i].type \in ExistingCommands /\ log[i].by \in (0..begun) \cup {None}
                        /\ log[i].basis \in 0..Len(log)
        BY DEF ToSet
    <2>1. log[i] \in EventSet
        BY DEF TypeInv
    <2> QED
        BY <2>1 DEF TypeInv, EventSet
<1>2. \A p \in Procs :
        /\ proc[p].at \in {"idle", "version", "execute"}
        /\ (proc[p].at = "idle") = (proc[p].todo = <<>>)
        /\ proc[p].ids \subseteq DOMAIN log
    <2> TAKE p \in Procs
    <2>1. proc[p] \in Process /\ Working(p)
        BY DEF TypeInv
    <2> QED
        BY <2>1 DEF Process, Working
<1>3. \A m \in Messages : wire[m].sent \in 0..MaxCopies /\ wire[m].copies \in 0..wire[m].sent /\ replies[m] \in 0..begun
    <2> TAKE m \in Messages
    <2>1. wire[m] \in Envelopes /\ replies[m] \in Nat /\ replies[m] <= begun /\ begun \in Nat
        BY DEF TypeInv, Counting
    <2>2. /\ wire[m].sent \in 0 .. MaxCopies /\ wire[m].copies \in 0 .. MaxCopies
          /\ wire[m].copies <= wire[m].sent
        BY <2>1 DEF Envelopes
    <2> QED
        BY <2>1, <2>2, ProjectHandlersAssumption
<1>4. inbox \in Seq(Requests) /\ gateway \in Messages \cup {None}
    BY DEF TypeInv
<1>5. {r.message : r \in {q \in ToSet(inbox) \cup {proc[Loop]} : q.awaited}} = {gateway} \ {None}
    <2> DEFINE W == {q \in ToSet(inbox) \cup {proc[Loop]} : q.awaited}
    <2>1. ASSUME NEW r \in W
          PROVE  r.message = gateway /\ r.message # None
        <3>1. CASE r = proc[Loop]
            <4>1. proc[Loop].awaited
                BY <2>1, <3>1
            <4>2. Serving(Loop)
                BY <4>1 DEF TypeInv, Working, Procs, Programming, Moving, Updating
            <4>3. proc[Loop].message \in Messages
                BY <4>2 DEF Serving
            <4> QED
                BY <3>1, <4>1, <4>3, ProjectHandlersAssumption DEF Awaiting
        <3>2. CASE r \in ToSet(inbox)
            <4>1. PICK i \in DOMAIN inbox : r = inbox[i]
                BY <3>2 DEF ToSet
            <4>2. inbox[i] \in Requests /\ inbox[i].awaited
                BY <1>4, <2>1, <4>1
            <4>3. inbox[i].message \in Messages /\ inbox[i].message = gateway
                BY <4>2 DEF Requests, Awaiting
            <4> QED
                BY <4>1, <4>3, ProjectHandlersAssumption
        <3> QED
            BY <2>1, <3>1, <3>2
    <2>2. gateway # None => \E r \in W : TRUE
        <3>1. \A i \in DOMAIN inbox : inbox[i] \in ToSet(inbox)
            BY DEF ToSet
        <3> QED
            BY <3>1 DEF Awaiting
    <2> HIDE DEF W
    <2>3. {r.message : r \in W} = {gateway} \ {None}
        BY <2>1, <2>2
    <2> QED
        BY <2>3 DEF W
<1>6. Cardinality({i \in DOMAIN inbox : inbox[i].awaited}) + (IF proc[Loop].awaited THEN 1 ELSE 0) <= 1
    <2> DEFINE A == {i \in DOMAIN inbox : inbox[i].awaited}
    <2>1. CASE A = {}
        <3>1. Cardinality(A) = 0
            BY <2>1, FS_EmptySet
        <3> HIDE DEF A
        <3> QED
            BY <3>1 DEF A
    <2>2. CASE A # {}
        <3>1. PICK i \in A : TRUE
            BY <2>2
        <3>2. A = {i} /\ ~proc[Loop].awaited
            BY <3>1 DEF Awaiting
        <3>3. Cardinality(A) = 1
            BY <3>2, FS_Singleton
        <3> HIDE DEF A
        <3> QED
            BY <3>2, <3>3 DEF A
    <2> QED
        BY <2>1, <2>2
<1>7. /\ scenario \in Scenarios
      /\ source \in Seq(Lines) /\ verdict \in {"none", "unparsed", "mismatch", "rejected", "valid"}
    BY DEF TypeInv
<1> QED
    BY <1>1, <1>2, <1>3, <1>4, <1>5, <1>6, <1>7 DEF HandlersTypeOK

\* Every variable has its type, and the gateway waits for one answer at most,
\* that of the message it took, whatever is delivered, times out or dies
\* (on_message).
THEOREM TypesHold == Spec => []HandlersTypeOK
<1> DEFINE Inv == TypeInv /\ Awaiting /\ Counting
<1>1. Init => Inv
    BY TypesInit, AwaitingInit
<1>2. Inv /\ [Next]_vars => Inv'
    BY TypesStep, AwaitingStep
<1>3. Inv => HandlersTypeOK
    BY HandlersTyped
<1> QED
    BY <1>1, <1>2, <1>3, PTL DEF Spec

-----------------------------------------------------------------------------
(***************************************************************************)
(* What messages do.                                                       *)
(***************************************************************************)
\* A message that was sent and names a version has one.
Pinning == \A m \in Messages : m.pinned /\ wire[m].sent # 0 => wire[m].expected \in Nat

\* Only messages that were sent are requested.
Requested == \A i \in DOMAIN inbox : wire[inbox[i].message].sent # 0

\* The handler of a message expects the version that its publisher named.
Carrying ==
    proc[Loop].at # "idle" /\ Current(Loop) \in MessageCommands =>
        /\ wire[proc[Loop].message].sent # 0
        /\ proc[Loop].pinned = Forwarded(proc[Loop].message)
        /\ proc[Loop].at = "execute" /\ proc[Loop].pinned # None => proc[Loop].expected = proc[Loop].pinned

\* The effect of a message that names a version lies directly behind it, and
\* every ok has an effect.
Effecting ==
    \A m \in Messages :
        /\ m.pinned /\ m.route = "execute" =>
            \A i \in Effects(m) : wire[m].sent # 0 /\ i = wire[m].expected + 1
        /\ replies[m] <= Cardinality(Effects(m))

\* A message is published once; what it names stays.
LEMMA WireKept ==
    ASSUME TypeInv, [Next]_vars
    PROVE  /\ \A n \in Messages : wire[n].sent # 0 =>
                wire'[n].sent # 0 /\ wire'[n].expected = wire[n].expected
           /\ Pinning => Pinning'
           /\ wire' = wire \/ UNCHANGED <<log, proc, replies>>
<1>1. CASE wire' = wire
    BY <1>1 DEF Pinning
<1>2. wire \in [Messages -> Envelopes]
    BY DEF TypeInv
<1>3. ASSUME NEW m \in Messages, PublishCommand(m)
      PROVE  /\ \A n \in Messages : wire[n].sent # 0 =>
                    wire'[n].sent # 0 /\ wire'[n].expected = wire[n].expected
             /\ Pinning => Pinning'
             /\ UNCHANGED <<log, proc, replies>>
    <2> DEFINE envelope == [sent |-> 1, copies |-> 1, expected |-> IF m.pinned THEN Len(log) ELSE None]
    <2>1. wire[m].sent = 0 /\ wire' = [wire EXCEPT ![m] = envelope] /\ UNCHANGED <<log, proc, replies>>
        BY <1>3 DEF PublishCommand
    <2>2. envelope.sent = 1 /\ (m.pinned => envelope.expected \in Nat)
        BY DEF TypeInv
    <2> HIDE DEF envelope
    <2>3. wire'[m] = envelope /\ \A n \in Messages \ {m} : wire'[n] = wire[n]
        BY <1>2, <2>1
    <2> QED
        BY <2>1, <2>2, <2>3 DEF Pinning
<1>4. ASSUME NEW m \in Messages, Redeliver(m) \/ Lose(m) \/ OnMessage(m)
      PROVE  /\ \A n \in Messages : wire[n].sent # 0 =>
                    wire'[n].sent # 0 /\ wire'[n].expected = wire[n].expected
             /\ Pinning => Pinning'
             /\ UNCHANGED <<log, proc, replies>>
    <2> DEFINE old == wire[m]
    <2>1. old \in [sent : 0 .. MaxCopies, copies : 0 .. MaxCopies, expected : Nat \cup {None}]
          /\ old.sent # 0 /\ old.sent \in Nat
        <3>1. old \in [sent : 0 .. MaxCopies, copies : 0 .. MaxCopies, expected : Nat \cup {None}] /\ old.copies <= old.sent
            BY <1>2 DEF Envelopes
        <3>2. old.sent \in Nat /\ old.copies \in Nat
            BY <3>1
        <3>3. old.sent \in 1 .. (MaxCopies - 1) \/ old.copies > 0
            BY <1>4 DEF Redeliver, Lose, OnMessage
        <3> HIDE DEF old
        <3>4. old.sent # 0
            BY <3>1, <3>2, <3>3
        <3> QED
            BY <3>1, <3>2, <3>4
    <2>2. UNCHANGED <<log, proc, replies>>
        BY <1>4 DEF Redeliver, Lose, OnMessage
    <2>3. /\ \A n \in Messages \ {m} : wire'[n] = wire[n]
          /\ wire'[m].sent # 0 /\ wire'[m].expected = old.expected
        <3>1. CASE Redeliver(m)
            <4> DEFINE envelope == [old EXCEPT !.copies = @ + 1, !.sent = @ + 1]
            <4>1. wire' = [wire EXCEPT ![m] = envelope]
                BY <1>2, <3>1 DEF Redeliver
            <4> HIDE DEF old
            <4>2. envelope.sent = old.sent + 1 /\ envelope.expected = old.expected
                BY <2>1
            <4> HIDE DEF envelope
            <4>3. wire'[m] = envelope /\ \A n \in Messages \ {m} : wire'[n] = wire[n]
                BY <1>2, <4>1
            <4>4. old.sent + 1 # 0
                BY <2>1
            <4> QED
                BY <4>2, <4>3, <4>4
        <3>2. CASE Lose(m) \/ OnMessage(m)
            <4> DEFINE envelope == [old EXCEPT !.copies = @ - 1]
            <4>1. wire' = [wire EXCEPT ![m] = envelope]
                BY <1>2, <3>2 DEF Lose, OnMessage
            <4> HIDE DEF old
            <4>2. envelope.sent = old.sent /\ envelope.expected = old.expected
                BY <2>1
            <4> HIDE DEF envelope
            <4>3. wire'[m] = envelope /\ \A n \in Messages \ {m} : wire'[n] = wire[n]
                BY <1>2, <4>1
            <4> QED
                BY <2>1, <4>2, <4>3
        <3> QED
            BY <1>4, <3>1, <3>2
    <2> QED
        BY <2>1, <2>2, <2>3 DEF Pinning
<1>5. UNCHANGED vars => wire' = wire
    BY DEF vars
<1>6. WriteLine \/ Preview \/ HandleRequest \/ TimeOut \/ Outside \/ CrashServer \/ KillCli => wire' = wire
    BY DEF WriteLine, Preview, HandleRequest, TimeOut, Outside, CrashServer, KillCli
<1>7. ASSUME NEW q \in Procs, \/ ReadVersion(q) \/ Execute(q) \/ ExecuteFails(q)
                              \/ ApplyProjectDsl(q) \/ TransitionLifecycle(q) \/ RecordProjectUpdate(q)
      PROVE  wire' = wire
    BY <1>7 DEF ReadVersion, Execute, ExecuteFails, Fail, ApplyProjectDsl, TransitionLifecycle, RecordProjectUpdate
<1> QED
    BY <1>1, <1>3, <1>4, <1>5, <1>6, <1>7 DEF Next

LEMMA RequestedStep ==
    ASSUME TypeInv, Requested, [Next]_vars
    PROVE  Requested'
<1> SUFFICES ASSUME NEW i \in DOMAIN inbox'
             PROVE  wire'[inbox'[i].message].sent # 0
    BY DEF Requested
<1>1. inbox \in Seq(Requests)
    BY DEF TypeInv
<1>2. \A n \in Messages : wire[n].sent # 0 => wire'[n].sent # 0
    BY WireKept
<1>3. ASSUME NEW j \in DOMAIN inbox, inbox'[i].message = inbox[j].message
      PROVE  wire'[inbox'[i].message].sent # 0
    <2>1. inbox[j] \in Requests
        BY <1>1
    <2>2. inbox[j].message \in Messages
        BY <2>1 DEF Requests
    <2> QED
        BY <1>2, <1>3, <2>2 DEF Requested
<1>4. CASE inbox' = inbox
    BY <1>3, <1>4
<1>5. CASE inbox' = <<>>
    BY <1>5
<1>6. CASE HandleRequest
    <2>1. inbox # <<>> /\ inbox' = Tail(inbox)
        BY <1>6, HandleEffect
    <2>2. /\ Len(inbox') = Len(inbox) - 1 /\ inbox' \in Seq(Requests)
          /\ \A k \in 1 .. Len(inbox') : inbox'[k] = inbox[k + 1]
        BY <1>1, <2>1, HeadTailProperties
    <2>3. DOMAIN inbox = 1 .. Len(inbox) /\ Len(inbox) \in Nat /\ DOMAIN inbox' = 1 .. Len(inbox')
        BY <1>1, <2>2
    <2>4. i + 1 \in DOMAIN inbox
        BY <2>2, <2>3
    <2> QED
        BY <1>3, <2>2, <2>3, <2>4
<1>7. CASE TimeOut
    BY <1>3, <1>7, TimeOutEffect
<1>8. ASSUME NEW m \in Messages, PublishCommand(m) \/ Redeliver(m) \/ Lose(m) \/ OnMessage(m), inbox' # inbox
      PROVE  wire'[inbox'[i].message].sent # 0
    <2> DEFINE request == [message |-> m, awaited |-> TRUE]
    <2>1. inbox' = Append(inbox, request) /\ wire[m].copies > 0
        BY <1>8 DEF PublishCommand, Redeliver, Lose, OnMessage
    <2>2. request \in Requests /\ request.message = m
        BY DEF Requests
    <2> HIDE DEF request
    <2>3. /\ DOMAIN inbox' = DOMAIN inbox \cup {Len(inbox) + 1}
          /\ inbox'[Len(inbox) + 1] = request /\ \A k \in DOMAIN inbox : inbox'[k] = inbox[k]
        BY <1>1, <2>1, <2>2, AppendKeeps
    <2>4. wire[m].sent # 0
        <3> DEFINE w == wire[m]
        <3>1. w \in Envelopes
            BY DEF TypeInv
        <3>2. w.sent \in Nat /\ w.copies \in Nat /\ w.copies <= w.sent
            BY <3>1 DEF Envelopes
        <3> HIDE DEF w
        <3>3. w.copies > 0 => w.sent # 0
            BY <3>2
        <3> QED
            BY <2>1, <3>3 DEF w
    <2> QED
        BY <1>2, <1>3, <2>2, <2>3, <2>4
<1>9. UNCHANGED vars => inbox' = inbox
    BY DEF vars
<1>10. WriteLine \/ Preview \/ Outside => inbox' = inbox
    BY DEF WriteLine, Preview, Outside
<1>11. CrashServer \/ KillCli => inbox' = <<>> \/ inbox' = inbox
    BY DEF CrashServer, KillCli
<1>12. ASSUME NEW q \in Procs, \/ ReadVersion(q) \/ Execute(q) \/ ExecuteFails(q)
                              \/ ApplyProjectDsl(q) \/ TransitionLifecycle(q) \/ RecordProjectUpdate(q)
      PROVE  inbox' = inbox
    BY <1>12 DEF ReadVersion, Execute, ExecuteFails, Fail, ApplyProjectDsl, TransitionLifecycle, RecordProjectUpdate
<1> QED
    BY <1>4, <1>5, <1>6, <1>7, <1>8, <1>9, <1>10, <1>11, <1>12 DEF Next

LEMMA CarryingStep ==
    ASSUME TypeInv, Requested, Carrying, [Next]_vars
    PROVE  Carrying'
<1>0. Loop \in Procs
    BY DEF Procs
<1>1. CASE Stays(Loop) \/ Reads(Loop)
    <2> SUFFICES ASSUME proc'[Loop].at # "idle", Current(Loop)' \in MessageCommands
                 PROVE  Carrying'
        BY DEF Carrying
    <2>1. /\ Current(Loop)' = Current(Loop) /\ proc'[Loop].message = proc[Loop].message
          /\ proc'[Loop].pinned = proc[Loop].pinned /\ proc[Loop].at # "idle"
        BY <1>1 DEF Stays, Reads, Current
    <2>2. PICK m : m = proc[Loop].message
        OBVIOUS
    <2>3. /\ wire[m].sent # 0 /\ proc[Loop].pinned = Forwarded(m)
          /\ proc[Loop].at = "execute" /\ proc[Loop].pinned # None => proc[Loop].expected = proc[Loop].pinned
        BY <2>1, <2>2 DEF Carrying
    <2>4. m \in Messages
        <3>1. Current(Loop) \in MessageCommands
            BY <2>1
        <3> QED
            BY <1>0, <2>1, <2>2, <3>1, CurrentTypes, ProgramKinds, OtherKinds
    <2>5. wire'[m].sent # 0 /\ wire'[m].expected = wire[m].expected
        BY <2>3, <2>4, WireKept
    <2>6. Forwarded(proc[Loop].message)' = Forwarded(m)
        BY <2>1, <2>2, <2>5 DEF Forwarded
    <2>7. proc'[Loop].at = "execute" /\ proc'[Loop].pinned # None => proc'[Loop].expected = proc'[Loop].pinned
        BY <1>1, <2>1, <2>3 DEF Stays, Reads, Expectation
    <2> QED
        BY <2>1, <2>2, <2>3, <2>5, <2>6, <2>7 DEF Carrying
<1>2. CASE Stops(Loop)
    BY <1>2 DEF Stops, Carrying
<1>3. CASE Programmed(Loop)
    <2>1. Current(Loop)' \in ProgramCommands
        BY <1>0, <1>3, NextCommand DEF Current
    <2> QED
        BY <2>1, ProgramKinds DEF Carrying
<1>4. CASE StartsTransition(Loop) \/ StartsUpdate(Loop)
    <2>1. Current(Loop)' \in TransitionCommands \cup UpdateCommands
        BY <1>0, <1>4, NextCommand DEF Current, StartsTransition, StartsUpdate
    <2> QED
        BY <2>1, OtherKinds DEF Carrying
<1>5. CASE StartsRequest(Loop)
    <2>1. PICK m : m = Head(inbox).message
        OBVIOUS
    <2>2. /\ inbox # <<>> /\ wire' = wire /\ proc'[Loop].at = "version" /\ proc'[Loop].pinned = Forwarded(m)
          /\ proc'[Loop].message = m
        BY <1>5, <2>1 DEF StartsRequest, Starts
    <2>3. wire[m].sent # 0
        <3>1. 1 \in DOMAIN inbox /\ Head(inbox) = inbox[1]
            BY <2>2 DEF TypeInv
        <3> QED
            BY <2>1, <3>1 DEF Requested
    <2>4. Forwarded(proc[Loop].message)' = Forwarded(m)
        BY <2>2 DEF Forwarded
    <2> QED
        BY <2>2, <2>3, <2>4 DEF Carrying
<1> QED
    BY <1>0, <1>1, <1>2, <1>3, <1>4, <1>5, StepShapes

\* The effects of a message, when an event has been stored.
LEMMA EffectsAfter ==
    ASSUME TypeInv, NEW e \in EventSet, log' = Append(log, e), NEW m \in Messages
    PROVE  /\ Effects(m) \subseteq 1 .. Len(log) /\ Len(log) \in Nat
           /\ Effects(m)' = IF "message" \in DOMAIN e.data /\ e.data.message = m.id
                            THEN Effects(m) \cup {Len(log) + 1} ELSE Effects(m)
<1>1. /\ Len(log) \in Nat /\ DOMAIN log = 1 .. Len(log) /\ DOMAIN log' = DOMAIN log \cup {Len(log) + 1}
      /\ log'[Len(log) + 1] = e /\ \A i \in DOMAIN log : log'[i] = log[i]
    BY StoredTypes
<1> DEFINE n == Len(log) + 1
<1>2. n \notin DOMAIN log
    BY <1>1
<1> HIDE DEF n
<1>3. /\ DOMAIN log' = DOMAIN log \cup {n} /\ log'[n] = e /\ \A i \in DOMAIN log : log'[i] = log[i]
    BY <1>1 DEF n
<1>4. Effects(m)' = IF "message" \in DOMAIN e.data /\ e.data.message = m.id
                    THEN Effects(m) \cup {n} ELSE Effects(m)
    BY <1>2, <1>3 DEF Effects
<1> QED
    BY <1>1, <1>4 DEF Effects, n

\* There are finitely many, and one more when one is stored.
LEMMA EffectsCounted ==
    ASSUME TypeInv, NEW m \in Messages
    PROVE  /\ Cardinality(Effects(m)) \in Nat
           /\ Cardinality(Effects(m) \cup {Len(log) + 1}) = Cardinality(Effects(m)) + 1
<1>1. Len(log) \in Nat /\ DOMAIN log = 1 .. Len(log)
    BY DEF TypeInv
<1>2. Effects(m) \subseteq 1 .. Len(log)
    BY <1>1 DEF Effects
<1>3. IsFiniteSet(1 .. Len(log))
    BY <1>1, FS_Interval
<1>4. IsFiniteSet(Effects(m))
    BY <1>2, <1>3, FS_Subset
<1>5. Len(log) + 1 \notin Effects(m)
    BY <1>1, <1>2
<1>6. Cardinality(Effects(m)) \in Nat
    BY <1>4, FS_CardinalityType
<1>7. Cardinality(Effects(m) \cup {Len(log) + 1}) = Cardinality(Effects(m)) + 1
    BY <1>4, <1>5, FS_AddElement
<1> QED
    BY <1>6, <1>7

\* Only a handler that ends says ok.
LEMMA RepliesKept ==
    ASSUME [Next]_vars, replies' # replies
    PROVE  \E q \in Procs : Execute(q)
<1>1. UNCHANGED vars => replies' = replies
    BY DEF vars
<1>2. WriteLine \/ Preview \/ HandleRequest \/ TimeOut \/ Outside \/ CrashServer \/ KillCli => replies' = replies
    BY DEF WriteLine, Preview, HandleRequest, TimeOut, Outside, CrashServer, KillCli
<1>3. ASSUME NEW q \in Procs, \/ ReadVersion(q) \/ ExecuteFails(q)
                              \/ ApplyProjectDsl(q) \/ TransitionLifecycle(q) \/ RecordProjectUpdate(q)
      PROVE  replies' = replies
    BY <1>3 DEF ReadVersion, ExecuteFails, Fail, Answered, ApplyProjectDsl, TransitionLifecycle, RecordProjectUpdate
<1>4. ASSUME NEW m \in Messages, PublishCommand(m) \/ Redeliver(m) \/ Lose(m) \/ OnMessage(m)
      PROVE  replies' = replies
    BY <1>4 DEF PublishCommand, Redeliver, Lose, OnMessage
<1> QED
    BY <1>1, <1>2, <1>3, <1>4 DEF Next

LEMMA EffectingStep ==
    ASSUME TypeInv, Pinning, Carrying, Effecting, [Next]_vars
    PROVE  Effecting'
<1>0. Loop \in Procs
    BY DEF Procs
<1>1. ASSUME NEW m \in Messages, Effects(m)' = Effects(m), replies'[m] = replies[m]
      PROVE  /\ m.pinned /\ m.route = "execute" =>
                    \A i \in Effects(m)' : wire'[m].sent # 0 /\ i = wire'[m].expected + 1
             /\ replies'[m] <= Cardinality(Effects(m)')
    <2>1. m.pinned /\ m.route = "execute" => \A i \in Effects(m) : wire[m].sent # 0 /\ i = wire[m].expected + 1
        BY DEF Effecting
    <2>2. replies[m] <= Cardinality(Effects(m))
        BY DEF Effecting
    <2> QED
        BY <1>1, <2>1, <2>2, WireKept
<1>2. CASE log' = log
    <2>1. replies' = replies
        <3> SUFFICES ASSUME replies' # replies PROVE FALSE
            OBVIOUS
        <3>1. PICK q \in Procs : Execute(q)
            BY RepliesKept
        <3>2. log' = Append(log, Event(q)) /\ Event(q) \in EventSet
            BY <3>1, ExecuteEffect
        <3>3. PICK e \in EventSet : log' = Append(log, e)
            BY <3>2
        <3>4. Len(log') = Len(log) + 1 /\ Len(log) \in Nat
            BY <3>3, StoredTypes
        <3> QED
            BY <1>2, <3>4
    <2>2. \A m \in Messages : Effects(m)' = Effects(m)
        BY <1>2 DEF Effects
    <2> QED
        BY <1>1, <2>1, <2>2 DEF Effecting
<1>3. CASE \E e \in EventSet :
                /\ log' = Append(log, e) /\ e.type \in {"change.apply", "artifact.attach"}
                /\ "message" \notin DOMAIN e.data /\ UNCHANGED <<proc, wire, inbox, gateway, replies>>
    <2>1. PICK e \in EventSet : /\ log' = Append(log, e) /\ "message" \notin DOMAIN e.data
                                /\ replies' = replies
        BY <1>3
    <2>2. \A m \in Messages : Effects(m)' = Effects(m)
        BY <2>1, EffectsAfter
    <2> QED
        BY <1>1, <2>1, <2>2 DEF Effecting
<1>4. ASSUME NEW q \in Procs, Execute(q)
      PROVE  Effecting'
    <2>1. PICK e \in EventSet : e = Event(q) /\ log' = Append(log, e)
        BY <1>4, ExecuteEffect
    <2>2. PICK c \in Commands : c = Current(q)
        BY <1>4, ExecuteEffect, CurrentTypes
    <2>3. /\ proc[q].at = "execute" /\ Len(log) = proc[q].expected /\ wire' = wire
          /\ UNCHANGED replies \/ Answered(q, TRUE)
        BY <1>4, ExecuteEffect
    <2>4. /\ DOMAIN e.data = DOMAIN c.data /\ (c.type # "dsl.execution.record" => e.data = c.data)
        BY <2>1, <2>2, <2>3, EventTypes
    <2>5. CASE c \in MessageCommands
        <3>1. PICK m \in Messages : m = proc[q].message
            BY <2>2, <2>3, <2>5, CurrentTypes, ProgramKinds, OtherKinds
        <3>2. q = Loop /\ c.data.message = m.id
            BY <2>2, <2>3, <2>5, <3>1, CurrentTypes, ProgramKinds, OtherKinds
        <3>3. "message" \in DOMAIN c.data /\ c.type # "dsl.execution.record"
            BY <2>5 DEF MessageCommands
        <3>4. e.data = c.data
            BY <2>4, <3>3
        <3>5. \A n \in Messages : e.data.message = n.id <=> n = m
            BY <3>2, <3>4, ProjectHandlersAssumption
        <3>6. Effects(m)' = Effects(m) \cup {Len(log) + 1}
            BY <2>1, <3>3, <3>4, <3>5, EffectsAfter
        <3>7. \A n \in Messages \ {m} : Effects(n)' = Effects(n)
            BY <2>1, <3>5, EffectsAfter
        <3>8. replies \in [Messages -> Nat] /\ (replies' = replies \/ replies' = [replies EXCEPT ![m] = @ + 1])
            BY <2>3, <3>1 DEF Answered, TypeInv
        <3>9. (\A n \in Messages \ {m} : replies'[n] = replies[n])
              /\ replies'[m] \in {replies[m], replies[m] + 1} /\ replies[m] \in Nat
            BY <3>8
        <3>10. ASSUME m.pinned, m.route = "execute", NEW i \in Effects(m)'
               PROVE  wire'[m].sent # 0 /\ i = wire'[m].expected + 1
            <4>1. CASE i \in Effects(m)
                BY <2>3, <3>10, <4>1 DEF Effecting
            <4>2. CASE i = Len(log) + 1
                <5>1. /\ wire[m].sent # 0 /\ proc[Loop].pinned = Forwarded(m)
                      /\ proc[Loop].pinned # None => proc[Loop].expected = proc[Loop].pinned
                    BY <2>2, <2>3, <2>5, <3>1, <3>2 DEF Carrying
                <5>2. wire[m].expected \in Nat /\ Forwarded(m) = wire[m].expected
                    BY <3>10, <5>1 DEF Pinning, Forwarded
                <5>3. Len(log) = wire[m].expected
                    BY <2>3, <3>2, <5>1, <5>2, ProjectHandlersAssumption
                <5> QED
                    BY <2>3, <4>2, <5>1, <5>3
            <4> QED
                BY <3>6, <3>10, <4>1, <4>2
        <3>11. replies'[m] <= Cardinality(Effects(m)')
            <4>1. replies[m] <= Cardinality(Effects(m))
                BY DEF Effecting
            <4>2. Cardinality(Effects(m)) \in Nat /\ Cardinality(Effects(m)') = Cardinality(Effects(m)) + 1
                BY <3>6, EffectsCounted
            <4> QED
                BY <3>9, <4>1, <4>2
        <3>12. ASSUME NEW n \in Messages
               PROVE  /\ n.pinned /\ n.route = "execute" =>
                            \A i \in Effects(n)' : wire'[n].sent # 0 /\ i = wire'[n].expected + 1
                      /\ replies'[n] <= Cardinality(Effects(n)')
            <4>1. CASE n = m
                BY <3>10, <3>11, <4>1
            <4>2. CASE n # m
                BY <1>1, <3>7, <3>9, <4>2
            <4> QED
                BY <4>1, <4>2
        <3> QED
            BY <3>12 DEF Effecting
    <2>6. CASE c \notin MessageCommands
        <3>1. "message" \notin DOMAIN e.data
            BY <2>4, <2>6, CommandKinds
        <3>2. \A n \in Messages : Effects(n)' = Effects(n)
            BY <2>1, <3>1, EffectsAfter
        <3>3. replies' = replies
            <4>1. ~proc[q].awaited
                BY <2>2, <2>3, <2>6, CurrentTypes
            <4> QED
                BY <2>3, <4>1 DEF Answered
        <3> QED
            BY <1>1, <3>2, <3>3 DEF Effecting
    <2> QED
        BY <2>5, <2>6
<1> QED
    BY <1>2, <1>3, <1>4, LogShapes

\* A message that names a version takes effect once at most, however often it
\* is delivered and whatever the gateway or the server does in between, and
\* every ok is the answer to an effect of its own (on_message, execute_command).
THEOREM MessagesTakeEffectOnce == Spec => []CommandsTakeEffectOnce
<1> DEFINE Inv == TypeInv /\ Pinning /\ Requested /\ Carrying /\ Effecting
<1>1. Init => Inv
    <2> SUFFICES ASSUME Init PROVE Inv
        OBVIOUS
    <2>1. TypeInv
        BY TypesInit
    <2>2. \A m \in Messages : wire[m].sent = 0 /\ replies[m] = 0
        BY DEF Init, NotSent
    <2>3. inbox = <<>> /\ proc[Loop].at = "idle"
        BY DEF Init, Idle, Procs
    <2>4. ASSUME NEW m \in Messages
          PROVE  Effects(m) = {}
        <3>1. CASE scenario.stored = None
            BY <3>1 DEF Init, Effects
        <3>2. CASE scenario.stored # None
            <4>1. scenario.stored \in DOMAIN Programs /\ log = Stored(scenario.stored)
                BY <3>2, ProjectHandlersAssumption DEF Init
            <4>2. \A i \in DOMAIN log : \E c \in ProgramCommands : DOMAIN log[i].data = DOMAIN c.data
                BY <4>1, StoredEvents
            <4>3. \A c \in ProgramCommands : "message" \notin DOMAIN c.data
                BY CommandKinds, ProgramKinds DEF Commands
            <4> QED
                BY <4>2, <4>3 DEF Effects
        <3> QED
            BY <3>1, <3>2
    <2>5. Cardinality({}) = 0
        BY FS_EmptySet
    <2>6. ASSUME NEW m \in Messages
          PROVE  replies[m] <= Cardinality(Effects(m))
        <3>1. Cardinality(Effects(m)) = 0
            BY <2>4, <2>5
        <3> QED
            BY <2>2, <3>1
    <2>7. Effecting
        BY <2>4, <2>6 DEF Effecting
    <2>8. Pinning /\ Requested /\ Carrying
        BY <2>2, <2>3 DEF Pinning, Requested, Carrying
    <2> QED
        BY <2>1, <2>7, <2>8
<1>2. Inv /\ [Next]_vars => Inv'
    BY TypesStep, WireKept, RequestedStep, CarryingStep, EffectingStep
<1>3. Inv => CommandsTakeEffectOnce
    <2> SUFFICES ASSUME TypeInv, Effecting, NEW m \in Messages
                 PROVE  /\ m.pinned /\ m.route = "execute" => Cardinality(Effects(m)) <= 1
                        /\ replies[m] <= Cardinality(Effects(m))
        BY DEF CommandsTakeEffectOnce
    <2>0. replies[m] <= Cardinality(Effects(m))
        BY DEF Effecting
    <2>1. ASSUME m.pinned, m.route = "execute"
          PROVE  Cardinality(Effects(m)) <= 1
        <3> DEFINE v == wire[m].expected + 1
        <3>1. Effects(m) \subseteq {v}
            BY <2>1 DEF Effecting
        <3> HIDE DEF v
        <3>2. Effects(m) = {} \/ Effects(m) = {v}
            BY <3>1
        <3>3. Cardinality({}) = 0 /\ Cardinality({v}) = 1
            BY FS_EmptySet, FS_Singleton
        <3> QED
            BY <3>2, <3>3
    <2> QED
        BY <2>0, <2>1
<1> QED
    BY <1>1, <1>2, <1>3, PTL DEF Spec

-----------------------------------------------------------------------------
(***************************************************************************)
(* Lifecycle transitions.                                                  *)
(***************************************************************************)
\* The blueprint is one of the first i events.
Known(id, i) == \E k \in Upserts(i) : log[k].data.blueprint.id = id

Replaced(basis, i) == \E k \in Upserts(i) : k > basis /\ log[k].proc = Cli

Evidenced(d, i) ==
    /\ d.evidence # {} /\ d.evidence \subseteq Artifacts(i)
    /\ Required[d.from] \subseteq {Kinds[a] : a \in d.evidence}

OnPath(d, i) ==
    Known(d.id, i) /\ StageAt(d.id, i) = d.from /\ <<d.from, d.to>> \in Transitions(BlueprintAt(d.id, i))

\* The loop has an approval to store.
Approves(d, basis) ==
    /\ proc[Loop].at # "idle" /\ Current(Loop) \in TransitionCommands
    /\ Current(Loop).data = d /\ d.status = "approved" /\ proc[Loop].basis = basis

\* The approval is the i-th event.
Approval(i, d, basis) ==
    /\ i \in DOMAIN log /\ log[i].type = "lifecycle.transition.record"
    /\ log[i].data = d /\ d.status = "approved" /\ log[i].basis = basis

\* While the loop approves a transition, the stage stays what it was, unless
\* the CLI replaces the blueprint, and the evidence stays.
Approving ==
    \A d, basis, n : Approves(d, basis) /\ n = Len(log) =>
        /\ Replaced(basis, n) \/ OnPath(d, n)
        /\ d.force \/ Evidenced(d, n)

\* What StagesFormAPath says, of blueprints that are known.
Approved ==
    \A i, d, basis : Approval(i, d, basis) =>
        /\ Replaced(basis, i) \/ OnPath(d, i - 1)
        /\ d.force \/ Evidenced(d, i)

Touching(id, i) ==
    {k \in 1 .. i :
        \/ k \in Upserts(i) /\ log[k].data.blueprint.id = id
        \/ /\ log[k].type = "lifecycle.transition.record"
           /\ log[k].data.id = id /\ log[k].data.status = "approved"}

Naming(id, i) == {k \in Upserts(i) : log[k].data.blueprint.id = id}

\* The stage and the blueprint are those of the newest event that names them.
LEMMA StageIs ==
    ASSUME NEW id, NEW i
    PROVE  /\ StageAt(id, i) = IF log[Newest(Touching(id, i))].type = "lifecycle.blueprint.upsert"
                               THEN log[Newest(Touching(id, i))].data.blueprint.start
                               ELSE log[Newest(Touching(id, i))].data.to
           /\ BlueprintAt(id, i) = IF Naming(id, i) = {} THEN None
                                   ELSE log[Newest(Naming(id, i))].data.blueprint
           /\ Known(id, i) <=> Naming(id, i) # {}
           /\ Known(id, i) => Touching(id, i) # {}
<1>1. Known(id, i) <=> Naming(id, i) # {}
    BY DEF Known, Naming
<1>2. Known(id, i) => Touching(id, i) # {}
    BY DEF Known, Touching, Upserts
<1>3. StageAt(id, i) = IF log[Newest(Touching(id, i))].type = "lifecycle.blueprint.upsert"
                       THEN log[Newest(Touching(id, i))].data.blueprint.start
                       ELSE log[Newest(Touching(id, i))].data.to
    BY DEF StageAt, Touching
<1>4. BlueprintAt(id, i) = IF Naming(id, i) = {} THEN None ELSE log[Newest(Naming(id, i))].data.blueprint
    BY DEF BlueprintAt, Naming
<1> QED
    BY <1>1, <1>2, <1>3, <1>4

\* Events that name a blueprint's stage or a blueprint alike leave it alike.
LEMMA StageFollows ==
    ASSUME NEW id, NEW i \in Nat, NEW j \in Nat, Known(id, i),
           Touching(id, j)' = Touching(id, i), Naming(id, j)' = Naming(id, i),
           \A k \in 1 .. i : log'[k] = log[k]
    PROVE  Known(id, j)' /\ StageAt(id, j)' = StageAt(id, i) /\ BlueprintAt(id, j)' = BlueprintAt(id, i)
<1>1. /\ Touching(id, i) # {} /\ Touching(id, i) \in SUBSET (1 .. i)
      /\ Naming(id, i) # {} /\ Naming(id, i) \in SUBSET (1 .. i)
    <2>1. Touching(id, i) # {} /\ Naming(id, i) # {}
        BY StageIs
    <2>2. Touching(id, i) \in SUBSET (1 .. i)
        BY DEF Touching
    <2>3. Naming(id, i) \in SUBSET (1 .. i)
        BY DEF Naming, Upserts
    <2> QED
        BY <2>1, <2>2, <2>3
<1> DEFINE t == Newest(Touching(id, i))
           b == Newest(Naming(id, i))
<1>2. t \in 1 .. i /\ b \in 1 .. i
    BY <1>1, NewestPosition
<1>3. Newest(Touching(id, j))' = t /\ Newest(Naming(id, j))' = b
    BY DEF Newest
<1> HIDE DEF t, b
<1>4. log'[t] = log[t] /\ log'[b] = log[b]
    BY <1>2
<1>5. /\ StageAt(id, i) = IF log[t].type = "lifecycle.blueprint.upsert"
                          THEN log[t].data.blueprint.start ELSE log[t].data.to
      /\ BlueprintAt(id, i) = log[b].data.blueprint
    BY <1>1, StageIs DEF t, b
<1>6. /\ StageAt(id, j)' = IF log'[t].type = "lifecycle.blueprint.upsert"
                           THEN log'[t].data.blueprint.start ELSE log'[t].data.to
      /\ BlueprintAt(id, j)' = log'[b].data.blueprint
    <2>1. StageAt(id, j)' = IF log'[Newest(Touching(id, j))'].type = "lifecycle.blueprint.upsert"
                            THEN log'[Newest(Touching(id, j))'].data.blueprint.start
                            ELSE log'[Newest(Touching(id, j))'].data.to
        BY DEF StageAt, Touching, Upserts, Newest
    <2>2. BlueprintAt(id, j)' = IF Naming(id, j)' = {} THEN None ELSE log'[Newest(Naming(id, j))'].data.blueprint
        BY DEF BlueprintAt, Naming, Upserts, Newest
    <2> QED
        BY <1>1, <1>3, <2>1, <2>2
<1>7. Known(id, j)'
    BY <1>1 DEF Known, Naming
<1> QED
    BY <1>4, <1>5, <1>6, <1>7

\* What the first i events say, when an event has been stored behind them.
LEMMA PrefixStays ==
    ASSUME TypeInv, NEW e \in EventSet, log' = Append(log, e), NEW i \in 0 .. Len(log)
    PROVE  /\ i \in Nat /\ \A k \in 1 .. i : log'[k] = log[k]
           /\ Upserts(i)' = Upserts(i) /\ Artifacts(i)' = Artifacts(i)
           /\ \A id : Touching(id, i)' = Touching(id, i) /\ Naming(id, i)' = Naming(id, i)
<1>1. /\ Len(log) \in Nat /\ DOMAIN log = 1 .. Len(log) /\ \A k \in DOMAIN log : log'[k] = log[k]
    BY StoredTypes
<1>2. i \in Nat /\ \A k \in 1 .. i : log'[k] = log[k]
    BY <1>1
<1>3. Upserts(i)' = Upserts(i)
    BY <1>2 DEF Upserts
<1>4. Artifacts(i)' = Artifacts(i)
    BY <1>2 DEF Artifacts
<1>5. ASSUME NEW id
      PROVE  Touching(id, i)' = Touching(id, i) /\ Naming(id, i)' = Naming(id, i)
    <2>1. \A k \in Upserts(i) : k \in 1 .. i
        BY DEF Upserts
    <2> QED
        BY <1>2, <1>3, <2>1 DEF Touching, Naming
<1> QED
    BY <1>2, <1>3, <1>4, <1>5

\* What all of them say, when one more has been stored.
LEMMA StreamGrows ==
    ASSUME TypeInv, NEW e \in EventSet, log' = Append(log, e), NEW n, n = Len(log)
    PROVE  /\ n \in Nat /\ log'[n + 1] = e /\ \A k \in 1 .. n : log'[k] = log[k]
           /\ Upserts(n) \subseteq Upserts(n + 1)' /\ Artifacts(n) \subseteq Artifacts(n + 1)'
           /\ e.type = "lifecycle.blueprint.upsert" => n + 1 \in Upserts(n + 1)'
           /\ e.type \notin {"lifecycle.blueprint.upsert", "lifecycle.transition.record"} =>
                \A id : Touching(id, n + 1)' = Touching(id, n) /\ Naming(id, n + 1)' = Naming(id, n)
<1>1. /\ n \in Nat /\ DOMAIN log = 1 .. n /\ log'[n + 1] = e /\ \A k \in DOMAIN log : log'[k] = log[k]
    BY StoredTypes
<1> DEFINE m == n + 1
<1>2. 1 .. m = (1 .. n) \cup {m} /\ m \notin 1 .. n
    BY <1>1
<1> HIDE DEF m
<1>3. log'[m] = e /\ \A k \in 1 .. n : log'[k] = log[k]
    BY <1>1 DEF m
<1>4. Upserts(n) \subseteq Upserts(m)' /\ (e.type = "lifecycle.blueprint.upsert" => m \in Upserts(m)')
    BY <1>2, <1>3 DEF Upserts
<1>5. Artifacts(n) \subseteq Artifacts(m)'
    BY <1>2, <1>3 DEF Artifacts
<1>6. ASSUME e.type \notin {"lifecycle.blueprint.upsert", "lifecycle.transition.record"}, NEW id
      PROVE  Touching(id, m)' = Touching(id, n) /\ Naming(id, m)' = Naming(id, n)
    <2>1. Upserts(m)' = Upserts(n)
        BY <1>2, <1>3, <1>6 DEF Upserts
    <2>2. \A k \in Upserts(n) : k \in 1 .. n
        BY DEF Upserts
    <2>3. Naming(id, m)' = Naming(id, n)
        BY <1>3, <2>1, <2>2 DEF Naming
    <2>4. Touching(id, m)' = Touching(id, n)
        BY <1>2, <1>3, <1>6, <2>1, <2>2 DEF Touching
    <2> QED
        BY <2>3, <2>4
<1> QED
    BY <1>1, <1>3, <1>4, <1>5, <1>6 DEF m

\* What has replaced a blueprint, and the evidence, are there for ever.
LEMMA GroundsGrow ==
    ASSUME TypeInv, NEW e \in EventSet, log' = Append(log, e), NEW n, n = Len(log), NEW d, NEW basis
    PROVE  /\ Replaced(basis, n) => Replaced(basis, n + 1)'
           /\ Evidenced(d, n) => Evidenced(d, n + 1)'
<1>1. /\ \A k \in 1 .. n : log'[k] = log[k]
      /\ Upserts(n) \subseteq Upserts(n + 1)' /\ Artifacts(n) \subseteq Artifacts(n + 1)'
    BY StreamGrows
<1>2. Evidenced(d, n) => Evidenced(d, n + 1)'
    BY <1>1 DEF Evidenced
<1>3. Replaced(basis, n) => Replaced(basis, n + 1)'
    BY <1>1 DEF Replaced, Upserts
<1> QED
    BY <1>2, <1>3

\* An event that does not touch the stage, or that replaces the blueprint.
LEMMA PathGrows ==
    ASSUME TypeInv, NEW e \in EventSet, log' = Append(log, e), NEW n, n = Len(log), NEW d, NEW basis \in 0 .. n,
           Replaced(basis, n) \/ OnPath(d, n), d.force \/ Evidenced(d, n),
           \/ e.type \notin {"lifecycle.blueprint.upsert", "lifecycle.transition.record"}
           \/ e.type = "lifecycle.blueprint.upsert" /\ e.proc = Cli
    PROVE  /\ Replaced(basis, n + 1)' \/ OnPath(d, n + 1)'
           /\ d.force \/ Evidenced(d, n + 1)'
<1>1. n \in Nat /\ log'[n + 1] = e /\ \A k \in 1 .. n : log'[k] = log[k]
    BY StreamGrows
<1>2. Evidenced(d, n) => Evidenced(d, n + 1)'
    BY GroundsGrow
<1>3. Replaced(basis, n) => Replaced(basis, n + 1)'
    BY GroundsGrow
<1>4. CASE e.type = "lifecycle.blueprint.upsert" /\ e.proc = Cli
    <2>1. n + 1 \in Upserts(n + 1)' /\ n + 1 > basis /\ log'[n + 1].proc = Cli
        BY <1>1, <1>4, StreamGrows
    <2>2. Replaced(basis, n + 1)'
        BY <2>1 DEF Replaced
    <2> QED
        BY <1>2, <2>2
<1>5. CASE e.type \notin {"lifecycle.blueprint.upsert", "lifecycle.transition.record"} /\ OnPath(d, n)
    <2>1. PICK id : id = d.id
        OBVIOUS
    <2>2. Touching(id, n + 1)' = Touching(id, n) /\ Naming(id, n + 1)' = Naming(id, n)
        BY <1>5, StreamGrows
    <2>3. n + 1 \in Nat /\ Known(id, n)
        BY <1>1, <1>5, <2>1 DEF OnPath
    <2>4. Known(id, n + 1)' /\ StageAt(id, n + 1)' = StageAt(id, n) /\ BlueprintAt(id, n + 1)' = BlueprintAt(id, n)
        BY <1>1, <2>2, <2>3, StageFollows
    <2>5. OnPath(d, n + 1)'
        BY <1>5, <2>1, <2>4 DEF OnPath
    <2> QED
        BY <1>2, <2>5
<1> QED
    BY <1>2, <1>3, <1>4, <1>5

\* What was said of the first events stays said.
LEMMA PathStays ==
    ASSUME TypeInv, NEW e \in EventSet, log' = Append(log, e), NEW i \in 0 .. Len(log), NEW d, NEW basis
    PROVE  /\ Replaced(basis, i) => Replaced(basis, i)'
           /\ OnPath(d, i) => OnPath(d, i)'
           /\ Evidenced(d, i) => Evidenced(d, i)'
<1>1. /\ i \in Nat /\ (\A k \in 1 .. i : log'[k] = log[k])
      /\ Upserts(i)' = Upserts(i) /\ Artifacts(i)' = Artifacts(i)
    BY PrefixStays
<1>2. Evidenced(d, i) => Evidenced(d, i)'
    BY <1>1 DEF Evidenced
<1>3. Replaced(basis, i) => Replaced(basis, i)'
    BY <1>1 DEF Replaced, Upserts
<1>4. ASSUME OnPath(d, i)
      PROVE  OnPath(d, i)'
    <2>1. PICK id : id = d.id
        OBVIOUS
    <2>2. Touching(id, i)' = Touching(id, i) /\ Naming(id, i)' = Naming(id, i) /\ Known(id, i)
        BY <1>4, <2>1, PrefixStays DEF OnPath
    <2>3. Known(id, i)' /\ StageAt(id, i)' = StageAt(id, i) /\ BlueprintAt(id, i)' = BlueprintAt(id, i)
        BY <1>1, <2>2, StageFollows
    <2> QED
        BY <1>4, <2>1, <2>3 DEF OnPath
<1> QED
    BY <1>2, <1>3, <1>4

LEMMA PathSame ==
    ASSUME log' = log, NEW i, NEW d, NEW basis
    PROVE  /\ Replaced(basis, i) <=> Replaced(basis, i)'
           /\ OnPath(d, i) <=> OnPath(d, i)'
           /\ Evidenced(d, i) <=> Evidenced(d, i)'
BY DEF Replaced, OnPath, Evidenced, Known, StageAt, BlueprintAt, Upserts, Artifacts, Newest

\* Whoever stores an event while the loop holds an approval replaces the
\* blueprint as the CLI, or does not touch the stage.
LEMMA OtherEvents ==
    ASSUME TypeInv, NEW q \in Procs, q # Loop, Execute(q)
    PROVE  \/ Event(q).type \notin {"lifecycle.blueprint.upsert", "lifecycle.transition.record"}
           \/ Event(q).type = "lifecycle.blueprint.upsert" /\ Event(q).proc = Cli
<1>1. proc[q].at # "idle"
    BY DEF Execute
<1>2. Event(q).type = Current(q).type /\ Event(q).proc = q /\ Current(q) \in Commands
    BY <1>1, EventTypes, CurrentTypes
<1>3. \/ Current(q) \in ProgramCommands /\ q \in {Loop, Cli}
      \/ Current(q) \in UpdateCommands
    BY <1>1, CurrentTypes
<1>4. CASE Current(q) \in ProgramCommands /\ q = Cli
    <2>1. Current(q) \notin TransitionCommands
        BY <1>4, ProgramKinds
    <2>2. Current(q).type # "lifecycle.transition.record"
        BY <1>2, <2>1, CommandKinds
    <2> QED
        BY <1>2, <1>4, <2>2
<1>5. CASE Current(q) \in UpdateCommands
    <2>1. Current(q).type = "project.update.record"
        BY <1>5 DEF UpdateCommands
    <2> QED
        BY <1>2, <2>1
<1> QED
    BY <1>3, <1>4, <1>5

\* While the loop waits to store the approval.
LEMMA ApprovingStays ==
    ASSUME TypeInv, Approving, [Next]_vars, Stays(Loop) \/ Reads(Loop),
           NEW d, NEW basis, NEW n, Approves(d, basis)', n = Len(log')
    PROVE  (Replaced(basis, n)' \/ OnPath(d, n)') /\ (d.force \/ Evidenced(d, n)')
<1>1. Approves(d, basis) /\ proc'[Loop].at # "idle"
    BY DEF Approves, Stays, Reads, Current
<1>2. PICK m : m = Len(log)
    OBVIOUS
<1>3. (Replaced(basis, m) \/ OnPath(d, m)) /\ (d.force \/ Evidenced(d, m))
    BY <1>1, <1>2 DEF Approving
<1>4. basis \in 0 .. m /\ Loop \in Procs
    BY <1>1, <1>2 DEF TypeInv, Working, Procs, Approves
<1>5. CASE log' = log
    BY <1>2, <1>3, <1>5, PathSame
<1>6. ASSUME NEW e \in EventSet, log' = Append(log, e),
             \/ e.type \notin {"lifecycle.blueprint.upsert", "lifecycle.transition.record"}
             \/ e.type = "lifecycle.blueprint.upsert" /\ e.proc = Cli
      PROVE  (Replaced(basis, n)' \/ OnPath(d, n)') /\ (d.force \/ Evidenced(d, n)')
    <2>1. n = m + 1
        BY <1>2, <1>6, StoredTypes
    <2>2. (Replaced(basis, m + 1)' \/ OnPath(d, m + 1)') /\ (d.force \/ Evidenced(d, m + 1)')
        BY <1>2, <1>3, <1>4, <1>6, PathGrows
    <2> QED
        BY <2>1, <2>2
<1>7. ASSUME NEW q \in Procs, Execute(q), log' = Append(log, Event(q)), Event(q) \in EventSet
      PROVE  (Replaced(basis, n)' \/ OnPath(d, n)') /\ (d.force \/ Evidenced(d, n)')
    <2>1. q # Loop
        <3>1. CASE q = Loop
            <4>1. proc[Loop].at = "execute" /\ (Programmed(Loop) \/ proc'[Loop].at = "idle")
                BY <1>4, <1>7, <3>1, ExecuteEffect
            <4> QED
                BY <1>1, <4>1 DEF Programmed, Stays, Reads
        <3> QED
            BY <3>1
    <2>2. \/ Event(q).type \notin {"lifecycle.blueprint.upsert", "lifecycle.transition.record"}
          \/ Event(q).type = "lifecycle.blueprint.upsert" /\ Event(q).proc = Cli
        BY <1>7, <2>1, OtherEvents
    <2> QED
        BY <1>6, <1>7, <2>2
<1>8. CASE \E e \in EventSet : log' = Append(log, e) /\ e.type \in {"change.apply", "artifact.attach"}
    BY <1>6, <1>8
<1> QED
    BY <1>5, <1>7, <1>8, LogShapes

LEMMA ApprovingStep ==
    ASSUME TypeInv, Approving, [Next]_vars
    PROVE  Approving'
<1> SUFFICES ASSUME NEW d, NEW basis, NEW n, Approves(d, basis)', n = Len(log')
             PROVE  (Replaced(basis, n)' \/ OnPath(d, n)') /\ (d.force \/ Evidenced(d, n)')
    BY DEF Approving
<1>1. Loop \in Procs /\ proc'[Loop].at # "idle" /\ Current(Loop)' \in TransitionCommands
      /\ (Current(Loop).data)' = d /\ d.status = "approved" /\ proc'[Loop].basis = basis
    BY DEF Approves, Procs
<1>2. CASE Stays(Loop) \/ Reads(Loop)
    BY <1>2, ApprovingStays
<1>3. CASE Stops(Loop)
    BY <1>1, <1>3 DEF Stops
<1>4. CASE Programmed(Loop)
    <2>1. Current(Loop)' \in ProgramCommands
        BY <1>1, <1>4, NextCommand DEF Current
    <2> QED
        BY <1>1, <2>1, ProgramKinds
<1>5. CASE StartsUpdate(Loop) \/ StartsRequest(Loop)
    <2>1. Current(Loop)' \in UpdateCommands \cup MessageCommands
        BY <1>1, <1>5, NextCommand DEF Current, StartsUpdate, StartsRequest
    <2> QED
        BY <1>1, <2>1, OtherKinds
<1>6. CASE StartsTransition(Loop)
    <2>1. PICK c \in TransitionCommands :
            /\ Starts(Loop, c, None)
            /\ c.data.status = "approved" =>
                /\ StageAt(c.data.id, Len(log)) = c.data.from
                /\ BlueprintAt(c.data.id, Len(log)) # None
                /\ <<c.data.from, c.data.to>> \in Transitions(BlueprintAt(c.data.id, Len(log)))
                /\ c.data.force \/ ~Gaps(c.data.evidence, c.data.from, Len(log))
        BY <1>6 DEF StartsTransition
    <2>2. Current(Loop)' = c /\ log' = log
        BY <1>1, <2>1, NextCommand DEF Current, Starts
    <2>3. c.data = d /\ n = Len(log)
        BY <1>1, <2>2
    <2>4. /\ StageAt(d.id, n) = d.from /\ BlueprintAt(d.id, n) # None
          /\ <<d.from, d.to>> \in Transitions(BlueprintAt(d.id, n))
          /\ d.force \/ ~Gaps(d.evidence, d.from, n)
        BY <1>1, <2>1, <2>3
    <2>5. OnPath(d, n)
        BY <2>4, StageIs DEF OnPath
    <2>6. d.force \/ Evidenced(d, n)
        BY <2>4 DEF Gaps, Evidenced
    <2> QED
        BY <2>2, <2>5, <2>6, PathSame
<1> QED
    BY <1>1, <1>2, <1>3, <1>4, <1>5, <1>6, StepShapes

LEMMA ApprovedStep ==
    ASSUME TypeInv, Approving, Approved, [Next]_vars
    PROVE  Approved'
<1> SUFFICES ASSUME NEW i, NEW d, NEW basis, Approval(i, d, basis)'
             PROVE  (Replaced(basis, i)' \/ OnPath(d, i - 1)') /\ (d.force \/ Evidenced(d, i)')
    BY DEF Approved
<1>1. /\ i \in DOMAIN log' /\ log'[i].type = "lifecycle.transition.record"
      /\ log'[i].data = d /\ d.status = "approved" /\ log'[i].basis = basis
    BY DEF Approval
<1>2. CASE log' = log
    <2>1. Approval(i, d, basis)
        BY <1>1, <1>2 DEF Approval
    <2>2. (Replaced(basis, i) \/ OnPath(d, i - 1)) /\ (d.force \/ Evidenced(d, i))
        BY <2>1 DEF Approved
    <2>3. OnPath(d, i - 1) <=> OnPath(d, i - 1)'
        BY <1>2, PathSame
    <2> QED
        BY <1>2, <2>2, <2>3, PathSame
<1>3. ASSUME NEW e \in EventSet, log' = Append(log, e), i \in DOMAIN log
      PROVE  (Replaced(basis, i)' \/ OnPath(d, i - 1)') /\ (d.force \/ Evidenced(d, i)')
    <2>1. log'[i] = log[i] /\ DOMAIN log = 1 .. Len(log) /\ Len(log) \in Nat
        BY <1>3, StoredTypes
    <2>2. Approval(i, d, basis)
        BY <1>1, <1>3, <2>1 DEF Approval
    <2>3. (Replaced(basis, i) \/ OnPath(d, i - 1)) /\ (d.force \/ Evidenced(d, i))
        BY <2>2 DEF Approved
    <2>4. PICK j : j = i - 1
        OBVIOUS
    <2>5. i \in 0 .. Len(log) /\ j \in 0 .. Len(log)
        BY <1>3, <2>1, <2>4
    <2>6. OnPath(d, j) => OnPath(d, j)'
        BY <1>3, <2>5, PathStays
    <2>7. (Replaced(basis, i) => Replaced(basis, i)') /\ (Evidenced(d, i) => Evidenced(d, i)')
        BY <1>3, <2>5, PathStays
    <2> QED
        BY <2>3, <2>4, <2>6, <2>7
<1>4. ASSUME NEW q \in Procs, Execute(q), log' = Append(log, Event(q)), Event(q) \in EventSet, i \notin DOMAIN log
      PROVE  (Replaced(basis, i)' \/ OnPath(d, i - 1)') /\ (d.force \/ Evidenced(d, i)')
    <2>1. PICK n : n = Len(log)
        OBVIOUS
    <2>2. n \in Nat /\ i = n + 1 /\ log'[i] = Event(q) /\ n = i - 1 /\ n \in 0 .. Len(log)
        BY <1>1, <1>4, <2>1, StoredTypes
    <2>3. proc[q].at # "idle"
        BY <1>4 DEF Execute
    <2>4. Current(q) \in TransitionCommands
        <3>1. Current(q) \in Commands /\ Current(q).type = "lifecycle.transition.record"
            BY <1>1, <2>2, <2>3, CurrentTypes, EventTypes
        <3> QED
            BY <3>1, CommandKinds
    <2>5. q = Loop
        BY <2>3, <2>4, CurrentTypes, ProgramKinds, OtherKinds
    <2>6. Current(q).data = d /\ proc[q].basis = basis
        <3>1. Current(q).type # "dsl.execution.record"
            BY <2>4 DEF TransitionCommands
        <3> QED
            BY <1>1, <2>2, <2>3, <3>1, EventTypes
    <2>7. Approves(d, basis)
        BY <1>1, <2>3, <2>4, <2>5, <2>6 DEF Approves
    <2>8. (Replaced(basis, n) \/ OnPath(d, n)) /\ (d.force \/ Evidenced(d, n))
        BY <2>1, <2>7 DEF Approving
    <2>9. OnPath(d, n) => OnPath(d, n)'
        BY <1>4, <2>2, PathStays
    <2>10. (Replaced(basis, n) => Replaced(basis, n + 1)') /\ (Evidenced(d, n) => Evidenced(d, n + 1)')
        BY <1>4, <2>1, GroundsGrow
    <2> QED
        BY <2>2, <2>8, <2>9, <2>10
<1>5. ASSUME NEW e \in EventSet, log' = Append(log, e), e.type \in {"change.apply", "artifact.attach"}
      PROVE  i \in DOMAIN log
    BY <1>1, <1>5, StoredTypes
<1> QED
    BY <1>2, <1>3, <1>4, <1>5, LogShapes

LEMMA ApprovedInit ==
    ASSUME Init
    PROVE  Approving /\ Approved
<1>1. proc[Loop].at = "idle"
    BY DEF Init, Procs, Idle
<1>2. Approving
    BY <1>1 DEF Approving, Approves
<1>3. \A i \in DOMAIN log : log[i].type # "lifecycle.transition.record"
    <2>1. CASE scenario.stored = None
        BY <2>1 DEF Init
    <2>2. CASE scenario.stored # None
        <3>1. scenario.stored \in DOMAIN Programs /\ log = Stored(scenario.stored)
            BY <2>2, ProjectHandlersAssumption DEF Init
        <3>2. PICK program \in DOMAIN Programs : program = scenario.stored
            BY <3>1
        <3> SUFFICES ASSUME NEW i \in DOMAIN Stored(program)
                     PROVE  Stored(program)[i].type # "lifecycle.transition.record"
            BY <3>1, <3>2
        <3>3. PICK c \in ProgramCommands : Stored(program)[i].type = c.type
            BY StoredEvents
        <3>4. c \notin TransitionCommands /\ c \in Commands
            BY ProgramKinds DEF Commands
        <3> QED
            BY <3>3, <3>4, CommandKinds
    <2> QED
        BY <2>1, <2>2
<1>4. Approved
    BY <1>3 DEF Approved, Approval
<1> QED
    BY <1>2, <1>4

\* Whatever the CLI and the other handlers store meanwhile, an approval leaves
\* the stage that its blueprint is in, by one of its transitions, with the
\* evidence that the stage requires (transition_lifecycle).
THEOREM ApprovalsFollowThePath == Spec => []StagesFormAPath
<1> DEFINE Inv == TypeInv /\ Approving /\ Approved
<1>1. Init => Inv
    BY TypesInit, ApprovedInit
<1>2. Inv /\ [Next]_vars => Inv'
    BY TypesStep, ApprovingStep, ApprovedStep
<1>3. Inv => StagesFormAPath
    <2> SUFFICES ASSUME Approved PROVE StagesFormAPath
        OBVIOUS
    <2> SUFFICES ASSUME NEW i \in DOMAIN log, log[i].type = "lifecycle.transition.record",
                        log[i].data.status = "approved"
                 PROVE  /\ \/ \E k \in Upserts(i) : k > log[i].basis /\ log[k].proc = Cli
                           \/ /\ StageAt(log[i].data.id, i - 1) = log[i].data.from
                              /\ <<log[i].data.from, log[i].data.to>>
                                    \in Transitions(BlueprintAt(log[i].data.id, i - 1))
                        /\ log[i].data.force \/
                            /\ log[i].data.evidence # {}
                            /\ log[i].data.evidence \subseteq Artifacts(i)
                            /\ Required[log[i].data.from] \subseteq {Kinds[a] : a \in log[i].data.evidence}
        BY DEF StagesFormAPath
    <2>1. Approval(i, log[i].data, log[i].basis)
        BY DEF Approval
    <2>2. /\ Replaced(log[i].basis, i) \/ OnPath(log[i].data, i - 1)
          /\ log[i].data.force \/ Evidenced(log[i].data, i)
        BY <2>1 DEF Approved
    <2> QED
        BY <2>2 DEF Replaced, OnPath, Evidenced
<1> QED
    BY <1>1, <1>2, <1>3, PTL DEF Spec

-----------------------------------------------------------------------------
(***************************************************************************)
(* Executions: handlers from their beginning to their end.                 *)
(***************************************************************************)
\* What a handler that stores one event has before it.
Single(p) == \E c \in TransitionCommands \cup UpdateCommands \cup MessageCommands : proc[p].todo = <<c>>

\* The handler goes on without storing anything.
Kept(p) ==
    /\ proc[p].at # "idle" /\ proc'[p].todo = proc[p].todo /\ proc'[p].basis = proc[p].basis
    /\ proc'[p].n = proc[p].n /\ proc'[p].ids = proc[p].ids

\* It has the commands of a program that is valid now.
BeginsProgram(p) ==
    \E program \in DOMAIN Programs, generate \in BOOLEAN :
        /\ Verdicts[program][Revision(Len(log))] = "valid"
        /\ proc'[p].todo = CommandsOf(program, Documents[program], generate)

\* The process begins a handler of its own, which has stored nothing.
Begins(p) ==
    /\ proc'[p].n = begun + 1 /\ begun' = begun + 1 /\ proc'[p].ids = {} /\ proc'[p].basis = Len(log)
    /\ log' = log /\ \A q \in Procs \ {p} : proc'[q] = proc[q]
    /\ BeginsProgram(p) \/ Single(p)'

\* What a process that is busy after a step has done.
LEMMA StepsOfHandlers ==
    ASSUME TypeInv, [Next]_vars, NEW p \in Procs, proc'[p].at # "idle"
    PROVE  /\ \/ Kept(p) \/ Begins(p)
              \/ Execute(p) /\ Advances(p)
           /\ begun \in Nat /\ begun <= begun' /\ begun' \in Nat
<1>1. begun \in Nat
    BY DEF TypeInv
<1>2. proc'[p] = proc[p] => Kept(p)
    BY DEF Kept
<1>3. CASE UNCHANGED vars
    BY <1>1, <1>2, <1>3 DEF vars
<1>4. CASE WriteLine \/ Preview \/ Outside
    BY <1>1, <1>2, <1>4 DEF WriteLine, Preview, Outside
<1>5. CASE \E m \in Messages : PublishCommand(m) \/ Redeliver(m) \/ Lose(m) \/ OnMessage(m)
    BY <1>1, <1>2, <1>5 DEF PublishCommand, Redeliver, Lose, OnMessage
<1>6. CASE CrashServer \/ KillCli
    BY <1>1, <1>2, <1>6, CrashEffect
<1>7. CASE TimeOut
    <2>1. Stays(Loop) => proc'[Loop].at = proc[Loop].at
        BY DEF Stays
    <2>2. p = Loop => Kept(p)
        BY <1>7, <2>1, TimeOutEffect DEF Kept, Stays
    <2> QED
        BY <1>1, <1>2, <1>7, <2>2, TimeOutEffect
<1>8. CASE HandleRequest
    <2>1. PICK c \in MessageCommands :
                /\ proc'[Loop].todo = <<c>> /\ proc'[Loop].basis = Len(log)
        BY <1>8, HandleEffect
    <2>2. /\ proc'[Loop].n = begun + 1 /\ proc'[Loop].ids = {} /\ log' = log
          /\ begun' = begun + 1 /\ \A q \in Procs \ {Loop} : proc'[q] = proc[q]
        BY <1>8, HandleEffect
    <2>3. Single(Loop)'
        BY <2>1 DEF Single
    <2>4. Begins(Loop)
        BY <2>1, <2>2, <2>3 DEF Begins
    <2> QED
        BY <1>1, <1>2, <2>2, <2>4
<1>9. ASSUME NEW q \in Procs, NEW role, NEW todo, NEW pinned, Begin(q, role, todo, pinned), log' = log,
             \/ \E program \in DOMAIN Programs, generate \in BOOLEAN :
                    /\ Verdicts[program][Revision(Len(log))] = "valid"
                    /\ todo = CommandsOf(program, Documents[program], generate)
             \/ \E c \in TransitionCommands \cup UpdateCommands \cup MessageCommands : todo = <<c>>
      PROVE  (Kept(p) \/ Begins(p)) /\ begun <= begun' /\ begun' \in Nat
    <2>1. /\ proc'[q].n = begun + 1 /\ proc'[q].ids = {} /\ proc'[q].todo = todo /\ proc'[q].basis = Len(log)
          /\ begun' = begun + 1 /\ \A r \in Procs \ {q} : proc'[r] = proc[r]
        BY <1>9, BeginEffect
    <2>2. BeginsProgram(q) \/ Single(q)'
        BY <1>9, <2>1 DEF BeginsProgram, Single
    <2>3. Begins(q)
        BY <1>9, <2>1, <2>2 DEF Begins
    <2> QED
        BY <1>1, <1>2, <2>1, <2>3
<1>10. ASSUME NEW q \in Procs, ReadVersion(q)
       PROVE  Kept(p) /\ begun' = begun
    <2>1. begun' = begun
        BY <1>10 DEF ReadVersion
    <2>2. Reads(q) => Kept(q)
        BY DEF Reads, Kept
    <2> QED
        BY <1>2, <1>10, <2>1, <2>2, ReadEffect
<1>11. ASSUME NEW q \in Procs, Execute(q)
       PROVE  (Kept(p) \/ (Execute(p) /\ Advances(p))) /\ begun' = begun
    BY <1>2, <1>11, ExecuteEffect
<1>12. ASSUME NEW q \in Procs, ExecuteFails(q)
       PROVE  Kept(p) /\ begun' = begun
    BY <1>2, <1>12, FailEffect DEF ExecuteFails
<1>13. ASSUME NEW q \in Procs, ApplyProjectDsl(q)
       PROVE  (Kept(p) \/ Begins(p)) /\ begun <= begun' /\ begun' \in Nat
    <2>1. PICK program \in scenario.programs, role \in scenario.roles, generate \in BOOLEAN :
                /\ Verdicts[program][Revision(Len(log))] = "valid"
                /\ Begin(q, role, CommandsOf(program, Documents[program], generate), None)
        BY <1>13 DEF ApplyProjectDsl
    <2>2. program \in DOMAIN Programs /\ log' = log
        BY <1>13, ProjectHandlersAssumption DEF TypeInv, ApplyProjectDsl
    <2> QED
        BY <1>9, <2>1, <2>2
<1>14. ASSUME NEW q \in Procs, TransitionLifecycle(q)
       PROVE  (Kept(p) \/ Begins(p)) /\ begun <= begun' /\ begun' \in Nat
    <2>1. log' = log /\ \E c \in TransitionCommands, role \in Roles : Begin(q, role, <<c>>, None)
        BY <1>14, TransitionTypes
    <2> QED
        BY <1>9, <2>1
<1>15. ASSUME NEW q \in Procs, RecordProjectUpdate(q)
       PROVE  (Kept(p) \/ Begins(p)) /\ begun <= begun' /\ begun' \in Nat
    <2>1. PICK role \in scenario.roles, key \in Keys, pinned \in {None} \cup 0..Len(log) :
            Begin(q, role, <<Command("project.update.record", [key |-> key, pinned |-> pinned])>>, pinned)
        BY <1>15 DEF RecordProjectUpdate
    <2>2. log' = log /\ Len(log) \in Nat
        BY <1>15 DEF RecordProjectUpdate, TypeInv
    <2>3. Command("project.update.record", [key |-> key, pinned |-> pinned]) \in UpdateCommands
        BY <2>2 DEF Command, UpdateCommands
    <2> QED
        BY <1>9, <2>1, <2>2, <2>3
<1> QED
    BY <1>1, <1>3, <1>4, <1>5, <1>6, <1>7, <1>8, <1>10, <1>11, <1>12, <1>13, <1>14, <1>15 DEF Next

-----------------------------------------------------------------------------
(***************************************************************************)
(* Executions: where the events of a handler lie.                          *)
(***************************************************************************)
\* The events that handler n has stored.
Mine(n) == {k \in DOMAIN log : log[k].by = n}

\* The events of handler n are those of its first m commands, at the places f.
Stores(f, m, commands, n) ==
    /\ f \in [1 .. m -> Mine(n)]
    /\ \A j, k \in 1 .. m : j < k => f[j] < f[k]
    /\ \A i \in Mine(n) : \E j \in 1 .. m : f[j] = i
    /\ \A j \in 1 .. m :
        /\ log[f[j]].type = commands[j].type
        /\ commands[j].type # "dsl.execution.record" => log[f[j]].data = commands[j].data

\* The process has stored the events of the first commands of the program, at
\* the places f, and has the others before it.
Applying(p, program, generate, f) ==
    LET commands == CommandsOf(program, Documents[program], generate)
        done == Len(commands) - Len(proc[p].todo)
    IN  /\ done \in Nat
        /\ \A j \in 1 .. Len(proc[p].todo) : proc[p].todo[j] = commands[done + j]
        /\ Verdicts[program][Revision(proc[p].basis)] = "valid"
        /\ Stores(f, done, commands, proc[p].n)

\* Busy processes are handlers of their own.
Distinct ==
    \A p, q \in Procs : proc[p].at # "idle" /\ proc[q].at # "idle" =>
        /\ proc[p].n \in 1 .. begun
        /\ proc[p].n = proc[q].n => p = q

\* The process knows the events it has stored, and they are the first of its
\* program, or it stores a single one.
StoringBy(p) ==
    /\ proc[p].ids = Mine(proc[p].n) /\ \A k \in Mine(proc[p].n) : log[k].proc = p
    /\ \/ Single(p)
       \/ \E program \in DOMAIN Programs, generate \in BOOLEAN : \E f : Applying(p, program, generate, f)

Storing == \A p \in Procs : proc[p].at # "idle" => StoringBy(p)

\* The record at i is the last event of a handler that has stored the others.
Executed(i, program, generate, f) ==
    LET commands == CommandsOf(program, Documents[program], generate)
    IN  /\ Stores(f, Len(commands), commands, log[i].by) /\ f[Len(commands)] = i
        /\ log[i].data.program = program
        /\ log[i].data.status = ExecutionRecord(program, Documents[program]).data.status
        /\ log[i].data.ids =
                {k \in Mine(log[i].by) \ {i} : log[i].proc = Cli \/ log[k].type # "artifact.attach"}

\* Every record is that of a program executed to the end, and its handler is
\* not under way any more.
Executions ==
    \A i \in DOMAIN log : log[i].type = "dsl.execution.record" =>
        /\ log[i].by \in Nat
        /\ \A p \in Procs : proc[p].at # "idle" => proc[p].n # log[i].by
        /\ \E program \in DOMAIN Programs, generate \in BOOLEAN : \E f : Executed(i, program, generate, f)

\* A change that is applied names its plan.
ChangesPlanned ==
    \A i \in DOMAIN log : log[i].type = "change.apply" => "plan_id" \in DOMAIN log[i].data

\* What a program stores, it stores after it was found valid.
ProgramsValid ==
    \A i \in DOMAIN log : "program" \in DOMAIN log[i].data =>
        Verdicts[log[i].data.program][Revision(log[i].basis)] = "valid"

\* The events of a handler, when one more has been stored.
LEMMA MineAfter ==
    ASSUME TypeInv, NEW e \in EventSet, log' = Append(log, e), NEW n
    PROVE  /\ Len(log) \in Nat /\ Mine(n) \subseteq 1 .. Len(log) /\ log'[Len(log) + 1] = e
           /\ DOMAIN log = 1 .. Len(log)
           /\ \A i \in DOMAIN log : log'[i] = log[i]
           /\ e.by = n => Mine(n)' = Mine(n) \cup {Len(log) + 1}
           /\ e.by # n => Mine(n)' = Mine(n)
<1>1. /\ Len(log) \in Nat /\ DOMAIN log = 1 .. Len(log) /\ DOMAIN log' = DOMAIN log \cup {Len(log) + 1}
      /\ log'[Len(log) + 1] = e /\ \A i \in DOMAIN log : log'[i] = log[i]
    BY StoredTypes
<1> QED
    BY <1>1 DEF Mine

\* The first events stay a handler's when others store theirs.
LEMMA StoresStays ==
    ASSUME TypeInv, NEW e \in EventSet, log' = Append(log, e), NEW n, e.by # n,
           NEW f, NEW m, NEW commands, Stores(f, m, commands, n)
    PROVE  Stores(f, m, commands, n)'
<1>1. /\ Mine(n)' = Mine(n) /\ \A i \in Mine(n) : log'[i] = log[i]
    BY MineAfter DEF Mine
<1>2. \A j \in 1 .. m : f[j] \in Mine(n)
    BY DEF Stores
<1> QED
    BY <1>1, <1>2 DEF Stores

\* They are where they were when nothing is stored.
LEMMA StoresSame ==
    ASSUME log' = log, NEW n, NEW f, NEW m, NEW commands
    PROVE  Stores(f, m, commands, n) <=> Stores(f, m, commands, n)'
BY DEF Stores, Mine

\* The handler stores the next of its events.
LEMMA StoresNext ==
    ASSUME TypeInv, NEW e \in EventSet, log' = Append(log, e), NEW n, e.by = n,
           NEW f, NEW m \in Nat, NEW commands, Stores(f, m, commands, n),
           e.type = commands[m + 1].type,
           commands[m + 1].type # "dsl.execution.record" => e.data = commands[m + 1].data
    PROVE  \E g : Stores(g, m + 1, commands, n)' /\ g[m + 1] = Len(log) + 1
<1>10. PICK last : last = Len(log) + 1
    OBVIOUS
<1>11. PICK g : g = [j \in 1 .. m + 1 |-> IF j = m + 1 THEN last ELSE f[j]]
    OBVIOUS
<1>1. /\ Mine(n)' = Mine(n) \cup {last} /\ Mine(n) \subseteq 1 .. Len(log) /\ log'[last] = e /\ Len(log) \in Nat
      /\ \A i \in Mine(n) : log'[i] = log[i]
    BY <1>10, MineAfter DEF Mine
<1>2. 1 .. m + 1 = (1 .. m) \cup {m + 1} /\ \A j \in 1 .. m : j # m + 1
    OBVIOUS
<1>3. \A j \in 1 .. m : f[j] \in Mine(n) /\ g[j] = f[j]
    BY <1>2, <1>11 DEF Stores
<1>4. g[m + 1] = last /\ last > Len(log) /\ last \in Nat
    BY <1>1, <1>2, <1>10, <1>11
<1>5. g \in [1 .. m + 1 -> Mine(n) \cup {last}]
    BY <1>2, <1>3, <1>11
<1>6. \A j, k \in 1 .. m + 1 : j < k => g[j] < g[k]
    <2>1. \A j, k \in 1 .. m : j < k => g[j] < g[k]
        BY <1>3 DEF Stores
    <2>2. \A j \in 1 .. m : g[j] < g[m + 1]
        BY <1>1, <1>3, <1>4
    <2>3. \A j \in 1 .. m : ~(m + 1 < j)
        OBVIOUS
    <2> QED
        BY <1>2, <2>1, <2>2, <2>3
<1>7. \A i \in Mine(n) \cup {last} : \E j \in 1 .. m + 1 : g[j] = i
    BY <1>2, <1>3, <1>4 DEF Stores
<1>8. \A j \in 1 .. m + 1 :
        /\ log'[g[j]].type = commands[j].type
        /\ commands[j].type # "dsl.execution.record" => log'[g[j]].data = commands[j].data
    <2>1. ASSUME NEW j \in 1 .. m
          PROVE  /\ log'[g[j]].type = commands[j].type
                 /\ commands[j].type # "dsl.execution.record" => log'[g[j]].data = commands[j].data
        <3>1. g[j] = f[j] /\ log'[f[j]] = log[f[j]]
            BY <1>1, <1>3
        <3> QED
            BY <3>1 DEF Stores
    <2>2. log'[g[m + 1]] = e
        BY <1>1, <1>4
    <2> QED
        BY <1>2, <2>1, <2>2
<1>9. Stores(g, m + 1, commands, n)'
    BY <1>1, <1>5, <1>6, <1>7, <1>8 DEF Stores
<1> QED
    BY <1>4, <1>9, <1>10

\* The revision at a version does not change afterwards.
LEMMA RevisionStays ==
    ASSUME TypeInv, NEW i \in 0 .. Len(log), \/ log' = log
                                             \/ \E e \in EventSet : log' = Append(log, e)
    PROVE  Revision(i)' = Revision(i)
<1>1. CASE log' = log
    BY <1>1 DEF Revision
<1>2. ASSUME NEW e \in EventSet, log' = Append(log, e)
      PROVE  Revision(i)' = Revision(i)
    <2>1. \A k \in 1 .. i : log'[k] = log[k]
        BY <1>2, PrefixStays
    <2>2. {k \in 1 .. i : log'[k].type = "change.apply"} = {k \in 1 .. i : log[k].type = "change.apply"}
        BY <2>1
    <2> QED
        BY <2>2 DEF Revision
<1> QED
    BY <1>1, <1>2

\* The length of what is left of a program, and the place of its first command.
LEMMA Remaining ==
    ASSUME NEW l \in Nat, NEW t \in Nat \ {0}, NEW done \in Nat, done = l - t
    PROVE  /\ done + 1 \in 1 .. l /\ (done + 1 # l <=> done + 1 < l)
           /\ t > 1 <=> done + 1 < l
           /\ 1 \in 1 .. t
OBVIOUS

\* The command that a process executes next is the next of its program.
Follows(p, program, commands, done) ==
    /\ done \in Nat /\ done + 1 \in 1 .. Len(commands) /\ Current(p) = commands[done + 1]
    /\ Len(commands) \in Nat
    /\ Len(proc[p].todo) > 1 <=> done + 1 < Len(commands)
    /\ Current(p).type = "dsl.execution.record" <=> done + 1 = Len(commands)
    /\ Current(p).data.program = program /\ "program" \in DOMAIN Current(p).data

LEMMA AppliesNext ==
    ASSUME TypeInv, NEW p \in Procs, proc[p].at # "idle",
           NEW program \in DOMAIN Programs, NEW generate \in BOOLEAN, NEW f,
           Applying(p, program, generate, f),
           NEW commands, commands = CommandsOf(program, Documents[program], generate),
           NEW done, done = Len(commands) - Len(proc[p].todo)
    PROVE  Follows(p, program, commands, done)
<1> DEFINE todo == proc[p].todo
<1>1. todo \in Seq(Commands) /\ todo # <<>> /\ Len(todo) \in Nat \ {0}
    BY CurrentTypes
<1>2. /\ Len(commands) \in Nat
      /\ \A j \in 1 .. Len(commands) : j < Len(commands) => commands[j].type # "dsl.execution.record"
      /\ \A j \in 1 .. Len(commands) : commands[j].data.program = program /\ "program" \in DOMAIN commands[j].data
      /\ commands[Len(commands)] = ExecutionRecord(program, Documents[program])
    <2>1. InOrder(commands, program)
        BY CommandsInOrder
    <2> QED
        BY <2>1 DEF InOrder
<1>3. done \in Nat /\ \A j \in 1 .. Len(todo) : todo[j] = commands[done + j]
    BY DEF Applying
<1>4. Current(p) = todo[1]
    BY <1>1 DEF Current
<1>5. ExecutionRecord(program, Documents[program]).type = "dsl.execution.record"
    BY DEF ExecutionRecord, Command
<1>9. done = Len(commands) - Len(todo)
    OBVIOUS
<1> HIDE DEF todo
<1>6. done + 1 \in 1 .. Len(commands) /\ (done + 1 # Len(commands) <=> done + 1 < Len(commands)) /\ (Len(todo) > 1 <=> done + 1 < Len(commands)) /\ 1 \in 1 .. Len(todo)
    <2>1. PICK l, t : l = Len(commands) /\ t = Len(todo)
        OBVIOUS
    <2>2. l \in Nat /\ t \in Nat \ {0} /\ done = l - t /\ done \in Nat
        BY <1>1, <1>2, <1>3, <1>9, <2>1
    <2>3. done + 1 \in 1 .. l /\ (done + 1 # l <=> done + 1 < l) /\ (t > 1 <=> done + 1 < l) /\ 1 \in 1 .. t
        BY <2>2, Remaining
    <2> QED
        BY <2>1, <2>3
<1>7. Current(p) = commands[done + 1]
    BY <1>3, <1>4, <1>6
<1>8. commands[done + 1].type = "dsl.execution.record" <=> done + 1 = Len(commands)
    <2>1. CASE done + 1 = Len(commands)
        <3>1. commands[done + 1] = ExecutionRecord(program, Documents[program])
            BY <1>2, <2>1
        <3> QED
            BY <1>5, <2>1, <3>1
    <2>2. CASE done + 1 < Len(commands)
        BY <1>2, <1>6, <2>2
    <2> QED
        BY <1>6, <2>1, <2>2
<1> QED
    BY <1>2, <1>3, <1>6, <1>7, <1>8 DEF todo, Follows

-----------------------------------------------------------------------------
(***************************************************************************)
(* Executions: the steps.                                                  *)
(***************************************************************************)
\* A handler gets a number that none has had.
LEMMA DistinctStep ==
    ASSUME TypeInv, Distinct, [Next]_vars
    PROVE  Distinct'
<1> SUFFICES ASSUME NEW p \in Procs, NEW q \in Procs, proc'[p].at # "idle", proc'[q].at # "idle"
             PROVE  proc'[p].n \in 1 .. begun' /\ (proc'[p].n = proc'[q].n => p = q)
    BY DEF Distinct
<1>1. /\ begun \in Nat /\ begun <= begun' /\ begun' \in Nat
      /\ Kept(p) \/ Begins(p) \/ (Execute(p) /\ Advances(p))
      /\ Kept(q) \/ Begins(q) \/ (Execute(q) /\ Advances(q))
    BY StepsOfHandlers
<1>2. \A r \in Procs : proc[r].at # "idle" => proc[r].n \in 1 .. begun
    BY DEF Distinct
<1>3. \A r \in Procs : Kept(r) \/ Advances(r) => proc[r].at # "idle" /\ proc'[r].n = proc[r].n
    BY DEF Kept, Advances
<1>4. CASE Begins(p)
    <2>1. /\ proc'[p].n = begun + 1 /\ begun' = begun + 1 /\ (q # p => proc'[q] = proc[q])
        BY <1>4 DEF Begins
    <2>2. q # p => proc'[q].n \in 1 .. begun
        BY <1>2, <2>1
    <2> QED
        BY <1>1, <2>1, <2>2
<1>5. CASE Begins(q) /\ ~Begins(p)
    <2>1. proc'[q].n = begun + 1 /\ begun' = begun + 1
        BY <1>5 DEF Begins
    <2>2. proc'[p].n \in 1 .. begun
        BY <1>1, <1>2, <1>3, <1>5
    <2> QED
        BY <1>1, <2>1, <2>2
<1>6. CASE ~Begins(q) /\ ~Begins(p)
    <2>1. proc'[p].n = proc[p].n /\ proc'[q].n = proc[q].n /\ proc[p].at # "idle" /\ proc[q].at # "idle"
        BY <1>1, <1>3, <1>6
    <2>2. proc[p].n \in 1 .. begun /\ (proc[p].n = proc[q].n => p = q)
        BY <2>1 DEF Distinct
    <2> QED
        BY <1>1, <2>1, <2>2
<1> QED
    BY <1>4, <1>5, <1>6

\* Nobody else stores events of the handler of a process that stays busy.
LEMMA OthersStore ==
    ASSUME TypeInv, Distinct, [Next]_vars, NEW p \in Procs, Kept(p), proc'[p].at # "idle"
    PROVE  \/ log' = log
           \/ \E e \in EventSet : log' = Append(log, e) /\ e.by # proc[p].n
<1>1. proc[p].at # "idle" /\ proc[p].n \in Nat
    BY DEF Kept, Distinct
<1>2. ASSUME NEW q \in Procs, Execute(q), log' = Append(log, Event(q)), Event(q) \in EventSet
      PROVE  Event(q).by # proc[p].n
    <2>1. proc[q].at # "idle"
        BY <1>2 DEF Execute
    <2>2. Event(q).by = proc[q].n
        BY <2>1, EventTypes
    <2>3. q # p
        <3>1. CASE q = p
            <4>1. Advances(p) \/ proc'[p].at = "idle"
                BY <1>2, <3>1, ExecuteEffect
            <4>2. Advances(p)
                BY <1>2, <3>1, ExecuteEffect
            <4>3. proc[p].ids = proc[p].ids \cup {Len(log) + 1}
                BY <4>2 DEF Advances, Kept
            <4>4. proc[p].ids \subseteq DOMAIN log /\ log \in Seq(EventSet)
                BY DEF TypeInv, Working
            <4>5. Len(log) + 1 \notin DOMAIN log
                BY <4>4
            <4> QED
                BY <4>3, <4>4, <4>5
        <3> QED
            BY <3>1
    <2> QED
        BY <1>1, <2>1, <2>2, <2>3 DEF Distinct
<1>3. None # proc[p].n
    BY <1>1, ProjectHandlersAssumption
<1> QED
    BY <1>2, <1>3, LogShapes

\* A process that waits, or reads the version it expects.
LEMMA StoringKept ==
    ASSUME TypeInv, Distinct, [Next]_vars, NEW p \in Procs, Kept(p), proc'[p].at # "idle", StoringBy(p)
    PROVE  StoringBy(p)'
<1>1. PICK n : n = proc[p].n
    OBVIOUS
<1>2. /\ proc'[p].n = n /\ proc'[p].ids = proc[p].ids /\ proc'[p].todo = proc[p].todo
      /\ proc'[p].basis = proc[p].basis /\ proc[p].basis \in 0 .. Len(log)
    BY <1>1 DEF Kept, TypeInv, Working
<1>3. log' = log \/ \E e \in EventSet : log' = Append(log, e) /\ e.by # n
    BY <1>1, OthersStore
<1>4. Mine(n)' = Mine(n) /\ \A k \in Mine(n) : log'[k] = log[k]
    <2>1. CASE log' = log
        BY <2>1 DEF Mine
    <2>2. CASE \E e \in EventSet : log' = Append(log, e) /\ e.by # n
        BY <2>2, MineAfter DEF Mine
    <2> QED
        BY <1>3, <2>1, <2>2
<1>5. Revision(proc[p].basis)' = Revision(proc[p].basis)
    <2>1. PICK i : i = proc[p].basis
        OBVIOUS
    <2>2. Revision(i)' = Revision(i)
        BY <1>2, <1>3, <2>1, RevisionStays
    <2> QED
        BY <1>2, <2>1, <2>2
<1>6. \A f, m, commands : Stores(f, m, commands, n) => Stores(f, m, commands, n)'
    BY <1>3, StoresStays, StoresSame
<1>7. Single(p) => Single(p)'
    BY <1>2 DEF Single
<1>8. ASSUME NEW program \in DOMAIN Programs, NEW generate \in BOOLEAN, NEW f, Applying(p, program, generate, f)
      PROVE  Applying(p, program, generate, f)'
    BY <1>1, <1>2, <1>5, <1>6, <1>8 DEF Applying
<1>9. proc'[p].ids = Mine(n)' /\ \A k \in Mine(n)' : log'[k].proc = p
    BY <1>1, <1>2, <1>4 DEF StoringBy
<1> QED
    BY <1>2, <1>7, <1>8, <1>9 DEF StoringBy

\* A process that begins has stored nothing.
LEMMA StoringBegins ==
    ASSUME TypeInv, NEW p \in Procs, Begins(p), proc'[p].at # "idle"
    PROVE  StoringBy(p)'
<1>1. PICK n : n = begun + 1
    OBVIOUS
<1>2. /\ proc'[p].n = n /\ proc'[p].ids = {} /\ proc'[p].basis = Len(log) /\ log' = log
      /\ BeginsProgram(p) \/ Single(p)'
    BY <1>1 DEF Begins
<1>3. Mine(n)' = {}
    <2>1. \A i \in DOMAIN log : log[i].by \in (0 .. begun) \cup {None}
        BY DEF TypeInv
    <2>2. n \notin 0 .. begun /\ n # None
        BY <1>1, ProjectHandlersAssumption DEF TypeInv
    <2> QED
        BY <1>2, <2>1, <2>2 DEF Mine
<1>4. ASSUME NEW program \in DOMAIN Programs, NEW generate \in BOOLEAN,
             Verdicts[program][Revision(Len(log))] = "valid",
             proc'[p].todo = CommandsOf(program, Documents[program], generate)
      PROVE  \E f : Applying(p, program, generate, f)'
    <2> DEFINE commands == CommandsOf(program, Documents[program], generate)
    <2>1. Len(commands) \in Nat
        BY CommandsInOrder DEF InOrder
    <2>2. PICK f : f = [j \in 1 .. 0 |-> 0]
        OBVIOUS
    <2>3. Stores(f, 0, commands, n)'
        BY <1>3, <2>2 DEF Stores
    <2>4. Revision(proc[p].basis)' = Revision(Len(log))
        BY <1>2 DEF Revision
    <2> HIDE DEF commands
    <2>5. Len(commands) - Len(commands) = 0 /\ \A j \in 1 .. Len(commands) : commands[j] = commands[0 + j]
        BY <2>1
    <2>6. proc'[p].todo = commands
        BY <1>4 DEF commands
    <2>7. Applying(p, program, generate, f)'
        BY <1>2, <1>4, <2>3, <2>4, <2>5, <2>6 DEF Applying, commands
    <2> QED
        BY <2>7
<1>5. Single(p)' \/ \E program \in DOMAIN Programs, generate \in BOOLEAN : \E f : Applying(p, program, generate, f)'
    BY <1>2, <1>4 DEF BeginsProgram
<1> QED
    BY <1>2, <1>3, <1>5 DEF StoringBy

\* A process that has stored an event of its program.
LEMMA StoringAdvances ==
    ASSUME TypeInv, NEW p \in Procs, Execute(p), Advances(p), proc'[p].at # "idle", StoringBy(p)
    PROVE  StoringBy(p)'
<1>1. PICK n : n = proc[p].n
    OBVIOUS
<1>2. PICK e \in EventSet : e = Event(p) /\ log' = Append(log, e)
    BY ExecuteEffect
<1>3. /\ proc[p].at # "idle" /\ Len(proc[p].todo) > 1 /\ proc'[p].todo = Tail(proc[p].todo)
      /\ proc'[p].n = n /\ proc'[p].basis = proc[p].basis /\ proc'[p].ids = proc[p].ids \cup {Len(log) + 1}
      /\ proc[p].basis \in 0 .. Len(log)
    BY <1>1 DEF Advances, TypeInv, Working
<1>4. /\ e.type = Current(p).type /\ e.by = n /\ e.proc = p
      /\ Current(p).type # "dsl.execution.record" => e.data = Current(p).data
    BY <1>1, <1>2, <1>3, EventTypes
<1>5. /\ Mine(n)' = Mine(n) \cup {Len(log) + 1} /\ Mine(n) \subseteq DOMAIN log /\ log'[Len(log) + 1] = e
      /\ \A i \in DOMAIN log : log'[i] = log[i]
    BY <1>2, <1>4, MineAfter
<1>6. proc'[p].ids = Mine(n)' /\ \A k \in Mine(n)' : log'[k].proc = p
    BY <1>1, <1>3, <1>4, <1>5 DEF StoringBy
<1>7. ~Single(p)
    <2>1. ASSUME NEW c, proc[p].todo = <<c>>
          PROVE  FALSE
        BY <1>3, <2>1
    <2> QED
        BY <2>1 DEF Single
<1>18. PICK program \in DOMAIN Programs, generate \in BOOLEAN : \E f : Applying(p, program, generate, f)
    BY <1>7 DEF StoringBy
<1>8. PICK f : Applying(p, program, generate, f)
    BY <1>18
<1>20. PICK commands : commands = CommandsOf(program, Documents[program], generate)
    OBVIOUS
<1> DEFINE todo == proc[p].todo
<1>9. PICK done : done = Len(commands) - Len(todo)
    OBVIOUS
<1>21. Follows(p, program, commands, done)
    BY <1>3, <1>8, <1>9, <1>20, AppliesNext
<1>10. /\ done \in Nat /\ Current(p) = commands[done + 1] /\ Len(commands) \in Nat
       /\ Current(p).type # "dsl.execution.record"
    <2>1. /\ done \in Nat /\ done + 1 \in 1 .. Len(commands) /\ Current(p) = commands[done + 1]
          /\ Len(commands) \in Nat
          /\ Len(proc[p].todo) > 1 <=> done + 1 < Len(commands)
          /\ Current(p).type = "dsl.execution.record" <=> done + 1 = Len(commands)
        BY <1>21 DEF Follows
    <2>2. done + 1 # Len(commands)
        BY <1>3, <2>1
    <2> QED
        BY <2>1, <2>2
<1>11. /\ \A j \in 1 .. Len(todo) : todo[j] = commands[done + j]
       /\ Verdicts[program][Revision(proc[p].basis)] = "valid"
       /\ Stores(f, done, commands, n)
    BY <1>1, <1>8, <1>9, <1>20 DEF Applying
<1>12. /\ todo \in Seq(Commands) /\ todo # <<>> /\ Len(todo) \in Nat
       /\ Len(Tail(todo)) = Len(todo) - 1 /\ \A i \in 1 .. Len(Tail(todo)) : Tail(todo)[i] = todo[i + 1]
    <2>1. todo \in Seq(Commands) /\ todo # <<>> /\ Len(todo) \in Nat
        BY <1>3, CurrentTypes
    <2> QED
        BY <2>1, HeadTailProperties
<1>13. PICK g : Stores(g, done + 1, commands, n)'
    <2>1. e.type = commands[done + 1].type /\ e.data = commands[done + 1].data
        BY <1>4, <1>10
    <2> QED
        BY <1>2, <1>4, <1>10, <1>11, <2>1, StoresNext
<1>14. Revision(proc[p].basis)' = Revision(proc[p].basis)
    <2>1. PICK i : i = proc[p].basis
        OBVIOUS
    <2>2. Revision(i)' = Revision(i)
        BY <1>2, <1>3, <2>1, RevisionStays
    <2> QED
        BY <1>3, <2>1, <2>2
<1> HIDE DEF todo
<1>15. Len(commands) - Len(Tail(todo)) = done + 1 /\ done + 1 \in Nat
    BY <1>9, <1>10, <1>12
<1>16. \A j \in 1 .. Len(Tail(todo)) : Tail(todo)[j] = commands[(done + 1) + j]
    <2> TAKE j \in 1 .. Len(Tail(todo))
    <2>1. Tail(todo)[j] = todo[j + 1] /\ j + 1 \in 1 .. Len(todo) /\ done + (j + 1) = (done + 1) + j
        BY <1>10, <1>12
    <2> QED
        BY <1>11, <2>1
<1>17. proc'[p].todo = Tail(todo)
    BY <1>3 DEF todo
<1>19. Applying(p, program, generate, g)'
    BY <1>3, <1>11, <1>13, <1>14, <1>15, <1>16, <1>17, <1>20 DEF Applying
<1> QED
    BY <1>3, <1>6, <1>19 DEF StoringBy

\* Every handler under way goes on storing the events of its program in order.
LEMMA StoringStep ==
    ASSUME TypeInv, Distinct, Storing, [Next]_vars
    PROVE  Storing'
<1> SUFFICES ASSUME NEW p \in Procs, proc'[p].at # "idle"
             PROVE  StoringBy(p)'
    BY DEF Storing
<1>1. Kept(p) \/ Begins(p) \/ (Execute(p) /\ Advances(p))
    BY StepsOfHandlers
<1>2. Kept(p) \/ Advances(p) => StoringBy(p)
    BY DEF Kept, Advances, Storing
<1> QED
    BY <1>1, <1>2, StoringKept, StoringBegins, StoringAdvances

\* A handler of one event stores neither a part of a program nor a change.
LEMMA SinglesAreNotPrograms ==
    ASSUME NEW p \in Procs, Single(p)
    PROVE  /\ Current(p).type \notin {"dsl.execution.record", "change.apply"}
           /\ "program" \notin DOMAIN Current(p).data
<1>1. PICK c \in TransitionCommands \cup UpdateCommands \cup MessageCommands : proc[p].todo = <<c>>
    BY DEF Single
<1>2. Current(p) = c
    BY <1>1 DEF Current
<1> QED
    BY <1>1, <1>2 DEF TransitionCommands, UpdateCommands, MessageCommands

\* A record is not touched by the events of other handlers.
LEMMA RecordStays ==
    ASSUME TypeInv, NEW e \in EventSet, log' = Append(log, e), NEW i \in DOMAIN log, e.by # log[i].by,
           NEW program, NEW generate, NEW f, Executed(i, program, generate, f)
    PROVE  Executed(i, program, generate, f)'
<1>1. PICK n : n = log[i].by
    OBVIOUS
<1>2. PICK commands : commands = CommandsOf(program, Documents[program], generate)
    OBVIOUS
<1>3. /\ log'[i] = log[i] /\ Mine(n)' = Mine(n) /\ Mine(n) \subseteq DOMAIN log
      /\ \A k \in DOMAIN log : log'[k] = log[k]
    BY <1>1, MineAfter DEF Mine
<1>4. Stores(f, Len(commands), commands, n)
    BY <1>1, <1>2 DEF Executed
<1>5. Stores(f, Len(commands), commands, n)'
    BY <1>1, <1>4, StoresStays
<1>6. log[i].data.ids = {k \in Mine(n) \ {i} : log[i].proc = Cli \/ log[k].type # "artifact.attach"}
    BY <1>1 DEF Executed
<1>7. log'[i].data.ids = {k \in Mine(n)' \ {i} : log'[i].proc = Cli \/ log'[k].type # "artifact.attach"}
    BY <1>3, <1>6
<1>8. /\ f[Len(commands)] = i /\ log[i].data.program = program
      /\ log[i].data.status = ExecutionRecord(program, Documents[program]).data.status
    BY <1>2 DEF Executed
<1> QED
    BY <1>1, <1>2, <1>3, <1>5, <1>7, <1>8 DEF Executed

\* The last command of a program stores the record of its execution.
LEMMA RecordNew ==
    ASSUME TypeInv, Storing, NEW q \in Procs, Execute(q), NEW i, i = Len(log) + 1,
           Event(q).type = "dsl.execution.record"
    PROVE  /\ log'[i].by = proc[q].n /\ proc'[q].at = "idle"
           /\ \E program \in DOMAIN Programs, generate \in BOOLEAN : \E f : Executed(i, program, generate, f)'
<1>1. PICK n : n = proc[q].n
    OBVIOUS
<1>2. PICK e \in EventSet : e = Event(q) /\ log' = Append(log, e)
    BY ExecuteEffect
<1>3. proc[q].at # "idle"
    BY DEF Execute
<1>4. Current(q).type = "dsl.execution.record" /\ e.by = n /\ e.proc = q /\ e.type = "dsl.execution.record"
    BY <1>1, <1>2, <1>3, EventTypes
<1>5. ~Single(q) /\ StoringBy(q)
    BY <1>3, <1>4, SinglesAreNotPrograms DEF Storing
<1>6. PICK program \in DOMAIN Programs, generate \in BOOLEAN : \E f : Applying(q, program, generate, f)
    BY <1>5 DEF StoringBy
<1>7. PICK f : Applying(q, program, generate, f)
    BY <1>6
<1>8. PICK commands : commands = CommandsOf(program, Documents[program], generate)
    OBVIOUS
<1>9. PICK done : done = Len(commands) - Len(proc[q].todo)
    OBVIOUS
<1>10. Follows(q, program, commands, done)
    BY <1>3, <1>7, <1>8, <1>9, AppliesNext
<1>11. done \in Nat /\ done + 1 = Len(commands) /\ Current(q) = commands[done + 1] /\ ~(Len(proc[q].todo) > 1)
    BY <1>4, <1>10 DEF Follows
<1>12. proc'[q].at = "idle"
    BY <1>11, ExecuteEffect DEF Advances
<1>13. Stores(f, done, commands, n)
    BY <1>1, <1>7, <1>8, <1>9 DEF Applying
<1>14. PICK g : Stores(g, done + 1, commands, n)' /\ g[done + 1] = i
    BY <1>2, <1>4, <1>11, <1>13, StoresNext
<1>15. commands[Len(commands)] = ExecutionRecord(program, Documents[program])
    <2>1. InOrder(commands, program)
        BY <1>8, CommandsInOrder
    <2> QED
        BY <2>1 DEF InOrder
<1>16. Current(q) = ExecutionRecord(program, Documents[program])
    BY <1>11, <1>15
<1>17. e.data = [ExecutionRecord(program, Documents[program]).data EXCEPT !.ids = ListedIds(q)]
    BY <1>2, <1>4, <1>16 DEF Event
<1>18. /\ e.data.program = program /\ e.data.ids = ListedIds(q)
       /\ e.data.status = ExecutionRecord(program, Documents[program]).data.status
    BY <1>17 DEF ExecutionRecord, Command
<1>19. /\ log'[i] = e /\ Mine(n)' = Mine(n) \cup {i} /\ i \notin Mine(n)
       /\ \A k \in Mine(n) : log'[k] = log[k]
    <2>1. /\ Mine(n) \subseteq 1 .. Len(log) /\ Len(log) \in Nat /\ log'[Len(log) + 1] = e
          /\ Mine(n)' = Mine(n) \cup {Len(log) + 1} /\ \A k \in Mine(n) : log'[k] = log[k]
        BY <1>2, <1>4, MineAfter DEF Mine
    <2> QED
        BY <2>1
<1>20. proc[q].ids = Mine(n)
    BY <1>1, <1>5 DEF StoringBy
<1>21. ListedIds(q) = {k \in Mine(n) : q = Cli \/ log[k].type # "artifact.attach"}
    BY <1>20 DEF ListedIds
<1>22. e.data.ids = {k \in Mine(n)' \ {i} : e.proc = Cli \/ log'[k].type # "artifact.attach"}
    <2>1. Mine(n)' \ {i} = Mine(n)
        BY <1>19
    <2> QED
        BY <1>4, <1>18, <1>19, <1>21, <2>1
<1>23. Executed(i, program, generate, g)'
    BY <1>4, <1>8, <1>11, <1>14, <1>18, <1>19, <1>22 DEF Executed
<1> QED
    BY <1>1, <1>4, <1>12, <1>19, <1>23

\* Records stay, and a new one comes from a handler that ends with it.
LEMMA ExecutionsStep ==
    ASSUME TypeInv, Distinct, Storing, Executions, [Next]_vars
    PROVE  Executions'
<1>1. ASSUME NEW i \in DOMAIN log, log[i].type = "dsl.execution.record", NEW p \in Procs, proc'[p].at # "idle"
      PROVE  proc'[p].n # log[i].by
    <2>1. log[i].by \in 0 .. begun /\ begun \in Nat
        BY <1>1, ProjectHandlersAssumption DEF Executions, TypeInv
    <2>2. CASE Kept(p) \/ Advances(p)
        <3>1. proc[p].at # "idle" /\ proc'[p].n = proc[p].n
            BY <2>2 DEF Kept, Advances
        <3> QED
            BY <1>1, <3>1 DEF Executions
    <2>3. CASE Begins(p)
        <3>1. proc'[p].n = begun + 1
            BY <2>3 DEF Begins
        <3> QED
            BY <2>1, <3>1
    <2> QED
        BY <1>1, <2>2, <2>3, StepsOfHandlers
<1>2. CASE log' = log
    <2> SUFFICES ASSUME NEW i \in DOMAIN log, log[i].type = "dsl.execution.record"
                 PROVE  /\ log[i].by \in Nat
                        /\ \E program \in DOMAIN Programs, generate \in BOOLEAN :
                                \E f : Executed(i, program, generate, f)'
        BY <1>1, <1>2 DEF Executions
    <2>1. PICK program \in DOMAIN Programs, generate \in BOOLEAN : \E f : Executed(i, program, generate, f)
        BY DEF Executions
    <2>2. PICK f : Executed(i, program, generate, f)
        BY <2>1
    <2>3. Executed(i, program, generate, f)'
        BY <1>2, <2>2 DEF Executed, Stores, Mine
    <2> QED
        BY <2>3 DEF Executions
<1>3. ASSUME NEW e \in EventSet, log' = Append(log, e),
             \A i \in DOMAIN log : log[i].type = "dsl.execution.record" => e.by # log[i].by,
             NEW last, last = Len(log) + 1,
             e.type = "dsl.execution.record" =>
                /\ e.by \in Nat /\ \A p \in Procs : proc'[p].at # "idle" => proc'[p].n # e.by
                /\ \E program \in DOMAIN Programs, generate \in BOOLEAN :
                        \E f : Executed(last, program, generate, f)'
      PROVE  Executions'
    <2>1. /\ DOMAIN log' = DOMAIN log \cup {last} /\ log'[last] = e
          /\ \A i \in DOMAIN log : log'[i] = log[i]
        BY <1>3, StoredTypes
    <2>2. ASSUME NEW i \in DOMAIN log, log[i].type = "dsl.execution.record"
          PROVE  \E program \in DOMAIN Programs, generate \in BOOLEAN : \E f : Executed(i, program, generate, f)'
        <3>1. PICK program \in DOMAIN Programs, generate \in BOOLEAN : \E f : Executed(i, program, generate, f)
            BY <2>2 DEF Executions
        <3>2. PICK f : Executed(i, program, generate, f)
            BY <3>1
        <3>3. Executed(i, program, generate, f)'
            BY <1>3, <2>2, <3>2, RecordStays
        <3> QED
            BY <3>3
    <2> QED
        BY <1>1, <1>3, <2>1, <2>2 DEF Executions
<1>4. ASSUME NEW q \in Procs, Execute(q), log' = Append(log, Event(q)), Event(q) \in EventSet
      PROVE  Executions'
    <2>1. proc[q].at # "idle" /\ proc[q].n \in Nat
        BY <1>4 DEF Execute, TypeInv, Working
    <2>2. Event(q).by = proc[q].n
        BY <2>1, EventTypes
    <2>3. PICK e \in EventSet, last \in Nat : e = Event(q) /\ last = Len(log) + 1
        BY <1>4 DEF TypeInv
    <2>4. \A i \in DOMAIN log : log[i].type = "dsl.execution.record" => e.by # log[i].by
        BY <2>1, <2>2, <2>3 DEF Executions
    <2>5. e.type = "dsl.execution.record" =>
            /\ \A p \in Procs : proc'[p].at # "idle" => proc'[p].n # e.by
            /\ \E program \in DOMAIN Programs, generate \in BOOLEAN :
                    \E f : Executed(last, program, generate, f)'
        <3> SUFFICES ASSUME e.type = "dsl.execution.record"
                     PROVE  /\ \A p \in Procs : proc'[p].at # "idle" => proc'[p].n # e.by
                            /\ \E program \in DOMAIN Programs, generate \in BOOLEAN :
                                    \E f : Executed(last, program, generate, f)'
            OBVIOUS
        <3>1. /\ proc'[q].at = "idle"
              /\ \E program \in DOMAIN Programs, generate \in BOOLEAN :
                    \E f : Executed(last, program, generate, f)'
            BY <1>4, <2>3, RecordNew
        <3>2. \A p \in Procs \ {q} : proc'[p] = proc[p]
            BY <1>4, ExecuteEffect
        <3>3. \A p \in Procs \ {q} : proc[p].at # "idle" => proc[p].n # proc[q].n
            BY <2>1 DEF Distinct
        <3> QED
            BY <2>2, <2>3, <3>1, <3>2, <3>3
    <2> QED
        BY <1>3, <1>4, <2>1, <2>2, <2>3, <2>4, <2>5
<1>5. ASSUME NEW e \in EventSet, log' = Append(log, e), e.by = None,
             e.type \in {"change.apply", "artifact.attach"}
      PROVE  Executions'
    <2>1. \A i \in DOMAIN log : log[i].type = "dsl.execution.record" => e.by # log[i].by
        BY <1>5, ProjectHandlersAssumption DEF Executions
    <2>2. PICK last : last = Len(log) + 1
        OBVIOUS
    <2> QED
        BY <1>3, <1>5, <2>1, <2>2
<1> QED
    BY <1>2, <1>4, <1>5, LogShapes

\* The bus refuses a change that names no plan.
LEMMA ChangesPlannedStep ==
    ASSUME TypeInv, ChangesPlanned, [Next]_vars
    PROVE  ChangesPlanned'
<1>1. CASE log' = log
    BY <1>1 DEF ChangesPlanned
<1>2. ASSUME NEW e \in EventSet, log' = Append(log, e), e.type = "change.apply" => "plan_id" \in DOMAIN e.data
      PROVE  ChangesPlanned'
    <2>1. /\ DOMAIN log' = DOMAIN log \cup {Len(log) + 1} /\ log'[Len(log) + 1] = e
          /\ \A i \in DOMAIN log : log'[i] = log[i]
        BY <1>2, StoredTypes
    <2> QED
        BY <1>2, <2>1 DEF ChangesPlanned
<1>3. ASSUME NEW q \in Procs, Execute(q)
      PROVE  Event(q).type = "change.apply" => "plan_id" \in DOMAIN Event(q).data
    <2>1. proc[q].at # "idle" /\ Accepts(q)
        BY <1>3 DEF Execute
    <2>2. Event(q).type = Current(q).type /\ DOMAIN Event(q).data = DOMAIN Current(q).data
        BY <2>1, EventTypes
    <2> QED
        BY <2>1, <2>2 DEF Accepts
<1> QED
    BY <1>1, <1>2, <1>3, LogShapes

\* Each event of a program carries the version at which it was found valid.
LEMMA ProgramsValidStep ==
    ASSUME TypeInv, Storing, ProgramsValid, [Next]_vars
    PROVE  ProgramsValid'
<1>1. CASE log' = log
    BY <1>1 DEF ProgramsValid, Revision
<1>2. ASSUME NEW e \in EventSet, log' = Append(log, e),
             "program" \in DOMAIN e.data => /\ e.basis \in 0 .. Len(log)
                                            /\ Verdicts[e.data.program][Revision(e.basis)] = "valid"
      PROVE  ProgramsValid'
    <2>1. /\ DOMAIN log' = DOMAIN log \cup {Len(log) + 1} /\ log'[Len(log) + 1] = e
          /\ \A i \in DOMAIN log : log'[i] = log[i]
        BY <1>2, StoredTypes
    <2>2. \A k \in 0 .. Len(log) : Revision(k)' = Revision(k)
        BY <1>2, RevisionStays
    <2> SUFFICES ASSUME NEW i \in DOMAIN log', "program" \in DOMAIN log'[i].data
                 PROVE  (Verdicts[log[i].data.program][Revision(log[i].basis)] = "valid")'
        BY DEF ProgramsValid
    <2>3. PICK d : d = log'[i]
        OBVIOUS
    <2>4. d.basis \in 0 .. Len(log) /\ Verdicts[d.data.program][Revision(d.basis)] = "valid"
        <3>1. CASE i \in DOMAIN log
            BY <2>1, <2>3, <3>1 DEF ProgramsValid, TypeInv
        <3>2. CASE i = Len(log) + 1
            BY <1>2, <2>1, <2>3, <3>2
        <3> QED
            BY <2>1, <3>1, <3>2
    <2>5. Revision(d.basis)' = Revision(d.basis)
        <3>1. PICK k : k = d.basis
            OBVIOUS
        <3>2. Revision(k)' = Revision(k)
            BY <2>2, <2>4, <3>1
        <3> QED
            BY <3>1, <3>2
    <2>6. Revision(log[i].basis)' = Revision(d.basis)'
        BY <2>3 DEF Revision
    <2> QED
        BY <2>3, <2>4, <2>5, <2>6
<1>3. ASSUME NEW q \in Procs, Execute(q), "program" \in DOMAIN Event(q).data
      PROVE  /\ Event(q).basis \in 0 .. Len(log)
             /\ Verdicts[Event(q).data.program][Revision(Event(q).basis)] = "valid"
    <2>1. proc[q].at # "idle" /\ proc[q].basis \in 0 .. Len(log)
        BY <1>3 DEF Execute, TypeInv, Working
    <2>2. /\ Event(q).type = Current(q).type /\ DOMAIN Event(q).data = DOMAIN Current(q).data
          /\ Event(q).basis = proc[q].basis
          /\ Current(q).type # "dsl.execution.record" => Event(q).data = Current(q).data
        BY <2>1, EventTypes
    <2>3. ~Single(q) /\ StoringBy(q)
        BY <1>3, <2>1, <2>2, SinglesAreNotPrograms DEF Storing
    <2>4. PICK program \in DOMAIN Programs, generate \in BOOLEAN : \E f : Applying(q, program, generate, f)
        BY <2>3 DEF StoringBy
    <2>5. PICK f : Applying(q, program, generate, f)
        BY <2>4
    <2>6. PICK commands : commands = CommandsOf(program, Documents[program], generate)
        OBVIOUS
    <2>7. PICK done : done = Len(commands) - Len(proc[q].todo)
        OBVIOUS
    <2>8. Follows(q, program, commands, done)
        BY <2>1, <2>5, <2>6, <2>7, AppliesNext
    <2>9. Current(q).data.program = program
        BY <2>8 DEF Follows
    <2>10. Event(q).data.program = program
        <3>1. PICK data, ids : data = Current(q).data /\ ids = ListedIds(q)
            OBVIOUS
        <3>2. Current(q).type = "dsl.execution.record" => Event(q).data = [data EXCEPT !.ids = ids]
            BY <3>1 DEF Event
        <3>3. [data EXCEPT !.ids = ids].program = data.program
            BY <1>3, <2>2, <3>1
        <3> QED
            BY <2>2, <2>9, <3>1, <3>2, <3>3
    <2>11. Verdicts[program][Revision(proc[q].basis)] = "valid"
        BY <2>5 DEF Applying
    <2> QED
        BY <2>1, <2>2, <2>10, <2>11
<1> QED
    BY <1>1, <1>2, <1>3, LogShapes

\* The inductive invariant, besides the types.
ExecutionsInv == Distinct /\ Storing /\ Executions /\ ChangesPlanned /\ ProgramsValid

\* Nobody is busy, and the stored program was executed to its end.
LEMMA ExecutionsInit ==
    ASSUME Init
    PROVE  ExecutionsInv
<1>1. \A p \in Procs : proc[p].at = "idle"
    BY DEF Init, Idle
<1>2. Distinct /\ Storing
    BY <1>1 DEF Distinct, Storing
<1>3. CASE scenario.stored = None
    BY <1>2, <1>3 DEF Init, ExecutionsInv, Executions, ChangesPlanned, ProgramsValid
<1>4. ASSUME NEW program \in DOMAIN Programs, log = Stored(program),
             Verdicts[program][Defaults["REVISION"]] = "valid", ~AutoApplies(Documents[program])
      PROVE  Executions /\ ChangesPlanned /\ ProgramsValid
    <2>1. PICK commands, last : /\ commands = CommandsOf(program, Documents[program], FALSE)
                                /\ last = Len(commands)
        OBVIOUS
    <2>2. /\ InOrder(commands, program)
          /\ \A j \in 1 .. last : commands[j].type \notin {"artifact.attach", "change.apply"}
        BY <1>4, <2>1, CommandsInOrder
    <2>3. /\ DOMAIN log = 1 .. last /\ last \in Nat \ {0}
          /\ \A i \in 1 .. last :
                /\ log[i].type = commands[i].type /\ log[i].by = 0 /\ log[i].basis = 0 /\ log[i].proc = Loop
                /\ DOMAIN log[i].data = DOMAIN commands[i].data
        <3>1. /\ log \in Seq(EventSet) /\ Len(log) = last /\ last \in Nat \ {0}
              /\ \A i \in DOMAIN log :
                    /\ log[i].type = commands[i].type /\ log[i].by = 0 /\ log[i].basis = 0 /\ log[i].proc = Loop
                    /\ DOMAIN log[i].data = DOMAIN commands[i].data
            BY <1>4, <2>1, StoredEvents
        <3>2. DOMAIN log = 1 .. last
            BY <3>1
        <3> QED
            BY <3>1, <3>2
    <2>4. \A j \in 1 .. last : j < last => log[j].data = commands[j].data
        BY <1>4, <2>1 DEF Stored
    <2>5. log[last].data = [commands[last].data EXCEPT !.ids = 1 .. (last - 1)]
        <3>1. \A i \in 1 .. last : log[i].data = IF i < last THEN commands[i].data
                                                 ELSE [commands[i].data EXCEPT !.ids = 1 .. (last - 1)]
            BY <1>4, <2>1 DEF Stored
        <3>2. last \in 1 .. last /\ ~(last < last)
            BY <2>3
        <3> QED
            BY <3>1, <3>2
    <2>6. /\ commands[last] = ExecutionRecord(program, Documents[program])
          /\ \A j \in 1 .. last : j < last => commands[j].type # "dsl.execution.record"
          /\ \A j \in 1 .. last : commands[j].data.program = program
        BY <2>1, <2>2 DEF InOrder
    <2>7. /\ log[last].data.program = program /\ log[last].data.ids = 1 .. (last - 1)
          /\ log[last].data.status = ExecutionRecord(program, Documents[program]).data.status
        BY <2>5, <2>6 DEF ExecutionRecord, Command
    <2>8. commands[last].type = "dsl.execution.record"
        BY <2>6 DEF ExecutionRecord, Command
    <2>9. Mine(0) = 1 .. last
        BY <2>3 DEF Mine
    <2>10. PICK f : f = [j \in 1 .. last |-> j]
        OBVIOUS
    <2>11. Stores(f, last, commands, 0)
        <3>1. f \in [1 .. last -> Mine(0)]
            BY <2>9, <2>10
        <3>2. \A j, k \in 1 .. last : j < k => f[j] < f[k]
            BY <2>10
        <3>3. \A i \in Mine(0) : \E j \in 1 .. last : f[j] = i
            BY <2>9, <2>10
        <3>4. \A j \in 1 .. last : commands[j].type # "dsl.execution.record" => j < last
            BY <2>3, <2>8
        <3> QED
            BY <2>3, <2>4, <2>10, <3>1, <3>2, <3>3, <3>4 DEF Stores
    <2>12. log[last].data.ids =
                {k \in Mine(log[last].by) \ {last} : log[last].proc = Cli \/ log[k].type # "artifact.attach"}
        <3>1. Mine(0) \ {last} = 1 .. (last - 1)
            BY <2>3, <2>9
        <3>2. \A k \in 1 .. (last - 1) : log[k].type # "artifact.attach"
            BY <2>2, <2>3
        <3> QED
            BY <2>3, <2>7, <3>1, <3>2
    <2>13. f[last] = last /\ last \in 1 .. last
        BY <2>3, <2>10
    <2>14. Executed(last, program, FALSE, f)
        BY <2>1, <2>3, <2>7, <2>11, <2>12, <2>13 DEF Executed
    <2>15. Executions
        <3>1. \A i \in DOMAIN log : log[i].type = "dsl.execution.record" => i = last
            <4>1. \A i \in 1 .. last : i < last \/ i = last
                BY <2>3
            <4> QED
                BY <2>3, <2>6, <4>1
        <3> QED
            <4>1. log[last].by \in Nat /\ FALSE \in BOOLEAN
                BY <2>3, <2>13
            <4>2. \E generate \in BOOLEAN : \E g : Executed(last, program, generate, g)
                BY <2>14, <4>1
            <4> QED
                BY <1>1, <3>1, <4>1, <4>2 DEF Executions
    <2>16. ChangesPlanned
        BY <2>2, <2>3 DEF ChangesPlanned
    <2>17. ProgramsValid
        <3>1. \A i \in 1 .. last : log[i].data.program = program
            BY <2>4, <2>6, <2>7, <2>3
        <3>2. Revision(0) = Defaults["REVISION"]
            BY DEF Revision
        <3> QED
            BY <1>4, <2>3, <3>1, <3>2 DEF ProgramsValid
    <2> QED
        BY <2>15, <2>16, <2>17
<1>5. CASE scenario.stored # None
    <2>1. scenario \in Scenarios /\ log = Stored(scenario.stored) /\ scenario.stored \in DOMAIN Programs
        BY <1>5, ProjectHandlersAssumption DEF Init
    <2>2. /\ Verdicts[scenario.stored][Defaults["REVISION"]] = "valid"
          /\ ~AutoApplies(Documents[scenario.stored])
        BY <1>5, <2>1, StoredAssumption
    <2> QED
        BY <1>2, <1>4, <2>1, <2>2 DEF ExecutionsInv
<1> QED
    BY <1>3, <1>5

-----------------------------------------------------------------------------
(***************************************************************************)
(* Executions: what a record says.                                         *)
(***************************************************************************)
\* The events of handler n that have the type.
Typed(n, type) == {k \in Mine(n) : log[k].type = type}

\* What the property says of the record of the handler whose events are mine.
Whole(i, record, compiled, mine, n, plans) ==
    /\ \A k \in mine : k <= i
    /\ record.ids = {k \in mine \ {i} : log[i].proc = Cli \/ log[k].type # "artifact.attach"}
    /\ \A type \in {"evolution.run.record", "lifecycle.blueprint.upsert"} : Cardinality(Typed(n, type)) = 1
    /\ \E place \in [DOMAIN compiled -> plans] :
        /\ \A k \in plans : \E j \in DOMAIN compiled : place[j] = k
        /\ \A j, k \in DOMAIN compiled : j < k => place[j] < place[k]
        /\ \A j \in DOMAIN compiled : log[place[j]].data.plan = compiled[j]
    /\ record.status = "executed" <=> plans = {}

\* Only the command at j has the type.
OnlyAt(commands, m, j, type) ==
    j \in 1 .. m /\ commands[j].type = type /\ \A k \in 1 .. m : commands[k].type = type => k = j

\* One event of the handler has the type of the command at j, and it is at f[j].
LEMMA StoredAlone ==
    ASSUME NEW f, NEW m \in Nat, NEW commands, NEW n, Stores(f, m, commands, n), NEW j,
           NEW type, OnlyAt(commands, m, j, type)
    PROVE  Cardinality(Typed(n, type)) = 1
<1>1. f[j] \in Mine(n) /\ log[f[j]].type = type
    BY DEF Stores, OnlyAt
<1>2. ASSUME NEW k \in Mine(n), log[k].type = type
      PROVE  k = f[j]
    <2>1. PICK l \in 1 .. m : f[l] = k
        BY DEF Stores
    <2>2. commands[l].type = type
        BY <1>2, <2>1 DEF Stores
    <2> QED
        BY <2>1, <2>2 DEF OnlyAt
<1>3. Typed(n, type) = {f[j]}
    BY <1>1, <1>2 DEF Typed
<1> QED
    BY <1>3, FS_Singleton

\* A record speaks for the whole of its program.
LEMMA RecordsAreWhole ==
    ASSUME TypeInv, Executions, ChangesPlanned, NEW i \in DOMAIN log, log[i].type = "dsl.execution.record"
    PROVE  Whole(i, log[i].data, PlansOf(Documents[log[i].data.program]), Mine(log[i].by), log[i].by,
                 Typed(log[i].by, "change.plan.record"))
<1>1. PICK program \in DOMAIN Programs, generate \in BOOLEAN : \E f : Executed(i, program, generate, f)
    BY DEF Executions
<1>2. PICK f : Executed(i, program, generate, f)
    BY <1>1
<1>3. PICK commands, compiled, n :
            /\ commands = CommandsOf(program, Documents[program], generate)
            /\ compiled = PlansOf(Documents[program]) /\ n = log[i].by
    OBVIOUS
<1>4. PICK last, c : last = Len(commands) /\ c = Len(compiled)
    OBVIOUS
<1>5. /\ Stores(f, last, commands, n) /\ f[last] = i /\ log[i].data.program = program
      /\ log[i].data.status = ExecutionRecord(program, Documents[program]).data.status
      /\ log[i].data.ids = {k \in Mine(n) \ {i} : log[i].proc = Cli \/ log[k].type # "artifact.attach"}
    BY <1>2, <1>3, <1>4 DEF Executed
<1>6. InOrder(commands, program)
    BY <1>3, CommandsInOrder
<1>7. /\ last \in Nat /\ DOMAIN compiled = 1 .. c /\ c \in Nat /\ last > c + 2
      /\ commands[1].type = "evolution.run.record" /\ commands[2].type = "lifecycle.blueprint.upsert"
      /\ \A j \in 1 .. c : commands[2 + j].type = "change.plan.record" /\ commands[2 + j].data.plan = compiled[j]
      /\ \A j \in 1 .. last : j > c + 2 =>
            commands[j].type \in {"change.apply", "artifact.attach", "dsl.execution.record"}
    BY <1>3, <1>4, <1>6 DEF InOrder
<1>8. AutoApplies(Documents[program]) =>
            \E j \in 1 .. last : j < last /\ commands[j] = Command("change.apply", [program |-> program])
    BY <1>3, <1>4, <1>6 DEF InOrder
<1>9. \A j \in 1 .. last : j = 1 \/ j = 2 \/ (\E k \in 1 .. c : j = 2 + k) \/ j > c + 2
    <2>1. \A j \in 1 .. last : j > 2 /\ ~(j > c + 2) => j - 2 \in 1 .. c /\ j = 2 + (j - 2)
        BY <1>7
    <2> QED
        BY <1>7, <2>1
<1>10. /\ 1 \in 1 .. last /\ 2 \in 1 .. last /\ last \in 1 .. last
       /\ \A k \in 1 .. c : 2 + k \in 1 .. last
    BY <1>7
<1>11. Mine(n) = {k \in DOMAIN log : log[k].by = n} /\ Mine(n) \subseteq Nat
    BY DEF Mine, TypeInv
<1>12. \A k \in Mine(n) : k <= i
    <2> TAKE k \in Mine(n)
    <2>1. PICK j \in 1 .. last : f[j] = k
        BY <1>5 DEF Stores
    <2>2. j < last => f[j] < f[last]
        BY <1>5, <1>10 DEF Stores
    <2>3. j < last \/ j = last
        BY <1>7
    <2>4. f[last] \in Nat /\ k \in Nat
        BY <1>5, <1>10, <1>11 DEF Stores
    <2> QED
        BY <1>5, <2>1, <2>2, <2>3, <2>4
<1>13. Cardinality(Typed(n, "evolution.run.record")) = 1
    <2>1. \A k \in 1 .. last : commands[k].type = "evolution.run.record" => k = 1
        BY <1>7, <1>9
    <2>2. OnlyAt(commands, last, 1, "evolution.run.record")
        BY <1>7, <1>10, <2>1 DEF OnlyAt
    <2> QED
        BY <1>5, <1>7, <2>2, StoredAlone
<1>14. Cardinality(Typed(n, "lifecycle.blueprint.upsert")) = 1
    <2>1. \A k \in 1 .. last : commands[k].type = "lifecycle.blueprint.upsert" => k = 2
        BY <1>7, <1>9
    <2>2. OnlyAt(commands, last, 2, "lifecycle.blueprint.upsert")
        BY <1>7, <1>10, <2>1 DEF OnlyAt
    <2> QED
        BY <1>5, <1>7, <2>2, StoredAlone
<1>15. PICK plans : plans = Typed(n, "change.plan.record")
    OBVIOUS
<1>16. PICK place : place = [j \in 1 .. c |-> f[2 + j]]
    OBVIOUS
<1>17. \A j \in 1 .. c : /\ f[2 + j] \in Mine(n) /\ log[f[2 + j]].type = "change.plan.record"
                         /\ log[f[2 + j]].data = commands[2 + j].data
    <2> TAKE j \in 1 .. c
    <2>1. PICK k : k = 2 + j
        OBVIOUS
    <2>2. k \in 1 .. last /\ commands[k].type = "change.plan.record"
        BY <1>7, <1>10, <2>1
    <2>3. /\ f[k] \in Mine(n) /\ log[f[k]].type = "change.plan.record"
          /\ log[f[k]].data = commands[k].data
        BY <1>5, <2>2 DEF Stores
    <2> QED
        BY <2>1, <2>3
<1>18. place \in [1 .. c -> plans] /\ \A j \in 1 .. c : log[place[j]].data.plan = compiled[j]
    BY <1>7, <1>15, <1>16, <1>17 DEF Typed
<1>19. ASSUME NEW k \in plans
       PROVE  \E j \in 1 .. c : place[j] = k
    <2>1. PICK l \in 1 .. last : f[l] = k
        BY <1>5, <1>15 DEF Stores, Typed
    <2>2. commands[l].type = "change.plan.record"
        BY <1>5, <1>15, <2>1 DEF Stores, Typed
    <2>3. PICK j \in 1 .. c : l = 2 + j
        BY <1>7, <1>9, <2>2
    <2> QED
        BY <1>16, <2>1, <2>3
<1>20. ASSUME NEW j \in 1 .. c, NEW k \in 1 .. c, j < k
       PROVE  place[j] < place[k]
    <2>1. 2 + j \in 1 .. last /\ 2 + k \in 1 .. last /\ 2 + j < 2 + k
        BY <1>10, <1>20
    <2>2. f[2 + j] < f[2 + k]
        BY <1>5, <2>1 DEF Stores
    <2> QED
        BY <1>16, <2>2
<1>21. ~AutoApplies(Documents[program])
    <2>1. ASSUME NEW j \in 1 .. last, commands[j] = Command("change.apply", [program |-> program])
          PROVE  FALSE
        <3>1. commands[j].type = "change.apply" /\ commands[j].data = [program |-> program]
            BY <2>1 DEF Command
        <3>2. f[j] \in DOMAIN log /\ log[f[j]].type = "change.apply" /\ log[f[j]].data = [program |-> program]
            BY <1>5, <1>11, <3>1 DEF Stores
        <3>3. "plan_id" \in DOMAIN [program |-> program]
            BY <3>2 DEF ChangesPlanned
        <3> QED
            BY <3>3
    <2> QED
        BY <1>8, <2>1
<1>22. log[i].data.status = "executed" <=> compiled = <<>>
    BY <1>3, <1>5, <1>21 DEF ExecutionRecord, Command
<1>23. compiled = <<>> <=> c = 0
    BY <1>3, <1>4, PlansTyped
<1>24. plans = {} <=> c = 0
    <2>1. c = 0 => plans = {}
        BY <1>19
    <2>2. c # 0 => 1 \in 1 .. c
        BY <1>7
    <2> QED
        BY <1>18, <2>1, <2>2
<1>25. PICK record : record = log[i].data
    OBVIOUS
<1>26. PICK mine : mine = Mine(n)
    OBVIOUS
<1>27. \E p \in [DOMAIN compiled -> plans] :
        /\ \A k \in plans : \E j \in DOMAIN compiled : p[j] = k
        /\ \A j, k \in DOMAIN compiled : j < k => p[j] < p[k]
        /\ \A j \in DOMAIN compiled : log[p[j]].data.plan = compiled[j]
    <2>1. DOMAIN compiled = 1 .. c
        BY <1>7
    <2>2. /\ \A k \in plans : \E j \in 1 .. c : place[j] = k
          /\ \A j, k \in 1 .. c : j < k => place[j] < place[k]
        BY <1>19, <1>20
    <2>3. /\ place \in [DOMAIN compiled -> plans]
          /\ \A k \in plans : \E j \in DOMAIN compiled : place[j] = k
          /\ \A j, k \in DOMAIN compiled : j < k => place[j] < place[k]
          /\ \A j \in DOMAIN compiled : log[place[j]].data.plan = compiled[j]
        BY <1>18, <2>1, <2>2
    <2> place \in [DOMAIN compiled -> plans]
        BY <2>3
    <2> WITNESS place \in [DOMAIN compiled -> plans]
    <2> QED
        BY <2>3
<1>28. record.status = "executed" <=> plans = {}
    BY <1>22, <1>23, <1>24, <1>25
<1>29. Whole(i, record, compiled, mine, n, plans)
    BY <1>5, <1>12, <1>13, <1>14, <1>25, <1>26, <1>27, <1>28 DEF Whole
<1> QED
    BY <1>3, <1>5, <1>15, <1>25, <1>26, <1>29

\* However handlers of the API and of the CLI interleave, conflict or die, what
\* a program stores was valid when its handler began, and the record of an
\* execution speaks for the whole of its program (apply_project_dsl,
\* dsl_apply_cmd).
THEOREM ExecutionsStayWhole == Spec => []ExecutionsAreWhole
<1>1. Init => TypeInv /\ ExecutionsInv
    BY TypesInit, ExecutionsInit
<1>2. TypeInv /\ ExecutionsInv /\ [Next]_vars => TypeInv' /\ ExecutionsInv'
    BY TypesStep, DistinctStep, StoringStep, ExecutionsStep, ChangesPlannedStep, ProgramsValidStep DEF ExecutionsInv
<1>3. TypeInv /\ ExecutionsInv => ExecutionsAreWhole
    <2> SUFFICES ASSUME TypeInv, ExecutionsInv
                 PROVE  ExecutionsAreWhole
        OBVIOUS
    <2>1. \A e \in ToSet(log) : "program" \in DOMAIN e.data =>
            Verdicts[e.data.program][Revision(e.basis)] = "valid"
        BY DEF ExecutionsInv, ProgramsValid, ToSet
    <2>2. \A i \in DOMAIN log : log[i].type = "dsl.execution.record" =>
            Whole(i, log[i].data, PlansOf(Documents[log[i].data.program]), Mine(log[i].by), log[i].by,
                  Typed(log[i].by, "change.plan.record"))
        BY RecordsAreWhole DEF ExecutionsInv
    <2> QED
        BY <2>1, <2>2 DEF ExecutionsAreWhole, Whole, Mine, Typed
<1> QED
    BY <1>1, <1>2, <1>3, PTL DEF Spec
=============================================================================
