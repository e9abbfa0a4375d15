--------------------------- MODULE HousingChanges ---------------------------
(***************************************************************************)
(* The dimensions of a parametric housing: from a prompt to a change plan  *)
(* (change_planner.py), from the plan to patched parameters and their undo *)
(* (apply_change_plan, undo_change), and from the parameters to the design *)
(* that is generated and written back (cad_regeneration.py).               *)
(*                                                                         *)
(* CadJobs has the interleaving of these handlers with other writers; here *)
(* a handler is one step.  What CadJobs shows may happen to the handler's  *)
(* second command, the request for the files, is a choice of that step.    *)
(*                                                                         *)
(* A housing is a base and a lid.  Each object has parameters, some of     *)
(* which are not stored at first; the lid's height is one of these and     *)
(* then follows from the total height.  Lengths are whole millimetres.     *)
(***************************************************************************)
EXTENDS Integers, Sequences, FiniteSets, SequencesExt

CONSTANTS
    Initial,     \* the parameters of the new project: a function from some keys
    Default,     \* what the generator takes for a parameter that is not stored
    Joint,       \* the height of the lid's vertical section
    Owner,       \* the object that a selectable node is, or belongs to
    Asks,        \* what a client may ask, and what the language model answers
    ByMcp,       \* are plans applied through /mcp too?
    MaxPlans,    \* bound on the plans
    MaxChanges   \* bound on the applications and undos

Kinds == {"set_parameter", "add_feature", "suppress_feature", "transform_feature", "boolean_cut",
          "boolean_add", "replace_component", "update_manufacturing", "attach_requirement",
          "add_test", "add_annotation"}

\* The parameters of the prompts and of the generator.
Parameters == {"height", "width", "depth", "wall_thickness", "floor_thickness", "total_height",
               "auxiliary_boss_top_z"}

Keys == {"base", "lid"} \X Parameters

BaseHeight  == <<"base", "height">>
BaseWall    == <<"base", "wall_thickness">>
Floor       == <<"base", "floor_thickness">>
LidHeight   == <<"lid", "height">>
LidTop      == <<"lid", "wall_thickness">>
TotalHeight == <<"lid", "total_height">>
BossTop     == <<"lid", "auxiliary_boss_top_z">>

ASSUME HousingAssumption ==
    /\ Owner \in [DOMAIN Owner -> {"base", "lid"}]
    /\ {"base", "lid"} \subseteq DOMAIN Owner /\ Owner["base"] = "base" /\ Owner["lid"] = "lid"
    /\ \A p \in {Initial, Default} :
           DOMAIN p \subseteq Keys /\ p \in [DOMAIN p -> Nat \ {0}]
    /\ {BaseHeight, BaseWall, Floor, LidTop, TotalHeight, BossTop} \subseteq DOMAIN Default
    /\ \A ask \in Asks :
        LET r == ask.request
        IN  /\ r.scope \in Seq(DOMAIN Owner) /\ r.scope # <<>>
            /\ {r.by, r.to, r.thickness} \subseteq Nat /\ r.sense \in {-1, 0, 1}
            /\ r.names \subseteq Parameters /\ r.geometry \in Seq(Kinds \ {"set_parameter"})
            /\ {r.implied, r.faces} \subseteq BOOLEAN /\ (r.implied => r.sense # 0)
            /\ ask.proposal \in Seq([kind : Kinds, target : DOMAIN Owner,
                                     parameter : Parameters \cup {"none"}, value : Int])
            /\ \A i \in DOMAIN ask.proposal : ask.proposal[i].kind = "set_parameter" =>
                  ask.proposal[i].value # 0 /\ ask.proposal[i].parameter \in Parameters
    /\ Joint \in Nat /\ ByMcp \in BOOLEAN
    /\ MaxPlans \in Nat /\ MaxChanges \in Nat

VARIABLES
    params,      \* the stored parameters: key -> value
    built,       \* the cad_dimensions of the newest design
    planned,     \* the recorded plans
    log,         \* the changes, requests and completed generations of the stream
    jobs         \* the generations under way, each with its snapshot

housing == <<params, built, planned, log, jobs>>

\* No length is zero: zero stands for None.
NoValue == 0

NotBuilt == [base |-> 0, lid |-> 0, source |-> 0, boss |-> 0, top |-> 0, floor |-> 0, wall |-> 0]

-----------------------------------------------------------------------------
\* From parameters to a design.

Stored(p, key) == IF key \in DOMAIN p THEN p[key] ELSE Default[key]

\* The lid as it was generated, unless the total height changed since.
GeneratedLid(b, total) == IF b.source = total THEN b.lid ELSE NoValue

\* The lid's height: overridden, stored, as generated, or what the total
\* height leaves, in this order.
LidOf(p, b, override) ==
    LET total == Stored(p, TotalHeight)
        known == IF LidHeight \in DOMAIN p THEN p[LidHeight] ELSE GeneratedLid(b, total)
    IN  CASE override # NoValue -> override
          [] override = NoValue /\ known # NoValue -> known
          [] OTHER -> total - Stored(p, BaseHeight)

Design(p, b, override) ==
    [base |-> Stored(p, BaseHeight), lid |-> LidOf(p, b, override), source |-> Stored(p, TotalHeight),
     boss |-> Stored(p, BossTop), top |-> Stored(p, LidTop), floor |-> Stored(p, Floor),
     wall |-> Stored(p, BaseWall)]

\* A design that breaks one of these is a ValueError.  The ranges of the
\* fields and the room for the boards are left out.
Consistent(d) == d.floor < d.base /\ d.top < d.lid /\ Joint < d.lid

\* AUX_BOSS_TOP_ABOVE_LID is the one error among the warnings on heights.
Buildable(d) == Consistent(d) /\ d.boss <= d.lid

\* physical_component_height.
PhysicalHeight(p, b, object) ==
    LET direct == <<object, "height">>
        lid    == LidOf(p, b, NoValue)
    IN  CASE direct \in DOMAIN p -> p[direct]
          [] direct = LidHeight /\ direct \notin DOMAIN p /\ TotalHeight \in DOMAIN p /\ lid > 0 -> lid
          [] OTHER -> NoValue

\* physical_component_parameter, for a key that is not stored.
Physical(p, b, key) ==
    CASE key = BossTop /\ Consistent(Design(p, b, NoValue)) -> Default[BossTop]
      [] key[2] = "height" -> PhysicalHeight(p, b, key[1])
      [] OTHER -> NoValue

\* lid_height_dependency: a boss above the lower roof follows it, sunk into
\* the roof as deep as before, or as deep as by default.
Dependency(p, b, object, height) ==
    LET d       == Design(p, b, NoValue)
        deep    == d.boss - (d.lid - d.top)
        usual   == Default[BossTop] - (Default[TotalHeight] - Default[BaseHeight] - Default[LidTop])
        moves   == object = "lid" /\ Consistent(d) /\ d.boss > height
    IN  IF moves THEN height - d.top + (IF deep \in 1..5 THEN deep ELSE usual) ELSE NoValue

-----------------------------------------------------------------------------
\* From a request to operations.

SetOp(target, parameter, value) ==
    [kind |-> "set_parameter", target |-> target, parameter |-> parameter, value |-> value]

Deferred(target, kind) == [kind |-> kind, target |-> target, parameter |-> "none", value |-> NoValue]

Aliased == <<"wall_thickness", "floor_thickness", "height", "width", "depth">>

\* The first parameter the prompt names and the object stores; "lower" and
\* "raise" alone mean the height.
Named(p, r, object, aliases) ==
    LET hits == {i \in DOMAIN aliases : aliases[i] \in r.names /\ <<object, aliases[i]>> \in DOMAIN p}
    IN  CASE hits # {} -> aliases[Min(hits)]
          [] hits = {} /\ r.implied -> "height"
          [] OTHER -> "none"

Measured(p, b, key) ==
    CASE key \in DOMAIN p -> p[key]
      [] key \notin DOMAIN p /\ key[2] = "height" -> PhysicalHeight(p, b, key[1])
      [] OTHER -> NoValue

\* "lower the lid by 3 mm"
RelativeStep(p, b, r, object) ==
    LET name   == Named(p, r, object, Aliased)
        before == Measured(p, b, <<object, name>>)
        after  == before + r.sense * r.by
    IN  IF r.sense # 0 /\ r.by > 0 /\ before # NoValue /\ after > 0
        THEN <<SetOp(object, name, after)>> ELSE <<>>

\* "set the height to 21 mm"; the wall thickness has a rule of its own.
AbsoluteStep(p, b, r, object) ==
    LET name == Named(p, r, object, Tail(Aliased))
    IN  IF r.to > 0 /\ Measured(p, b, <<object, name>>) # NoValue
        THEN <<SetOp(object, name, r.to)>> ELSE <<>>

\* A number near "thickness", whichever thickness it is: of the wall, or of
\* the faces that were hit.
ThicknessStep(r, object) ==
    IF r.sense # 0 \/ r.thickness = NoValue THEN <<>>
    ELSE IF r.faces THEN <<Deferred(object, "add_feature")>>
    ELSE <<SetOp(object, "wall_thickness", r.thickness)>>

\* Holes, chamfers and moves are left to a CAD adapter.
GeometrySteps(r, object) == [i \in DOMAIN r.geometry |-> Deferred(object, r.geometry[i])]

LocalOps(p, b, r) ==
    LET object   == r.scope[1]
        relative == RelativeStep(p, b, r, object)
        step     == IF relative # <<>> THEN relative ELSE AbsoluteStep(p, b, r, object)
        ops      == step \o ThicknessStep(r, object) \o GeometrySteps(r, object)
    IN  IF ops = <<>> THEN <<Deferred(object, "add_annotation")>> ELSE ops

Sets(ops, target, parameter) ==
    \E i \in DOMAIN ops : /\ ops[i].kind = "set_parameter"
                          /\ ops[i].target = target /\ ops[i].parameter = parameter

\* _with_cad_dependencies: the boss follows the height that is set for the
\* lid itself, unless the plan sets it.
WithDependencies(p, b, ops) ==
    LET moving == {i \in DOMAIN ops : /\ ops[i].kind = "set_parameter" /\ ops[i].parameter = "height"
                                      /\ Dependency(p, b, ops[i].target, ops[i].value) # NoValue}
        op == ops[Min(moving)]
    IN  IF moving = {} \/ Sets(ops, op.target, BossTop[2]) THEN ops
        ELSE Append(ops, SetOp(op.target, BossTop[2], Dependency(p, b, op.target, op.value)))

InsideScope(ops, scope) ==
    \A i \in DOMAIN ops : \E j \in DOMAIN scope : scope[j] \in {ops[i].target, Owner[ops[i].target]}

\* plan: a proposal of the model outside the scope, or none, leaves the
\* local rules.
OpsFor(p, b, ask) ==
    LET proposed == WithDependencies(p, b, ask.proposal)
    IN  IF ask.proposal # <<>> /\ InsideScope(proposed, ask.request.scope) THEN proposed
        ELSE WithDependencies(p, b, LocalOps(p, b, ask.request))

-----------------------------------------------------------------------------
\* From operations to patches.

Patch(key, value, before) == [key |-> key, value |-> value, before |-> before]

\* Faulty variant: a parameter that is not stored is taken for one without
\* a value.
BeforeOfStored(p, b, key) == IF key \in DOMAIN p THEN p[key] ELSE NoValue

\* What an undo will restore.
Before(p, b, key) == IF key \in DOMAIN p THEN p[key] ELSE Physical(p, b, key)

\* Patches are kept under the place of their operation.
KeysIn(patches) == {patches[i].key : i \in DOMAIN patches}
PlacesOf(patches, key) == {i \in DOMAIN patches : patches[i].key = key}

PatchOf(p, b, op) ==
    LET key == <<Owner[op.target], op.parameter>> IN Patch(key, op.value, Before(p, b, key))

\* compile_apply_payload: the dependency once more, now for the object that
\* a target belongs to.
Compiled(p, b, ops) ==
    LET setting == {i \in DOMAIN ops : ops[i].kind = "set_parameter"}
        direct  == [i \in setting |-> PatchOf(p, b, ops[i])]
        Top(i)  == Dependency(p, b, direct[i].key[1], direct[i].value)
        moving  == {i \in setting : direct[i].key[2] = "height" /\ Top(i) # NoValue}
    IN  IF moving = {} \/ BossTop \in KeysIn(direct) THEN direct
        ELSE [i \in setting \cup {Len(ops) + 1} |->
                 IF i \in setting THEN direct[i]
                 ELSE Patch(BossTop, Top(Min(moving)), Stored(p, BossTop))]

\* The last patch of a parameter stays.
LastOf(patches, key) == patches[Max(PlacesOf(patches, key))]

Patched(p, patches) ==
    [key \in DOMAIN p \cup KeysIn(patches) |->
        IF key \in KeysIn(patches) THEN LastOf(patches, key).value ELSE p[key]]

\* The parameters an undo leaves: a patch without a value before it is removed.
Restored(p, patches) ==
    LET gone == {key \in KeysIn(patches) : LastOf(patches, key).before = NoValue}
    IN  [key \in (DOMAIN p \cup KeysIn(patches)) \ gone |->
            IF key \in KeysIn(patches) THEN LastOf(patches, key).before ELSE p[key]]

\* Faulty variant: only a height that the plan sets is passed to the generator.
OverrideOfLid(p, b, patches) ==
    IF LidHeight \in KeysIn(patches) THEN patches[Min(PlacesOf(patches, LidHeight))].value ELSE NoValue

\* dimension_overrides_for_change: a change of the base keeps the lid.
Override(p, b, patches) ==
    LET set == patches[Min(PlacesOf(patches, LidHeight))].value
    IN  CASE LidHeight \in KeysIn(patches) -> IF set > 0 THEN set ELSE NoValue
          [] /\ LidHeight \notin KeysIn(patches) /\ BaseHeight \in KeysIn(patches)
             /\ TotalHeight \notin KeysIn(patches) -> Design(p, b, NoValue).lid
          [] OTHER -> NoValue

\* Where the override is read off a design, the design has to exist.
OverrideExists(p, b, patches) ==
    \/ LidHeight \in KeysIn(patches) \/ BaseHeight \notin KeysIn(patches)
    \/ TotalHeight \in KeysIn(patches) \/ Consistent(Design(p, b, NoValue))

\* validate_parameter_change.
Preflight(p, b, patches) ==
    \/ DOMAIN patches = {}
    \/ Buildable(Design(Patched(p, patches), b, Override(p, b, patches)))

-----------------------------------------------------------------------------
\* The stream.

Of(kind) == {i \in DOMAIN log : log[i].kind = kind}

\* Each application and each undo sets a new revision, a generation does not.
Changes == Of("applied") \cup Of("reverted")
Revision == Cardinality(Changes)

UndoneOnes == {log[i].change : i \in Of("reverted")}
KeysOf(i) == KeysIn(log[i].patches)

\* _change_is_latest_for_parameters.
LatestForKeys(i) ==
    \A later \in Of("applied") \ UndoneOnes : later > i => KeysOf(later) \cap KeysOf(i) = {}

\* _latest_cad_job.
NewestRequest == CHOOSE i \in Of("requested") : \A j \in Of("requested") : j <= i

\* Nothing is under way, and the generated design is that of the parameters.
Settled ==
    /\ jobs = {}
    /\ Changes # {} => built = Design(params, built, NoValue)

\* History: the design that a plan or a change starts from, if it is settled;
\* a change also keeps whether the lid's height was stored by then (own).
Standing == IF Settled THEN Design(params, built, NoValue) ELSE NotBuilt

HousingInit ==
    /\ params = Initial /\ built = NotBuilt
    /\ planned = <<>> /\ log = <<>> /\ jobs = {}

\* create_change_plan.
MakePlan(ask) ==
    /\ Len(planned) < MaxPlans
    /\ planned' = Append(planned, [base |-> Revision, ops |-> OpsFor(params, built, ask),
                                   ask |-> ask, from |-> Standing])
    /\ UNCHANGED <<params, built, log, jobs>>

\* _queue_cad_regeneration after `change`, unless its command conflicts.
Queue(change, p, override, requested) ==
    IF requested
    THEN /\ log' = log \o <<change, [kind |-> "requested", change |-> Len(log) + 1]>>
         /\ jobs' = jobs \cup {[id |-> Len(log) + 2, params |-> p, built |-> built,
                                override |-> override]}
    ELSE log' = Append(log, change) /\ jobs' = jobs

Application(i, patches, via) ==
    [kind |-> "applied", plan |-> i, patches |-> patches, via |-> via,
     from |-> Standing, own |-> LidHeight \in DOMAIN params]

\* apply_change_plan: a plan without patches changes the revision only.
Apply(i, requested) ==
    LET patches == Compiled(params, built, planned[i].ops)
    IN  /\ Revision < MaxChanges
        /\ planned[i].base = Revision
        /\ OverrideExists(params, built, patches) /\ Preflight(params, built, patches)
        /\ params' = Patched(params, patches)
        /\ Queue(Application(i, patches, "rest"), params', Override(params, built, patches),
                 requested /\ DOMAIN patches # {})
        /\ UNCHANGED <<built, planned>>

\* The MCP tool compares no revision, asks for no preflight and no files.
ApplyByMcp(i) ==
    LET patches == Compiled(params, built, planned[i].ops)
    IN  /\ ByMcp /\ Revision < MaxChanges
        /\ params' = Patched(params, patches)
        /\ log' = Append(log, Application(i, patches, "mcp"))
        /\ UNCHANGED <<built, planned, jobs>>

\* undo_change.
Undo(i, requested) ==
    /\ Revision < MaxChanges
    /\ i \notin UndoneOnes /\ DOMAIN log[i].patches # {} /\ LatestForKeys(i)
    /\ params' = Restored(params, log[i].patches)
    /\ Queue([kind |-> "reverted", change |-> i], params', NoValue, requested)
    /\ UNCHANGED <<built, planned>>

\* Faulty variant: the lid is written back as what the total height leaves.
WrittenBackTotal(p, d) ==
    (LidHeight :> d.source - d.base) @@ (BossTop :> d.boss) @@ p

\* records_from_manifest: the objects of the snapshot, with two parameters
\* synchronised.
WrittenBack(p, d) ==
    [key \in DOMAIN p \cup {LidHeight, BossTop} |->
        IF key = LidHeight THEN d.lid ELSE IF key = BossTop THEN d.boss ELSE p[key]]

\* _complete_cad_regeneration; an older job is superseded.
Regenerate(job) ==
    LET d == Design(job.params, job.built, job.override)
    IN  /\ Buildable(d)
        /\ jobs' = jobs \ {job}
        /\ IF job.id = NewestRequest
           THEN /\ params' = WrittenBack(job.params, d)
                /\ built' = d
                /\ log' = Append(log, [kind |-> "completed", request |-> job.id, design |-> d])
           ELSE UNCHANGED <<params, built, log>>
        /\ UNCHANGED planned

\* A design that cannot be built, a full disk, a refused completion.
GenerationFails(job) ==
    /\ jobs' = jobs \ {job}
    /\ UNCHANGED <<params, built, planned, log>>

HousingNext ==
    \/ \E ask \in Asks : MakePlan(ask)
    \/ \E i \in DOMAIN planned, requested \in BOOLEAN : Apply(i, requested)
    \/ \E i \in DOMAIN planned : ApplyByMcp(i)
    \/ \E i \in Of("applied"), requested \in BOOLEAN : Undo(i, requested)
    \/ \E job \in jobs : Regenerate(job)
    \/ \E job \in jobs : GenerationFails(job)

HousingSpec == HousingInit /\ [][HousingNext]_housing

-----------------------------------------------------------------------------
\* Properties.

Fields == {"base", "lid", "boss", "top", "floor", "wall"}
KeyOf == [base |-> BaseHeight, lid |-> LidHeight, boss |-> BossTop, top |-> LidTop,
          floor |-> Floor, wall |-> BaseWall]

\* The change that a completed generation answers.
Answered(i) == log[log[i].request].change

\* A change of a settled design, planned on that design.
Planned(i) ==
    /\ log[i].kind = "applied" /\ log[i].via = "rest"
    /\ log[i].from # NotBuilt /\ planned[log[i].plan].from = log[i].from
    /\ TotalHeight \notin KeysOf(i)

\* The prompt names an amount, and neither a parameter nor a target value.
ByAmount(ask) ==
    /\ ask.proposal = <<>> /\ ask.request.implied /\ ask.request.names = {}
    /\ ask.request.by > 0 /\ ask.request.to = 0

Amount(ask) == ask.request.sense * ask.request.by

\* The design has the patched dimensions, and the others of the one before.
Answers(change, design) ==
    \A f \in Fields :
        IF KeyOf[f] \in KeysIn(change.patches)
        THEN \E j \in PlacesOf(change.patches, KeyOf[f]) : design[f] = change.patches[j].value
        ELSE design[f] = change.from[f]

\* The design answers the change; asked for an amount, by that amount.
Exact(i, design) ==
    LET ask    == planned[log[i].plan].ask
        object == ask.request.scope[1]
    IN  /\ Answers(log[i], design)
        /\ ByAmount(ask) => design[object] = log[i].from[object] + Amount(ask)

\* A change that was planned and applied on a settled design generates that
\* design with the patched dimensions and no other dimension changed; one
\* that a prompt asks for by an amount only changes it by that amount.
StepsAreExact ==
    \A i \in Of("completed") : Planned(Answered(i)) => Exact(Answered(i), log[i].design)

\* The undo of the latest change, which a settled design was changed by.
\* Excepted is a change of the total height while the lid's own is not
\* stored: the generation it asked for stores it, and the undo keeps it.
UndoesLatest(undo) ==
    LET change == log[undo].change
    IN  /\ log[undo].kind = "reverted" /\ log[change].from # NotBuilt
        /\ \A k \in Changes : change < k => undo <= k
        /\ TotalHeight \in KeysOf(change) => log[change].own

\* The new housing stores its total height, and has a lid.
NewHousing == TotalHeight \in DOMAIN Initial /\ LidOf(Initial, NotBuilt, NoValue) > 0

\* An undo of the latest change of a settled design generates that design
\* again (undo_change, dimension_overrides_for_change).
UndoReturnsToBuilt ==
    \A i \in Of("completed") :
        UndoesLatest(Answered(i)) => log[i].design = log[log[Answered(i)].change].from

\* After a generation the parameters describe the design that was generated,
\* with the override that the generation was given and the parameters do not
\* have; so the next change starts from what was built.
BuiltDesignStands ==
    (log # <<>> /\ log[Len(log)].kind = "completed") =>
        /\ Design(params, built, NoValue) = log[Len(log)].design
        /\ PhysicalHeight(params, built, "lid") = built.lid

\* "Preserve unedited component dimensions across a coupled assembly
\* regeneration" (cad_regeneration.py:245): as long as no change sets the
\* height of the lid or of the whole, every generated lid has the height
\* that it had at first.
UneditedLidStands ==
    (\A i \in Of("applied") : KeysOf(i) \cap {LidHeight, TotalHeight} = {}) =>
        \A i \in Of("completed") : log[i].design.lid = LidOf(Initial, NotBuilt, NoValue)
=============================================================================
