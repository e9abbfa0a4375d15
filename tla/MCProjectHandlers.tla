-------------------------- MODULE MCProjectHandlers --------------------------
(* Two processes that apply programs, two threads that record updates, three *)
(* MQTT messages; a lifecycle of three stages.                               *)
EXTENDS ProjectHandlers, TLC

L(directive, args, option) == [directive |-> directive, args |-> args, option |-> option, ok |-> TRUE]
NoOptions == [none \in {} |-> ""]
Bad(line) == [line EXCEPT !.ok = FALSE]

Change(kind, patch) == [kind |-> kind, target |-> "part", patch |-> patch]

MCTemplates == [hardware |-> <<"design", "proto", "release">>]

MCDefaults ==
    [REVISION |-> "main", TEMPLATE |-> "hardware", START |-> "design", TARGET |-> "release",
     MODE |-> "change_plan", DRY_RUN |-> TRUE, APPROVAL |-> TRUE, MAX_PLANS |-> 3,
     INCLUDE_CHANGE_PLANS |-> TRUE, PERSIST_ARTIFACTS |-> TRUE,
     ALLOW_OPERATIONS |-> <<"set_parameter">>]

MCRequired == [design |-> {"cad"}, proto |-> {"test"}, release |-> {}]
MCShortlist == <<"candidate">>

MCKinds == [model |-> "cad", trial |-> "test"]

ProjectLine == L("PROJECT", <<"demo">>, NoOptions)
FocusLine == L("FOCUS", <<"part", "part">>, NoOptions)
OutcomeLine(text) == L("OUTCOME", <<text>>, NoOptions)
GoalLine == L("GOAL", <<"lighter">>, [STATEMENT |-> "improve part lighter"])

Core == <<ProjectLine, FocusLine, OutcomeLine("stronger")>>
NoPlans == <<L("INCLUDE_CHANGE_PLANS", <<FALSE>>, NoOptions)>>
ChangeLine(kind, patch) == L("CHANGE", <<Change(kind, patch)>>, NoOptions)
NoFiles == <<L("PERSIST_ARTIFACTS", <<FALSE>>, NoOptions)>>

MCPrograms ==
    [plain |-> Core \o NoFiles, noplans |-> Core \o NoPlans \o NoFiles,
     files |-> Core \o NoPlans \o <<ChangeLine("set_parameter", TRUE)>>,
     auto |-> Core \o NoPlans \o <<ChangeLine("set_parameter", TRUE),
        L("REALIZE", <<"auto_apply_safe">>, [DRY_RUN |-> FALSE, APPROVAL |-> FALSE])>>,
     short |-> Core \o NoPlans \o NoFiles \o <<L("DISABLE_STAGE", <<"proto">>, NoOptions),
        L("LIFECYCLE", <<"hardware">>, [START |-> "design"])>>,
     cut |-> Append(Core, ChangeLine("boolean_cut", FALSE)),
     endless |-> Append(Core, L("DISABLE_STAGE", <<"release">>, NoOptions)),
     bogus |-> Append(Core, L("BOGUS", <<>>, NoOptions))]

MCLines ==
    {ProjectLine, L("PROJECT", <<"other">>, [REVISION |-> "old"]), FocusLine, GoalLine,
     OutcomeLine("stronger"), OutcomeLine("cheaper"), Bad(L("SELECT_TOP", <<>>, NoOptions)),
     L("END", <<>>, NoOptions), L(Unbalanced, <<>>, NoOptions), L("BOGUS", <<>>, NoOptions)}

MCMessages ==
    {[id |-> "pinned", route |-> "execute", pinned |-> TRUE],
     [id |-> "blind", route |-> "execute", pinned |-> FALSE],
     [id |-> "bogus", route |-> "unsupported", pinned |-> FALSE],
     [id |-> "plan", route |-> "plan-change", pinned |-> FALSE]}

MCEvidence == {{}, {"model"}, {"trial"}, {"model", "unknown"}}

Quiet == [clients |-> {}, programs |-> {}, roles |-> {"editor"}, outside |-> {}, messages |-> {},
          stored |-> None, handlers |-> 0, events |-> 0]

MCScenarios ==
    {[Quiet EXCEPT !.clients = {"author"}],
     [Quiet EXCEPT !.clients = {"documents"}, !.programs = {"plain", "cut", "endless", "bogus"},
                   !.outside = {"change"}, !.handlers = 2, !.events = 6],
     [Quiet EXCEPT !.clients = {"documents"}, !.programs = {"files", "auto"},
                   !.handlers = 2, !.events = 7],
     [Quiet EXCEPT !.clients = {"stages"}, !.stored = "noplans", !.roles = {"editor", "admin"},
                   !.outside = {"model", "trial"}, !.handlers = 2, !.events = 7],
     [Quiet EXCEPT !.clients = {"documents", "stages"}, !.stored = "noplans",
                   !.programs = {"short"}, !.roles = {"admin"}, !.handlers = 2, !.events = 6],
     [Quiet EXCEPT !.clients = {"updates"}, !.outside = {"change"}, !.handlers = 3, !.events = 3],
     [Quiet EXCEPT !.clients = {"updates"}, !.handlers = 3, !.events = 3,
                   !.messages = {m \in MCMessages : m.id = "pinned"}],
     [Quiet EXCEPT !.messages = {m \in MCMessages : m.id \in {"pinned", "blind"}},
                   !.outside = {"change"}, !.handlers = 3, !.events = 4],
     [Quiet EXCEPT !.messages = {m \in MCMessages : m.id \in {"plan", "bogus"}},
                   !.handlers = 3, !.events = 3]}

Symmetry == Permutations(Threads)
=============================================================================
