-------------------------- MODULE MCEvolutionEngine -------------------------
(* Programs over a housing with a lid and a hinge.  The verb graph has a    *)
(* diamond and a cycle; one artifact belongs to two objects.                *)
EXTENDS EvolutionEngine

Verb(up, down, beside, against) ==
    [hypernym |-> up, hyponym |-> down, synonym |-> beside, opposite |-> against]

MCVerbGraph ==
    [open |-> Verb(<<"release", "move">>, <<"slide">>, <<"release">>, <<"close">>),
     release |-> Verb(<<"move">>, <<>>, <<>>, <<>>),
     slide |-> Verb(<<"move">>, <<"glide">>, <<>>, <<>>),
     move |-> Verb(<<"change">>, <<"open", "slide">>, <<>>, <<>>)]

MCObjects == <<"body", "hinge", "lid">>
MCParent == [body |-> "none", lid |-> "body", hinge |-> "lid"]

Found(node, kind) == [node |-> node, kind |-> kind]
MCOwn == [body |-> <<Found("wall", "parameter"), Found("sheet", "artifact")>>,
          lid |-> <<Found("rim", "feature"), Found("sheet", "artifact")>>,
          hinge |-> <<>>]
MCShared == <<[node |-> "need", kind |-> "requirement", targets |-> {"lid"}],
              [node |-> "room", kind |-> "environment", targets |-> {}]>>

MCAncestry == [body |-> <<"body">>, lid |-> <<"lid">>, hinge |-> <<"hinge">>,
               wall |-> <<"body">>, rim |-> <<"lid">>, sheet |-> <<>>,
               need |-> <<>>, room |-> <<>>, knob |-> <<>>]

MCAssociated ==
    [v \in {"open", "release", "move", "change", "slide", "glide", "close"} |->
        CASE v = "open" -> <<"rim", "hinge", "wall">>
          [] OTHER -> <<"rim", "wall">>]

MCTemplate == <<"concept", "design", "release">>

Op(name, on) == [operator |-> name, enabled |-> on]
Change(kind, target) == [kind |-> kind, target |-> target]

Base ==
    [current |-> TRUE, targets |-> <<"lid">>, verb |-> "open", seeds |-> <<>>,
     up |-> 2, down |-> 1, sideways |-> 1, opposites |-> TRUE, maxTerms |-> 6,
     include |-> {"parameter", "feature", "artifact", "requirement", "environment"},
     maxResources |-> 3, descendants |-> TRUE, lenses |-> <<"shape", "use">>,
     population |-> 2, generations |-> 2, crossover |-> FALSE,
     operators |-> <<Op("parameter_shift", TRUE), Op("modularize", TRUE)>>,
     constraints |-> {}, selectTop |-> 2, minScore |-> 2, maxPlans |-> 2,
     includePlans |-> TRUE, explicit |-> <<>>, allowed |-> {"set_parameter"},
     approval |-> TRUE, model |-> FALSE, mode |-> "change_plan",
     start |-> "concept", target |-> "release", enable |-> {}, disable |-> {}]

Narrow == [Base EXCEPT !.maxTerms = 1, !.maxResources = 1, !.targets = <<"hinge">>]

MCPrograms ==
    {Base,
     [Base EXCEPT !.current = FALSE],
     [Base EXCEPT !.targets = <<"lid", "knob">>],
     [Base EXCEPT !.seeds = <<"move", "release">>, !.up = 1, !.down = 2, !.maxTerms = 4],
     [Base EXCEPT !.targets = <<"body">>, !.maxResources = 5, !.lenses = <<>>],
     [Base EXCEPT !.targets = <<"hinge", "lid">>, !.descendants = FALSE, !.sideways = 0,
                  !.opposites = FALSE, !.minScore = 1, !.selectTop = 1],
     [Base EXCEPT !.population = 3, !.generations = 2, !.selectTop = 3, !.minScore = 3],
     [Base EXCEPT !.generations = 3, !.crossover = TRUE, !.lenses = <<"shape">>],
     [Narrow EXCEPT !.population = 3, !.crossover = TRUE],
     [Narrow EXCEPT !.crossover = TRUE, !.population = 3, !.selectTop = 1,
                    !.operators = <<Op("remove_part", TRUE), Op("add_observability", FALSE),
                                    Op("substitute_material", TRUE)>>],
     [Narrow EXCEPT !.model = TRUE, !.population = 3, !.maxPlans = 1],
     [Narrow EXCEPT !.model = TRUE, !.population = 4, !.maxPlans = 0, !.minScore = 0],
     [Base EXCEPT !.operators = <<Op("change_state", FALSE)>>],
     [Base EXCEPT !.constraints = {"violated"}, !.minScore = 1,
                  !.explicit = <<Change("set_parameter", "rim")>>, !.approval = FALSE],
     [Base EXCEPT !.constraints = {"unresolved"}, !.includePlans = FALSE],
     [Base EXCEPT !.explicit = <<Change("set_parameter", "lid"), Change("add_feature", "lid")>>],
     [Base EXCEPT !.explicit = <<Change("set_parameter", "body")>>],
     [Base EXCEPT !.mode = "analysis_only", !.enable = {"concept", "release"}],
     [Base EXCEPT !.disable = {"release"}]}

MCReplies == {<<>>, <<[legal |-> TRUE]>>, <<[legal |-> FALSE], [legal |-> TRUE]>>}
=============================================================================
