-------------------------- MODULE EvolutionEngine --------------------------
(***************************************************************************)
(* One compilation of an evolution program: ProjectEvolutionEngine.run and *)
(* compile_dsl.  The functions that run calls one after the other are the  *)
(* steps; the lists they hand on are the variables.  Texts, hashes and the *)
(* ten scores of a candidate are data: an identifier is a place in a list, *)
(* the token overlap of verb and resource is the constant Associated, the  *)
(* overall score is chosen.  Places count from 1 where the code counts     *)
(* from 0.                                                                 *)
(***************************************************************************)
EXTENDS Integers, Sequences, FiniteSets, SequencesExt

CONSTANTS
    Programs,    \* the programs a client may submit
    VerbGraph,   \* verb -> [hypernym, hyponym, synonym, opposite : Seq(verb)]
    Objects,     \* the objects of the snapshot, sorted by URI
    Parent,      \* object -> parent object, or None
    Own,         \* object -> the resources found on it, in the code's order
    Shared,      \* requirements, claims, human steps, environment
    Ancestry,    \* resource node -> the objects whose URI is its prefix, longest first
    Associated,  \* verb -> the nodes that share a token with it, best first
    Template,    \* the stages of the lifecycle template
    Replies,     \* what the language model may answer: sets of [legal : BOOLEAN]
    Scores,      \* the overall scores
    LowScore,    \* the score 0.2 that a blocked candidate keeps at most
    None

VARIABLES
    program, phase, goals, resources, bridges, candidates, current,
    generation, plans

vars == <<program, phase, goals, resources, bridges, candidates, current,
          generation, plans>>

Least(a, b) == IF a <= b THEN a ELSE b
Cut(s, n) == SubSeq(s, 1, Least(n, Len(s)))
Holds(s, x) == \E i \in DOMAIN s : s[i] = x
Dedupe(s) == FoldLeft(LAMBDA acc, x : IF Holds(acc, x) THEN acc ELSE Append(acc, x), <<>>, s)

-----------------------------------------------------------------------------
(* Goal variants.                                                          *)

Seen(acc, verb, relation) ==
    \E i \in DOMAIN acc : acc[i].verb = verb /\ acc[i].relation = relation

Variant(verb, relation, parent) ==
    [verb |-> verb, relation |-> relation, parent |-> parent]

AppendVariant(acc, verb, relation, parent) ==
    IF Seen(acc, verb, relation) THEN acc
    ELSE Append(acc, Variant(verb, relation, parent))

RECURSIVE WalkRelation(_, _, _, _, _, _)
(* Depth first; a verb that was seen is neither added nor walked again. *)
WalkRelation(acc, verb, relation, depth, parent, limit) ==
    IF depth = 0 \/ Len(acc) >= limit \/ verb \notin DOMAIN VerbGraph THEN acc
    ELSE FoldLeft(LAMBDA a, value :
                    IF Len(a) >= limit \/ Seen(a, value, relation) THEN a
                    ELSE WalkRelation(AppendVariant(a, value, relation, parent),
                                      value, relation, depth - 1, Len(a) + 1, limit),
                  acc, VerbGraph[verb][relation])

(* The first `count` related verbs, below the root; the limit is not tested. *)
AppendRelated(acc, verb, relation, count) ==
    IF verb \notin DOMAIN VerbGraph THEN acc
    ELSE FoldLeft(LAMBDA a, value : AppendVariant(a, value, relation, 1),
                  acc, Cut(VerbGraph[verb][relation], count))

ExpandSeed(p, acc, seed) ==
    LET up == WalkRelation(acc, seed, "hypernym", p.up, 1, p.maxTerms)
        down == WalkRelation(up, seed, "hyponym", p.down, 1, p.maxTerms)
        beside == AppendRelated(down, seed, "synonym", 4 * p.sideways)
    IN  IF p.opposites THEN AppendRelated(beside, seed, "opposite", 4) ELSE beside

GoalVariants(p) ==
    LET seeds == IF p.seeds = <<>> THEN <<p.verb>> ELSE p.seeds
    IN  Cut(FoldLeft(LAMBDA acc, seed : ExpandSeed(p, acc, seed),
                     <<Variant(p.verb, "seed", 0)>>, seeds),
            p.maxTerms)

-----------------------------------------------------------------------------
(* Resources.                                                              *)

ScopeStep(scope) == scope \cup {o \in ToSet(Objects) : Parent[o] \in scope}

(* The targets and, if asked for, everything below them. *)
ScopeObjects(p) ==
    IF p.descendants
    THEN FoldLeft(LAMBDA scope, o : ScopeStep(scope), ToSet(p.targets), Objects)
    ELSE ToSet(p.targets)

(* A requirement without targets is everybody's; the others need a target in scope. *)
Reaches(r, scope) ==
    CASE r.kind = "environment" -> TRUE
      [] r.kind = "requirement" -> r.targets = {} \/ r.targets \cap scope # {}
      [] OTHER -> r.targets \cap scope # {}

Node(r, parent) == [node |-> r.node, kind |-> r.kind, parent |-> parent]

ResourcesOf(p, o) ==
    LET own == SelectSeq(Own[o], LAMBDA r : r.kind \in p.include)
    IN  <<[node |-> o, kind |-> "object", parent |-> None]>>
        \o [i \in DOMAIN own |-> Node(own[i], o)]

(* An artifact of two objects is listed once, under the first of them. *)
DedupeResources(s) ==
    FoldLeft(LAMBDA acc, r : IF \E i \in DOMAIN acc : acc[i].node = r.node
                             THEN acc ELSE Append(acc, r), <<>>, s)

CollectResources(p) ==
    LET scope == ScopeObjects(p)
        found == FlattenSeq([i \in DOMAIN Objects |->
                    IF Objects[i] \in scope THEN ResourcesOf(p, Objects[i]) ELSE <<>>])
        wide == SelectSeq(Shared, LAMBDA r : r.kind \in p.include /\ Reaches(r, scope))
    IN  Cut(DedupeResources(found \o [i \in DOMAIN wide |-> Node(wide[i], None)]),
            p.maxResources)

-----------------------------------------------------------------------------
(* Bridges between goals and resources, and the candidates over them.      *)

BridgesOf(g, rs) ==
    LET nodes == {rs[i].node : i \in DOMAIN rs}
        near == SelectSeq(Associated[g], LAMBDA n : n \in nodes)
        ranked == IF near = <<>> /\ rs # <<>> THEN <<rs[1].node>> ELSE near
    IN  Cut(ranked, 3)

Graph(gs, rs) ==
    FlattenSeq([i \in DOMAIN gs |->
        LET near == BridgesOf(gs[i].verb, rs)
        IN  [j \in DOMAIN near |-> [goal |-> i, node |-> near[j]]]])

(* The target itself, or something whose URI lies below it. *)
InScope(node, targets) == \E i \in DOMAIN Ancestry[node] : Holds(targets, Ancestry[node][i])

(* The longest target that contains the resource, else the first target. *)
NearestScope(node, targets) ==
    LET around == SelectSeq(Ancestry[node], LAMBDA o : Holds(targets, o))
    IN  IF around = <<>> THEN targets[1] ELSE around[1]

ChangeKind(operator) ==
    CASE operator = "parameter_shift" -> "set_parameter"
      [] operator \in {"substitute_material", "substitute_process"} -> "update_manufacturing"
      [] operator = "add_observability" -> "add_test"
      [] operator \in {"split_part", "duplicate_feature", "modularize", "move_function"} -> "add_feature"
      [] operator \in {"remove_part", "combine_parts"} -> "suppress_feature"
      [] operator \in {"invert_relation", "change_state", "change_energy"} -> "transform_feature"
      [] OTHER -> "add_annotation"

OperationFor(operator, node, p) ==
    [kind |-> ChangeKind(operator), target |-> NearestScope(node, p.targets)]

Enabled(p) == SelectSeq(p.operators, LAMBDA o : o.enabled)

LensesAt(p, i) ==
    LET n == Len(p.lenses)
        first == IF n = 0 THEN {} ELSE {p.lenses[(i % n) + 1]}
        second == IF n > 1 /\ i % 3 = 0 THEN {p.lenses[((i + 1) % n) + 1]} ELSE {}
    IN  first \cup second

Candidate(source, gen, parents, gs, nodes, lenses, operators, changes) ==
    [source |-> source, generation |-> gen, parents |-> parents, goals |-> gs,
     nodes |-> nodes, lenses |-> lenses, operators |-> operators,
     changes |-> changes, score |-> 0, status |-> "proposed"]

(* The i-th local candidate, i from 0: bridges and operators go round side by side. *)
LocalCandidate(p, bs, i) ==
    LET b == bs[(i % Len(bs)) + 1]
        o == Enabled(p)[(i % Len(Enabled(p))) + 1].operator
    IN  Candidate("local", 0, {}, {b.goal}, {b.node}, LensesAt(p, i), <<o>>,
                  {OperationFor(o, b.node, p)})

GenerateCandidates(p, bs) ==
    LET desired == Least(p.population, Len(bs) * Len(Enabled(p)))
    IN  [i \in 1..desired |-> LocalCandidate(p, bs, i - 1)]

(* A candidate of the language model names operators but proposes no change. *)
ModelCandidate == Candidate("litellm", 0, {}, {}, {}, {}, <<"reframe_goal">>, {})

-----------------------------------------------------------------------------
(* Offspring.                                                              *)

(* Faulty variant: the mutant keeps no change of its parent.                *)
MutatedAnew(parent, i, gen, p) ==
    [candidates[i] EXCEPT
        !.source = "local", !.generation = gen, !.parents = {i}, !.changes = {},
        !.operators = Append(@, p.operators[((parent + gen) % Len(p.operators)) + 1].operator)]

(* Any operator of the list mutates, the disabled ones included. *)
Mutated(parent, i, gen, p) ==
    [candidates[i] EXCEPT
        !.source = "local", !.generation = gen, !.parents = {i},
        !.operators = Append(@, p.operators[((parent + gen) % Len(p.operators)) + 1].operator)]

Crossed(a, b, gen) ==
    [candidates[a] EXCEPT
        !.generation = gen, !.parents = {a, b},
        !.goals = @ \cup candidates[b].goals,
        !.nodes = @ \cup candidates[b].nodes,
        !.lenses = @ \cup candidates[b].lenses,
        !.operators = Dedupe(@ \o candidates[b].operators),
        !.changes = @ \cup candidates[b].changes]

Capacity(p) == p.population * p.generations

(* Faulty variant: the capacity is not asked for.                           *)
OffspringUnbounded(p, gen) ==
    LET mutants == [i \in 1..Len(current) |-> Mutated(i - 1, current[i], gen, p)]
    IN  IF p.crossover /\ Len(current) >= 2
        THEN Append(mutants, Crossed(current[1], current[Len(current)], gen))
        ELSE mutants

Offspring(p, gen) ==
    LET room == Capacity(p) - Len(candidates)
        born == IF room > 0 THEN Least(room, Len(current)) ELSE 0
        mutants == [i \in 1..born |-> Mutated(i - 1, current[i], gen, p)]
    IN  IF p.crossover /\ Len(current) >= 2 /\ Len(candidates) + born < Capacity(p)
        THEN Append(mutants, Crossed(current[1], current[Len(current)], gen))
        ELSE mutants

-----------------------------------------------------------------------------
(* Scores, statuses and plans.                                             *)

(* Faulty variant: the program's hard constraints are not asked for.        *)
BlockedByScopeOnly(p, c) == \E change \in c.changes : ~InScope(change.target, p.targets)

(* A violated hard constraint blocks every candidate; an unresolved one none. *)
Blocked(p, c) ==
    \/ "violated" \in p.constraints
    \/ \E change \in c.changes : ~InScope(change.target, p.targets)

Scored(p, cs, score) ==
    [i \in DOMAIN cs |->
        IF Blocked(p, cs[i])
        THEN [cs[i] EXCEPT !.score = Least(score[i], LowScore), !.status = "rejected"]
        ELSE [cs[i] EXCEPT !.score = score[i]]]

(* Best first; the hash that orders equal scores is replaced by the place. *)
Ranking(cs) ==
    SortSeq([i \in DOMAIN cs |-> i],
            LAMBDA i, j : cs[i].score > cs[j].score
                          \/ (cs[i].score = cs[j].score /\ i < j))

Select(p, cs) ==
    FoldLeft(LAMBDA acc, i :
                CASE acc[i].status = "rejected" -> acc
                  [] acc[i].status # "rejected" /\ acc[i].score < p.minScore ->
                        [acc EXCEPT ![i].status = "rejected"]
                  [] OTHER ->
                        IF Cardinality({j \in DOMAIN acc : acc[j].status = "shortlisted"}) < p.selectTop
                        THEN [acc EXCEPT ![i].status = "shortlisted"] ELSE acc,
             cs, Ranking(cs))

Selected(cs) == SelectSeq(Ranking(cs), LAMBDA i : cs[i].status = "shortlisted")

(* The template's stages, tailored; transitions join neighbours. *)
Stages(p) ==
    SelectSeq(Template, LAMBDA s : (p.enable = {} \/ s \in p.enable) /\ s \notin p.disable)

BlueprintExists(p) == {p.start, p.target} \subseteq ToSet(Stages(p))

ExplicitPlan(p) ==
    [changes |-> ToSet(p.explicit), origin |-> "explicit", approval |-> p.approval]

CandidatePlan(c) == [changes |-> c.changes, origin |-> c.source, approval |-> TRUE]

Chosen(p, cs) == IF p.includePlans THEN Cut(Selected(cs), p.maxPlans) ELSE <<>>

ChangePlans(p, cs) ==
    (IF p.explicit = <<>> THEN <<>> ELSE <<ExplicitPlan(p)>>)
    \o [i \in DOMAIN Chosen(p, cs) |-> CandidatePlan(cs[Chosen(p, cs)[i]])]

(* A chosen candidate without changes is a ValueError, and no plan is made. *)
PlansExist(p, cs) == \A i \in DOMAIN Chosen(p, cs) : cs[Chosen(p, cs)[i]].changes # {}

(* What _validate_program demands beside the project and the lenses. *)
Valid(p) ==
    /\ p.current
    /\ ToSet(p.targets) \subseteq ToSet(Objects)
    /\ \A i \in DOMAIN p.explicit : /\ p.explicit[i].kind \in p.allowed
                                    /\ InScope(p.explicit[i].target, p.targets)

-----------------------------------------------------------------------------
(* The steps of compile_dsl.                                               *)

Init ==
    /\ program \in Programs
    /\ phase = "validate"
    /\ goals = <<>> /\ resources = <<>> /\ bridges = <<>>
    /\ candidates = <<>> /\ current = <<>> /\ generation = 1 /\ plans = <<>>

Validate ==
    /\ phase = "validate"
    /\ phase' = IF Valid(program) THEN "goals" ELSE "invalid"
    /\ UNCHANGED <<program, goals, resources, bridges, candidates, current, generation, plans>>

ExpandGoal ==
    /\ phase = "goals"
    /\ goals' = GoalVariants(program)
    /\ phase' = "resources"
    /\ UNCHANGED <<program, resources, bridges, candidates, current, generation, plans>>

Decompose ==
    /\ phase = "resources"
    /\ resources' = CollectResources(program)
    /\ phase' = "bridges"
    /\ UNCHANGED <<program, goals, bridges, candidates, current, generation, plans>>

BuildGraph ==
    /\ phase = "bridges"
    /\ bridges' = Graph(goals, resources)
    /\ phase' = IF bridges' = <<>> THEN "invalid" ELSE "generate"
    /\ UNCHANGED <<program, goals, resources, candidates, current, generation, plans>>

Generate ==
    /\ phase = "generate"
    /\ \/ /\ Enabled(program) = <<>>
          /\ phase' = "invalid"
          /\ UNCHANGED <<candidates, current>>
       \/ /\ Enabled(program) # <<>>
          /\ candidates' = GenerateCandidates(program, bridges)
          /\ current' = [i \in DOMAIN candidates' |-> i]
          /\ phase' = "consult"
    /\ UNCHANGED <<program, goals, resources, bridges, generation, plans>>

(* The model is asked when it is configured and the population is not full;  *)
(* it fails (the empty reply), or its candidates that name known ids join.   *)
Consult ==
    /\ phase = "consult"
    /\ \/ /\ program.model /\ program.population > Len(candidates)
          /\ \E reply \in Replies :
                LET legal == SelectSeq(reply, LAMBDA item : item.legal)
                IN  candidates' = candidates \o [i \in DOMAIN legal |-> ModelCandidate]
       \/ /\ ~(program.model /\ program.population > Len(candidates))
          /\ UNCHANGED candidates
    /\ current' = [i \in DOMAIN candidates' |-> i]
    /\ phase' = "breed"
    /\ UNCHANGED <<program, goals, resources, bridges, generation, plans>>

(* One generation; the last one that bore anything goes on. *)
Breed ==
    /\ phase = "breed" /\ generation < program.generations
    /\ LET born == Offspring(program, generation)
       IN  /\ candidates' = candidates \o born
           /\ current' = IF born = <<>> THEN current
                         ELSE [i \in DOMAIN born |-> Len(candidates) + i]
    /\ generation' = generation + 1
    /\ UNCHANGED <<program, phase, goals, resources, bridges, plans>>

Score ==
    /\ phase = "breed" /\ generation >= program.generations
    /\ \E score \in [DOMAIN candidates -> Scores] :
            candidates' = Select(program, Scored(program, candidates, score))
    /\ phase' = "compile"
    /\ UNCHANGED <<program, goals, resources, bridges, current, generation, plans>>

Compile ==
    /\ phase = "compile"
    /\ \/ /\ BlueprintExists(program) /\ PlansExist(program, candidates)
          /\ plans' = ChangePlans(program, candidates)
          /\ phase' = "compiled"
       \/ /\ ~(BlueprintExists(program) /\ PlansExist(program, candidates))
          /\ phase' = "invalid"
          /\ UNCHANGED plans
    /\ UNCHANGED <<program, goals, resources, bridges, candidates, current, generation>>

Next ==
    \/ Validate \/ ExpandGoal \/ Decompose \/ BuildGraph \/ Generate
    \/ Consult \/ Breed \/ Score \/ Compile

Spec == Init /\ [][Next]_vars

-----------------------------------------------------------------------------
(* Properties.                                                             *)

(* Mutation and crossover take parents of the generation before only, carry *)
(* their changes and goals over and lose none, and never breed beyond the   *)
(* capacity (_evolve_and_score).                                            *)
LineageIsGrounded ==
    /\ \A i \in DOMAIN candidates :
        LET c == candidates[i]
        IN  /\ c.generation = 0 <=> c.parents = {}
            /\ \A j \in c.parents : j < i /\ candidates[j].generation = c.generation - 1
            /\ c.parents # {} =>
                 /\ c.changes = UNION {candidates[j].changes : j \in c.parents}
                 /\ c.goals = UNION {candidates[j].goals : j \in c.parents}
    /\ LET bred == {i \in DOMAIN candidates : candidates[i].generation > 0}
       IN  bred # {} => Len(candidates) <= Capacity(program)

(* Whatever plan comes out, its changes lie in the targets of the program,  *)
(* and nothing a hard constraint blocks gets a plan (_compile_change_plans).*)
PlansStayInScope ==
    \A i \in DOMAIN plans :
        /\ plans[i].changes # {}
        /\ \A change \in plans[i].changes : InScope(change.target, program.targets)
        /\ plans[i].origin # "explicit" => plans[i].approval /\ "violated" \notin program.constraints

(* Without a language model a valid program whose lifecycle keeps its two   *)
(* stages always compiles once candidates exist: every local candidate has  *)
(* changes, through any number of mutations and crossovers.  With a model   *)
(* it need not: a candidate of the model that is selected has none.         *)
LocalProgramsCompile ==
    phase = "invalid" /\ candidates # <<>> /\ ~program.model => ~BlueprintExists(program)

=============================================================================
