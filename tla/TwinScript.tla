----------------------------- MODULE TwinScript -----------------------------
(***************************************************************************)
(* TwinScript: what dsl.py reads from the lines of a program and what      *)
(* compile_dsl makes of it.                                                *)
(*                                                                         *)
(* A line has a directive, its arguments as the sequence of values that    *)
(* the directive stores, its keyword options (for LABEL, ANNOTATION and    *)
(* WEIGHT its assignments) as a function, and ok: whether its values can   *)
(* be converted.  How a run searches is the subject of EvolutionEngine:    *)
(* here its shortlist is given.                                            *)
(***************************************************************************)
EXTENDS Naturals, SequencesExt, FiniteSets

CONSTANTS
    Project,        \* the project of the API path
    Objects,        \* the objects of its snapshot
    Templates,      \* lifecycle template -> its stages in order
    Defaults,       \* option -> the default that the document model gives it
    Shortlist       \* the selected candidates of a run

ASSUME TwinScriptAssumption ==
    /\ Shortlist \in Seq(ToSet(Shortlist))
    /\ \A t \in DOMAIN Templates : IsInjective(Templates[t]) /\ Templates[t] # <<>>
    /\ {"REVISION", "TEMPLATE", "START", "TARGET", "MODE", "DRY_RUN", "APPROVAL", "MAX_PLANS",
        "INCLUDE_CHANGE_PLANS", "PERSIST_ARTIFACTS", "ALLOW_OPERATIONS"} \subseteq DOMAIN Defaults

-----------------------------------------------------------------------------
\* Lines without a statement, and lines that shlex cannot split.
Blank == "#"
Unbalanced == "'"

\* Directives that replace a value of the document.
Scalars ==
    {"NAME", "NAMESPACE", "PROJECT", "METHODS", "SEED_VERBS", "SELECT_TOP", "MIN_SCORE",
     "LIFECYCLE", "REALIZE", "ALLOW_OPERATIONS", "PERSIST_ARTIFACTS", "INCLUDE_CHANGE_PLANS"}

\* Directives that extend a list, with the list they extend.
Extended ==
    [d \in {"FOCUS", "TARGET"} |-> "targets"] @@ [d \in {"AVOID", "PREVENT"} |-> "avoid"]
    @@ [d \in {"ASSUME", "ASSUMPTION"} |-> "assumptions"] @@ [d \in {"LENS", "LENSES"} |-> "lenses"]
    @@ [d \in {"DIMENSION", "DIMENSIONS"} |-> "dimensions"]
    @@ [PRESERVE |-> "preserve", CONSTRAINT |-> "constraints", ENABLE_STAGE |-> "enabled",
        DISABLE_STAGE |-> "disabled", OPERATOR |-> "operators", GATE |-> "gates",
        CHANGE |-> "changes", VERIFY |-> "steps", NOTE |-> "notes"]

Lists == {Extended[d] : d \in DOMAIN Extended}

\* Directives that merge keywords or assignments into a part of the document.
Merged == {"PROJECT", "LABEL", "ANNOTATION", "WEIGHT", "LENS_OPTIONS", "RESOURCE_OPTIONS",
           "SEARCH", "EVOLVE", "LIFECYCLE", "REALIZE", "OUTPUT"}

Directives == Scalars \cup DOMAIN Extended \cup Merged
                 \cup {"TWINDL", "TWINSCRIPT", "GOAL", "OUTCOME", "END"}

\* The document before the first line.
Opening ==
    [scalar |-> [d \in Scalars |-> <<>>], list |-> [l \in Lists |-> <<>>],
     option |-> [d \in Merged |-> <<>>], statement |-> "", outcomes |-> <<>>,
     version |-> FALSE, ended |-> FALSE, errors |-> {}]

\* GOAL replaces the statement and adds its OUTCOME to the outcomes.
TakeGoal(doc, line) ==
    [doc EXCEPT !.statement = line.option.STATEMENT,
                !.outcomes = @ \o line.args]

\* Faulty variant: every OUTCOME becomes the statement.
TakeLastOutcome(doc, line) ==
    [doc EXCEPT !.statement = line.args[1], !.outcomes = @ \o line.args]

\* OUTCOME gives a statement only to a document that has none.
TakeOutcome(doc, line) ==
    [doc EXCEPT !.statement = IF @ = "" THEN line.args[1] ELSE @,
                !.outcomes = @ \o line.args]

TakeValues(doc, line) ==
    LET d == line.directive
    IN  [doc EXCEPT !.scalar = IF d \in Scalars THEN [@ EXCEPT ![d] = line.args] ELSE @,
                    !.list   = IF d \in DOMAIN Extended
                               THEN [@ EXCEPT ![Extended[d]] = @ \o line.args] ELSE @,
                    !.option = IF d \in Merged
                               THEN [@ EXCEPT ![d] = line.option @@ @] ELSE @]

Take(doc, line) ==
    CASE line.directive = "END"                        -> [doc EXCEPT !.ended = TRUE]
      [] line.directive \in {"TWINDL", "TWINSCRIPT"}   -> [doc EXCEPT !.version = TRUE]
      [] line.directive = "GOAL"                       -> TakeGoal(doc, line)
      [] line.directive = "OUTCOME"                    -> TakeOutcome(doc, line)
      [] OTHER                                         -> TakeValues(doc, line)

Faulty(doc, code) == [doc EXCEPT !.errors = @ \cup {code}]

\* The lines behind END are split like the others and then ignored.  A line
\* that cannot be converted leaves an error, and no document with an error is
\* used, so what the line has stored by then does not matter.
Read(doc, line) ==
    CASE line.directive = Blank      -> doc
      [] line.directive = Unbalanced -> Faulty(doc, "syntax.quote")
      [] OTHER ->
            CASE doc.ended                        -> doc
              [] line.directive \notin Directives -> Faulty(doc, "directive.unknown")
              [] ~line.ok                         -> Faulty(doc, "directive.invalid")
              [] OTHER                            -> Take(doc, line)

\* Each value of a list once, at its first place.
Dedupe(list) ==
    LET kept[n \in 0..Len(list)] ==
            IF n = 0 THEN <<>>
            ELSE IF Contains(kept[n - 1], list[n]) THEN kept[n - 1] ELSE Append(kept[n - 1], list[n])
    IN  kept[Len(list)]

DedupedLists == {"targets", "lenses", "dimensions", "enabled", "disabled"}

Missing(doc) ==
    {code \in {"project.missing", "focus.missing", "goal.missing"} :
        \/ code = "project.missing" /\ doc.scalar["PROJECT"] = <<>>
        \/ code = "focus.missing" /\ doc.list["targets"] = <<>>
        \/ code = "goal.missing" /\ doc.statement = ""}

Parsed(source) ==
    LET after[n \in 0..Len(source)] ==
            IF n = 0 THEN Opening ELSE Read(after[n - 1], source[n])
        doc == after[Len(source)]
    IN  [doc EXCEPT !.errors = @ \cup Missing(doc),
                    !.list = [l \in Lists |-> IF l \in DedupedLists THEN Dedupe(@[l]) ELSE @[l]]]

\* parse_dsl returns a document.
Accepted(source) == Parsed(source).errors = {}

-----------------------------------------------------------------------------
\* A value set by a directive, one set by a keyword, and their defaults.
ScalarOf(doc, directive, name) ==
    IF doc.scalar[directive] = <<>> THEN Defaults[name] ELSE doc.scalar[directive][1]

OptionOf(doc, directive, keyword) ==
    IF keyword \in DOMAIN doc.option[directive] THEN doc.option[directive][keyword]
    ELSE Defaults[keyword]

\* _validate_program, on the snapshot's revision: the project has been
\* compared already, and lenses and dimensions are those of the catalog.
InScope(doc, revision) ==
    /\ OptionOf(doc, "PROJECT", "REVISION") = revision
    /\ ToSet(doc.list.targets) \subseteq Objects
    /\ \A change \in ToSet(doc.list.changes) :
            /\ change.kind \in ToSet(ScalarOf(doc, "ALLOW_OPERATIONS", "ALLOW_OPERATIONS"))
            /\ change.target \in ToSet(doc.list.targets)

\* The template's stages that are enabled, if any are named, and not disabled.
StagesOf(doc) ==
    SelectSeq(Templates[ScalarOf(doc, "LIFECYCLE", "TEMPLATE")],
              LAMBDA stage :
                /\ doc.list.enabled # <<>> => Contains(doc.list.enabled, stage)
                /\ ~Contains(doc.list.disabled, stage))

Ends(doc) == {OptionOf(doc, "LIFECYCLE", "START"), OptionOf(doc, "LIFECYCLE", "TARGET")}

\* Both ends of the program remain among the stages.
HasBlueprint(doc) ==
    /\ ScalarOf(doc, "LIFECYCLE", "TEMPLATE") \in DOMAIN Templates
    /\ Ends(doc) \subseteq ToSet(StagesOf(doc))

\* The blueprint; one transition leads from each stage to the next one.
LifecycleBlueprint(doc) ==
    [id |-> ScalarOf(doc, "LIFECYCLE", "TEMPLATE"), stages |-> StagesOf(doc),
     start |-> OptionOf(doc, "LIFECYCLE", "START")]

Transitions(blueprint) ==
    {<<blueprint.stages[i], blueprint.stages[i + 1]>> : i \in 1..(Len(blueprint.stages) - 1)}

\* One plan of all explicit changes, then one of each of the first candidates.
PlansOf(doc) ==
    (IF doc.list.changes # <<>> THEN <<"explicit">> ELSE <<>>)
    \o (IF ScalarOf(doc, "INCLUDE_CHANGE_PLANS", "INCLUDE_CHANGE_PLANS")
        THEN SubSeq(Shortlist, 1, IF OptionOf(doc, "REALIZE", "MAX_PLANS") < Len(Shortlist)
                                  THEN OptionOf(doc, "REALIZE", "MAX_PLANS") ELSE Len(Shortlist))
        ELSE <<>>)

\* The explicit changes that only give a parameter a value.
SafeParameterPatches(doc) ==
    SelectSeq(doc.list.changes, LAMBDA change : change.kind = "set_parameter" /\ change.patch)

AutoApplies(doc) ==
    /\ ScalarOf(doc, "REALIZE", "MODE") = "auto_apply_safe"
    /\ ~OptionOf(doc, "REALIZE", "DRY_RUN") /\ ~OptionOf(doc, "REALIZE", "APPROVAL")
    /\ doc.list.changes # <<>> /\ SafeParameterPatches(doc) = doc.list.changes

\* compile_dsl yields a valid compilation.
Compiles(doc, revision) == InScope(doc, revision) /\ HasBlueprint(doc)

\* The answer to a preview, which is the answer to a dry run as well.
Verdict(source, revision) ==
    LET doc == Parsed(source)
    IN  CASE ~Accepted(source)                    -> "unparsed"
          [] doc.scalar["PROJECT"][1] # Project   -> "mismatch"
          [] ~Compiles(doc, revision)             -> "rejected"
          [] OTHER                                -> "valid"

-----------------------------------------------------------------------------
\* The lines of a source in front of its first END.
Statements(source) ==
    LET ends == {i \in DOMAIN source : source[i].directive = "END" /\ source[i].ok}
    IN  SelectSeq(IF ends = {} THEN source
                  ELSE SubSeq(source, 1, (CHOOSE i \in ends : \A j \in ends : i <= j) - 1),
                  LAMBDA line : line.directive # Blank)

LinesOf(source, directives) ==
    SelectSeq(Statements(source), LAMBDA line : line.directive \in directives)

\* A program means what its lines declare, whatever their order: the last line
\* gives a value, all lines together a list, the last GOAL or else the first
\* OUTCOME the statement; and one line that cannot be read refuses the whole
\* program, but for those behind END whose quotes are balanced
\* (_parse_twinscript, parse_dsl).
ReadAsDeclared(source) ==
    LET doc == Parsed(source)
        goals == LinesOf(source, {"GOAL"})
        outcomes == LinesOf(source, {"OUTCOME"})
    IN  /\ Accepted(source) <=>
            /\ \A line \in ToSet(source) : line.directive # Unbalanced
            /\ \A line \in ToSet(Statements(source)) : line.directive \in Directives /\ line.ok
            /\ \A needed \in {{"PROJECT"}, {"FOCUS", "TARGET"}, {"GOAL", "OUTCOME"}} :
                    LinesOf(source, needed) # <<>>
        /\ Accepted(source) =>
            /\ \A d \in Scalars :
                    doc.scalar[d] = IF LinesOf(source, {d}) = <<>> THEN <<>>
                                    ELSE Last(LinesOf(source, {d})).args
            /\ \A l \in Lists :
                    ToSet(doc.list[l]) =
                        UNION {ToSet(line.args) : line \in
                               ToSet(LinesOf(source, {d \in DOMAIN Extended : Extended[d] = l}))}
            /\ \A l \in DedupedLists : IsInjective(doc.list[l])
            /\ doc.statement = IF goals # <<>> THEN Last(goals).option.STATEMENT
                               ELSE outcomes[1].args[1]
=============================================================================
