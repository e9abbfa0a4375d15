--------------------------- MODULE ModelPlanning ---------------------------
(***************************************************************************)
(* From a prompt to a change document or a piece of advice: nl_to_dsl,      *)
(* nl_to_svg_dsl, nl_to_scad_dsl, propose_eda_operation, respond_to_eda_chat, *)
(* review_artifact_group, audit_firmware and analyze_svg_with_llm.  All of  *)
(* them resolve a route, call a model, judge its answer and fall back to a  *)
(* local compiler or a local summary.  What the model answers is any member *)
(* of Answers; a prompt is what the regular expressions read in it.  A plan *)
(* for a KiCad source is then applied by KicadEditing.                     *)
(***************************************************************************)
EXTENDS EdaAudit, TextEditing

CONSTANTS
    SignalNets,   \* the signal nets the connectivity compiler knows, in its order
    Routings,     \* the lists of routes that may be resolved (none when resolving raises)
    Answers       \* what a model may answer: a function from dialects to sets

VARIABLES
    request,      \* the dialect, the prompt and the document of the request
    phase,        \* how far planning is
    routes,       \* the routes still to be tried
    plan,         \* the change document or the advice that came out, or None
    mode,         \* who made it
    edited        \* the drawing or file after an SVG or SCAD plan was applied

planning == <<request, phase, routes, plan, mode, edited>>
DocumentDialects == {"kicad", "svg", "scad"}
AdviceDialects == {"chat", "review", "firmware", "vision"}
Dialects == DocumentDialects \cup AdviceDialects \cup {"operation"}
ManyRoutes == {"operation", "chat", "review"}

-----------------------------------------------------------------------------
(* The local compiler of KiCad prompts.                                     *)

First(seq, Test(_)) ==
    LET hits == {i \in DOMAIN seq : Test(seq[i])} IN IF hits = {} THEN None ELSE seq[Min(hits)]

ByReference(s, token) == {i \in DOMAIN s.items : s.items[i].ref = token}
ByKin(s, token) == {i \in DOMAIN s.items : token \in s.items[i].kin}

(* The one item the prompt names, by reference or else by what it is called. *)
PromptItem(s, tokens) ==
    LET named == First(tokens, LAMBDA t : Cardinality(ByReference(s, t)) = 1)
        called == First(tokens, LAMBDA t : Cardinality(ByKin(s, t)) = 1)
    IN  CASE named # None -> CHOOSE i \in ByReference(s, named) : TRUE
          [] named = None /\ called # None -> CHOOSE i \in ByKin(s, called) : TRUE
          [] OTHER -> 0

PadNames(s, i) == {s.items[i].pads[k].number : k \in DOMAIN s.items[i].pads}
NetName(s, code) == IF code = 0 THEN "" ELSE s.nets[code]
Carriers(s, i, net) == {k \in DOMAIN s.items[i].pads : NetName(s, s.items[i].pads[k].net) = net}

Spread(points, axis) == LET values == {p[axis] : p \in points} IN Max(values) - Min(values)

Ranked(indices, Key(_)) ==
    SetToSortSeq(indices, LAMBDA m, n : Key(m) < Key(n) \/ (Key(m) = Key(n) /\ m < n))

(* Faulty variant: in the declared order. *)
SignalNetsAsDeclared(s, i, nets, numbers) == nets

(* Signals keep their order along the row of pads when each is seen on one  *)
(* pad today, so that their stubs slide side by side.                      *)
OrderSignalNets(s, i, nets, numbers) ==
    LET pads == s.items[i].pads
        Origin(net) == pads[CHOOSE k \in Carriers(s, i, net) : TRUE].at
        Goal(number) == pads[CHOOSE k \in NamedPads(s, i, number) : TRUE].at
        points == {Origin(net) : net \in ToSet(nets)} \cup {Goal(number) : number \in ToSet(numbers)}
        axis == IF Spread(points, 1) >= Spread(points, 2) THEN 1 ELSE 2
        places == Ranked(DOMAIN numbers, LAMBDA n : Goal(numbers[n])[axis])
        sources == Ranked(DOMAIN nets, LAMBDA n : Origin(nets[n])[axis])
    IN  IF \E net \in ToSet(nets) : Cardinality(Carriers(s, i, net)) # 1 THEN nets
        ELSE [n \in DOMAIN nets |-> nets[sources[CHOOSE rank \in DOMAIN places : places[rank] = n]]]

Identity(s, i) == [uuid |-> s.items[i].uuid, ref |-> s.items[i].ref]

AssignOp(s, i, pad, net, create) ==
    [op |-> "assign_pad_net", entity |-> "footprint", target |-> Identity(s, i), pad |-> pad,
     net |-> net, create |-> create]

SupplyPads(s, i) ==
    UNION {{<<j, k>> : k \in NamedPads(s, j, "5V")} :
           j \in {n \in DOMAIN s.items : s.items[n].uuid # s.items[i].uuid}}

KnownSignals(s) == SelectSeq(SignalNets, LAMBDA net : net \in ToSet(s.nets))

(* Faulty variant: groups that may share a pin. *)
GroupsOverlapping(s, i, p) ==
    /\ p.ground # <<>> /\ p.signal # <<>> /\ p.power # <<>>
    /\ ToSet(p.ground \o p.signal \o p.power) \subseteq PadNames(s, i)
    /\ "GND" \in ToSet(s.nets)
    /\ Len(p.signal) = Len(KnownSignals(s))
    /\ "+5V" \in ToSet(s.nets) \/ Cardinality(SupplyPads(s, i)) = 1

(* The groups of pins must be complete, distinct and there.                 *)
GroupsFit(s, i, p) ==
    LET chosen == p.ground \o p.signal \o p.power
    IN  /\ p.ground # <<>> /\ p.signal # <<>> /\ p.power # <<>>
        /\ IsInjective(chosen)
        /\ ToSet(chosen) \subseteq PadNames(s, i)
        /\ "GND" \in ToSet(s.nets)
        /\ Len(p.signal) = Len(KnownSignals(s))
        /\ "+5V" \in ToSet(s.nets) \/ Cardinality(SupplyPads(s, i)) = 1

GroupOperations(s, i, p) ==
    LET fresh == "+5V" \notin ToSet(s.nets)
        signals == OrderSignalNets(s, i, KnownSignals(s), p.signal)
        anchor == CHOOSE a \in SupplyPads(s, i) : TRUE
    IN  [n \in DOMAIN p.ground |-> AssignOp(s, i, p.ground[n], "GND", FALSE)]
        \o [n \in DOMAIN p.signal |-> AssignOp(s, i, p.signal[n], signals[n], FALSE)]
        \o [n \in DOMAIN p.power |-> AssignOp(s, i, p.power[n], "+5V", fresh)]
        \o (IF fresh THEN <<AssignOp(s, anchor[1], s.items[anchor[1]].pads[anchor[2]].number, "+5V", TRUE)>>
            ELSE <<>>)

NamesGroups(s, i, p) ==
    /\ s.kind = "pcb" /\ s.items[i].entity = "footprint"
    /\ p.ground # <<>> \/ p.signal # <<>> \/ p.power # <<>>

SetOp(s, i, property, value) ==
    IF value # "" /\ s.items[i].entity = "symbol"
    THEN <<[op |-> "set_property", entity |-> "symbol", target |-> Identity(s, i),
            property |-> property, value |-> value]>>
    ELSE <<>>

MoveOp(s, i, to) ==
    IF to # None /\ s.items[i].entity = "footprint"
    THEN <<[op |-> "move", entity |-> "footprint", target |-> Identity(s, i), to |-> to]>> ELSE <<>>

(* local_nl_to_dsl: the operations, none where it raises.                   *)
LocalOperations(s, p) ==
    LET i == PromptItem(s, p.tokens)
    IN  IF i = 0 \/ (NamesGroups(s, i, p) /\ ~GroupsFit(s, i, p)) THEN <<>>
        ELSE (IF NamesGroups(s, i, p) THEN GroupOperations(s, i, p) ELSE <<>>)
             \o SetOp(s, i, "Value", p.value) \o SetOp(s, i, "Footprint", p.footprint)
             \o MoveOp(s, i, p.to)

-----------------------------------------------------------------------------
(* Judging a KiCad document.                                                *)

ByUuid(s, op) == {i \in DOMAIN s.items : s.items[i].entity = op.entity /\ op.target.uuid # ""
                                         /\ s.items[i].uuid = op.target.uuid}
ByRef(s, op) == {i \in DOMAIN s.items : s.items[i].entity = op.entity /\ op.target.ref # ""
                                        /\ s.items[i].ref = op.target.ref}

(* The items a target may mean: the uuid decides, a conflict means none.    *)
Meant(s, op) ==
    IF ByUuid(s, op) # {} /\ ByRef(s, op) # {} /\ Min(ByUuid(s, op)) # Min(ByRef(s, op)) THEN {}
    ELSE IF ByUuid(s, op) # {} THEN ByUuid(s, op) ELSE ByRef(s, op)

Resolves(s, op) == Cardinality(Meant(s, op)) = 1

(* Faulty variant: targets as the model wrote them. *)
AsWritten(s, ops) == ops

Canonical(s, ops) ==
    [n \in DOMAIN ops |-> [ops[n] EXCEPT !.target = Identity(s, CHOOSE i \in Meant(s, ops[n]) : TRUE)]]

(* Whether an operation asks for anything the document does not have yet.   *)
Effective(s, op) ==
    \E i \in Meant(s, op) :
        \/ op.op = "set_property" /\ op.value # s.items[i].props[op.property]
        \/ op.op = "move" /\ op.to # s.items[i].at
        \/ op.op = "assign_pad_net"
           /\ \/ NamedPads(s, i, op.pad) = {}
              \/ NetName(s, s.items[i].pads[Min(NamedPads(s, i, op.pad))].net) # op.net

Document(text, kind, ops) ==
    [dialect |-> "kicad", text |-> text, kind |-> kind, operations |-> ops]

(* _finalize_llm_candidate: the document with its targets bound, or None.   *)
Finalized(s, document) ==
    LET ops == document.operations
    IN  IF /\ document.text = s.text /\ document.kind = s.kind
           /\ \A n \in DOMAIN ops : Resolves(s, ops[n])
           /\ \E n \in DOMAIN ops : Effective(s, ops[n])
        THEN [document EXCEPT !.operations = Canonical(s, ops)]
        ELSE None

LocalDocument(s, p) ==
    IF LocalOperations(s, p) = <<>> THEN None
    ELSE Document(s.text, s.kind, LocalOperations(s, p))

-----------------------------------------------------------------------------
(* The local plans of the other dialects.                                   *)

TextPlan(dialect, d, op) == [dialect |-> dialect, text |-> d.text, operations |-> <<op>>]

(* The one text the prompt quotes, or the attribute of a target it names.   *)
LocalSvg(d, p) ==
    LET texts == {i \in DOMAIN d.elements : d.elements[i].tag = "text" /\ d.elements[i].text = p.before}
    IN  CASE p.before # None /\ Cardinality(texts) = 1 ->
                TextPlan("svg", d, [op |-> "set_text", target |-> CHOOSE i \in texts : TRUE, value |-> p.value])
          [] ~(p.before # None /\ Cardinality(texts) = 1) /\ p.attribute # None
             /\ p.target \in SvgTargets(d) ->
                TextPlan("svg", d, [op |-> "set_attribute", target |-> p.target,
                                    attribute |-> p.attribute, value |-> p.value])
          [] OTHER -> None

(* The first variable whose name reads the same in any case.                *)
LocalScad(d, p) ==
    LET alike == {i \in DOMAIN d.lines : d.lines[i].name \in ScadTargets(d) /\ d.lines[i].depth = 0
                                         /\ d.lines[i].folded = p.folded}
    IN  IF alike = {} THEN None
        ELSE TextPlan("scad", d, [op |-> "set_variable", target |-> d.lines[Min(alike)].name, value |-> p.value])

Advice(by, findings, review) ==
    [dialect |-> request.dialect, by |-> by, findings |-> findings, human |-> review]

(* What was measured before any model was asked.                            *)
Measured ==
    CASE request.dialect = "firmware" ->
            {<<"missing", g>> : g \in request.document.gpio \ request.document.labels}
            \cup {<<"unexpected", g>> : g \in request.document.labels \ request.document.gpio}
      [] request.dialect = "vision" -> SvgFindings(request.document)
      [] OTHER -> request.document.facts

Fallback ==
    CASE request.dialect = "kicad" -> LocalDocument(source, request.prompt)
      [] request.dialect = "svg" -> LocalSvg(request.document, request.prompt)
      [] request.dialect = "scad" -> LocalScad(request.document, request.prompt)
      [] request.dialect = "operation" -> None
      [] OTHER -> Advice("local", Measured, TRUE)

-----------------------------------------------------------------------------
(* Judging what the model answered: the plan, or None where it is refused.  *)

IsDocument(answer) == answer.kind = "document"

OperationPlan(answer) ==
    LET sole == Cardinality(request.document.vocabulary) = 1
        op == IF answer.operation = "" /\ sole THEN CHOOSE o \in request.document.vocabulary : TRUE
              ELSE answer.operation
    IN  IF \/ answer.decision = "propose"
              /\ op \in request.document.vocabulary /\ answer.input \cap {"approved", "float"} = {}
           \/ answer.decision = "unsupported" /\ answer.operation = "" /\ answer.input = {}
        THEN [dialect |-> "operation", decision |-> answer.decision,
              operation |-> IF answer.decision = "propose" THEN op ELSE "", input |-> answer.input]
        ELSE None

TextTargets(d) == IF request.dialect = "svg" THEN SvgTargets(d) ELSE ScadTargets(d)

TextAnswer(answer) ==
    IF answer.text = request.document.text /\ answer.operation.target \in TextTargets(request.document)
    THEN TextPlan(request.dialect, request.document, answer.operation) ELSE None

(* A review names only its own files; the chat always asks for a human; the *)
(* vision adds findings on listed targets to those that were measured.      *)
AdviceAnswer(answer) ==
    CASE request.dialect = "chat" ->
            IF answer.findings = {} THEN None ELSE Advice("model", answer.findings, TRUE)
      [] request.dialect = "vision" ->
            Advice("model", Measured \cup {f \in answer.findings :
                        f.target = 0 \/ f.target \in SvgTargets(request.document)}, TRUE)
      [] request.dialect = "review" -> Advice("model", answer.findings, answer.human)
      [] OTHER -> Advice("model", answer.findings, answer.human)

Judged(answer) ==
    CASE ~IsDocument(answer) -> None
      [] IsDocument(answer) /\ request.dialect = "kicad" -> Finalized(source, answer.document)
      [] IsDocument(answer) /\ request.dialect \in {"svg", "scad"} -> TextAnswer(answer)
      [] IsDocument(answer) /\ request.dialect = "operation" -> OperationPlan(answer)
      [] OTHER -> AdviceAnswer(answer)

-----------------------------------------------------------------------------
(* The steps of a request.                                                  *)

Settle(p, by) ==
    /\ plan' = p
    /\ mode' = by
    /\ phase' = IF p = None THEN "refused" ELSE "planned"
    /\ UNCHANGED <<request, edited, editing, audit>>

CompilesFirst ==
    request.dialect = "kicad" /\ request.prompt.connectivity /\ Fallback # None

(* Pins and nets are compiled without a model where the compiler can.       *)
CompileConnectivity ==
    /\ phase = "asked" /\ CompilesFirst
    /\ Settle(Finalized(source, Fallback), "deterministic")
    /\ UNCHANGED routes

RefuseTracks ==
    /\ phase = "asked" /\ ~CompilesFirst
    /\ request.dialect = "kicad" /\ request.prompt.tracks
    /\ Settle(None, "refused")
    /\ UNCHANGED routes

Resolve ==
    /\ phase = "asked" /\ ~CompilesFirst
    /\ ~(request.dialect = "kicad" /\ request.prompt.tracks)
    /\ \E found \in Routings :
         IF found = <<>>
         THEN Settle(Fallback, "local") /\ UNCHANGED routes
         ELSE /\ routes' = IF request.dialect \in ManyRoutes THEN found ELSE <<Head(found)>>
              /\ phase' = "calling"
              /\ UNCHANGED <<request, plan, mode, edited, editing, audit>>

(* After the last route: a KiCad or text document that was understood but   *)
(* refused is the end; otherwise what can be done locally is done, and a    *)
(* KiCad plan made after a malformed answer is judged like the model's.     *)
LastResort(answer) ==
    CASE IsDocument(answer) /\ request.dialect \in DocumentDialects -> None
      [] ~IsDocument(answer) /\ request.dialect = "kicad" /\ answer.kind = "prose"
         /\ Fallback # None -> Finalized(source, Fallback)
      [] OTHER -> Fallback

Answer(answer) ==
    /\ routes' = Tail(routes)
    /\ CASE Judged(answer) # None -> Settle(Judged(answer), "model")
         [] Judged(answer) = None /\ Len(routes) > 1 ->
                UNCHANGED <<request, phase, plan, mode, edited, editing, audit>>
         [] OTHER -> Settle(LastResort(answer), "fallback")

Call == phase = "calling" /\ \E answer \in Answers[request.dialect] : Answer(answer)

(* The plan is applied; the file may have changed since it was read.        *)
ApplyKicad ==
    /\ phase = "planned" /\ plan.dialect = "kicad" /\ stage = "idle"
    /\ \E now \in {source, [source EXCEPT !.text = "newer"]} : source' = now
    /\ change' = [op |-> "change", text |-> plan.text, kind |-> plan.kind,
                  operations |-> plan.operations, nets |-> {}]
    /\ stage' = "check"
    /\ UNCHANGED <<edits, sites, segments, pending, created, report, result, audit, planning>>

Applied(d) == IF plan.dialect = "svg" THEN ApplySvg(d, plan) ELSE ApplyScad(d, plan)

ApplyText ==
    /\ phase = "planned" /\ plan.dialect \in {"svg", "scad"} /\ edited = None
    /\ \E now \in {request.document, [request.document EXCEPT !.text = "newer"]},
          verdict \in IF plan.dialect = "scad" THEN ScadVerdicts ELSE {"structurally_valid"} :
         edited' = IF Applied(now) = {} \/ verdict = "refused" THEN [text |-> "refused"]
                   ELSE CHOOSE d \in Applied(now) : TRUE
    /\ UNCHANGED <<request, phase, routes, plan, mode, editing, audit>>

Planning == CompileConnectivity \/ RefuseTracks \/ Resolve \/ Call \/ ApplyKicad \/ ApplyText

NotPlanning ==
    /\ request = None /\ phase = "idle" /\ routes = <<>> /\ plan = None /\ mode = "" /\ edited = None

PlanningInit(requests) ==
    /\ request \in requests /\ phase = "asked"
    /\ routes = <<>> /\ plan = None /\ mode = "" /\ edited = None

DeskNext == Planning \/ (Next /\ UNCHANGED planning)

-----------------------------------------------------------------------------
(* Properties.                                                             *)

(* Whoever made it, a plan stays inside what the request showed: it is      *)
(* bound to the text that was read, each target is exactly one of its       *)
(* items, and an operation is one that was offered, without an approval.    *)
(* An answer of the model that passed does ask for some change.             *)
PlansStayInDocument ==
    phase = "planned" =>
        /\ plan.dialect = "kicad" /\ stage = "idle" =>
             /\ plan.text = source.text
             /\ \A n \in DOMAIN plan.operations : \E i \in DOMAIN source.items :
                  /\ plan.operations[n].target = Identity(source, i)
                  /\ \A j \in DOMAIN source.items \ {i} : source.items[j].uuid # source.items[i].uuid
             /\ mode \in {"model", "deterministic"} =>
                  \E n \in DOMAIN plan.operations : Effective(source, plan.operations[n])
        /\ plan.dialect \in {"svg", "scad"} =>
             /\ plan.text = request.document.text
             /\ Len(plan.operations) = 1
             /\ plan.operations[1].target \in TextTargets(request.document)
        /\ plan.dialect = "operation" /\ plan.decision = "propose" =>
             plan.operation \in request.document.vocabulary /\ "approved" \notin plan.input
        /\ plan.dialect = "vision" => SvgFindings(request.document) \subseteq plan.findings

(* What the local compiler planned for a source that is still the same is   *)
(* never refused for its targets, its nets or overlapping places: only the  *)
(* copper may stand in the way.  (Parts number their pads once, and every   *)
(* symbol has the two properties.)                                         *)
LocalPlansApply ==
    /\ stage = "refused" /\ phase = "planned" /\ mode \in {"deterministic", "local", "fallback"}
    /\ source.text # "newer"
    => result.reason \notin {"unacceptable", "target", "overlap"}

(* Signals that sit on one pad each are assigned in the order in which they *)
(* lie along the row, whatever order they are declared in: no two of them   *)
(* change places.                                                          *)
SignalsStayInOrder ==
    phase = "planned" /\ mode = "deterministic" /\ source.text # "newer" =>
        \A m, n \in DOMAIN plan.operations :
            LET p == plan.operations[m]
                q == plan.operations[n]
                i == TargetNode(source, p)
                At(op) == source.items[i].pads[CHOOSE k \in NamedPads(source, i, op.pad) : TRUE].at
                Was(op) == source.items[i].pads[CHOOSE k \in Carriers(source, i, op.net) : TRUE].at
            IN  /\ p.op = "assign_pad_net" /\ q.op = "assign_pad_net" /\ p.target = q.target
                /\ {p.net, q.net} \subseteq ToSet(SignalNets)
                /\ \A net \in ToSet(KnownSignals(source)) : Cardinality(Carriers(source, i, net)) = 1
                /\ \A k \in DOMAIN source.items[i].pads : source.items[i].pads[k].at[2] = At(p)[2]
                /\ At(p)[1] < At(q)[1]
                => Was(p)[1] <= Was(q)[1]

(* A patch of plain text changes its target as asked and nothing else.      *)
PatchesAreLocal ==
    edited # None /\ edited.text # "refused" /\ plan.operations[1].value.kind = "plain" =>
        LET op == plan.operations[1]
        IN  IF plan.dialect = "svg"
            THEN /\ DOMAIN edited.elements = DOMAIN request.document.elements
                 /\ \A i \in DOMAIN edited.elements :
                      (edited.elements[i] # request.document.elements[i]) => i = op.target
                 /\ \/ edited.elements[op.target].text = op.value
                    \/ op.value \in {edited.elements[op.target].attributes[a] :
                                       a \in DOMAIN edited.elements[op.target].attributes}
            ELSE \E i \in DOMAIN edited.lines :
                   edited.lines = [request.document.lines EXCEPT ![i].value = op.value]
                   /\ edited.lines[i].name = op.target
=============================================================================
