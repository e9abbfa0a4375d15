----------------------------- MODULE MCEdaDesk -----------------------------
(* A board of a connector and a chip, a board with a shielded part in the   *)
(* way, a schematic; documents of one to three operations.                 *)
EXTENDS ModelPlanning

Pad(number, at, net) == [number |-> number, at |-> at, layers |-> {"F"}, net |-> net]

Part(ref, shielded, at, pads) ==
    [uuid |-> ref, ref |-> ref, entity |-> "footprint", shielded |-> shielded, half |-> <<1, 1>>,
     at |-> at, props |-> <<>>, pads |-> pads, kin |-> {}]

Seg(net, a, b) == [layer |-> "F", net |-> net, a |-> a, b |-> b]

Chip == Part("U1", FALSE, <<2, 2>>, <<Pad("1", <<0, 0>>, 1), Pad("2", <<2, 0>>, 2), Pad("3", <<4, 0>>, 0)>>)
Plug == Part("J1", FALSE, <<0, 4>>, <<Pad("1", <<0, 0>>, 1), Pad("2", <<0, 2>>, 2), Pad("3", <<1, -3>>, 0)>>)
Button == Part("SW1", TRUE, <<6, 4>>, <<Pad("1", <<0, 0>>, 0)>>)

Tracks == <<Seg(1, <<2, 2>>, <<2, 4>>), Seg(1, <<2, 4>>, <<0, 4>>),
            Seg(2, <<4, 2>>, <<4, 6>>), Seg(2, <<4, 6>>, <<0, 6>>)>>

Board ==
    [text |-> "board", kind |-> "pcb", items |-> <<Chip, Plug>>, nets |-> <<"GP1", "GP2">>,
     segments |-> Tracks, vias |-> {}, outline |-> <<0..7, 0..7>>]

Crowded ==
    [Board EXCEPT !.text = "crowded", !.items = @ \o <<Button>>,
                  !.segments = <<Seg(1, <<2, 2>>, <<2, 3>>), Seg(1, <<2, 3>>, <<2, 4>>)>> \o Tail(@),
                  !.vias = {[at |-> <<6, 6>>, layers |-> {"F"}, net |-> 2]}]

Bare == [Board EXCEPT !.text = "bare", !.outline = None]

Symbol(ref, value) ==
    [uuid |-> ref, ref |-> ref, entity |-> "symbol", shielded |-> FALSE, half |-> <<0, 0>>,
     at |-> <<0, 0>>, props |-> [p \in {"Value", "Footprint"} |-> value], pads |-> <<>>,
     kin |-> {value}]

Sheet ==
    [text |-> "sheet", kind |-> "schematic", items |-> <<Symbol("U1", "x"), Symbol("J1", "")>>,
     nets |-> <<>>, segments |-> <<>>, vias |-> {}, outline |-> None]

MCSources == {Board, Crowded, Bare, Sheet}

By(ref) == [uuid |-> "", ref |-> ref]

Assign(ref, pad, net, create) ==
    [op |-> "assign_pad_net", entity |-> "footprint", target |-> By(ref), pad |-> pad, net |-> net,
     create |-> create]
MoveTo(ref, to) == [op |-> "move", entity |-> "footprint", target |-> By(ref), to |-> to]
SetTo(ref, property) == [op |-> "set_property", entity |-> "symbol", target |-> By(ref),
                          property |-> property, value |-> "y"]

PadOperations == {Assign("U1", pad, net, TRUE) : pad \in {"1", "2", "3"}, net \in {"GP1", "GP2", "NEW", ""}}
           \cup {Assign("J1", "3", "NEW", FALSE), Assign("J1", "1", "", FALSE)}

Operations == PadOperations \cup {MoveTo("U1", <<2, 1>>), SetTo("J1", "Value")}

Triples ==
    {<<Assign("U1", "1", "NEW", TRUE), Assign("U1", "3", "GP1", FALSE), op>> : op \in Operations} \cup
    {<<Assign("U1", "1", "GP2", FALSE), Assign("U1", "2", "GP1", FALSE), op>> : op \in Operations}
    \cup {<<Assign("U1", "1", "", FALSE), Assign("U1", "3", "GP1", FALSE), op>> : op \in Operations}

Change(text, operations) ==
    [op |-> "change", text |-> text, kind |-> IF text = "sheet" THEN "schematic" ELSE "pcb",
     operations |-> operations, nets |-> {}]

MCChanges(texts) ==
    {Change(text, <<op>>) : text \in texts, op \in Operations}
    \cup {Change(text, <<op, other>>) : text \in texts, op \in Operations, other \in Operations}
    \cup {Change(text, ops) : text \in texts, ops \in Triples}
    \cup {[op |-> "reroute", text |-> text, kind |-> "pcb", operations |-> <<>>, nets |-> nets] :
            text \in texts, nets \in {{1}, {1, 2}, {3}, {}}}

-----------------------------------------------------------------------------
(* A panel on which three signals wait for a connector, and what may be     *)
(* asked of it.                                                            *)

Jack == [Part("J2", FALSE, <<2, 2>>, <<Pad("1", <<0, 0>>, 1), Pad("2", <<1, 0>>, 2), Pad("3", <<2, 0>>, 3),
                                       Pad("4", <<3, 0>>, 0), Pad("5", <<4, 0>>, 0)>>) EXCEPT !.kin = {"enc"}]
Mcu == Part("M1", FALSE, <<2, 6>>, <<Pad("A", <<0, 0>>, 2), Pad("B", <<1, 0>>, 3), Pad("5V", <<4, 0>>, 0)>>)

Panel ==
    [text |-> "panel", kind |-> "pcb", items |-> <<Jack, Mcu>>, nets |-> <<"GND", "ENC_A", "ENC_B">>,
     segments |-> <<Seg(2, <<3, 2>>, <<3, 4>>), Seg(2, <<3, 4>>, <<2, 4>>), Seg(2, <<2, 4>>, <<2, 6>>),
                    Seg(3, <<4, 2>>, <<4, 5>>), Seg(3, <<4, 5>>, <<3, 5>>), Seg(3, <<3, 5>>, <<3, 6>>)>>,
     vias |-> {}, outline |-> <<0..7, 0..7>>]

NoPrompt ==
    [tokens |-> <<>>, ground |-> <<>>, signal |-> <<>>, power |-> <<>>, value |-> "", footprint |-> "",
     to |-> None, connectivity |-> FALSE, tracks |-> FALSE]

PinPrompts ==
    {[NoPrompt EXCEPT !.tokens = <<t>>, !.ground = g, !.signal = s, !.power = p, !.connectivity = TRUE] :
        t \in {"J2", "enc", "zz"}, g \in {<<"1">>, <<"2", "3">>},
        s \in {<<"2", "3">>, <<"3", "2">>, <<"4", "5">>, <<"5", "4">>, <<"4">>, <<"2", "9">>, <<"1", "4">>},
        p \in {<<"5">>, <<"4">>, <<"1">>, <<>>}}
    \cup {[NoPrompt EXCEPT !.tokens = <<"J2">>, !.to = <<2, 2>>, !.connectivity = TRUE]}

PlainPrompts ==
    {[NoPrompt EXCEPT !.tokens = <<t>>, !.value = v, !.to = to, !.tracks = tracks] :
        t \in {"J2", "U1", "x"}, v \in {"", "x", "z"}, to \in {None, <<2, 2>>, <<1, 1>>}, tracks \in BOOLEAN}

Kicad(prompts) == {[dialect |-> "kicad", prompt |-> p, document |-> None] : p \in prompts}

Word(kind) == [kind |-> kind, text |-> kind]

Text(word) == [tag |-> "text", open |-> TRUE, text |-> Word(word), attributes |-> <<>>]

Drawing ==
    [text |-> "drawing", viewBox |-> FALSE, title |-> TRUE,
     elements |-> <<Text("on"), [tag |-> "rect", open |-> FALSE, text |-> Word("none"),
                                 attributes |-> [a \in {"fill"} |-> Word("red")]], Text("off"), Text("off")>>]

Line(name, folded, depth) == [name |-> name, folded |-> folded, depth |-> depth, value |-> Word("four")]

File == [text |-> "file", lines |-> <<Line("T", "t", 0), Line("t", "t", 0), Line("W", "w", 0),
                                      Line("W", "w", 0), Line("T", "t", 1)>>]

SvgRequests ==
    {[dialect |-> "svg", document |-> Drawing,
      prompt |-> [before |-> b, attribute |-> a, target |-> 2, value |-> Word("plain")]] :
        b \in {None, Word("on"), Word("off")}, a \in {None, "fill"}}
ScadRequests ==
    {[dialect |-> "scad", document |-> File, prompt |-> [folded |-> f, value |-> Word("plain")]] : f \in {"t", "w"}}
OperationRequests ==
    {[dialect |-> "operation", document |-> [vocabulary |-> v], prompt |-> None] : v \in {{"route"}, {"route", "place"}}}
AdviceRequests ==
    {[dialect |-> d, document |-> [facts |-> {"drc"}], prompt |-> None] : d \in {"chat", "review"}}
    \cup {[dialect |-> "firmware", document |-> [gpio |-> {1, 2}, labels |-> {2, 3}], prompt |-> None],
          [dialect |-> "vision", document |-> Drawing, prompt |-> None]}

TextRequests == SvgRequests \cup ScadRequests \cup OperationRequests \cup AdviceRequests

Untouched ==
    /\ stage = "idle" /\ change = None /\ edits = <<>> /\ sites = <<>> /\ segments = <<>> /\ pending = <<>>
    /\ created = <<>> /\ report = NoReport /\ result = Pending

MCInit ==
    /\ audit = NotAudited
    /\ \/ /\ \E s \in MCSources :
               EditingInit({s}, MCChanges({s.text} \cup (IF s = Bare THEN {"board"} ELSE {})))
          /\ NotPlanning
       \/ /\ Untouched
          /\ \/ source = Panel /\ PlanningInit(Kicad(PinPrompts \cup PlainPrompts))
             \/ source = Sheet /\ PlanningInit(Kicad(PlainPrompts))
             \/ source = Sheet /\ PlanningInit(TextRequests)

deskVars == <<editing, audit, planning>>

Spec == MCInit /\ [][DeskNext]_deskVars

-----------------------------------------------------------------------------
(* What a model may answer.                                                *)

Targets == {[uuid |-> "J2", ref |-> "J2"], [uuid |-> "J2", ref |-> "M1"], [uuid |-> "zz", ref |-> "J2"],
            [uuid |-> "", ref |-> "J2"], [uuid |-> "zz", ref |-> "zz"], [uuid |-> "U1", ref |-> ""]}

ModelOps(t) ==
    {[Assign("J2", pad, net, FALSE) EXCEPT !.target = t] : pad \in {"1", "5"}, net \in {"GND", "", "NEW"}}
    \cup {[MoveTo("J2", to) EXCEPT !.target = t] : to \in {<<2, 2>>, <<5, 1>>}}
    \cup {[SetTo("J2", "Value") EXCEPT !.target = t]}

Said(body) == [kind |-> "document"] @@ body
Useless == {[kind |-> "error"], [kind |-> "prose"]}

MCAnswers ==
    [d \in Dialects |-> Useless \cup
        CASE d = "kicad" ->
               {Said([document |-> Document(text, kind, <<op>>)]) :
                    text \in {"panel", "other"}, kind \in {"pcb"}, op \in UNION {ModelOps(t) : t \in Targets}}
               \cup {Said([document |-> Document("sheet", "schematic", <<op>>)]) :
                    op \in UNION {ModelOps(t) : t \in Targets}}
          [] d = "svg" ->
               {Said([text |-> text, operation |-> [op |-> o, target |-> t, attribute |-> "fill", value |-> Word(v)]]) :
                    text \in {"drawing", "other"}, o \in {"set_text", "set_attribute"}, t \in {1, 2, 7},
                    v \in {"plain", "markup", "broken", "escaped"}}
          [] d = "scad" ->
               {Said([text |-> "file", operation |-> [op |-> "set_variable", target |-> t, value |-> Word("plain")]]) :
                    t \in {"T", "W", "zz"}}
          [] d = "operation" ->
               {Said([decision |-> e, operation |-> o, input |-> i]) :
                    e \in {"propose", "unsupported"}, o \in {"", "route", "promote"}, i \in SUBSET {"approved", "float", "at"}}
          [] d = "vision" -> {Said([findings |-> {[code |-> "overlap", target |-> t]}]) : t \in {0, 1, 9}}
          [] OTHER -> {Said([findings |-> f, human |-> h]) : f \in {{}, {"seen"}}, h \in BOOLEAN}]

MCRoutings == {<<>>, <<"first">>, <<"first", "second">>}
MCSignalNets == <<"ENC_B", "ENC_A">>

-----------------------------------------------------------------------------
Pins(n) == [p \in n |-> FALSE]

Drawn ==
    [nets |-> [n \in {"GP1", "GP2"} |-> IF n = "GP1" THEN {<<"U1", "1">>, <<"J1", "1">>}
                                        ELSE {<<"U1", "2">>, <<"J1", "2">>}],
     components |-> [r \in {"U1", "J1"} |-> Pins({"1", "2", "3"})],
     noConnect |-> {<<"U1", "3">>, <<"J1", "3">>}]

Starved ==
    [nets |-> [n \in {"3V3", "P3V3"} |-> IF n = "3V3" THEN {<<"U1", "3">>} ELSE {<<"J1", "3">>, <<"J1", "1">>}],
     components |-> [r \in {"U1", "J1", "R1"} |-> [p \in {"1", "3"} |-> p = "3"]],
     noConnect |-> {}]

MCNetlists == {Drawn, Starved}
MCReports ==
    {[categories |-> [c \in {"clearance"} |-> n], unconnected |-> u, under |-> t] :
        n \in {0, 1}, u \in {0, 1}, t \in {{}, {<<"SW1", 1>>}}}
MCSimulations == {[undefined |-> u, skipped |-> {"U1"}] : u \in {{}, {"GP1"}}}
MCRailKey == [n \in {"GP1", "GP2", "3V3", "P3V3", "NEW", "", "GND", "ENC_A", "ENC_B", "+5V"} |->
                IF n \in {"3V3", "P3V3"} THEN "3V3" ELSE None]
MCFamily == [n \in {"GP1", "GP2", "3V3", "P3V3", "NEW", "", "GND", "ENC_A", "ENC_B", "+5V"} |->
                CASE n \in {"GP1", "GP2"} -> "GP" [] n = "NEW" -> "NEW" [] OTHER -> "V"]
MCBoards == {Board, Crowded}
=============================================================================
