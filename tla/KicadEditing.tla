---------------------------- MODULE KicadEditing ----------------------------
(***************************************************************************)
(* A change document applied to a KiCad source: apply_changes_with_repair  *)
(* and the copper repair behind it.  The text edits are kept as places and *)
(* values; geometry is a grid whose pitch stands for the clearance, so two *)
(* pieces of copper are too close when they share a grid point.  Net code  *)
(* 0 is no net, the others count the net table.  The router of twin_kicad  *)
(* is external: it may answer with any clear path of the shapes below.     *)
(***************************************************************************)
EXTENDS Integers, Sequences, FiniteSets, SequencesExt, FiniteSetsExt

CONSTANTS
    SlideLimit,  \* the vertices a stub may drag along (_SLIDE_LIMIT, 16 in the code)
    None         \* no edit, no home

VARIABLES
    source,      \* the source text as read
    change,      \* the change document
    stage,       \* where apply_changes_with_repair is
    edits,       \* the replacements collected so far, as <<place, value>>
    sites,       \* the pads with their nets before and after (_pad_sites)
    segments,    \* the tracks (_segment_sites), with those just routed
    pending,     \* nets still to route, or nets and layers still to re-route
    created,     \* the nets the document creates, in the order of their codes
    report,      \* what the repair did
    result       \* the edited source, or why there is none

editing == <<source, change, stage, edits, sites, segments, pending, created,
             report, result>>

Stages == {"idle", "check", "relay", "edit", "slide", "route", "verify", "reroute", "splice",
           "done", "refused"}

-----------------------------------------------------------------------------
(* Geometry.                                                               *)

Hull(a, b) == {<<x, y>> \in (Min({a[1], b[1]})..Max({a[1], b[1]}))
                            \X (Min({a[2], b[2]})..Max({a[2], b[2]})) : TRUE}

(* The grid points of a track, a diagonal one included. *)
Covers(t) ==
    {p \in Hull(t.a, t.b) :
        (t.b[1] - t.a[1]) * (p[2] - t.a[2]) = (t.b[2] - t.a[2]) * (p[1] - t.a[1])}

Plus(p, d) == <<p[1] + d[1], p[2] + d[2]>>
Delta(from, to) == <<to[1] - from[1], to[2] - from[2]>>

Horizontal(t) == t.a[2] = t.b[2]
Vertical(t) == t.a[1] = t.b[1]
Ends(t) == {t.a, t.b}

-----------------------------------------------------------------------------
(* Reading a source.                                                       *)

Track(layer, net, a, b) ==
    [layer |-> layer, net |-> net, a |-> a, b |-> b, moved |-> FALSE, origin |-> 0]

SegmentSites(s) ==
    [i \in DOMAIN s.segments |->
        [Track(s.segments[i].layer, s.segments[i].net, s.segments[i].a, s.segments[i].b)
            EXCEPT !.origin = i]]

PadSite(i, k) ==
    LET pad == source.items[i].pads[k]
    IN  [item |-> i, pad |-> k, at |-> Plus(source.items[i].at, pad.at),
         layers |-> pad.layers, before |-> pad.net, after |-> pad.net]

PadSites ==
    FlattenSeq([i \in DOMAIN source.items |->
                    [k \in DOMAIN source.items[i].pads |-> PadSite(i, k)]])

(* The items that an identity names: by uuid, by reference, or by both. *)
Matches(s, entity, target) ==
    {i \in DOMAIN s.items :
        /\ s.items[i].entity = entity
        /\ target.uuid # "" => s.items[i].uuid = target.uuid
        /\ target.ref # "" => s.items[i].ref = target.ref}

TargetNode(s, op) == CHOOSE i \in Matches(s, op.entity, op.target) : TRUE
Unambiguous(s, op) == Cardinality(Matches(s, op.entity, op.target)) = 1

NamedPads(s, i, number) == {k \in DOMAIN s.items[i].pads : s.items[i].pads[k].number = number}

-----------------------------------------------------------------------------
(* The net table.                                                          *)

IsAssign(op) == op.op = "assign_pad_net"

(* Nets that are named but not in the table, once each in a fixed order. *)
MissingNets(s, c) ==
    SetToSeq({op.net : op \in {o \in ToSet(c.operations) : IsAssign(o)}} \ (ToSet(s.nets) \cup {""}))

(* Only the first operation that names a missing net is asked for leave. *)
MayCreate(c, net) ==
    LET naming == {i \in DOMAIN c.operations :
                        IsAssign(c.operations[i]) /\ c.operations[i].net = net}
    IN  c.operations[Min(naming)].create

NetCode(s, new, net) ==
    IF net = "" THEN 0 ELSE CHOOSE n \in DOMAIN (s.nets \o new) : (s.nets \o new)[n] = net

-----------------------------------------------------------------------------
(* The edit of one operation: <<place, value>>, or None where the code      *)
(* raises; clearing a pad that has no net is no edit at all.                *)

PropertyEdit(s, i, op) ==
    IF op.property \in DOMAIN s.items[i].props
    THEN <<<<<<"property", i, op.property>>, op.value>>>> ELSE None

MoveEdit(i, op) == <<<<<<"at", i>>, op.to>>>>

PadEdit(s, i, op, new) ==
    LET pads == NamedPads(s, i, op.pad)
        k == CHOOSE k \in pads : TRUE
        code == NetCode(s, new, op.net)
    IN  CASE Cardinality(pads) # 1 -> None
          [] Cardinality(pads) = 1 /\ s.items[i].pads[k].net # 0 -> <<<<<<"net", i, k>>, code>>>>
          [] OTHER -> IF code = 0 THEN <<>> ELSE <<<<<<"pad", i, k>>, code>>>>

EditOf(s, op, new) ==
    LET i == TargetNode(s, op)
    IN  CASE ~Unambiguous(s, op) -> None
          [] Unambiguous(s, op) /\ op.op = "set_property" -> PropertyEdit(s, i, op)
          [] Unambiguous(s, op) /\ op.op = "move" -> MoveEdit(i, op)
          [] OTHER -> PadEdit(s, i, op, new)

(* The pads with their nets after the change; the last assignment counts. *)
Retarget(before, s, op, new) ==
    [j \in DOMAIN before |->
        IF /\ IsAssign(op)
           /\ before[j].item = TargetNode(s, op)
           /\ before[j].pad \in NamedPads(s, TargetNode(s, op), op.pad)
        THEN [before[j] EXCEPT !.after = NetCode(s, new, op.net)] ELSE before[j]]

-----------------------------------------------------------------------------
(* Sliding a stub: the vertices that go with the pad.                       *)

StubTracks(segs, net, layer) ==
    {i \in DOMAIN segs : segs[i].net = net /\ segs[i].layer = layer}

(* Faulty variant: with the axes confused. *)
DragsAlong(t, delta) ==
    /\ Horizontal(t) \/ Vertical(t)
    /\ ~(Horizontal(t) /\ delta[1] = 0) /\ ~(Vertical(t) /\ delta[2] = 0)

(* A track that would be turned out of its axis drags its other end along;  *)
(* one that is parallel to the slide, or slanting, is stretched instead.    *)
Drags(t, delta) ==
    /\ Horizontal(t) \/ Vertical(t)
    /\ ~(Horizontal(t) /\ delta[2] = 0) /\ ~(Vertical(t) /\ delta[1] = 0)

DragStep(vertices, segs, tracks, delta) ==
    vertices \cup UNION {Ends(segs[i]) : i \in {j \in tracks :
                            Drags(segs[j], delta) /\ Ends(segs[j]) \cap vertices # {}}}

Dragged(site, home, segs, layer) ==
    LET tracks == StubTracks(segs, site.before, layer)
        delta == Delta(site.at, home.at)
    IN  FoldLeft(LAMBDA vertices, t : DragStep(vertices, segs, tracks, delta),
                 {site.at}, segs)

Slid(segs, site, home, layer) ==
    LET vertices == Dragged(site, home, segs, layer)
        delta == Delta(site.at, home.at)
        Shift(p) == IF p \in vertices THEN Plus(p, delta) ELSE p
    IN  [i \in DOMAIN segs |->
            IF i \in StubTracks(segs, site.before, layer) /\ Ends(segs[i]) \cap vertices # {}
            THEN [segs[i] EXCEPT !.a = Shift(@), !.b = Shift(@), !.moved = TRUE]
            ELSE segs[i]]

(* The pads of the same footprint that take over the net a pad gives up. *)
Homes(site) ==
    {j \in DOMAIN sites : /\ sites[j].item = site.item
                          /\ sites[j].after = site.before /\ sites[j].before # site.before}

Leaves(site) == site.after # site.before /\ site.before # 0 /\ Cardinality(Homes(site)) = 1
Home(site) == sites[CHOOSE j \in Homes(site) : TRUE]

HasStub(segs, site, layer) ==
    \E i \in StubTracks(segs, site.before, layer) : site.at \in Ends(segs[i])

SlideLayers(segs, site) ==
    {layer \in site.layers \cap Home(site).layers : HasStub(segs, site, layer)}

(* One stub after the other; too long a chain of vertices refuses it all. *)
SlideAll ==
    FoldLeft(LAMBDA acc, site :
        IF ~Leaves(site) THEN acc
        ELSE FoldSet(LAMBDA layer, a :
                [segs |-> Slid(a.segs, site, Home(site), layer),
                 slides |-> Append(a.slides, [site |-> site, home |-> Home(site), layer |-> layer]),
                 long |-> a.long \/ Cardinality(Dragged(site, Home(site), a.segs, layer)) > SlideLimit],
              acc, SlideLayers(acc.segs, site)),
        [segs |-> segments, slides |-> <<>>, long |-> FALSE], sites)

MovedEdits(segs) ==
    FlattenSeq([i \in DOMAIN segs |->
        IF segs[i].moved
        THEN <<<<<<"start", segs[i].origin>>, segs[i].a>>, <<<<"end", segs[i].origin>>, segs[i].b>>>>
        ELSE <<>>])

-----------------------------------------------------------------------------
(* What a track may not touch, and the paths the router may answer.         *)

(* Parts under which foreign copper is a short in waiting: a net none of    *)
(* whose pads it carries, after the change, keeps out of its outline.       *)
KeepOut(net) ==
    UNION {Hull(Plus(source.items[i].at, <<-source.items[i].half[1], -source.items[i].half[2]>>),
                Plus(source.items[i].at, source.items[i].half)) :
           i \in {j \in DOMAIN source.items :
                    /\ source.items[j].shielded
                    /\ \A s \in ToSet(sites) : s.item = j => s.after # net}}

(* The grid points of a layer that belong to other nets. *)
Foreign(segs, layer, net) ==
    UNION {Covers(segs[i]) : i \in {j \in DOMAIN segs : segs[j].layer = layer /\ segs[j].net # net}}
    \cup {s.at : s \in {t \in ToSet(sites) : layer \in t.layers /\ t.after # net}}
    \cup {v.at : v \in {w \in source.vias : layer \in w.layers /\ w.net # net}}

Legs(corners) == {<<corners[i], corners[i + 1]>> : i \in {j \in 1..3 : corners[j] # corners[j + 1]}}

(* The ways from one pad to the next inside the outline, two corners at most. *)
Links(a, b) ==
    {Legs(<<a, <<x, a[2]>>, <<x, b[2]>>, b>>) : x \in source.outline[1]}
    \cup {Legs(<<a, <<a[1], y>>, <<b[1], y>>, b>>) : y \in source.outline[2]}

IsClear(link, blocked) == \A leg \in link : Covers([a |-> leg[1], b |-> leg[2]]) \cap blocked = {}

(* route_net of twin_kicad: any clear way from pad to pad. *)
RouteNet(points, net, layer, segs) ==
    LET blocked == Foreign(segs, layer, net) \cup KeepOut(net)
        links == [i \in 1..(Len(points) - 1) |->
                    {link \in Links(points[i], points[i + 1]) : IsClear(link, blocked)}]
    IN  {LET legs == SetToSeq(UNION {ways[i] : i \in DOMAIN ways})
         IN  [n \in DOMAIN legs |-> Track(layer, net, legs[n][1], legs[n][2])] :
            ways \in {w \in [DOMAIN links -> UNION {links[i] : i \in DOMAIN links}] :
                        \A i \in DOMAIN links : w[i] \in links[i]}}

Terminals(net, layer) == SelectSeq(sites, LAMBDA s : s.after = net /\ layer \in s.layers)
Points(terminals) == [i \in DOMAIN terminals |-> terminals[i].at]

SharedLayers(terminals) == {layer \in UNION {t.layers : t \in ToSet(terminals)} :
                                \A t \in ToSet(terminals) : layer \in t.layers}

(* Faulty variant: without the pads and vias. *)
UnsafeAmongTracks(segs) ==
    {<<segs[i].net, segs[i].layer>> : i \in {j \in DOMAIN segs :
        segs[j].moved /\ \E k \in DOMAIN segs : segs[k].layer = segs[j].layer /\ segs[k].net # segs[j].net
                           /\ Covers(segs[j]) \cap Covers(segs[k]) # {}}}

(* Moved tracks that came too close to copper of another net. *)
Unsafe(segs) ==
    {<<segs[i].net, segs[i].layer>> : i \in {j \in DOMAIN segs :
        segs[j].moved /\ Covers(segs[j]) \cap Foreign(segs, segs[j].layer, segs[j].net) # {}}}

InOrder(pairs) ==
    SetToSortSeq(pairs, LAMBDA p, q : p[1] < q[1] \/ (p[1] = q[1] /\ p[2] = "B" /\ q[2] = "F"))

-----------------------------------------------------------------------------
(* Splicing the edits into the source.                                      *)

IsInsertion(place) == place[1] \in {"nets", "pad", "copper"}

Inside(p, q) == p[1] \in {"start", "end"} /\ q[1] = "segment" /\ p[2] = q[2]

Overlapping(p, q) ==
    ~IsInsertion(p) /\ ~IsInsertion(q) /\ (p = q \/ Inside(p, q) \/ Inside(q, p))

Overlaps(es) == \E i, j \in DOMAIN es : i # j /\ Overlapping(es[i][1], es[j][1])

ValuesAt(es, place) == {es[i][2] : i \in {j \in DOMAIN es : es[j][1] = place}}
Value(es, place, old) == IF ValuesAt(es, place) = {} THEN old ELSE CHOOSE v \in ValuesAt(es, place) : TRUE

(* Two nets inserted into one pad: the smaller text is in front and is read. *)
PadNet(es, i, k, old) ==
    IF ValuesAt(es, <<"pad", i, k>>) # {} THEN Min(ValuesAt(es, <<"pad", i, k>>))
    ELSE Value(es, <<"net", i, k>>, old)

SplicedItem(es, i) ==
    LET item == source.items[i]
    IN  [item EXCEPT
            !.at = Value(es, <<"at", i>>, @),
            !.props = [p \in DOMAIN @ |-> Value(es, <<"property", i, p>>, @[p])],
            !.pads = [k \in DOMAIN @ |-> [@[k] EXCEPT !.net = PadNet(es, i, k, @)]]]

Kept(es) == SelectSeq([i \in DOMAIN source.segments |-> i],
                      LAMBDA i : ValuesAt(es, <<"segment", i>>) = {})

SplicedTrack(es, i) ==
    [source.segments[i] EXCEPT !.a = Value(es, <<"start", i>>, @), !.b = Value(es, <<"end", i>>, @)]

Inserted(es) ==
    LET new == FlattenSeq([i \in DOMAIN es |-> IF es[i][1] = <<"copper">> THEN es[i][2] ELSE <<>>])
    IN  [i \in DOMAIN new |-> [layer |-> new[i].layer, net |-> new[i].net, a |-> new[i].a, b |-> new[i].b]]

Spliced(es) ==
    [source EXCEPT
        !.nets = @ \o created,
        !.items = [i \in DOMAIN @ |-> SplicedItem(es, i)],
        !.segments = [j \in DOMAIN Kept(es) |-> SplicedTrack(es, Kept(es)[j])] \o Inserted(es)]

-----------------------------------------------------------------------------
(* The operations.                                                          *)

NoReport == [retargeted |-> <<>>, routed |-> <<>>, rerouted |-> <<>>]
Pending == [status |-> "pending", reason |-> ""]

Refuse(reason) ==
    /\ stage' = "refused"
    /\ result' = [status |-> "refused", reason |-> reason]
    /\ UNCHANGED <<source, change, edits, sites, segments, pending, created, report>>

(* The document was written for this very text and kind of file, and the    *)
(* nets it names exist or may be added to a table that is there.            *)
Acceptable ==
    /\ change.text = source.text
    /\ change.kind = source.kind
    /\ \A net \in ToSet(MissingNets(source, change)) : MayCreate(change, net)
    /\ MissingNets(source, change) # <<>> => source.nets # <<>>

Check ==
    /\ stage = "check" /\ Acceptable
    /\ stage' = "edit"
    /\ created' = MissingNets(source, change)
    /\ edits' = IF created' = <<>> THEN <<>> ELSE <<<<<<"nets">>, created'>>>>
    /\ UNCHANGED <<source, change, sites, segments, pending, report, result>>

RefuseChange == stage = "check" /\ ~Acceptable /\ Refuse("unacceptable")

EditsOf == [n \in DOMAIN change.operations |-> EditOf(source, change.operations[n], created)]

(* Every operation is turned into its replacement; copper is repaired only  *)
(* on a board on which a pad was assigned.                                  *)
Edit ==
    /\ stage = "edit" /\ None \notin ToSet(EditsOf)
    /\ edits' = edits \o FlattenSeq(EditsOf)
    /\ sites' = FoldLeft(LAMBDA acc, op : Retarget(acc, source, op, created), PadSites, change.operations)
    /\ segments' = SegmentSites(source)
    /\ stage' = IF \E n \in DOMAIN change.operations : IsAssign(change.operations[n])
                THEN "slide" ELSE "splice"
    /\ UNCHANGED <<source, change, pending, created, report, result>>

RefuseEdit == stage = "edit" /\ None \in ToSet(EditsOf) /\ Refuse("target")

Slide ==
    /\ stage = "slide" /\ ~SlideAll.long
    /\ segments' = SlideAll.segs
    /\ edits' = edits \o MovedEdits(segments')
    /\ report' = [report EXCEPT !.retargeted = SlideAll.slides]
    /\ pending' = [n \in DOMAIN created |-> Len(source.nets) + n]
    /\ stage' = "route"
    /\ UNCHANGED <<source, change, sites, created, result>>

RefuseSlide == stage = "slide" /\ SlideAll.long /\ Refuse("limit")

CreatedTerminals == SelectSeq(sites, LAMBDA s : s.after = Head(pending))
TheLayer == CHOOSE layer \in SharedLayers(CreatedTerminals) : TRUE

CreatedRoutes ==
    IF Cardinality(SharedLayers(CreatedTerminals)) = 1 /\ source.outline # None
    THEN RouteNet(Points(CreatedTerminals), Head(pending), TheLayer, segments)
    ELSE {}

SkipCreated ==
    /\ stage = "route" /\ pending # <<>> /\ Len(CreatedTerminals) < 2
    /\ pending' = Tail(pending)
    /\ UNCHANGED <<source, change, stage, edits, sites, segments, created, report, result>>

(* A created net of two pads and more is routed; its tracks are obstacles   *)
(* for what follows.                                                        *)
RouteCreated ==
    /\ stage = "route" /\ pending # <<>> /\ Len(CreatedTerminals) >= 2
    /\ \E tracks \in CreatedRoutes :
          /\ segments' = segments \o tracks
          /\ edits' = Append(edits, <<<<"copper">>, tracks>>)
    /\ report' = [report EXCEPT !.routed = Append(@, <<Head(pending), TheLayer>>)]
    /\ pending' = Tail(pending)
    /\ UNCHANGED <<source, change, stage, sites, created, result>>

RefuseRoute ==
    /\ stage = "route" /\ pending # <<>> /\ Len(CreatedTerminals) >= 2
    /\ CreatedRoutes = {}
    /\ Refuse("route")

(* The nets whose moved tracks came too close to others are routed anew.    *)
Verify ==
    /\ stage = "route" /\ pending = <<>>
    /\ pending' = InOrder(Unsafe(segments))
    /\ stage' = "reroute"
    /\ UNCHANGED <<source, change, edits, sites, segments, created, report, result>>

(* reroute_nets: the nets by name are given; every layer they have copper on. *)
LayersOf(segs, net) == {segs[i].layer : i \in {j \in DOMAIN segs : segs[j].net = net}}

Relay ==
    /\ stage = "relay" /\ change.nets \subseteq DOMAIN source.nets
    /\ sites' = PadSites
    /\ segments' = SegmentSites(source)
    /\ pending' = InOrder({<<net, layer>> \in UNION {{net} \X LayersOf(segments', net) : net \in change.nets} :
                              Len(SelectSeq(sites', LAMBDA s : s.after = net /\ layer \in s.layers)) >= 2})
    /\ stage' = "reroute"
    /\ UNCHANGED <<source, change, edits, created, report, result>>

RefuseRelay == stage = "relay" /\ ~(change.nets \subseteq DOMAIN source.nets) /\ Refuse("net")

Stale(segs, net, layer) == {i \in DOMAIN segs : segs[i].net = net /\ segs[i].layer = layer}

Remaining(segs, stale) ==
    LET kept == SelectSeq([i \in DOMAIN segs |-> i], LAMBDA i : i \notin stale)
    IN  [n \in DOMAIN kept |-> segs[kept[n]]]

(* Faulty variant: keeping the coordinates of a removed track. *)
WithStaleMoves(es, origins) == es \o SetToSeq({<<<<"segment", o>>, None>> : o \in origins})

(* The coordinates a stale track had been given are dropped with it. *)
WithoutStale(es, origins) ==
    SelectSeq(es, LAMBDA e : ~\E o \in origins : Inside(e[1], <<"segment", o>>))
    \o SetToSeq({<<<<"segment", o>>, None>> : o \in origins})

TheNet == Head(pending)[1]
OnLayer == Head(pending)[2]

Reroutes ==
    LET terminals == Terminals(TheNet, OnLayer)
    IN  IF Len(terminals) < 2 \/ source.outline = None THEN {}
        ELSE RouteNet(Points(terminals), TheNet, OnLayer,
                      Remaining(segments, Stale(segments, TheNet, OnLayer)))

(* The old copper of a net goes and a new way is drawn.  It does not join   *)
(* the tracks the next net has to avoid.                                    *)
Reroute ==
    /\ stage = "reroute" /\ pending # <<>>
    /\ \E tracks \in Reroutes :
          edits' = Append(WithoutStale(edits, {segments[i].origin : i \in Stale(segments, TheNet, OnLayer)} \ {0}),
                          <<<<"copper">>, tracks>>)
    /\ segments' = Remaining(segments, Stale(segments, TheNet, OnLayer))
    /\ report' = [report EXCEPT !.rerouted = Append(@, Head(pending))]
    /\ pending' = Tail(pending)
    /\ UNCHANGED <<source, change, stage, sites, created, result>>

RefuseReroute ==
    /\ stage = "reroute" /\ pending # <<>> /\ Reroutes = {}
    /\ Refuse(IF Len(Terminals(TheNet, OnLayer)) < 2 THEN "clearance" ELSE "route")

(* A request to re-route that found nothing to do is an error. *)
NothingDone == change.op = "reroute" /\ report.rerouted = <<>>

Finish ==
    /\ stage = "reroute" /\ pending = <<>> /\ ~NothingDone
    /\ stage' = "splice"
    /\ UNCHANGED <<source, change, edits, sites, segments, pending, created, report, result>>

RefuseNothing == stage = "reroute" /\ pending = <<>> /\ NothingDone /\ Refuse("nothing")

Splice ==
    /\ stage = "splice" /\ ~Overlaps(edits)
    /\ stage' = "done"
    /\ result' = [status |-> "edited", reason |-> "", source |-> Spliced(edits)]
    /\ UNCHANGED <<source, change, edits, sites, segments, pending, created, report>>

RefuseOverlap == stage = "splice" /\ Overlaps(edits) /\ Refuse("overlap")

Editing ==
    \/ Check \/ Edit \/ Slide \/ SkipCreated \/ RouteCreated \/ Verify
    \/ Relay \/ Reroute \/ Finish \/ Splice
    \/ RefuseChange \/ RefuseEdit \/ RefuseSlide \/ RefuseRoute
    \/ RefuseRelay \/ RefuseReroute \/ RefuseNothing \/ RefuseOverlap

EditingInit(sources, changes) ==
    /\ source \in sources /\ change \in changes
    /\ stage = IF change.op = "reroute" THEN "relay" ELSE "check"
    /\ edits = <<>> /\ sites = <<>> /\ segments = <<>> /\ pending = <<>> /\ created = <<>>
    /\ report = NoReport /\ result = Pending

-----------------------------------------------------------------------------
(* What is said of the validation that an edit still needs.                 *)

Moves == {n \in DOMAIN change.operations : change.operations[n].op = "move"}
-----------------------------------------------------------------------------
(* Properties.                                                             *)

(* The copper of a source that is not of the given nets, on one layer.      *)
CopperOf(s, layer, nets) ==
    UNION {Covers(s.segments[i]) : i \in {j \in DOMAIN s.segments :
              s.segments[j].layer = layer /\ s.segments[j].net \notin nets}}
    \cup UNION {{Plus(s.items[i].at, s.items[i].pads[k].at) : k \in {l \in DOMAIN s.items[i].pads :
              layer \in s.items[i].pads[l].layers /\ s.items[i].pads[l].net \notin nets}} : i \in DOMAIN s.items}
    \cup {v.at : v \in {w \in s.vias : layer \in w.layers /\ w.net \notin nets}}

Rerouted(layer) == {p[1] : p \in {q \in ToSet(report.rerouted) : q[2] = layer}}

(* Copper that an edit moved or drew touches no copper of another net, the  *)
(* edited pads included.  Excepted are two nets that were both re-routed,   *)
(* since the second does not see the first, and documents that also move a  *)
(* part, since the repair sees the pads where they were.                    *)
NewCopperIsClear ==
    stage = "done" /\ Moves = {} =>
        \A t \in ToSet(result.source.segments) \ ToSet(source.segments) :
            LET friends == IF t.net \in Rerouted(t.layer) THEN Rerouted(t.layer) ELSE {t.net}
            IN  Covers(t) \cap CopperOf(result.source, t.layer, friends \cup {t.net}) = {}

(* A slide turns no track out of its axis, parts no two tracks that met,    *)
(* and ends on the pad that the net moved to.                               *)
SlideKeepsShape ==
    stage = "route" =>
        /\ \A i \in {j \in DOMAIN segments : segments[j].origin # 0} :
              LET old == source.segments[segments[i].origin]
              IN  (Horizontal(old) => Horizontal(segments[i])) /\ (Vertical(old) => Vertical(segments[i]))
        /\ \A i, j \in {k \in DOMAIN segments : segments[k].origin # 0} :
              LET p == source.segments[segments[i].origin]
                  q == source.segments[segments[j].origin]
              IN  p.net = q.net /\ p.layer = q.layer =>
                    /\ p.a = q.a => segments[i].a = segments[j].a
                    /\ p.a = q.b => segments[i].a = segments[j].b
                    /\ p.b = q.b => segments[i].b = segments[j].b
        /\ \A n \in DOMAIN report.retargeted :
              LET slide == report.retargeted[n]
              IN  \E i \in StubTracks(segments, slide.site.before, slide.layer) :
                    slide.home.at \in Ends(segments[i])

(* "Overlapping operations" is said only of a document in which two         *)
(* operations name the same place: what the repair itself writes never      *)
(* overlaps, although it may first move and then remove the same track.     *)
RepairNeverOverlaps ==
    result.reason = "overlap" =>
        \E m, n \in DOMAIN change.operations :
            m # n /\ EditsOf[m] # <<>> /\ EditsOf[n] # <<>> /\ EditsOf[m][1][1] = EditsOf[n][1][1]

=============================================================================
