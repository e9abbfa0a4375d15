------------------------------ MODULE EdaAudit ------------------------------
(***************************************************************************)
(* The audits of an EDA source (kicad_audit, schematic_state, pcb_state)    *)
(* on the board that an edit left behind.  A finding is a kind with the     *)
(* things it names; its severity decides whether the state is blocked.      *)
(* Netlists, DRC reports and simulations are made outside (kicad-cli, the   *)
(* viewer) and are inputs.                                                 *)
(***************************************************************************)
EXTENDS KicadEditing

CONSTANTS
    Netlists,     \* netlists Eeschema may export for the schematic
    Boards,       \* boards that may lie beside a schematic
    Reports,      \* DRC reports of KiCad, with what the viewer measured
    Simulations,  \* results of the simulator
    RailKey,      \* the rail each net name stands for, or None (_rail_key)
    Family        \* the prefix of each net name (_same_family)

VARIABLES audit   \* the last audit of the edited board

vars == <<editing, audit>>

NotAudited == [of |-> "none", input |-> None, blocked |-> FALSE, findings |-> <<>>]

-----------------------------------------------------------------------------
(* Netlist: nets is a function from names to sets of <<reference, pin>>,    *)
(* components a function from references to functions from pins to whether *)
(* their name is that of a supply.                                         *)

Nodes(netlist) == UNION {netlist.nets[n] : n \in DOMAIN netlist.nets}
NetsOf(netlist, node) == {n \in DOMAIN netlist.nets : node \in netlist.nets[n]}
PinsOf(netlist) == UNION {{r} \X DOMAIN netlist.components[r] : r \in DOMAIN netlist.components}

RailSplit(netlist) ==
    {n \in DOMAIN netlist.nets : RailKey[n] # None
        /\ \E m \in DOMAIN netlist.nets : m # n /\ RailKey[m] = RailKey[n]}

SingleNode(netlist) == {n \in DOMAIN netlist.nets : Cardinality(netlist.nets[n]) = 1}

FloatingPin(netlist) == PinsOf(netlist) \ (Nodes(netlist) \cup netlist.noConnect)

NoPower(netlist) ==
    {p \in PinsOf(netlist) : netlist.components[p[1]][p[2]]
        /\ \A n \in NetsOf(netlist, p) : Cardinality(netlist.nets[n]) < 2}

IsolatedPart(netlist) ==
    LET Own(r) == {n \in DOMAIN netlist.nets : \E node \in netlist.nets[n] : node[1] = r}
    IN  {r \in DOMAIN netlist.components :
            Own(r) # {} /\ \A n \in Own(r) : \A node \in netlist.nets[n] : node[1] = r}

(* The pads of a board as the audit reads them. *)
BoardPads(board) ==
    UNION {{[reference |-> board.items[i].ref, pin |-> board.items[i].pads[k].number,
             net |-> IF board.items[i].pads[k].net = 0 THEN "" ELSE board.nets[board.items[i].pads[k].net]] :
            k \in DOMAIN board.items[i].pads} : i \in DOMAIN board.items}

DriftPart(netlist, pads) ==
    LET onBoard == {p.reference : p \in pads} \ {""}
        drawn == DOMAIN netlist.components
    IN  (drawn \ onBoard) \cup (onBoard \ drawn)

Expected(netlist, pad) == NetsOf(netlist, <<pad.reference, pad.pin>>)
(* Faulty variant: skipping pads without a net. *)
MismatchedNamed(netlist, pads) ==
    {p \in pads : p.net # "" /\ Expected(netlist, p) # {} /\ p.net \notin Expected(netlist, p)}

Mismatched(netlist, pads) == {p \in pads : Expected(netlist, p) # {} /\ p.net \notin Expected(netlist, p)}

Unset(mismatched) == {p \in mismatched : p.net = ""}

SameFamily(netlist, pad) == \E n \in Expected(netlist, pad) : Family[pad.net] = Family[n]

Swapped(netlist, mismatched) ==
    {p \in mismatched \ Unset(mismatched) : SameFamily(netlist, p)}

Renamed(netlist, mismatched) ==
    (mismatched \ Unset(mismatched)) \ Swapped(netlist, mismatched)

Connectivity(netlist) ==
    [rail_split |-> RailSplit(netlist), single_node |-> SingleNode(netlist),
     floating_pin |-> FloatingPin(netlist), no_power |-> NoPower(netlist),
     isolated_part |-> IsolatedPart(netlist)]

Drift(netlist, pads) ==
    LET mismatched == Mismatched(netlist, pads)
    IN  [drift_missing_part |-> DriftPart(netlist, pads),
         drift_pin_swap |-> Swapped(netlist, mismatched),
         drift_net_name |-> Renamed(netlist, mismatched),
         drift_unset_pad |-> Unset(mismatched)]

(* Without a board beside it the netlist is not compared. *)
NetlistFindings(netlist, board) ==
    IF board = None THEN Connectivity(netlist)
    ELSE Connectivity(netlist) @@ Drift(netlist, BoardPads(board))

NetlistErrors == {"rail_split", "floating_pin", "no_power", "isolated_part", "drift_missing_part"}

-----------------------------------------------------------------------------
(* Board: the categories DRC counted, and what the viewer saw under parts.  *)

DrcErrors == {"drc_unavailable", "clearance", "solder_mask_bridge", "unconnected_items",
              "trace_under_part"}

BoardFindings(drc) ==
    LET counted == {c \in DOMAIN drc.categories : drc.categories[c] > 0}
        loose == IF drc.unconnected > 0 /\ "unconnected_items" \notin DOMAIN drc.categories
                 THEN {"unconnected_items"} ELSE {}
        under == IF drc.under # {} THEN {"trace_under_part"} ELSE {}
    IN  [c \in counted \cup loose \cup under |->
            IF c = "trace_under_part" THEN drc.under ELSE {c}]

-----------------------------------------------------------------------------
(* Schematic: its symbols, its twin on the board, and the netlist.          *)

References(s) == {s.items[i].ref : i \in DOMAIN s.items}

SymbolFindings(symbols, board) ==
    [empty |-> IF symbols.items = <<>> THEN {symbols.text} ELSE {},
     reference |-> {i \in DOMAIN symbols.items : symbols.items[i].ref = ""
                      \/ \E j \in DOMAIN symbols.items : i # j /\ symbols.items[i].ref = symbols.items[j].ref},
     footprint |-> {i \in DOMAIN symbols.items : symbols.items[i].props["Footprint"] = ""},
     sync |-> IF board = None THEN {} ELSE
              (References(symbols) \ (References(board) \cup {""}))
              \cup (References(board) \ (References(symbols) \cup {""}))]

SchematicFindings(symbols, board, netlist) ==
    SymbolFindings(symbols, board)
    @@ (IF netlist = None THEN [netgraph |-> {symbols.text}] ELSE NetlistFindings(netlist, board))

SchematicErrors == NetlistErrors \cup {"empty", "reference"}

-----------------------------------------------------------------------------
(* Simulation: inputs between the logic levels, parts without a model.      *)

SimulationFindings(sim) == [undefined_level |-> sim.undefined, unmodelled_part |-> sim.skipped]

-----------------------------------------------------------------------------
(* The audits of the candidate an edit produced.                            *)

Blocking(findings, errors) == \E k \in DOMAIN findings \cap errors : findings[k] # {}

Audit(of, input, findings, errors) ==
    /\ stage = "done"
    /\ audit' = [of |-> of, input |-> input, blocked |-> Blocking(findings, errors), findings |-> findings]
    /\ UNCHANGED editing

AuditNetlist(netlist) ==
    /\ result.source.kind = "pcb"
    /\ Audit("netlist", netlist, NetlistFindings(netlist, result.source), NetlistErrors)

AuditBoard(drc) == result.source.kind = "pcb" /\ Audit("board", drc, BoardFindings(drc), DrcErrors)

AuditSchematic(board, netlist) ==
    /\ result.source.kind = "schematic"
    /\ Audit("schematic", netlist, SchematicFindings(result.source, board, netlist), SchematicErrors)

AuditSimulation(sim) == Audit("simulation", sim, SimulationFindings(sim), {"undefined_level"})

Auditing ==
    /\ stage = "done"
    /\ \/ \E netlist \in Netlists : AuditNetlist(netlist)
       \/ \E drc \in Reports : AuditBoard(drc)
       \/ \E board \in Boards \cup {None}, netlist \in Netlists \cup {None} : AuditSchematic(board, netlist)
       \/ \E sim \in Simulations : AuditSimulation(sim)

Next == (Editing /\ UNCHANGED audit) \/ Auditing

-----------------------------------------------------------------------------
(* Properties.                                                             *)

(* An edit that moved a signal away from where the schematic has it is      *)
(* told by the audit, as exactly one of a swap, another name or an empty    *)
(* pad, and what still agrees is not accused: an edited board cannot drift  *)
(* from its schematic unseen.                                              *)
DriftIsReported ==
    audit.of = "netlist" =>
        \A i \in DOMAIN result.source.items : \A k \in DOMAIN result.source.items[i].pads :
            LET node == <<result.source.items[i].ref, result.source.items[i].pads[k].number>>
                code == result.source.items[i].pads[k].net
                name == IF code = 0 THEN "" ELSE result.source.nets[code]
                told == {kind \in {"drift_pin_swap", "drift_net_name", "drift_unset_pad"} :
                            [reference |-> node[1], pin |-> node[2], net |-> name] \in audit.findings[kind]}
            IN  Cardinality(told) = IF \E n \in DOMAIN audit.input.nets :
                                          node \in audit.input.nets[n] /\ node \notin
                                            UNION {audit.input.nets[m] : m \in DOMAIN audit.input.nets \cap {name}}
                                    THEN 1 ELSE 0
=============================================================================
