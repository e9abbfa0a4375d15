---------------------------- MODULE TextEditing ----------------------------
(***************************************************************************)
(* The small text patches of svg_dsl and scad_dsl.  A drawing is a sequence *)
(* of elements, a SCAD file a sequence of assignments; a value is a record  *)
(* that says what writing it into the file does: one that holds markup adds *)
(* an element, one with a quote or a backslash is written escaped, which no *)
(* XML reader undoes.                                                      *)
(***************************************************************************)
EXTENDS Integers, Sequences, FiniteSets, SequencesExt

LOCAL NoText == [kind |-> "none", text |-> ""]

(* The elements svg2dsl offers are numbered in the order of the file.       *)
SvgTargets(drawing) == DOMAIN drawing.elements

SvgSetText(drawing, op) ==
    LET e == drawing.elements[op.target]
    IN  CASE e.tag # "text" \/ ~e.open \/ op.value.kind = "broken" -> {}
          [] e.tag = "text" /\ e.open /\ op.value.kind = "markup" ->
                {[drawing EXCEPT !.elements =
                    InsertAt([@ EXCEPT ![op.target].text = op.value], op.target + 1,
                             [tag |-> "rect", open |-> FALSE, text |-> NoText, attributes |-> <<>>])]}
          [] OTHER -> {[drawing EXCEPT !.elements[op.target].text = op.value]}

SvgSetAttribute(drawing, op) ==
    LET written == IF op.value.kind = "escaped" THEN [op.value EXCEPT !.text = "\\"] ELSE op.value
    IN  IF op.value.kind \in {"markup", "broken"} THEN {}
        ELSE {[drawing EXCEPT !.elements[op.target].attributes =
                 [a \in DOMAIN @ \cup {op.attribute} |-> IF a = op.attribute THEN written ELSE @[a]]]}

(* apply_svg_changes: the new drawing, or nothing where the code raises.    *)
ApplySvg(drawing, document) ==
    LET op == document.operations[1]
    IN  IF drawing.text # document.text \/ op.target \notin SvgTargets(drawing) THEN {}
        ELSE IF op.op = "set_text" THEN SvgSetText(drawing, op) ELSE SvgSetAttribute(drawing, op)

(* What analyze_svg finds: no viewBox, no title, the same text twice.       *)
SvgFindings(drawing) ==
    {[code |-> "viewbox", target |-> 0] : x \in {1} \ IF drawing.viewBox THEN {1} ELSE {}}
    \cup {[code |-> "title", target |-> 0] : x \in {1} \ IF drawing.title THEN {1} ELSE {}}
    \cup {[code |-> "duplicate", target |-> i] : i \in {j \in DOMAIN drawing.elements :
            /\ drawing.elements[j].tag = "text" /\ drawing.elements[j].text # NoText
            /\ \E k \in DOMAIN drawing.elements :
                 k > j /\ drawing.elements[k].tag = "text" /\ drawing.elements[k].text = drawing.elements[j].text
            /\ \A k \in 1..(j - 1) : drawing.elements[k].text # drawing.elements[j].text}}

-----------------------------------------------------------------------------
(* A SCAD file: assignments with their depth in blocks; a number can be     *)
(* edited at depth 0 when its name is assigned once there.                  *)

Assignments(file, name) == {i \in DOMAIN file.lines : file.lines[i].depth = 0 /\ file.lines[i].name = name}

(* Faulty variant: names assigned more than once too. *)
ScadNames(file) == {file.lines[i].name : i \in {j \in DOMAIN file.lines : file.lines[j].depth = 0}}

ScadTargets(file) ==
    {file.lines[i].name : i \in {j \in DOMAIN file.lines :
        file.lines[j].depth = 0 /\ Cardinality(Assignments(file, file.lines[j].name)) = 1}}

ApplyScad(file, document) ==
    LET op == document.operations[1]
    IN  IF file.text # document.text \/ op.target \notin ScadTargets(file) THEN {}
        ELSE {[file EXCEPT !.lines =
                [i \in DOMAIN @ |-> IF i \in Assignments(file, op.target)
                                    THEN [@[i] EXCEPT !.value = op.value] ELSE @[i]]]}

(* validate_scad: OpenSCAD, where it is there, may refuse the candidate.    *)
ScadVerdicts == {"validated", "structurally_valid", "refused"}
=============================================================================
