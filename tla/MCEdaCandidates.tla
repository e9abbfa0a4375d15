-------------------------- MODULE MCEdaCandidates --------------------------
(***************************************************************************)
(* TLC instances of EdaCandidates: a KiCad project of a schematic and a    *)
(* board, and a drawing.                                                   *)
(***************************************************************************)
EXTENDS EdaCandidates, TLC

MCProject == {"schematic", "board"}

\* One candidate for each file of the project.
MCBoth       == {"c1", "c2"}
MCBothTarget == "c1" :> "schematic" @@ "c2" :> "board"

\* Two candidates for the schematic, one that starts the board, and one for
\* the drawing.
MCFiles  == {"schematic", "board", "drawing"}
MCAll    == {"c1", "c2", "c3", "c4"}
MCTarget == "c1" :> "schematic" @@ "c2" :> "board" @@ "c3" :> "schematic" @@ "c4" :> "drawing"

ProcSymmetry == Permutations(Procs)
=============================================================================
