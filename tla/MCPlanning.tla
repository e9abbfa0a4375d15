----------------------------- MODULE MCPlanning -----------------------------
(* The two ways to a change plan, side by side: a behaviour compiles an     *)
(* evolution program or changes a housing.                                 *)
EXTENDS MCEvolutionEngine, MCHousingChanges

NoProgram ==
    /\ program = None /\ phase = "none" /\ generation = 0
    /\ goals = <<>> /\ resources = <<>> /\ bridges = <<>>
    /\ candidates = <<>> /\ current = <<>> /\ plans = <<>>

PlanningInit == HousingInit /\ (Init \/ NoProgram)

PlanningNext ==
    \/ phase # "none" /\ Next /\ UNCHANGED housing
    \/ phase = "none" /\ HousingNext /\ UNCHANGED vars

PlanningSpec == PlanningInit /\ [][PlanningNext]_<<vars, housing>>
=============================================================================
