SPECIFICATION Spec
CONSTANTS
    Files <- MCProject
    Kicad <- MCProject
    Candidates <- MCBoth
    Target <- MCBothTarget
    Legacy = {"c1", "c2"}
    Approved = {}
    Missing = {}
    Procs = {p1, p2}
    Operations = {"accept", "delete", "promote", "revert"}
    Versioned = {TRUE, FALSE}
    Edits = FALSE
    Crashes = TRUE
    MaxEvents = 3
CHECK_DEADLOCK FALSE
SYMMETRY ProcSymmetry
INVARIANTS
    PromotedWereAccepted
    

    
