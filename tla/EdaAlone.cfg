SPECIFICATION Spec
CONSTANTS
    Files <- MCFiles
    Kicad <- MCProject
    Candidates <- MCAll
    Target <- MCTarget
    Legacy = {"c1", "c2"}
    Approved = {"c2"}
    Missing = {"board"}
    Procs = {p1}
    Operations = {"dry_run", "apply", "accept", "reject", "promote", "revert", "migrate"}
    Versioned = {FALSE}
    Edits = TRUE
    Crashes = FALSE
    MaxEvents = 4
CHECK_DEADLOCK FALSE
INVARIANTS
    CanonicalIsRecorded
    DescriptorFollows
