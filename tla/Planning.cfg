SPECIFICATION PlanningSpec
CONSTANTS
    Programs <- MCPrograms
    VerbGraph <- MCVerbGraph
    Objects <- MCObjects
    Parent <- MCParent
    Own <- MCOwn
    Shared <- MCShared
    Ancestry <- MCAncestry
    Associated <- MCAssociated
    Template <- MCTemplate
    Replies <- MCReplies
    Scores = {0, 1, 2, 3}
    LowScore = 1
    None = "none"
    Initial <- MCInitial
    Default <- MCDefault
    Joint = 2
    Owner <- MCOwner
    Asks <- MCAsks
    ByMcp = TRUE
    MaxPlans = 2
    MaxChanges = 3
CHECK_DEADLOCK FALSE
INVARIANTS
    LineageIsGrounded
    PlansStayInScope
    LocalProgramsCompile
    StepsAreExact
    UndoReturnsToBuilt
    BuiltDesignStands
