SPECIFICATION Spec
CONSTANTS
    None = None
    SlideLimit = 2
    Netlists <- MCNetlists
    Boards <- MCBoards
    Reports <- MCReports
    Simulations <- MCSimulations
    RailKey <- MCRailKey
    Family <- MCFamily
    SignalNets <- MCSignalNets
    Routings <- MCRoutings
    Answers <- MCAnswers
CHECK_DEADLOCK FALSE
INVARIANTS
    NewCopperIsClear
    SlideKeepsShape
    RepairNeverOverlaps
    
    PlansStayInDocument
    LocalPlansApply
    SignalsStayInOrder
    PatchesAreLocal
