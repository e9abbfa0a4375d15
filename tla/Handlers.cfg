SPECIFICATION Spec
CONSTANTS
    None = None
    Project = "demo"
    Objects = {"part"}
    Templates <- MCTemplates
    Defaults <- MCDefaults
    Shortlist <- MCShortlist
    Loop = Loop
    Cli = Cli
    Threads = {t1, t2}
    Programs <- MCPrograms
    Lines <- MCLines
    Kinds <- MCKinds
    Required <- MCRequired
    Unknown = "unknown"
    Keys = {"k"}
    Messages <- MCMessages
    Evidence <- MCEvidence
    Scenarios <- MCScenarios
    MaxLines = 4
    MaxCopies = 2
SYMMETRY Symmetry
CHECK_DEADLOCK FALSE
INVARIANTS
    HandlersTypeOK
    
    ExecutionsAreWhole
    
    UpdatesRecordedOnce
    CommandsTakeEffectOnce
