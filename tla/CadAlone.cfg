SPECIFICATION FairSpec
CONSTANTS
    Params <- MCParams
    Values <- MCValues
    Initial <- MCInitial
    Patches <- MCPatches
    Noting = {TRUE, FALSE}
    Mcp = FALSE
    Outsiders = {}
    Crashes = FALSE
    MaxPlans = 2
    MaxChanges = 2
    MaxOutside = 0
    MaxClients = 1
CHECK_DEADLOCK FALSE
INVARIANTS
    OverwritesNothingNewer
PROPERTIES
    RequestsAnswered
