SPECIFICATION Spec
CONSTANTS
    Params <- MCParams
    Values <- MCValues
    Initial <- MCInitial
    Patches <- MCPatches
    Noting = {FALSE}
    Mcp = FALSE
    Outsiders = {"Other"}
    Crashes = FALSE
    MaxPlans = 2
    MaxChanges = 2
    MaxOutside = 1
    MaxClients = 0
CHECK_DEADLOCK FALSE
INVARIANTS
    OverwritesNothingNewer
