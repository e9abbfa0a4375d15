SPECIFICATION Spec
CONSTANTS
    Params <- MCParams
    Values <- MCValues
    Initial <- MCInitial
    Patches <- MCPatches
    Noting = {FALSE}
    Mcp = TRUE
    Outsiders = {"Other", "MembershipRevoked"}
    Crashes = TRUE
    MaxPlans = 2
    MaxChanges = 3
    MaxOutside = 1
    MaxClients = 0
CHECK_DEADLOCK FALSE
INVARIANTS
    OneOutcome
    CompletedIsNewest
    ValuesStand
