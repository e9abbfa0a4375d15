SPECIFICATION HousingSpec
CONSTANTS
    Initial <- MCInitial
    Default <- MCDefault
    Joint = 2
    Owner <- MCOwner
    Asks <- MCAsks
    ByMcp = FALSE
    MaxPlans = 2
    MaxChanges = 2
CHECK_DEADLOCK FALSE
INVARIANT UneditedLidStands
