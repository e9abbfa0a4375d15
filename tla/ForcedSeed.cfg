SPECIFICATION Spec
CONSTANTS
    alice = alice
    bob = bob
    NoRow = NoRow
    Blind = Blind
    Users <- MCUsers
    Procs = {p1, p2}
    CommandTypes = {"change.apply", "membership.revoke"}
    OfferedRoles = {"reader"}
    EventLoop = {p1}
    SeedMembers <- TwoManagers
    SeedActor = alice
    ForceSeed = TRUE
    MaxVersion = 4
    MaxEpoch = 1
CHECK_DEADLOCK FALSE
INVARIANTS
    ConflictMeansOvertaken
    SeedIsAtomic
