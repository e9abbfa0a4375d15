SPECIFICATION Spec
CONSTANTS
    alice = alice
    bob = bob
    NoRow = NoRow
    Blind = Blind
    Users <- MCUsers
    Procs = {p1, p2}
    CommandTypes = {"membership.grant", "membership.revoke", "change.apply"}
    OfferedRoles = {"reader", "admin"}
    EventLoop = {}
    SeedMembers <- OneManager
    SeedActor = alice
    ForceSeed = FALSE
    MaxVersion = 3
    MaxEpoch = 0
CHECK_DEADLOCK FALSE
INVARIANTS
    TypeOK
    EveryEventJustified
    RevokerRemainsManager
PROPERTIES
    ImplementsHistory
