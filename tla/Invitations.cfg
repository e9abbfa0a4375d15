SPECIFICATION Spec
CONSTANTS
    creator = creator
    admin = admin
    guest = guest
    i1 = i1
    Users <- MCUsers
    Invitations <- MCInvitations
    Requested <- MCRequested
    RequestedRole <- MCRequestedRole
    InitialMembers <- MCMembers
    Procs = {p1, p2}
    Crashes = TRUE
    MaxVersion = 4
    MaxLinks = 2
CHECK_DEADLOCK FALSE
SYMMETRY ProcSymmetry
INVARIANTS
    TypeOK
    AccountsFollowGrants
PROPERTIES
    GrantsAuthorised
    RejectionIsFinal
