SPECIFICATION MCSpec
CONSTANTS
    o = o
    a = a
    r1 = r1
    r2 = r2
    Users = {o, a}
    Founder = o
    MemberRequests = {r1, r2}
    TransferRequests = {r1, r2}
    InvitationRequests = {r1, r2}
    InvitedRoles = {"OWNER", "MEMBER"}
    MaxInvitations = 3
    MaxRestarts = 1
    MaxFailures = 1
SYMMETRY Alike
INVARIANTS
    DatesHonest
    PendingBounded
PROPERTIES
    
    FinalUnlessInFlight
    SerialContract
CHECK_DEADLOCK FALSE
