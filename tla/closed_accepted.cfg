SPECIFICATION MCSpec
CHECK_DEADLOCK FALSE
CONSTANTS
    o = o
    a = a
    r1 = r1
    r2 = r2
    Users = {o, a}
    Founder = o
    MemberRequests = {}
    TransferRequests = {}
    InvitationRequests = {r1, r2}
    InvitedRoles = {"MEMBER"}
    MaxInvitations = 1
    MaxRestarts = 0
    MaxFailures = 0
PROPERTIES
    ClosedNotAccepted
