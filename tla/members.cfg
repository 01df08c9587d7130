SPECIFICATION MCSpec
CONSTANTS
    o = o
    a = a
    b = b
    r1 = r1
    r2 = r2
    t1 = t1
    Users = {o, a, b}
    Founder = o
    MemberRequests = {r1, t1}
    TransferRequests = {t1}
    Viewers = {o, a}
    MaxSockets = 3
    MaxMounts = 2
    MaxInterruptions = 2
    MaxAccessTokens = 3
INVARIANTS
    OneSocket
    OwnerHasRow
    
    DashboardKeepsOwner
    
PROPERTIES
    SocketComesBack
    ScheduledInvitationCloses
CHECK_DEADLOCK FALSE
