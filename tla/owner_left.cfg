SPECIFICATION MemberSpec
CONSTANTS
    Users = {o, a, b}
    Founder = o
    MemberRequests = {r1}
    TransferRequests = {}
INVARIANTS
    OwnerIsActive
