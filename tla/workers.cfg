SPECIFICATION MCSpec
CONSTANTS
    r1 = r1
    r2 = r2
    UrlRequests = {r1, r2}
    MaxVersions = 3
    MaxFailures = 1
    MaxCrashes = 1
    Queues = {"URL_CREATED", "URL_UPDATED", "URL_DELETED"}
    Bodies = {1, 2, 3}
    u1 = u1
    u2 = u2
    Users = {u1, u2}
    Offered <- OfferedEvents
    MaxEvents = 1
    MaxFailedCommands = 1
    MaxWorkerRestarts = 1
    MaxDeleted = 1
    MaxTries = 3
INVARIANTS
    
    ChangesAccounted
    RepeatedOnlyOnFailure
    AckedIsStored
PROPERTIES
    EveryEventApplied
    EveryMessageHandled
CHECK_DEADLOCK FALSE
