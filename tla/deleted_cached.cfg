SPECIFICATION UrlSpec
CONSTANTS
    UrlRequests = {r1, r2}
    MaxVersions = 3
    MaxFailures = 0
    MaxCrashes = 0
    Queues = {"URL_CREATED", "URL_UPDATED", "URL_DELETED"}
    Bodies = {1, 2, 3}
INVARIANTS
    DeletedNotCached
CHECK_DEADLOCK FALSE
