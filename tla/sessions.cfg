SPECIFICATION SeriesSpec
CONSTANTS
    r1 = r1
    r2 = r2
    SessionRequests = {r1, r2}
    RefreshRequests = {r1}
    MaxSessions = 3
    MaxResetTokens = 2
    GoogleLinked = TRUE
INVARIANTS
    SerialSessionsEnd
    OneLivePerLogin
    ResetTokenSpentOnce
PROPERTIES
    LogoutOthersSparesCaller
    SerialSessionContract
CHECK_DEADLOCK FALSE
