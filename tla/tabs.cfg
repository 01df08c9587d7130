SPECIFICATION MCSpec
CONSTANTS
    t1 = t1
    t2 = t2
    Tabs = {t1, t2}
    MaxRows = 2
    MaxOpens = 1
    MaxPopups = 1
    MaxEnds = 1
PROPERTIES
    EndedReachesLogin
    LogoutReachesEveryTab
    GoogleReachesEveryTab
CHECK_DEADLOCK FALSE
