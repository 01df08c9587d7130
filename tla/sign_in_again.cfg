SPECIFICATION Spec
CONSTANTS
    t1 = t1
    t2 = t2
    Tabs = {t1}
    MaxRows = 1
    MaxOpens = 1
    MaxPopups = 0
    MaxEnds = 1
PROPERTIES
    SignInAgain
CHECK_DEADLOCK FALSE
