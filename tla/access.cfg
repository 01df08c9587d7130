SPECIFICATION MCSpec
CONSTANTS
    o = o
    a = a
    w1 = w1
    w2 = w2
    l1 = l1
    r1 = r1
    r2 = r2
    Accounts = {o, a}
    Workspaces = {w1, w2}
    Links = {l1}
    Requests = {r1, r2}
    MaxArrivals = 2
    MaxTokens = 1
SYMMETRY Alike

    
PROPERTIES
    EntitledSometime
    
CHECK_DEADLOCK FALSE
