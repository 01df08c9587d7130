SPECIFICATION StorageSpec
CONSTANTS
    AccountRequests = {q1, q2}
    MaxAccounts = 2
    MaxTokens = 3
    MaxLinks = 2
    MaxWorkspaces = 2
    LogoRequests = {r1, r2}
    Extensions = {png, jpg}
    Addresses = {a1, a2}
    MaxSends = 3
    Tabs = {t1, t2}
    MaxAvatars = 3
SYMMETRY StorageSymmetry
INVARIANTS
    LogoAccounted
    PanelIsTrue
    AvatarAccounted
    TokenVerifiesOnce
    OneDefaultWorkspace
    SignedInHasWorkspace
PROPERTIES
    ReadsOwnUpload
CHECK_DEADLOCK FALSE
