SPECIFICATION MergeSpec
CONSTANTS
    Users = {a, b, c, d}
    NoUser = NoUser
    MAX_DEPTH = 5
    SelfCalls = FALSE
    Forwarding = {TRUE}
INVARIANT NoCircularityCommitted
PROPERTY MergedAccountsShareLogin
