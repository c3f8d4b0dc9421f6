\* The retries of two requests overlap, and each handler counts its own index up.
CONSTANTS
    Rcds = {r1}
    Accounts = {cm, owner}
    CM = cm
    Owner = owner
    Keys = {1, 2, 3}
    NoKey = 0
    NoAccount = noAccount
    MaxIndex = 3
    MaxBlock = 2
    MaxConns = 3
    MaxAttempts = 2
    ChainLen = 1
SPECIFICATION PSpec
INVARIANT WindowsDisjoint
CHECK_DEADLOCK FALSE
