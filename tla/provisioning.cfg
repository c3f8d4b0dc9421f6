\* One device, three connections: a request and its retries, or one after another.
CONSTANTS
    Rcds = {r1}
    Accounts = {cm, owner}
    CM = cm
    Owner = owner
    Keys = {1, 2, 3}
    NoKey = 0
    NoAccount = noAccount
    MaxIndex = 3
    MaxBlock = 4
    MaxConns = 3
    MaxAttempts = 2
    ChainLen = 2
SPECIFICATION PFairSpec
INVARIANTS PTypeOK ActiveKeyStored SerialWindowsDisjoint SerialNextIsActivable
           IndexAgrees RegistrationAgrees
PROPERTIES ActiveChainsFrozen DeliveredIsCurrent HandlersEnd
CHECK_DEADLOCK FALSE
