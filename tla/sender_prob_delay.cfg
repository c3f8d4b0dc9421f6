\* Probabilistic mode against the disclosure delay.
CONSTANTS
    ChainLen = 2
    DisclosureDelay = 2
    Probabilistic = TRUE
    Loop = loop
    Flushers = {f1}
    MaxSlot = 3
    MaxMsgs = 2
    QueueCap = 1
    MaxLag = 1
    SlotModulus = 16
SPECIFICATION Spec
INVARIANT NoEarlyReveal
