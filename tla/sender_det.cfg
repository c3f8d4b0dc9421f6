\* Deterministic mode: chains of two keys, so that the run crosses two refills.
CONSTANTS
    ChainLen = 2
    DisclosureDelay = 2
    Probabilistic = FALSE
    Loop = loop
    Flushers = {}
    MaxSlot = 5
    MaxMsgs = 2
    QueueCap = 1
    MaxLag = 1
    SlotModulus = 16
SPECIFICATION Spec
INVARIANTS HmacSlotMatchesKey DataNotAfterKey NoEarlyReveal
PROPERTIES HmacPrecedesReveal ImplementsSource
