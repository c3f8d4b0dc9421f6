\* Probabilistic mode with two flushers that queue their disclosures in either order, and
\* a worker whose writes fail.  The run ends with the last slot, not with the simulation.
CONSTANTS
    ChainLen = 3
    DisclosureDelay = 2
    Probabilistic = TRUE
    Loop = loop
    Flushers = {f1, f2}
    MaxSlot = 3
    MaxMsgs = 2
    QueueCap = 2
    MaxLag = 0
    SlotModulus = 16
SPECIFICATION QueueSpec
PROPERTY EachQueuedRevealed
CHECK_DEADLOCK FALSE
