\* Probabilistic mode to the end of the simulation, with the scheduling the code can count on:
\* a flusher and the loop want the lock at once, and every slot needs a chain of its own.
CONSTANTS
    ChainLen = 1
    DisclosureDelay = 2
    Probabilistic = TRUE
    Loop = loop
    Flushers = {f1}
    MaxSlot = 2
    MaxMsgs = 2
    QueueCap = 1
    MaxLag = 0
    SlotModulus = 16
SPECIFICATION FairSpec
INVARIANTS TypeOK BatchKeyIsLater
PROPERTIES EachBufferedFlushed StopReturns
