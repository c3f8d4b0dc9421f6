\* Probabilistic mode with two flushers, so that a flush can overtake the one before it.
CONSTANTS
    ChainLen = 2
    DisclosureDelay = 2
    Probabilistic = TRUE
    Loop = loop
    Flushers = {f1, f2}
    MaxSlot = 3
    MaxMsgs = 2
    QueueCap = 1
    MaxLag = 1
    SlotModulus = 16
SPECIFICATION Spec
INVARIANTS KeyTracksSlot NoMessageInTwoBatches NoneVanishes DelayFromLabel
CONSTRAINT Running
SYMMETRY FlusherSymmetry
