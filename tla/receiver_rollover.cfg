\* A receiver that knows a device, when the device takes its next chain.
CONSTANTS
    Senders = {s1}
    Handlers = {h1, h2}
    ChainLen = 1
    DisclosureDelay = 1
    Modes = {"ModeDeterministic"}
    Retention <- RolloverRetention
    Copies <- RolloverCopies
    MaxSlot <- RolloverMaxSlot
    MaxMsgs = 2
    NoKey = noKey
    Data <- MCData
    Hash1 <- MCHash1
    Hash2 <- MCHash2
    Word = 256
    HeaderWord = 64
SPECIFICATION Spec
INVARIANT CurrentChainVerifies
SYMMETRY HandlerSymmetry
CHECK_DEADLOCK FALSE
