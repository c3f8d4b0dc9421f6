\* Either mode.  Deterministic: two copies of each datagram, and a sender that changes
\* chains.  Probabilistic: one copy of each, fewer slots.
CONSTANTS
    Senders = {s1}
    Handlers = {h1, h2}
    ChainLen = 2
    DisclosureDelay = 1
    Modes = {"ModeDeterministic", "ModeProbabilistic"}
    Retention <- MCRetention
    Copies <- MCCopies
    MaxSlot <- MCMaxSlot
    MaxMsgs = 2
    NoKey = noKey
    Data <- MCData
    Hash1 <- MCHash1
    Hash2 <- MCHash2
    Word = 256
    HeaderWord = 64
SPECIFICATION Spec
INVARIANTS TypeOK OneAcceptPerHmac RejectedOnlyOvertaken AnchoredInContract
           KeptUntilOpened
PROPERTIES BatchMembersVerified
SYMMETRY HandlerSymmetry
CHECK_DEADLOCK FALSE
