\* A chain for two messages, a queue for one, a write that fails, a clock that is set
\* back, and two copies of each datagram.
CONSTANTS
    ChainLen = 2
    DisclosureDelay = 1
    QueueCap = 1
    Handlers = {h1, h2}
    Copies = 2
    MaxSlot = 2
    MaxFailures = 1
    MaxBack = 1
SPECIFICATION FairSpec
INVARIANTS ChatTypeOK DisclosedOnce DisclosedAfterDelay ForgottenOnceVerified
PROPERTY EachQueuedDisclosed
CHECK_DEADLOCK FALSE
