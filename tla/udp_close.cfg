\* Close against the receive loop.
CONSTANTS
    Datagrams = {d1}
    NoData = noData
    MaxArrivals = 1
    MaxErrors = 0
SPECIFICATION FairSpec
PROPERTY CloseReturns
CHECK_DEADLOCK FALSE
