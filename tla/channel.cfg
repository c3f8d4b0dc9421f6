\* Three datagrams, two of which may be equal, a read that fails, and a channel that two
\* of them fill.
CONSTANTS
    Datagrams = {d1, d2}
    NoData = noData
    MaxArrivals = 3
    MaxErrors = 1
    BufferSize = 2
SPECIFICATION CFairSpec
INVARIANTS ChannelTypeOK EachDatagramOnce DropsOnlyBeyondBuffer
PROPERTIES NoCallAfterClose SocketDrained ClosedChannelDrained
CHECK_DEADLOCK FALSE
