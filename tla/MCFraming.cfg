\* Data of 1 byte fills a packet, of 2 fits the length byte and not the buffer,
\* of 5 wraps the length byte to 0.
SPECIFICATION FairSpec
CONSTANTS
    ByteValues = 9
    MaxValue = 5
    SetupSize = 4
    TableSize <- Tables
    ReplySizes = {0, 5}
    OutSizes = {2}
    DataSizes = {1, 2, 5}
    Outcomes = {"whole", "short", "fails"}
    MaxSpoken = 1
    MaxSaid = 1
CHECK_DEADLOCK FALSE
INVARIANTS
    TypeOK
    TablesWhole
    ReadWithinPacket
    NeverCritical
PROPERTIES
    UpChannel
    DownChannel
    AllHeard
    InterruptReturns
