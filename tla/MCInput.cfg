\* Start-up and IN reports when any call on the PC may fail: two endpoints, a bus reset, two configurations, an endpoint halted and a halt cleared.
SPECIFICATION Spec
CONSTANTS
    InEps <- TwoIn
    OutEps <- None
    U2S <- SwapIn
    OutTable <- NoTable
    MaxEndpoints = 2
    NDescriptors = 2
    NIndex = 2
    MaxReports = 2
    Faults = {"start", "send", "submit", "unplug"}
    ReadOutcomes = {"done"}
    WriteOutcomes = {}
    ControlOutcomes = {}
    QualifierRequests = {}
    ControlIn = {}
    InRequests = {}
    OutRequests = {}
    BigRequests = {}
    ConfigRequests = {10, 11}
    HaltRequests = {20}
    ClearRequests = {21}
    StatusRequests = {}
    OutSizes <- NoEps
    MaxOut = 0
    MaxBusResets = 1
    MaxSuspends = 0
    MaxAborts = 0
    MaxTimeouts = 0
INVARIANTS
    TypeOK
    AcksOnlyWhileBooting
    StartedWithTables
    SlotFreeForPacket
    OneHome
    RoomForReport
    AckIsExpected
PROPERTIES
    ImplementsPipe
CHECK_DEADLOCK FALSE
