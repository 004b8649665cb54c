\* Sessions one after the other, some of them killed, some that fail to start.
SPECIFICATION SessionsFairSpec
CONSTANTS
    InEps <- OneIn
    OutEps <- None
    U2S <- SameIn
    OutTable <- NoTable
    MaxEndpoints = 2
    NDescriptors = 1
    NIndex = 1
    MaxReports = 2
    Faults = {"start"}
    ReadOutcomes = {"done"}
    WriteOutcomes = {}
    ControlOutcomes = {"done"}
    QualifierRequests = {}
    ControlIn = {1}
    InRequests = {1}
    OutRequests = {}
    BigRequests = {}
    ConfigRequests = {10}
    HaltRequests = {}
    ClearRequests = {}
    StatusRequests = {}
    OutSizes <- NoEps
    MaxOut = 0
    MaxBusResets = 0
    MaxSuspends = 0
    MaxAborts = 0
    MaxTimeouts = 1
    MaxSessions = 2
    Misreadings <- Garbage
INVARIANTS
    FreshTables
    SessionsApart
    AckExpectedUnlessFound
PROPERTIES
    RequestsAnswered
    SessionEnds
    DeviceRemovedBetween
    EverySessionStarts
CHECK_DEADLOCK FALSE
