\* Liveness of the start-up and of IN reports, with a bus reset and endpoints that stall.
SPECIFICATION FairSpec
CONSTANTS
    InEps <- TwoIn
    OutEps <- None
    U2S <- SwapIn
    OutTable <- NoTable
    MaxEndpoints = 2
    NDescriptors = 1
    NIndex = 1
    MaxReports = 2
    Faults = {}
    ReadOutcomes = {"done", "stall"}
    WriteOutcomes = {}
    ControlOutcomes = {}
    QualifierRequests = {}
    ControlIn = {}
    InRequests = {}
    OutRequests = {}
    BigRequests = {}
    ConfigRequests = {10, 11}
    HaltRequests = {}
    ClearRequests = {}
    StatusRequests = {}
    OutSizes <- NoEps
    MaxOut = 0
    MaxBusResets = 1
    MaxSuspends = 0
    MaxAborts = 0
    MaxTimeouts = 0
PROPERTIES
    HandshakeCompletes
    EndpointPolledAgain
    ReportDelivered
CHECK_DEADLOCK FALSE
