\* A reply that does not come stops the main loop.
SPECIFICATION FairSpec
CONSTANTS
    InEps <- None
    OutEps <- None
    U2S <- NoEps
    OutTable <- NoTable
    MaxEndpoints = 2
    NDescriptors = 1
    NIndex = 1
    MaxReports = 0
    Faults = {}
    ReadOutcomes = {}
    WriteOutcomes = {}
    ControlOutcomes = {"error"}
    QualifierRequests = {}
    ControlIn = {1}
    InRequests = {1}
    OutRequests = {}
    BigRequests = {}
    ConfigRequests = {10}
    HaltRequests = {}
    ClearRequests = {}
    StatusRequests = {}
    OutSizes <- NoEps
    MaxOut = 0
    MaxBusResets = 0
    MaxSuspends = 0
    MaxAborts = 0
    MaxTimeouts = 1
PROPERTIES
    ReplyWaitEnds
CHECK_DEADLOCK FALSE
