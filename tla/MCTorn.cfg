\* A reply overwrites the one that is being given to the host.
SPECIFICATION Spec
CONSTANTS
    InEps <- None
    OutEps <- None
    U2S <- NoEps
    OutTable <- NoTable
    MaxEndpoints = 2
    NDescriptors = 1
    NIndex = 1
    MaxReports = 0
    Faults = {}
    ReadOutcomes = {}
    WriteOutcomes = {}
    ControlOutcomes = {"done"}
    QualifierRequests = {}
    ControlIn = {1, 2}
    InRequests = {1, 2}
    OutRequests = {3}
    BigRequests = {}
    ConfigRequests = {10}
    HaltRequests = {}
    ClearRequests = {}
    StatusRequests = {}
    OutSizes <- NoEps
    MaxOut = 0
    MaxBusResets = 0
    MaxSuspends = 0
    MaxAborts = 0
    MaxTimeouts = 1
INVARIANTS
    ReplyNotTorn
CHECK_DEADLOCK FALSE
